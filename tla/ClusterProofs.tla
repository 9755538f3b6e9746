---------------------------- MODULE ClusterProofs ----------------------------
(***************************************************************************)
(* The types of the message level hold for any number of processes, names  *)
(* and requests.  TypeOK is not inductive: that a registration comes from  *)
(* a repository, and that a pending query has a node to look up next, a    *)
(* depth left no greater than the one asked for and a repository to ask,   *)
(* is what Typed adds to it.  And while the main server does not restart,  *)
(* every number fits the client and the kind of the work it is for.        *)
(***************************************************************************)
EXTENDS ClusterProperties, SequenceTheorems, FiniteSetTheorems, TLAPS

\* A name is routed to a registered repository, whatever its first character.
LEMMA RouteType ==
  ASSUME NEW table \in Seq(Repos), table # <<>>, NEW n \in Names
  PROVE  Route(table, n) \in Repos
<1>1. Len(table) \in Nat \ {0}
  OBVIOUS
<1>2. Hash[n] \in Nat
  BY ClusterAssumption
<1>3. (Hash[n] % Len(table)) + 1 \in 1..Len(table)
  BY <1>1, <1>2
<1> QED
  BY <1>3 DEF Route

\* A request is of the kind its operation says.
LEMMA RequestFields ==
  ASSUME NEW b \in Request
  PROVE  /\ b.op \in {"C", "R", "U", "D"}
         /\ b.name \in Names
         /\ b.op = "C" => b \in CreateRequest
         /\ b.op = "R" => b \in QueryRequest
         /\ b.op = "U" => b \in UpdateRequest
         /\ b.op = "D" => b \in DeleteRequest
BY DEF Request, CreateRequest, QueryRequest, UpdateRequest, DeleteRequest

\* A message has the fields its type says.
LEMMA MessageFields ==
  ASSUME NEW m \in Message
  PROVE  /\ m.to \in Procs
         /\ m.type \in {"C", "R", "U", "D"} => m \in CommandMessage
         /\ m.type = "I" => m \in InfoMessage
         /\ m.type = "M" => m \in TextMessage
         /\ m.type \in {"C", "R", "U", "D", "I", "M", "E"}
BY DEF Message, CommandMessage, InfoMessage, TextMessage, EnrolMessage

\* A command carries a request of the same operation.
LEMMA CommandFields ==
  ASSUME NEW m \in Message, m.type \in {"C", "R", "U", "D"}
  PROVE  /\ m.id \in Nat
         /\ m.cli \in Clients
         /\ m.body \in Request
         /\ m.body.op = m.type
         /\ m.table \in Seq(Repos)
BY MessageFields DEF CommandMessage

\* parseNewNode, parseNewQuery, parseNewUpdate and parseNewDelete make messages.
LEMMA CommandType ==
  ASSUME NEW host \in Procs, NEW b \in Request, NEW id \in Nat,
         NEW table \in Seq(Repos), NEW cli \in Clients
  PROVE  /\ b.op = "C" => ParseNewNode(host, b, id, table, cli) \in Message
         /\ b.op = "R" => ParseNewQuery(host, b, id, cli) \in Message
         /\ b.op = "U" => ParseNewUpdate(host, b, id, cli) \in Message
         /\ b.op = "D" => ParseNewDelete(host, b, id, table, cli) \in Message
BY RequestFields DEF ParseNewNode, ParseNewQuery, ParseNewUpdate, ParseNewDelete, Message, CommandMessage

\* parseNewInfoResponse makes a message.
LEMMA InfoType ==
  ASSUME NEW name \in Names, NEW host \in Procs, NEW rels \in SUBSET Names,
         NEW id \in Nat, NEW valid \in BOOLEAN, NEW cli \in Clients
  PROVE  ParseNewInfoResponse(name, host, rels, id, valid, cli) \in Message
BY DEF ParseNewInfoResponse, Message, InfoMessage

\* parseNewMessageResponse makes a message.
LEMMA TextType ==
  ASSUME NEW host \in Procs, NEW text \in Text, NEW id \in Nat,
         NEW cli \in Clients
  PROVE  ParseNewMessageResponse(host, text, id, cli) \in Message
BY DEF ParseNewMessageResponse, Message, TextMessage

\* A fixed wording is a text.
LEMMA SayType == ASSUME NEW kind \in Kinds PROVE Say(kind) \in Text
BY DEF Say, Text

-----------------------------------------------------------------------------
WellFormed(q) ==
  /\ q \in QueryState(Names)
  /\ q.queue # <<>>
  /\ \A k \in DOMAIN q.queue : q.queue[k].left <= q.depth

\* The state of an accepted query is well formed.
LEMMA NewStateWellFormed ==
  ASSUME NEW name \in Names, NEW depth \in Nat, NEW leaf \in BOOLEAN,
         NEW cond \in BOOLEAN
  PROVE  WellFormed(NewState(name, depth, leaf, cond))
BY DEF WellFormed, NewState, QueryState, Entry, Listed

\* Fresh nodes come in some order of names, and only above the depth asked for.
LEMMA OrderType ==
  ASSUME NEW q \in QueryState(Names), q.queue # <<>>,
         NEW related \in SUBSET Names,
         NEW order \in SetToSeqs(Fresh(q, related))
  PROVE  /\ order \in Seq(Names)
         /\ order # <<>> => Head(q.queue).left > 0
<1> DEFINE S == Fresh(q, related)
<1>1. S \in SUBSET Names
  BY DEF Fresh
<1>2. IsFiniteSet(S) /\ Cardinality(S) \in Nat
  BY <1>1, ClusterAssumption, FS_Subset, FS_CardinalityType
<1>3. order \in [1..Cardinality(S) -> S]
  BY DEF SetToSeqs
<1>4. order \in Seq(Names)
  BY <1>1, <1>2, <1>3
<1>5. CASE Head(q.queue).left > 0
  BY <1>4, <1>5
<1>6. CASE ~(Head(q.queue).left > 0)
  <2>1. S = {}
    BY <1>6 DEF Fresh
  <2>2. Cardinality(S) = 0
    BY <2>1, FS_EmptySet
  <2>3. Len(order) = 0
    BY <1>3, <2>2
  <2> QED
    BY <1>4, <2>3
<1> QED
  BY <1>5, <1>6

\* A report leaves a query state with depths between 0 and the one asked for.
LEMMA AbsorbType ==
  ASSUME NEW q, WellFormed(q),
         NEW order \in Seq(Names), order # <<>> => Head(q.queue).left > 0,
         NEW valid \in BOOLEAN
  PROVE  /\ Absorb(q, valid, order) \in QueryState(Names)
         /\ Absorb(q, valid, order).depth = q.depth
         /\ \A k \in DOMAIN Absorb(q, valid, order).queue :
              Absorb(q, valid, order).queue[k].left <= q.depth
<1> DEFINE top == Head(q.queue)
           added == [i \in DOMAIN order |->
                       [name |-> order[i], left |-> top.left - 1]]
           next == Absorb(q, valid, order)
<1>1. /\ q.queue \in Seq(Entry(Names))
      /\ q.response \in Seq(Listed(Names))
      /\ q.depth \in Nat
      /\ q.visited \in SUBSET Names
  BY DEF WellFormed, QueryState
<1>2. top \in Entry(Names) /\ top.left <= q.depth
  BY <1>1 DEF WellFormed
<1>3. top.left \in Nat /\ top.name \in Names /\ q.depth - top.left \in Nat
  BY <1>1, <1>2 DEF Entry
<1>4. Len(order) \in Nat /\ DOMAIN order = 1..Len(order)
  OBVIOUS
<1>5. \A i \in 1..Len(order) : added[i] \in Entry(Names)
  <2> SUFFICES ASSUME NEW i \in 1..Len(order) PROVE added[i] \in Entry(Names)
    OBVIOUS
  <2>1. order[i] \in Names /\ top.left - 1 \in Nat
    BY <1>3, <1>4
  <2> QED
    BY <2>1 DEF Entry
<1>6. added \in Seq(Entry(Names)) /\ Len(added) = Len(order)
  BY <1>4, <1>5
<1>7. Tail(q.queue) \in Seq(Entry(Names))
  BY <1>1 DEF WellFormed
<1>8. Tail(q.queue) \o added \in Seq(Entry(Names))
  BY <1>6, <1>7
<1>9. next.queue = Tail(q.queue) \o added /\ next.depth = q.depth
  BY DEF Absorb, WellFormed, QueryState
<1>10. [name |-> top.name, depth |-> q.depth - top.left] \in Listed(Names)
  BY <1>3 DEF Listed
<1>11. next.response \in Seq(Listed(Names))
  BY <1>1, <1>10 DEF Absorb, WellFormed, QueryState
<1>12. ToSet(order) \in SUBSET Names
  BY DEF ToSet
<1>13. next.visited \in SUBSET Names
  BY <1>1, <1>12 DEF Absorb, WellFormed, QueryState
<1>14. next \in QueryState(Names)
  BY <1>8, <1>9, <1>11, <1>13 DEF Absorb, WellFormed, QueryState
<1>15. \A k \in DOMAIN next.queue : next.queue[k].left <= q.depth
  <2> SUFFICES ASSUME NEW k \in DOMAIN (Tail(q.queue) \o added)
               PROVE  (Tail(q.queue) \o added)[k].left <= q.depth
    BY <1>9
  <2>1. Len(Tail(q.queue)) = Len(q.queue) - 1 /\ Len(q.queue) \in Nat \ {0}
    BY <1>1 DEF WellFormed
  <2>2. CASE k <= Len(Tail(q.queue))
    <3>1. (Tail(q.queue) \o added)[k] = q.queue[k + 1]
      BY <1>1, <1>6, <1>7, <2>1, <2>2 DEF WellFormed
    <3>2. k + 1 \in DOMAIN q.queue
      BY <1>1, <1>6, <1>7, <2>1, <2>2
    <3> QED
      BY <3>1, <3>2 DEF WellFormed
  <2>3. CASE k > Len(Tail(q.queue))
    <3>1. k - Len(Tail(q.queue)) \in 1..Len(order)
      BY <1>6, <1>7, <2>1, <2>3
    <3>2. (Tail(q.queue) \o added)[k] = added[k - Len(Tail(q.queue))]
      BY <1>6, <1>7, <2>1, <2>3
    <3>3. (Tail(q.queue) \o added)[k].left = top.left - 1
      BY <1>4, <3>1, <3>2
    <3>4. top.left - 1 <= q.depth
      <4>1. top.left \in Nat /\ q.depth \in Nat /\ top.left <= q.depth
        BY <1>1, <1>2, <1>3 DEF WellFormed, QueryState
      <4> QED
        BY <4>1
    <3> QED
      BY <3>3, <3>4
  <2> QED
    BY <2>1, <2>2, <2>3, <1>6, <1>7
<1> QED
  BY <1>9, <1>14, <1>15

-----------------------------------------------------------------------------
Quiet(reply) == reply = Nothing \/ (reply \in Message /\ reply.type # "E")

OnlyReposEnrol ==
  /\ \A p \in Procs :
       sending[p] # Nothing /\ sending[p].type = "E" => p \in Repos
  /\ \A p \in Procs :
       taken[p] # Nothing /\ Msg(p).type = "E" => From(p) \in Repos

QueriesGoOn ==
  \A i \in DOMAIN pending :
    pending[i].state # Nothing =>
      repositories # <<>> /\ WellFormed(pending[i].state)

Typed == TypeOK /\ OnlyReposEnrol /\ QueriesGoOn

\* What RecvFrom returns is a message from a process that runs a handler.
LEMMA IncomingMessage ==
  ASSUME TypeOK, NEW d \in Procs, NEW t, Taken(d, t)
  PROVE  /\ Msg(d) \in Message
         /\ Msg(d).type = t
         /\ From(d) \in Procs
         /\ taken[d] # Nothing
         /\ d \in up
BY DEF Taken, TypeOK, SocketOK, Msg, From

\* The end of a handler leaves the sockets well typed.
LEMMA NoLongerReadsTyped ==
  ASSUME Typed, NEW p \in Procs, NoLongerReads(p)
  PROVE  /\ taken' \in [Procs -> [from : Procs, msg : Message] \cup {Nothing}]
         /\ lingering' \subseteq Procs
         /\ ahead' \in [Procs -> SUBSET Procs]
         /\ \A x \in Procs : taken'[x] # Nothing => taken'[x] = taken[x]
BY DEF Typed, TypeOK, SocketOK, NoLongerReads, StopsLingering

\* A handler that ends by sending a reply leaves the sockets well typed.
LEMMA ReplyTyped ==
  ASSUME Typed, NEW d \in Procs, NEW reply, Quiet(reply), Reply(d, reply)
  PROVE  SocketOK' /\ OnlyReposEnrol'
<1>1. /\ NoLongerReads(d)
      /\ sending' = [sending EXCEPT ![d] = reply]
  BY DEF Reply
<1>2. SocketOK'
  BY <1>1, NoLongerReadsTyped DEF Quiet, Typed, TypeOK, SocketOK
<1>3. OnlyReposEnrol'
  BY <1>1, NoLongerReadsTyped
     DEF Quiet, Typed, TypeOK, SocketOK, OnlyReposEnrol, Msg, From
<1> QED
  BY <1>2, <1>3

\* A process that begins to send leaves the sockets well typed.
LEMMA SendTyped ==
  ASSUME Typed, NEW p \in Procs, NEW m,
         m = Nothing \/ (m \in Message /\ (m.type = "E" => p \in Repos)),
         sending' = [sending EXCEPT ![p] = m], UNCHANGED socketVars
  PROVE  SocketOK' /\ OnlyReposEnrol'
BY DEF Typed, TypeOK, SocketOK, OnlyReposEnrol, socketVars, Msg, From

\* Every cluster starts well typed.
THEOREM TypedInit == Init => Typed
<1> SUFFICES ASSUME Init PROVE Typed
  OBVIOUS
<1>1. OnlyReposEnrol /\ QueriesGoOn
  BY DEF Init, OnlyReposEnrol, QueriesGoOn, NoPending
<1>2. MasterOK
  <2>1. DOMAIN pending = {}
    BY DEF Init, NoPending
  <2>2. /\ repositories \in Seq(Repos)
        /\ current_request \in Nat \ {0}
    BY ClusterAssumption DEF Init
  <2>3. cud_blocking \in BOOLEAN
    BY Zenon DEF Init
  <2> QED
    BY <2>1, <2>2, <2>3 DEF MasterOK
<1>3. StoreOK /\ ClientOK
  BY ClusterAssumption DEF Init, StoreOK, ClientOK, Tables
<1>4. ToSet(Attached) \in SUBSET Repos
  BY ClusterAssumption DEF ToSet
<1> QED
  BY <1>1, <1>2, <1>3, <1>4 DEF Init, Typed, TypeOK, SocketOK, Procs

\* Variables a step leaves alone stay well typed.
LEMMA Frames ==
  ASSUME Typed
  PROVE  /\ UNCHANGED masterVars => MasterOK' /\ QueriesGoOn'
         /\ UNCHANGED storeVars => StoreOK'
         /\ UNCHANGED clientVars => ClientOK'
         /\ UNCHANGED faultVars => crashes' \in Nat /\ failures' \in Nat
<1>1. UNCHANGED masterVars => MasterOK' /\ QueriesGoOn'
  BY Zenon DEF Typed, TypeOK, masterVars, MasterOK, QueriesGoOn
<1>2. UNCHANGED storeVars => StoreOK'
  BY DEF Typed, TypeOK, storeVars, StoreOK
<1>3. UNCHANGED clientVars => ClientOK'
  BY DEF Typed, TypeOK, clientVars, ClientOK
<1>4. UNCHANGED faultVars => crashes' \in Nat /\ failures' \in Nat
  BY DEF Typed, TypeOK, faultVars
<1> QED
  BY <1>1, <1>2, <1>3, <1>4

\* Receive keeps Typed.
LEMMA ReceiveTyped ==
  ASSUME Typed, NEW s \in Procs, NEW d \in Procs, Receive(s, d)
  PROVE  Typed'
<1>1. /\ sending[s] \in Message
      /\ sending' = [sending EXCEPT ![s] = Nothing]
      /\ taken' = [taken EXCEPT ![d] = [from |-> s, msg |-> sending[s]]]
      /\ sending[s].type = "E" => s \in Repos
  BY DEF Receive, Typed, TypeOK, SocketOK, OnlyReposEnrol
<1>2. [from |-> s, msg |-> sending[s]] \in [from : Procs, msg : Message]
  BY <1>1
<1>3. lingering' \subseteq Procs /\ ahead' \in [Procs -> SUBSET Procs]
  BY DEF Receive, Typed, TypeOK, SocketOK
<1>4. SocketOK'
  BY <1>1, <1>2, <1>3 DEF Typed, TypeOK, SocketOK
<1>5. OnlyReposEnrol'
  BY <1>1, <1>2 DEF Typed, TypeOK, SocketOK, OnlyReposEnrol, Msg, From
<1>6. up' \subseteq Procs /\ job' \in [Repos -> Job \cup {Nothing}]
  BY DEF Typed, TypeOK, Receive
<1> QED
  BY <1>4, <1>5, <1>6, Frames DEF Typed, TypeOK, Receive

\* Overrun keeps Typed.
LEMMA OverrunTyped ==
  ASSUME Typed, NEW s \in Procs, NEW d \in Procs, Overrun(s, d)
  PROVE  Typed'
<1>1. lingering' \subseteq Procs /\ ahead' \in [Procs -> SUBSET Procs]
  <2>1. /\ lingering \subseteq Procs
        /\ \A p \in Procs : ahead[p] \subseteq Procs
    BY DEF Typed, TypeOK, SocketOK
  <2>2. /\ lingering' \subseteq lingering
        /\ \E other \in SUBSET Procs :
             ahead' = [p \in Procs |-> IF p = d THEN other ELSE ahead[p] \ {d}]
    BY <2>1 DEF Overrun, StopsLingering
  <2> QED
    BY <2>1, <2>2
<1>2. SocketOK' /\ OnlyReposEnrol'
  BY <1>1 DEF Overrun, Typed, TypeOK, SocketOK, OnlyReposEnrol, Msg, From
<1>3. up' \subseteq Procs /\ job' \in [Repos -> Job \cup {Nothing}]
  BY DEF Typed, TypeOK, Overrun
<1> QED
  BY <1>2, <1>3, Frames DEF Typed, TypeOK, Overrun

\* FalseAcks keeps Typed.
LEMMA FalseAcksTyped ==
  ASSUME Typed, NEW S \in SUBSET up, FalseAcks(S)
  PROVE  Typed'
<1>1. SocketOK' /\ OnlyReposEnrol'
  BY DEF Typed, TypeOK, SocketOK, OnlyReposEnrol, FalseAcks, socketVars, Msg, From
<1>2. up' \subseteq Procs /\ job' \in [Repos -> Job \cup {Nothing}]
  BY DEF Typed, TypeOK, FalseAcks
<1> QED
  BY <1>1, <1>2, Frames DEF Typed, TypeOK, FalseAcks

\* Crash keeps Typed.
LEMMA CrashTyped ==
  ASSUME Typed, NEW p \in Procs, Crash(p)
  PROVE  Typed'
<1>1. Reply(p, Nothing) /\ Quiet(Nothing)
  BY DEF Crash, Reply, Quiet
<1>2. SocketOK' /\ OnlyReposEnrol'
  BY <1>1, ReplyTyped
<1>3. up' \subseteq Procs /\ job' \in [Repos -> Job \cup {Nothing}]
  BY DEF Typed, TypeOK, Crash
<1>4. crashes' \in Nat /\ failures' \in Nat
  BY DEF Typed, TypeOK, Crash
<1> QED
  BY <1>2, <1>3, <1>4, Frames DEF Typed, TypeOK, Crash

\* Invoke keeps Typed.
LEMMA InvokeTyped ==
  ASSUME Typed, NEW c \in Clients, Invoke(c)
  PROVE  Typed'
<1>1. PICK r \in Requests :
        /\ request' = [request EXCEPT ![c] = r]
        /\ sending' = [sending EXCEPT ![c] = ClientCommand(r, c)]
  BY DEF Invoke
<1>2. r \in Request /\ Master \in Procs /\ <<>> \in Seq(Repos)
  BY ClusterAssumption DEF Procs
<1>3. ClientCommand(r, c) \in Message /\ ClientCommand(r, c).type # "E"
  BY <1>2, RequestFields, CommandType
     DEF ClientCommand, ParseNewNode, ParseNewQuery, ParseNewUpdate, ParseNewDelete
<1>4. SocketOK' /\ OnlyReposEnrol'
  BY <1>1, <1>3, SendTyped DEF Invoke, Procs
<1>5. ClientOK'
  BY <1>1, <1>2 DEF Typed, TypeOK, ClientOK, Invoke
<1>6. up' \subseteq Procs /\ job' \in [Repos -> Job \cup {Nothing}]
  BY DEF Typed, TypeOK, Invoke, Procs
<1> QED
  BY <1>4, <1>5, <1>6, Frames DEF Typed, TypeOK, Invoke

\* WaitResponse keeps Typed.
LEMMA WaitResponseTyped ==
  ASSUME Typed, NEW c \in Clients, WaitResponse(c)
  PROVE  Typed'
<1>1. Msg(c) \in Message /\ Msg(c).type = "M"
  BY IncomingMessage DEF WaitResponse, Typed, Procs
<1>2. Msg(c).text \in Text
  BY <1>1, MessageFields DEF TextMessage
<1>3. SocketOK' /\ OnlyReposEnrol'
  BY ReplyTyped DEF WaitResponse, Exit, Quiet, Procs
<1>4. ClientOK'
  BY <1>2 DEF Typed, TypeOK, ClientOK, WaitResponse
<1>5. up' \subseteq Procs /\ job' \in [Repos -> Job \cup {Nothing}]
  BY DEF Typed, TypeOK, WaitResponse, Exit
<1> QED
  BY <1>3, <1>4, <1>5, Frames DEF Typed, TypeOK, WaitResponse

-----------------------------------------------------------------------------
\* A refused command leaves the sockets well typed.
LEMMA RefuseTyped ==
  ASSUME Typed, NEW kind \in Kinds, Refuse(kind), From(Master) \in Procs,
         Msg(Master) \in Message, Msg(Master).type \in {"C", "R", "U", "D"}
  PROVE  SocketOK' /\ OnlyReposEnrol'
<1> DEFINE reply == ParseNewMessageResponse(From(Master), Say(kind), 0,
                                            Msg(Master).cli)
<1>1. reply \in Message
  BY CommandFields, SayType, TextType
<1>2. Quiet(reply)
  BY <1>1 DEF Quiet, ParseNewMessageResponse
<1>3. Master \in Procs /\ Reply(Master, reply)
  BY DEF Refuse, Procs
<1> QED
  BY <1>2, <1>3, ReplyTyped

\* An accepted command gets the next number, and a query a well-formed state.
LEMMA AcceptTyped ==
  ASSUME Typed, NEW state, NEW command, Quiet(command),
         state = Nothing \/ WellFormed(state),
         repositories # <<>>, From(Master) \in Procs,
         Accept(state, command)
  PROVE  /\ SocketOK'
         /\ OnlyReposEnrol'
         /\ QueriesGoOn'
         /\ repositories' \in Seq(Repos)
         /\ current_request' \in Nat \ {0}
         /\ \A i \in DOMAIN pending' :
              i \in 1..(current_request' - 1) /\ pending'[i] \in PendingEntry
<1>1. Reply(Master, command) /\ Master \in Procs
  BY DEF Accept, Procs
<1>2. SocketOK' /\ OnlyReposEnrol'
  BY <1>1, ReplyTyped
<1>3. /\ repositories' = repositories
      /\ current_request' = current_request + 1
      /\ DOMAIN pending' = DOMAIN pending \cup {current_request}
      /\ \A i \in DOMAIN pending' :
           pending'[i] = IF i = current_request
                           THEN [client |-> From(Master), state |-> state]
                           ELSE pending[i]
  BY DEF Accept, Enter
<1>4. repositories \in Seq(Repos) /\ current_request \in Nat \ {0}
  BY DEF Typed, TypeOK, MasterOK
<1>5. [client |-> From(Master), state |-> state] \in PendingEntry
  BY DEF PendingEntry, WellFormed
<1>6. \A i \in DOMAIN pending' :
        i \in 1..(current_request' - 1) /\ pending'[i] \in PendingEntry
  BY <1>3, <1>4, <1>5 DEF Typed, TypeOK, MasterOK
<1>7. QueriesGoOn'
  <2> SUFFICES ASSUME NEW i \in DOMAIN pending', pending'[i].state # Nothing
               PROVE  repositories' # <<>> /\ WellFormed(pending'[i].state)
    BY DEF QueriesGoOn
  <2>1. CASE i = current_request
    BY <1>3, <2>1
  <2>2. CASE i # current_request
    BY <1>3, <2>2 DEF Typed, QueriesGoOn
  <2> QED
    BY <2>1, <2>2
<1> QED
  BY <1>2, <1>3, <1>4, <1>6, <1>7

\* What create, update and delete share at the main server.
LEMMA MasterWriteTyped ==
  ASSUME Typed, NEW command,
         repositories # <<>> => Quiet(command), From(Master) \in Procs,
         Msg(Master) \in Message, Msg(Master).type \in {"C", "R", "U", "D"},
         MasterWrite(command)
  PROVE  Typed'
<1>1. /\ SocketOK'
      /\ OnlyReposEnrol'
      /\ MasterOK'
      /\ QueriesGoOn'
  <2>1. cud_blocking' \in BOOLEAN
    BY Zenon DEF MasterWrite, Typed, TypeOK, MasterOK
  <2>2. ASSUME NEW kind \in Kinds, Refuse(kind)
        PROVE  /\ SocketOK'
               /\ OnlyReposEnrol'
               /\ MasterOK'
               /\ QueriesGoOn'
    <3>1. UNCHANGED masterVars
      BY <2>2 DEF Refuse, MasterWrite, masterVars
    <3> QED
      BY <2>2, <3>1, RefuseTyped, Frames
  <2>3. CASE repositories # <<>> /\ Accept(Nothing, command)
    BY <2>1, <2>3, AcceptTyped DEF MasterOK
  <2>4. "busy" \in Kinds /\ "detached" \in Kinds
    BY DEF Kinds, LongTexts, BriefTexts
  <2> QED
    BY <2>2, <2>3, <2>4 DEF MasterWrite
<1>2. up' \subseteq Procs /\ job' \in [Repos -> Job \cup {Nothing}]
  BY DEF Typed, TypeOK, MasterWrite
<1> QED
  BY <1>1, <1>2, Frames DEF Typed, TypeOK, MasterWrite

\* MasterCreate keeps Typed.
LEMMA MasterCreateTyped ==
  ASSUME Typed, MasterCreate
  PROVE  Typed'
<1> DEFINE command == ParseNewNode(Home, Msg(Master).body, current_request,
                                   repositories, Msg(Master).cli)
<1>1. /\ Msg(Master) \in Message /\ Msg(Master).type = "C"
      /\ From(Master) \in Procs
  BY IncomingMessage DEF MasterCreate, Typed, Procs
<1>2. ASSUME repositories # <<>> PROVE Quiet(command)
  <2>1. Msg(Master).body \in Request /\ Msg(Master).body.op = "C"
    BY <1>1, CommandFields
  <2>2. Home \in Procs
    BY <1>2, <2>1, RequestFields, RouteType DEF Home, Procs, Typed, TypeOK, MasterOK
  <2>3. command \in Message
    BY <1>1, <2>1, <2>2, CommandFields, CommandType DEF Typed, TypeOK, MasterOK
  <2> QED
    BY <2>3 DEF Quiet, ParseNewNode
<1> QED
  BY <1>1, <1>2, MasterWriteTyped DEF MasterCreate

\* MasterUpdate keeps Typed.
LEMMA MasterUpdateTyped ==
  ASSUME Typed, MasterUpdate
  PROVE  Typed'
<1> DEFINE command == ParseNewUpdate(Home, Msg(Master).body,
                                     current_request, Msg(Master).cli)
<1>1. /\ Msg(Master) \in Message /\ Msg(Master).type = "U"
      /\ From(Master) \in Procs
  BY IncomingMessage DEF MasterUpdate, Typed, Procs
<1>2. ASSUME repositories # <<>> PROVE Quiet(command)
  <2>1. Msg(Master).body \in Request /\ Msg(Master).body.op = "U"
    BY <1>1, CommandFields
  <2>2. Home \in Procs
    BY <1>2, <2>1, RequestFields, RouteType DEF Home, Procs, Typed, TypeOK, MasterOK
  <2>3. command \in Message
    BY <1>1, <2>1, <2>2, CommandFields, CommandType DEF Typed, TypeOK, MasterOK
  <2> QED
    BY <2>3 DEF Quiet, ParseNewUpdate
<1> QED
  BY <1>1, <1>2, MasterWriteTyped DEF MasterUpdate

\* MasterDelete keeps Typed.
LEMMA MasterDeleteTyped ==
  ASSUME Typed, MasterDelete
  PROVE  Typed'
<1> DEFINE command == ParseNewDelete(Home, Msg(Master).body, current_request,
                                     repositories, Msg(Master).cli)
<1>1. /\ Msg(Master) \in Message /\ Msg(Master).type = "D"
      /\ From(Master) \in Procs
  BY IncomingMessage DEF MasterDelete, Typed, Procs
<1>2. ASSUME repositories # <<>> PROVE Quiet(command)
  <2>1. Msg(Master).body \in Request /\ Msg(Master).body.op = "D"
    BY <1>1, CommandFields
  <2>2. Home \in Procs
    BY <1>2, <2>1, RequestFields, RouteType DEF Home, Procs, Typed, TypeOK, MasterOK
  <2>3. command \in Message
    BY <1>1, <2>1, <2>2, CommandFields, CommandType DEF Typed, TypeOK, MasterOK
  <2> QED
    BY <2>3 DEF Quiet, ParseNewDelete
<1> QED
  BY <1>1, <1>2, MasterWriteTyped DEF MasterDelete

\* MasterQuery keeps Typed.
LEMMA MasterQueryTyped ==
  ASSUME Typed, MasterQuery
  PROVE  Typed'
<1> DEFINE b == Msg(Master).body
           state == NewState(b.name, b.depth, b.leaf, b.cond)
           command == ParseNewQuery(Home, b, current_request, Msg(Master).cli)
<1>1. /\ Msg(Master) \in Message /\ Msg(Master).type = "R"
      /\ From(Master) \in Procs
  BY IncomingMessage DEF MasterQuery, Typed, Procs
<1>2. b \in Request /\ b.op = "R"
  BY <1>1, CommandFields
<1>3. /\ SocketOK'
      /\ OnlyReposEnrol'
      /\ MasterOK'
      /\ QueriesGoOn'
  <2>1. cud_blocking' \in BOOLEAN
    BY Zenon DEF MasterQuery
  <2>2. CASE repositories = <<>> /\ Refuse("detached")
    <3>1. UNCHANGED <<repositories, current_request, pending>>
      BY <2>2 DEF Refuse
    <3>2. MasterOK' /\ QueriesGoOn'
      BY <2>1, <3>1 DEF Typed, TypeOK, MasterOK, QueriesGoOn
    <3> QED
      BY <1>1, <2>2, <3>2, RefuseTyped DEF Kinds, LongTexts, BriefTexts
  <2>3. CASE repositories # <<>> /\ Accept(state, command)
    <3>1. Home \in Procs
      BY <1>2, <2>3, RequestFields, RouteType DEF Home, Procs, Typed, TypeOK, MasterOK
    <3>2. command \in Message
      BY <1>1, <1>2, <3>1, CommandFields, CommandType DEF Typed, TypeOK, MasterOK
    <3>3. Quiet(command)
      BY <3>2 DEF Quiet, ParseNewQuery
    <3>4. b \in QueryRequest
      BY <1>2, RequestFields
    <3>5. WellFormed(state)
      BY <3>4, NewStateWellFormed DEF QueryRequest
    <3> QED
      BY <1>1, <2>1, <2>3, <3>3, <3>5, AcceptTyped DEF MasterOK
  <2> QED
    BY <2>2, <2>3 DEF MasterQuery
<1>4. up' \subseteq Procs /\ job' \in [Repos -> Job \cup {Nothing}]
  BY DEF Typed, TypeOK, MasterQuery
<1> QED
  BY <1>3, <1>4, Frames DEF Typed, TypeOK, MasterQuery

\* Erasing a request leaves the tables of the main server well typed.
LEMMA EraseTyped ==
  ASSUME Typed, NEW id, Erase(id), UNCHANGED <<repositories, current_request>>,
         cud_blocking' \in BOOLEAN
  PROVE  MasterOK' /\ QueriesGoOn'
BY DEF Erase, Restrict, Typed, TypeOK, MasterOK, QueriesGoOn

\* MasterMessage keeps Typed.
LEMMA MasterMessageTyped ==
  ASSUME Typed, MasterMessage
  PROVE  Typed'
<1> DEFINE m == Msg(Master)
           reply == ParseNewMessageResponse(pending[m.id].client, m.text,
                                            m.id, m.cli)
<1>1. m \in TextMessage
  BY IncomingMessage, MessageFields DEF MasterMessage, Typed, Procs
<1>2. cud_blocking' \in BOOLEAN /\ Master \in Procs
  BY Zenon DEF MasterMessage, Procs, Typed, TypeOK, MasterOK
<1>3. /\ SocketOK'
      /\ OnlyReposEnrol'
      /\ MasterOK'
      /\ QueriesGoOn'
      /\ up' \subseteq Procs
  <2>1. CASE /\ m.id \in DOMAIN pending
             /\ Erase(m.id)
             /\ Reply(Master, reply)
             /\ UNCHANGED up
    <3>1. pending[m.id].client \in Procs
      BY <2>1 DEF Typed, TypeOK, MasterOK, PendingEntry
    <3>2. reply \in Message
      BY <1>1, <3>1, TextType DEF TextMessage
    <3>3. Quiet(reply)
      BY <3>2 DEF Quiet, ParseNewMessageResponse
    <3>4. MasterOK' /\ QueriesGoOn'
      BY <1>2, <2>1, EraseTyped DEF MasterMessage
    <3> QED
      BY <1>2, <2>1, <3>3, <3>4, ReplyTyped DEF Typed, TypeOK
  <2>2. CASE Exit(Master) /\ UNCHANGED pending
    <3>1. Quiet(Nothing)
      BY DEF Quiet
    <3>2. UNCHANGED masterVars
      BY <2>2 DEF MasterMessage, masterVars
    <3> QED
      BY <1>2, <2>2, <3>1, <3>2, ReplyTyped, Frames DEF Exit, Typed, TypeOK
  <2> QED
    BY <2>1, <2>2 DEF MasterMessage
<1>4. job' \in [Repos -> Job \cup {Nothing}]
  BY DEF Typed, TypeOK, MasterMessage
<1> QED
  BY <1>3, <1>4, Frames DEF Typed, TypeOK, MasterMessage

\* The end of a query leaves the main server well typed.
LEMMA CompleteTyped ==
  ASSUME Typed, NEW text \in Text, Complete(text),
         Msg(Master) \in InfoMessage, Msg(Master).id \in DOMAIN pending,
         UNCHANGED <<repositories, current_request>>
  PROVE  /\ SocketOK'
         /\ OnlyReposEnrol'
         /\ MasterOK'
         /\ QueriesGoOn'
<1> DEFINE m == Msg(Master)
           reply == ParseNewMessageResponse(pending[m.id].client, text,
                                            m.id, m.cli)
<1>1. pending[m.id].client \in Procs
  BY DEF Typed, TypeOK, MasterOK, PendingEntry
<1>2. reply \in Message
  BY <1>1, TextType DEF InfoMessage
<1>3. Quiet(reply)
  BY <1>2 DEF Quiet, ParseNewMessageResponse
<1>4. cud_blocking' \in BOOLEAN
  BY Zenon DEF Complete
<1>5. MasterOK' /\ QueriesGoOn'
  BY <1>4, EraseTyped DEF Complete
<1> QED
  BY <1>3, <1>5, ReplyTyped DEF Complete, Procs

\* A query that goes on has a next node, and a repository to ask for it.
LEMMA ContinueTyped ==
  ASSUME Typed, NEW q, WellFormed(q), Continue(q),
         Msg(Master) \in InfoMessage, IsQuery(Msg(Master).id),
         UNCHANGED <<repositories, current_request>>
  PROVE  /\ SocketOK'
         /\ OnlyReposEnrol'
         /\ MasterOK'
         /\ QueriesGoOn'
<1> DEFINE m == Msg(Master)
           next == Head(q.queue)
           body == [op |-> "R", name |-> next.name, depth |-> next.left,
                    leaf |-> q.leaf, cond |-> q.cond]
           command == ParseNewQuery(Route(repositories, next.name), body,
                                    m.id, m.cli)
<1>1. repositories # <<>> /\ repositories \in Seq(Repos)
  BY DEF IsQuery, Typed, QueriesGoOn, TypeOK, MasterOK
<1>2. next \in Entry(Names) /\ q.leaf \in BOOLEAN /\ q.cond \in BOOLEAN
  BY DEF WellFormed, QueryState
<1>3. body \in QueryRequest
  BY <1>2 DEF Entry, QueryRequest
<1>4. Route(repositories, next.name) \in Procs
  BY <1>1, <1>2, RouteType DEF Entry, Procs
<1>5. command \in Message
  <2>1. body \in Request /\ body.op = "R"
    BY <1>3 DEF Request
  <2>2. m.id \in Nat /\ m.cli \in Clients
    BY DEF InfoMessage
  <2> HIDE DEF body
  <2> QED
    BY <1>1, <1>4, <2>1, <2>2, CommandType
<1>6. Quiet(command)
  BY <1>5 DEF Quiet, ParseNewQuery
<1>7. cud_blocking' \in BOOLEAN
  BY Zenon DEF Continue, Typed, TypeOK, MasterOK
<1>8. /\ DOMAIN pending' = DOMAIN pending
      /\ \A i \in DOMAIN pending :
           pending'[i] = IF i = m.id THEN [pending[i] EXCEPT !.state = q]
                                     ELSE pending[i]
  BY DEF Continue, IsQuery
<1>9. q \in QueryState(Names)
  BY DEF WellFormed
<1>10. \A i \in DOMAIN pending : pending'[i] \in PendingEntry
  BY <1>8, <1>9 DEF Typed, TypeOK, MasterOK, PendingEntry
<1>11. MasterOK'
  BY <1>7, <1>8, <1>10 DEF Typed, TypeOK, MasterOK
<1>12. QueriesGoOn'
  <2> SUFFICES ASSUME NEW i \in DOMAIN pending, pending'[i].state # Nothing
               PROVE  repositories # <<>> /\ WellFormed(pending'[i].state)
    BY <1>8 DEF QueriesGoOn
  <2>1. CASE i = m.id
    BY <1>1, <1>8, <2>1 DEF Typed, TypeOK, MasterOK, PendingEntry
  <2>2. CASE i # m.id
    BY <1>8, <2>2 DEF Typed, QueriesGoOn
  <2> QED
    BY <2>1, <2>2
<1> QED
  BY <1>6, <1>11, <1>12, ReplyTyped DEF Continue, Procs

\* MasterInfo keeps Typed.
LEMMA MasterInfoTyped ==
  ASSUME Typed, MasterInfo
  PROVE  Typed'
<1> DEFINE m == Msg(Master)
           q == pending[m.id].state
<1>1. m \in InfoMessage
  BY IncomingMessage, MessageFields DEF MasterInfo, Typed, Procs
<1>2. Master \in Procs /\ UNCHANGED <<repositories, current_request>>
  BY DEF MasterInfo, Procs
<1>3. ASSUME IsQuery(m.id)
      PROVE  WellFormed(q) /\ m.id \in DOMAIN pending
  BY <1>3 DEF IsQuery, Typed, QueriesGoOn
<1>4. /\ SocketOK'
      /\ OnlyReposEnrol'
      /\ MasterOK'
      /\ QueriesGoOn'
      /\ up' \subseteq Procs
  <2>1. ASSUME IsQuery(m.id), UNCHANGED up,
               NEW order \in SetToSeqs(Fresh(q, m.rels)),
               LET next == Absorb(q, m.valid, order) IN
               \/ /\ next.queue = <<>>
                  /\ Complete([kind |-> "query", found |-> next.response])
               \/ /\ next.queue # <<>>
                  /\ Continue(next)
        PROVE  /\ SocketOK'
               /\ OnlyReposEnrol'
               /\ MasterOK'
               /\ QueriesGoOn'
               /\ up' \subseteq Procs
    <3> DEFINE next == Absorb(q, m.valid, order)
    <3>1. WellFormed(q) /\ m.id \in DOMAIN pending
      BY <1>3, <2>1
    <3>2. m.rels \in SUBSET Names /\ m.valid \in BOOLEAN
      BY <1>1 DEF InfoMessage
    <3>3. /\ order \in Seq(Names)
          /\ order # <<>> => Head(q.queue).left > 0
      BY <3>1, <3>2, OrderType DEF WellFormed
    <3>4. /\ next \in QueryState(Names)
          /\ next.depth = q.depth
          /\ \A k \in DOMAIN next.queue : next.queue[k].left <= q.depth
      BY <3>1, <3>2, <3>3, AbsorbType
    <3>5. [kind |-> "query", found |-> next.response] \in Text
      BY <3>4 DEF Text, Kinds, QueryState, LongTexts, BriefTexts
    <3>6. next.queue # <<>> => WellFormed(next)
      BY <3>4 DEF WellFormed
    <3>7. up' \subseteq Procs
      BY <2>1 DEF Typed, TypeOK
    <3> HIDE DEF next
    <3> QED
      BY <1>1, <1>2, <2>1, <3>1, <3>5, <3>6, <3>7, CompleteTyped, ContinueTyped
         DEF next
  <2>2. CASE IsQuery(m.id) /\ Complete(Say("internal")) /\ UNCHANGED up
    <3>1. Say("internal") \in Text
      BY SayType DEF Kinds, LongTexts, BriefTexts
    <3> QED
      BY <1>1, <1>2, <1>3, <2>2, <3>1, CompleteTyped DEF Typed, TypeOK
  <2>3. CASE Exit(Master) /\ UNCHANGED <<pending, cud_blocking>>
    <3>1. Quiet(Nothing)
      BY DEF Quiet
    <3>2. UNCHANGED masterVars
      BY <1>2, <2>3 DEF masterVars
    <3> QED
      BY <1>2, <2>3, <3>1, <3>2, ReplyTyped, Frames DEF Exit, Typed, TypeOK
  <2> QED
    BY <2>1, <2>2, <2>3 DEF MasterInfo
<1>5. job' \in [Repos -> Job \cup {Nothing}]
  BY DEF Typed, TypeOK, MasterInfo
<1> QED
  BY <1>4, <1>5, Frames DEF Typed, TypeOK, MasterInfo

\* SetServer keeps Typed.
LEMMA SetServerTyped ==
  ASSUME Typed, SetServer
  PROVE  Typed'
<1>1. DOMAIN pending' = {}
  BY DEF SetServer, NoPending
<1>2. cud_blocking' \in BOOLEAN
  BY Zenon DEF SetServer
<1>3. MasterOK' /\ QueriesGoOn'
  BY <1>1, <1>2 DEF SetServer, MasterOK, QueriesGoOn
<1>4. /\ SocketOK'
      /\ OnlyReposEnrol'
      /\ up' \subseteq Procs
      /\ job' \in [Repos -> Job \cup {Nothing}]
  BY DEF SetServer, Typed, TypeOK, SocketOK, OnlyReposEnrol, socketVars, Procs,
         Msg, From
<1> QED
  BY <1>3, <1>4, Frames DEF Typed, TypeOK, SetServer

\* MasterEnrol keeps Typed.
LEMMA MasterEnrolTyped ==
  ASSUME Typed, MasterEnrol
  PROVE  Typed'
<1>1. From(Master) \in Repos
  <2>1. taken[Master] # Nothing /\ Msg(Master).type = "E" /\ Master \in Procs
    BY IncomingMessage DEF MasterEnrol, Typed, Procs
  <2> QED
    BY <2>1 DEF Typed, OnlyReposEnrol
<1>2. PICK k \in 1..MaxCopies :
        repositories' = repositories \o [i \in 1..k |-> From(Master)]
  BY DEF MasterEnrol
<1>3. repositories' \in Seq(Repos) /\ repositories' # <<>>
  <2> DEFINE copies == [i \in 1..k |-> From(Master)]
  <2>1. k \in Nat /\ k > 0
    BY ClusterAssumption
  <2>2. copies \in Seq(Repos) /\ Len(copies) = k
    BY <1>1, <2>1
  <2>3. repositories \in Seq(Repos)
    BY DEF Typed, TypeOK, MasterOK
  <2> HIDE DEF copies
  <2> QED
    BY <1>2, <2>1, <2>2, <2>3 DEF copies
<1>4. cud_blocking' \in BOOLEAN
  BY Zenon DEF MasterEnrol, Typed, TypeOK, MasterOK
<1>5. MasterOK' /\ QueriesGoOn'
  BY <1>3, <1>4 DEF MasterEnrol, Typed, TypeOK, MasterOK, QueriesGoOn
<1>6. SocketOK' /\ OnlyReposEnrol'
  BY ReplyTyped DEF MasterEnrol, Quiet, Procs
<1> QED
  BY <1>5, <1>6, Frames DEF Typed, TypeOK, MasterEnrol

-----------------------------------------------------------------------------
\* SetRepository keeps Typed.
LEMMA SetRepositoryTyped ==
  ASSUME Typed, NEW r \in Repos, SetRepository(r)
  PROVE  Typed'
<1>1. RegisterRepository \in Message
  BY DEF RegisterRepository, Message, EnrolMessage, Procs
<1>2. SocketOK' /\ OnlyReposEnrol'
  BY <1>1, SendTyped DEF SetRepository, Procs
<1>3. up' \subseteq Procs /\ job' \in [Repos -> Job \cup {Nothing}]
  BY DEF SetRepository, Typed, TypeOK, Procs
<1> QED
  BY <1>2, <1>3, Frames DEF Typed, TypeOK, SetRepository

\* RepoCreate keeps Typed.
LEMMA RepoCreateTyped ==
  ASSUME Typed, NEW r \in Repos, RepoCreate(r)
  PROVE  Typed'
<1> DEFINE m == Msg(r)
           b == m.body
           newJob == [name |-> b.name, todo |-> b.rels, id |-> m.id,
                      table |-> m.table, from |-> From(r), cli |-> m.cli,
                      kind |-> IF b.name \in nodes[r] THEN "exists"
                                                      ELSE "stored"]
           reply == ParseNewMessageResponse(From(r), Say("failed"), m.id, m.cli)
<1>1. m \in Message /\ m.type = "C" /\ From(r) \in Procs
  BY IncomingMessage DEF RepoCreate, Typed, Procs
<1>2. /\ m.id \in Nat
      /\ m.cli \in Clients
      /\ m.table \in Seq(Repos)
      /\ b \in CreateRequest
  BY <1>1, CommandFields, RequestFields
<1>3. b.name \in Names /\ b.rels \in Seq(Names)
  BY <1>2 DEF CreateRequest
<1>4. newJob \in Job
  BY <1>1, <1>2, <1>3 DEF Job, Kinds, LongTexts, BriefTexts
<1>5. Quiet(Nothing) /\ Quiet(reply)
  <2>1. reply \in Message
    BY <1>1, <1>2, SayType, TextType DEF Kinds, LongTexts, BriefTexts
  <2> QED
    BY <2>1 DEF Quiet, ParseNewMessageResponse
<1>6. r \in Procs
  BY DEF Procs
<1>7. \/ Reply(r, Nothing)
      \/ Reply(r, reply)
  BY DEF RepoCreate, Exit
<1>8. SocketOK' /\ OnlyReposEnrol'
  BY <1>5, <1>6, <1>7, ReplyTyped
<1>9. up' \subseteq Procs
  BY DEF RepoCreate, Exit, Typed, TypeOK
<1>10. job' \in [Repos -> Job \cup {Nothing}]
  <2> HIDE DEF newJob
  <2>1. UNCHANGED job \/ job' = [job EXCEPT ![r] = newJob]
    BY DEF RepoCreate, newJob
  <2> QED
    BY <1>4, <2>1 DEF Typed, TypeOK
<1>11. StoreOK'
  BY <1>3 DEF RepoCreate, StoreNode, Exit, Typed, TypeOK, StoreOK
<1>12. crashes' \in Nat /\ failures' \in Nat
  BY DEF RepoCreate, Typed, TypeOK
<1> QED
  BY <1>8, <1>9, <1>10, <1>11, <1>12, Frames DEF RepoCreate, Typed, TypeOK

\* RepoRelation keeps Typed.
LEMMA RepoRelationTyped ==
  ASSUME Typed, NEW r \in Repos, RepoRelation(r)
  PROVE  Typed'
<1> DEFINE j == job[r]
           b == Head(j.todo)
           body == [op |-> "C", name |-> b, attr |-> FALSE, rels |-> <<j.name>>]
           command == ParseNewNode(Route(j.table, b), body, 0, <<>>, j.cli)
           reply == ParseNewMessageResponse(j.from, Say("failed"), j.id, j.cli)
<1>1. j \in Job /\ j.todo # <<>>
  BY DEF RepoRelation, Typed, TypeOK
<1>2. /\ j.name \in Names
      /\ j.todo \in Seq(Names)
      /\ j.id \in Nat
      /\ j.table \in Seq(Repos)
      /\ j.from \in Procs
      /\ j.cli \in Clients
  BY <1>1 DEF Job
<1>3. b \in Names /\ Tail(j.todo) \in Seq(Names)
  BY <1>1, <1>2
<1>4. j.table # <<>> => command \in Message /\ command.type # "E"
  <2>1. body \in Request /\ body.op = "C"
    BY <1>2, <1>3 DEF Request, CreateRequest
  <2>2. j.table # <<>> => Route(j.table, b) \in Procs
    BY <1>2, <1>3, RouteType DEF Procs
  <2>3. <<>> \in Seq(Repos) /\ 0 \in Nat
    OBVIOUS
  <2> HIDE DEF body
  <2> QED
    BY <1>2, <2>1, <2>2, <2>3, CommandType DEF ParseNewNode
<1>5. reply \in Message /\ reply.type # "E"
  BY <1>2, SayType, TextType DEF Kinds, ParseNewMessageResponse, LongTexts, BriefTexts
<1>6. \/ sending' = [sending EXCEPT ![r] = Nothing]
      \/ j.table # <<>> /\ sending' = [sending EXCEPT ![r] = command]
      \/ sending' = [sending EXCEPT ![r] = reply]
  BY DEF RepoRelation, Typed, TypeOK, SocketOK, Procs
<1>7. SocketOK' /\ OnlyReposEnrol'
  <2> HIDE DEF command, reply, j
  <2> QED
    BY <1>4, <1>5, <1>6, SendTyped DEF RepoRelation, Procs
<1>8. /\ [j EXCEPT !.todo = Tail(@)] \in Job
      /\ [j EXCEPT !.todo = Tail(@), !.kind = "failed"] \in Job
  BY <1>1, <1>3 DEF Job, Kinds
<1>9. job' \in [Repos -> Job \cup {Nothing}]
  <2>1. \/ job' = [job EXCEPT ![r] = [j EXCEPT !.todo = Tail(@)]]
        \/ job' = [job EXCEPT ![r] =
                     [j EXCEPT !.todo = Tail(@), !.kind = "failed"]]
        \/ job' = [job EXCEPT ![r] = Nothing]
    BY DEF RepoRelation, Typed, TypeOK
  <2> HIDE DEF j
  <2> QED
    BY <1>8, <2>1 DEF Typed, TypeOK
<1>10. StoreOK'
  <2>1. /\ \/ nodes' = [nodes EXCEPT ![r] = @ \cup {b}]
           \/ UNCHANGED nodes
        /\ \/ relations' = [relations EXCEPT ![r] = @ \cup {<<j.name, b>>}]
           \/ UNCHANGED relations
        /\ UNCHANGED attributes
    BY DEF RepoRelation, StoreNode
  <2>2. <<j.name, b>> \in Names \X Names
    BY <1>2, <1>3
  <2> HIDE DEF j, b
  <2> QED
    BY <1>3, <2>1, <2>2 DEF Typed, TypeOK, StoreOK
<1>11. up' \subseteq Procs /\ crashes' \in Nat /\ failures' \in Nat
  BY DEF RepoRelation, Typed, TypeOK
<1> QED
  BY <1>7, <1>9, <1>10, <1>11, Frames DEF RepoRelation, Typed, TypeOK

\* RepoFinish keeps Typed.
LEMMA RepoFinishTyped ==
  ASSUME Typed, NEW r \in Repos, RepoFinish(r)
  PROVE  Typed'
<1> DEFINE reply == ParseNewMessageResponse(Master, Say(job[r].kind),
                                            job[r].id, job[r].cli)
<1>1. job[r] \in Job
  BY DEF RepoFinish, Typed, TypeOK
<1>2. reply \in Message /\ reply.type # "E"
  BY <1>1, SayType, TextType DEF Job, Procs, ParseNewMessageResponse
<1>3. \/ sending' = [sending EXCEPT ![r] = Nothing]
      \/ sending' = [sending EXCEPT ![r] = reply]
  BY DEF RepoFinish
<1>4. SocketOK' /\ OnlyReposEnrol'
  <2> HIDE DEF reply
  <2> QED
    BY <1>2, <1>3, SendTyped DEF RepoFinish, Procs
<1>5. up' \subseteq Procs /\ job' \in [Repos -> Job \cup {Nothing}]
  BY DEF RepoFinish, Typed, TypeOK
<1> QED
  BY <1>4, <1>5, Frames DEF RepoFinish, Typed, TypeOK

\* RepoQuery keeps Typed.
LEMMA RepoQueryTyped ==
  ASSUME Typed, NEW r \in Repos, RepoQuery(r)
  PROVE  Typed'
<1> DEFINE m == Msg(r)
           valid == ValidNode(r, m.body)
           rels == RelatedTo(r, m.body.name)
           reply == ParseNewInfoResponse(m.body.name, Master, rels, m.id,
                                         valid, m.cli)
<1>1. m \in Message /\ m.type = "R"
  BY IncomingMessage DEF RepoQuery, Typed, Procs
<1>2. m.id \in Nat /\ m.cli \in Clients /\ m.body.name \in Names
  BY <1>1, CommandFields, RequestFields
<1>3. rels \in SUBSET Names /\ Master \in Procs /\ r \in Procs
  BY DEF RelatedTo, Procs
<1>4. valid \in BOOLEAN
  BY Zenon DEF ValidNode
<1>5. reply \in Message
  <2> HIDE DEF rels, valid
  <2> QED
    BY <1>2, <1>3, <1>4, InfoType
<1>6. Quiet(reply)
  BY <1>5 DEF Quiet, ParseNewInfoResponse
<1>7. SocketOK' /\ OnlyReposEnrol'
  BY <1>3, <1>6, ReplyTyped DEF RepoQuery
<1> QED
  BY <1>7, Frames DEF RepoQuery, Typed, TypeOK

\* RepoUpdate keeps Typed.
LEMMA RepoUpdateTyped ==
  ASSUME Typed, NEW r \in Repos, RepoUpdate(r)
  PROVE  Typed'
<1> DEFINE m == Msg(r)
           reply == ParseNewMessageResponse(Master, Say("updated"), m.id, m.cli)
<1>1. m \in Message /\ m.type = "U"
  BY IncomingMessage DEF RepoUpdate, Typed, Procs
<1>2. reply \in Message
  BY <1>1, CommandFields, SayType, TextType DEF Kinds, Procs, LongTexts, BriefTexts
<1>3. Quiet(reply)
  BY <1>2 DEF Quiet, ParseNewMessageResponse
<1>4. SocketOK' /\ OnlyReposEnrol'
  BY <1>3, ReplyTyped DEF RepoUpdate, Procs
<1> QED
  BY <1>4, Frames DEF RepoUpdate, Typed, TypeOK

\* RepoDelete keeps Typed.
LEMMA RepoDeleteTyped ==
  ASSUME Typed, NEW r \in Repos, RepoDelete(r)
  PROVE  Typed'
<1> DEFINE m == Msg(r)
           b == m.body
           body == [op |-> "D", name |-> b.rel, object |-> 2, rel |-> b.name]
           command == ParseNewDelete(Route(m.table, b.rel), body, 0, <<>>, m.cli)
           newJob == [name |-> b.name, todo |-> <<>>, id |-> m.id,
                      table |-> m.table, from |-> From(r), cli |-> m.cli,
                      kind |-> IF b.object = 1 THEN "cleared" ELSE "deleted"]
<1>1. m \in Message /\ m.type = "D" /\ From(r) \in Procs
  BY IncomingMessage DEF RepoDelete, Typed, Procs
<1>2. /\ m.id \in Nat
      /\ m.cli \in Clients
      /\ m.table \in Seq(Repos)
      /\ b \in DeleteRequest
  BY <1>1, CommandFields, RequestFields
<1>3. b.name \in Names /\ b.rel \in Names
  BY <1>2 DEF DeleteRequest
<1>4. newJob \in Job
  BY <1>1, <1>2, <1>3 DEF Job, Kinds, LongTexts, BriefTexts
<1>5. m.table # <<>> => Quiet(command)
  <2>1. body \in Request /\ body.op = "D"
    BY <1>3 DEF Request, DeleteRequest
  <2>2. m.table # <<>> => Route(m.table, b.rel) \in Procs
    BY <1>2, <1>3, RouteType DEF Procs
  <2>3. <<>> \in Seq(Repos) /\ 0 \in Nat
    OBVIOUS
  <2> HIDE DEF body
  <2> QED
    BY <1>2, <2>1, <2>2, <2>3, CommandType DEF ParseNewDelete, Quiet
<1>6. \/ m.table # <<>> /\ Reply(r, command)
      \/ Reply(r, Nothing)
  BY DEF RepoDelete
<1>7. SocketOK' /\ OnlyReposEnrol'
  <2>1. Quiet(Nothing) /\ r \in Procs
    BY DEF Quiet, Procs
  <2> HIDE DEF command
  <2> QED
    BY <1>5, <1>6, <2>1, ReplyTyped
<1>8. job' \in [Repos -> Job \cup {Nothing}]
  <2>1. job' = [job EXCEPT ![r] = newJob]
    BY DEF RepoDelete
  <2> HIDE DEF newJob
  <2> QED
    BY <1>4, <2>1 DEF Typed, TypeOK
<1> QED
  BY <1>7, <1>8, Frames DEF RepoDelete, Typed, TypeOK

\* RepoMessage keeps Typed.
LEMMA RepoMessageTyped ==
  ASSUME Typed, NEW r \in Repos, RepoMessage(r)
  PROVE  Typed'
<1>1. Quiet(Nothing) /\ r \in Procs
  BY DEF Quiet, Procs
<1>2. SocketOK' /\ OnlyReposEnrol'
  BY <1>1, ReplyTyped DEF RepoMessage, Exit
<1> QED
  BY <1>2, Frames DEF RepoMessage, Exit, Typed, TypeOK

-----------------------------------------------------------------------------
\* Typed is inductive: no handler, failure or restart leaves it.
THEOREM TypedStep == Typed /\ [Next]_vars => Typed'
<1> SUFFICES ASSUME Typed, [Next]_vars PROVE Typed'
  OBVIOUS
<1>1. ASSUME MasterStep PROVE Typed'
  BY <1>1, MasterCreateTyped, MasterUpdateTyped, MasterDeleteTyped,
     MasterQueryTyped, MasterMessageTyped, MasterInfoTyped, MasterEnrolTyped
     DEF MasterStep
<1>2. ASSUME NEW r \in Repos, RepoStep(r) PROVE Typed'
  BY <1>2, RepoCreateTyped, RepoRelationTyped, RepoFinishTyped, RepoQueryTyped,
     RepoUpdateTyped, RepoDeleteTyped, RepoMessageTyped DEF RepoStep
<1>3. CASE Work
  BY <1>1, <1>2, <1>3, ReceiveTyped, OverrunTyped, WaitResponseTyped,
     FalseAcksTyped DEF Work
<1>4. CASE \E c \in Clients : Invoke(c)
  BY <1>4, InvokeTyped
<1>5. CASE \E r \in Repos : SetRepository(r)
  BY <1>5, SetRepositoryTyped
<1>6. CASE SetServer
  BY <1>6, SetServerTyped
<1>7. CASE \E p \in Procs : Crash(p)
  BY <1>7, CrashTyped
<1>8. CASE UNCHANGED vars
  <2>1. /\ UNCHANGED masterVars /\ UNCHANGED storeVars
        /\ UNCHANGED clientVars /\ UNCHANGED faultVars
        /\ UNCHANGED procVars
    BY <1>8 DEF vars
  <2> QED
    BY <2>1, Frames DEF procVars, socketVars, Typed, TypeOK, SocketOK, OnlyReposEnrol, Msg, From
<1> QED
  BY <1>3, <1>4, <1>5, <1>6, <1>7, <1>8 DEF Next

(***************************************************************************)
(* Every message in flight, every handler and every table entry is one its *)
(* reader can read; the modulus of Route is never taken of zero; and the   *)
(* queue of a pending query is never empty when its front is read.         *)
(***************************************************************************)
THEOREM TypeCorrect == Spec => []TypeOK
<1>1. Spec => []Typed
  BY TypedInit, TypedStep, PTL DEF Spec
<1> QED
  BY <1>1, PTL DEF Typed

-----------------------------------------------------------------------------
(***************************************************************************)
(* Replies find their clients, and writes are refused only while a query   *)
(* is pending, for any number of processes, names and requests - as long   *)
(* as the main server is not started again: its numbers then begin at 1    *)
(* anew, and what was under way carries the old ones.                      *)
(***************************************************************************)

(***************************************************************************)
(* A message and its sender.  Clients talk to the main server only, in     *)
(* their own name; commands reach the main server from clients only.       *)
(***************************************************************************)
Good(p, m, table, next) ==
  /\ m.type # "E" /\ m.id # 0 => Fit(m.id, m.cli, m.type, table, next)
  /\ m.type = "M" /\ m.to \in Clients => m.to = m.cli
  /\ p \in Clients =>
       m.to = Master /\ m.type \in Commands /\ m.cli = p /\ m.id = 0
  /\ m.type \in Commands /\ m.to = Master => p \in Clients

GoodJob(j, table, next) ==
  /\ Fit(j.id, j.cli, "C", table, next)
  /\ j.from \notin Clients

GoodMessages ==
  /\ \A p \in Procs :
       sending[p] # Nothing => Good(p, sending[p], pending, current_request)
  /\ \A p \in Procs :
       taken[p] # Nothing =>
         Msg(p).to = p /\ Good(From(p), Msg(p), pending, current_request)
GoodJobs ==
  \A r \in Working : GoodJob(job[r], pending, current_request)

Owned == Typed /\ GoodMessages /\ GoodJobs /\ BlockingHasQuery

\* What no step does to the table: give a used number to someone else.
Keeps(table, next, table2, next2) ==
  /\ next \in Nat /\ next2 \in Nat /\ next <= next2
  /\ \A id \in DOMAIN table2 :
       id < next =>
         /\ id \in DOMAIN table
         /\ table2[id].client = table[id].client
         /\ table2[id].state = Nothing <=> table[id].state = Nothing

\* A number that fits goes on to fit while the table keeps its entries.
LEMMA FitKept ==
  ASSUME NEW id \in Nat, NEW cli, NEW type,
         NEW table, NEW next, NEW table2, NEW next2,
         Keeps(table, next, table2, next2), Fit(id, cli, type, table, next)
  PROVE  Fit(id, cli, type, table2, next2)
BY DEF Keeps, Fit

\* Every message but a registration carries a number and, as history, a client.
LEMMA MessageId ==
  ASSUME NEW m \in Message, m.type # "E"
  PROVE  m.id \in Nat /\ m.cli \in Clients
BY MessageFields DEF CommandMessage, InfoMessage, TextMessage

\* A good message goes on to be good while the table keeps its entries.
LEMMA GoodKept ==
  ASSUME NEW p, NEW m \in Message,
         NEW table, NEW next, NEW table2, NEW next2,
         Keeps(table, next, table2, next2), Good(p, m, table, next)
  PROVE  Good(p, m, table2, next2)
BY MessageId, FitKept DEF Good

\* So does the number of a handler under way.
LEMMA KeptJobs ==
  ASSUME Owned, Keeps(pending, current_request, pending', current_request')
  PROVE  \A r \in Working : GoodJob(job[r], pending', current_request')
<1> SUFFICES ASSUME NEW r \in Working
             PROVE  GoodJob(job[r], pending', current_request')
  OBVIOUS
<1>1. job[r].id \in Nat /\ GoodJob(job[r], pending, current_request)
  BY DEF Owned, GoodJobs, Working, Typed, TypeOK, Job
<1> QED
  BY <1>1, FitKept DEF GoodJob

\* So do all messages under way.
LEMMA KeptMessages ==
  ASSUME Owned, Keeps(pending, current_request, pending', current_request')
  PROVE  /\ \A p \in Procs :
              sending[p] # Nothing =>
                Good(p, sending[p], pending', current_request')
         /\ \A p \in Procs :
              taken[p] # Nothing =>
                /\ Msg(p).to = p
                /\ Good(From(p), Msg(p), pending', current_request')
<1>1. ASSUME NEW p \in Procs, sending[p] # Nothing
      PROVE  Good(p, sending[p], pending', current_request')
  <2>1. sending[p] \in Message /\ Good(p, sending[p], pending, current_request)
    BY <1>1 DEF Owned, GoodMessages, Typed, TypeOK, SocketOK
  <2> QED
    BY <2>1, GoodKept
<1>2. ASSUME NEW p \in Procs, taken[p] # Nothing
      PROVE  /\ Msg(p).to = p
             /\ Good(From(p), Msg(p), pending', current_request')
  <2>1. /\ Msg(p) \in Message
        /\ Msg(p).to = p
        /\ Good(From(p), Msg(p), pending, current_request)
    BY <1>2 DEF Owned, GoodMessages, Typed, TypeOK, SocketOK, Msg
  <2> QED
    BY <2>1, GoodKept
<1> QED
  BY <1>1, <1>2

\* Messages stay good when the new ones are and the table keeps its entries.
LEMMA StillGood ==
  ASSUME Owned, Keeps(pending, current_request, pending', current_request'),
         \A p \in Procs :
           sending'[p] # Nothing =>
             \/ sending'[p] = sending[p]
             \/ Good(p, sending'[p], pending', current_request'),
         \A p \in Procs : taken'[p] # Nothing => taken'[p] = taken[p]
  PROVE  GoodMessages'
<1>1. ASSUME NEW p \in Procs, sending'[p] # Nothing
      PROVE  Good(p, sending'[p], pending', current_request')
  <2>1. CASE sending'[p] = sending[p]
    BY <1>1, <2>1, KeptMessages
  <2> QED
    BY <1>1, <2>1
<1>2. ASSUME NEW p \in Procs, taken'[p] # Nothing
      PROVE  (Msg(p).to = p /\ Good(From(p), Msg(p), pending, current_request))'
  <2>1. taken'[p] = taken[p] /\ taken[p] # Nothing
    BY <1>2
  <2>2. /\ Msg(p).to = p
        /\ Good(From(p), Msg(p), pending', current_request')
    BY <2>1, KeptMessages
  <2>3. Msg(p)' = Msg(p) /\ From(p)' = From(p)
    BY <2>1 DEF Msg, From
  <2> QED
    BY <2>2, <2>3
<1> QED
  BY <1>1, <1>2 DEF GoodMessages

\* A handler leaves good messages when its reply is a good one.
LEMMA ReplyGood ==
  ASSUME Owned, Keeps(pending, current_request, pending', current_request'),
         NEW d \in Procs, NEW reply, Reply(d, reply),
         reply = Nothing \/ Good(d, reply, pending', current_request')
  PROVE  GoodMessages'
<1>1. \A p \in Procs :
        sending'[p] # Nothing =>
          \/ sending'[p] = sending[p]
          \/ Good(p, sending'[p], pending', current_request')
  BY DEF Reply, Owned, Typed, TypeOK, SocketOK
<1>2. \A p \in Procs : taken'[p] # Nothing => taken'[p] = taken[p]
  BY NoLongerReadsTyped DEF Reply, Owned
<1> QED
  BY <1>1, <1>2, StillGood

\* A step that leaves the main server alone keeps its table.
LEMMA SameTable ==
  ASSUME Owned, UNCHANGED masterVars
  PROVE  /\ Keeps(pending, current_request, pending', current_request')
         /\ BlockingHasQuery'
<1>1. Keeps(pending, current_request, pending', current_request')
  BY DEF Owned, Typed, TypeOK, MasterOK, masterVars, Keeps
<1>2. BlockingHasQuery'
  BY DEF Owned, BlockingHasQuery, masterVars
<1> QED
  BY <1>1, <1>2

-----------------------------------------------------------------------------
\* The main server, the repositories and the clients are different processes.
LEMMA Separate ==
  /\ Master \notin Repos /\ Master \notin Clients
  /\ Repos \cap Clients = {}
  /\ Master \in Procs /\ Repos \subseteq Procs /\ Clients \subseteq Procs
BY ClusterAssumption DEF Procs

\* What a process knows of a message it takes.
LEMMA TakenMessage ==
  ASSUME Owned, NEW d \in Procs, NEW t, Taken(d, t)
  PROVE  /\ Msg(d) \in Message
         /\ Msg(d).type = t
         /\ Msg(d).to = d
         /\ From(d) \in Procs
         /\ Good(From(d), Msg(d), pending, current_request)
BY IncomingMessage DEF Owned, GoodMessages, Typed

\* Receive keeps messages, handlers and the flag matched to the table.
LEMMA OwnedReceive ==
  ASSUME Owned, NEW s \in Procs, NEW d \in Procs, Receive(s, d)
  PROVE  GoodMessages' /\ GoodJobs' /\ BlockingHasQuery'
<1>1. UNCHANGED masterVars /\ UNCHANGED job
  BY DEF Receive
<1>2. /\ sending[s] # Nothing
      /\ sending[s].to = d
      /\ sending' = [sending EXCEPT ![s] = Nothing]
      /\ taken' = [taken EXCEPT ![d] = [from |-> s, msg |-> sending[s]]]
  BY DEF Receive
<1>3. Good(s, sending[s], pending, current_request)
  BY <1>2 DEF Owned, GoodMessages
<1>4. /\ Keeps(pending, current_request, pending', current_request')
      /\ pending' = pending /\ current_request' = current_request
  BY <1>1, SameTable DEF masterVars
<1>5. ASSUME NEW p \in Procs, sending'[p] # Nothing
      PROVE  Good(p, sending'[p], pending', current_request')
  <2>1. sending'[p] = sending[p]
    BY <1>2, <1>5 DEF Owned, Typed, TypeOK, SocketOK
  <2> QED
    BY <1>4, <1>5, <2>1, KeptMessages
<1>6. ASSUME NEW p \in Procs, taken'[p] # Nothing
      PROVE  (Msg(p).to = p /\ Good(From(p), Msg(p), pending, current_request))'
  <2>1. CASE p = d
    <3>1. Msg(p)' = sending[s] /\ From(p)' = s
      BY <1>2, <2>1 DEF Msg, From, Owned, Typed, TypeOK, SocketOK
    <3> QED
      BY <1>2, <1>3, <1>4, <2>1, <3>1
  <2>2. CASE p # d
    <3>1. taken'[p] = taken[p]
      BY <1>2, <2>2 DEF Owned, Typed, TypeOK, SocketOK
    <3>2. Msg(p)' = Msg(p) /\ From(p)' = From(p)
      BY <3>1 DEF Msg, From
    <3> QED
      BY <1>4, <1>6, <3>1, <3>2, KeptMessages
  <2> QED
    BY <2>1, <2>2
<1>7. GoodMessages'
  BY <1>5, <1>6 DEF GoodMessages
<1>8. GoodJobs'
  BY <1>1, SameTable, KeptJobs DEF GoodJobs, Working
<1> QED
  BY <1>1, <1>7, <1>8, SameTable

\* Overrun keeps messages, handlers and the flag matched to the table.
LEMMA OwnedOverrun ==
  ASSUME Owned, NEW s \in Procs, NEW d \in Procs, Overrun(s, d)
  PROVE  GoodMessages' /\ GoodJobs' /\ BlockingHasQuery'
<1>1. UNCHANGED masterVars /\ UNCHANGED job
  BY DEF Overrun, StopsLingering
<1>2. \A p \in Procs : sending'[p] # Nothing => sending'[p] = sending[p]
  BY DEF Overrun, Owned, Typed, TypeOK, SocketOK, StopsLingering
<1>3. GoodMessages'
  BY <1>1, <1>2, SameTable, StillGood DEF Overrun, StopsLingering
<1>4. GoodJobs'
  BY <1>1, SameTable, KeptJobs DEF GoodJobs, Working
<1> QED
  BY <1>1, <1>3, <1>4, SameTable

\* FalseAcks keeps messages, handlers and the flag matched to the table.
LEMMA OwnedFalseAcks ==
  ASSUME Owned, NEW S \in SUBSET up, FalseAcks(S)
  PROVE  GoodMessages' /\ GoodJobs' /\ BlockingHasQuery'
<1>1. UNCHANGED masterVars /\ UNCHANGED job
  BY DEF FalseAcks
<1>2. \A p \in Procs : sending'[p] # Nothing => sending'[p] = sending[p]
  BY DEF FalseAcks
<1>3. GoodMessages'
  BY <1>1, <1>2, SameTable, StillGood DEF FalseAcks, socketVars
<1>4. GoodJobs'
  BY <1>1, SameTable, KeptJobs DEF GoodJobs, Working
<1> QED
  BY <1>1, <1>3, <1>4, SameTable

\* Crash keeps messages, handlers and the flag matched to the table.
LEMMA OwnedCrash ==
  ASSUME Owned, NEW p \in Procs, Crash(p)
  PROVE  GoodMessages' /\ GoodJobs' /\ BlockingHasQuery'
<1>1. UNCHANGED masterVars /\ Reply(p, Nothing)
  BY DEF Crash, Reply
<1>2. GoodMessages'
  BY <1>1, SameTable, ReplyGood
<1>3. \A r \in Working' : r \in Working /\ job'[r] = job[r]
  BY DEF Crash, Working
<1>4. GoodJobs'
  BY <1>1, <1>3, SameTable, KeptJobs DEF GoodJobs
<1> QED
  BY <1>1, <1>2, <1>4, SameTable

\* Invoke keeps messages, handlers and the flag matched to the table.
LEMMA OwnedInvoke ==
  ASSUME Owned, NEW c \in Clients, Invoke(c)
  PROVE  GoodMessages' /\ GoodJobs' /\ BlockingHasQuery'
<1>1. UNCHANGED masterVars
  BY DEF Invoke
<1>2. PICK r \in Requests : sending' = [sending EXCEPT ![c] = ClientCommand(r, c)]
  BY DEF Invoke
<1>3. r \in Request
  BY ClusterAssumption
<1>4. Good(c, ClientCommand(r, c), pending', current_request')
  BY <1>3, RequestFields DEF Good, ClientCommand, ParseNewNode, ParseNewQuery,
     ParseNewUpdate, ParseNewDelete, Commands
<1>5. GoodMessages'
  BY <1>1, <1>2, <1>4, SameTable, StillGood
     DEF Invoke, socketVars, Owned, Typed, TypeOK, SocketOK
<1>6. GoodJobs'
  BY <1>1, SameTable, KeptJobs DEF GoodJobs, Invoke, Working
<1> QED
  BY <1>1, <1>5, <1>6, SameTable

\* WaitResponse keeps messages, handlers and the flag matched to the table.
LEMMA OwnedWaitResponse ==
  ASSUME Owned, NEW c \in Clients, WaitResponse(c)
  PROVE  GoodMessages' /\ GoodJobs' /\ BlockingHasQuery'
<1>1. UNCHANGED masterVars
  BY DEF WaitResponse
<1>2. GoodMessages'
  BY <1>1, Separate, SameTable, ReplyGood DEF WaitResponse, Exit
<1>3. GoodJobs'
  BY <1>1, SameTable, KeptJobs DEF GoodJobs, WaitResponse, Working
<1> QED
  BY <1>1, <1>2, <1>3, SameTable

-----------------------------------------------------------------------------
\* A refusal goes back to the client that asked.
LEMMA OwnedRefuse ==
  ASSUME Owned, NEW kind, Refuse(kind),
         Taken(Master, Msg(Master).type), Msg(Master).type \in Commands
  PROVE  /\ Keeps(pending, current_request, pending', current_request')
         /\ GoodMessages'
<1> DEFINE m == Msg(Master)
           reply == ParseNewMessageResponse(From(Master), Say(kind), 0, m.cli)
<1>1. Keeps(pending, current_request, pending', current_request')
  BY DEF Refuse, Keeps, Owned, Typed, TypeOK, MasterOK
<1>2. From(Master) \in Clients /\ m.cli = From(Master)
  BY Separate, TakenMessage DEF Good
<1>3. Good(Master, reply, pending', current_request')
  BY <1>2, Separate DEF Good, ParseNewMessageResponse, Commands
<1> QED
  BY <1>1, <1>3, Separate, ReplyGood DEF Refuse

\* An accepted command goes to a repository under a number of its own.
LEMMA OwnedAccept ==
  ASSUME Owned, NEW state, NEW command,
         Accept(state, command),
         Taken(Master, Msg(Master).type), Msg(Master).type \in Commands,
         command.type \in Commands,
         command.type = "R" <=> state # Nothing,
         command.id = current_request, command.cli = Msg(Master).cli,
         command.to \in Repos
  PROVE  /\ Keeps(pending, current_request, pending', current_request')
         /\ GoodMessages'
         /\ DOMAIN pending' = DOMAIN pending \cup {current_request}
         /\ \A i \in DOMAIN pending : pending'[i] = pending[i]
         /\ pending'[current_request].state = state
<1>1. /\ current_request' = current_request + 1
      /\ DOMAIN pending' = DOMAIN pending \cup {current_request}
      /\ \A i \in DOMAIN pending' :
           pending'[i] = IF i = current_request
                           THEN [client |-> From(Master), state |-> state]
                           ELSE pending[i]
  BY DEF Accept, Enter
<1>2. /\ current_request \in Nat \ {0}
      /\ \A i \in DOMAIN pending : i \in 1..(current_request - 1)
  BY DEF Owned, Typed, TypeOK, MasterOK
<1>3. \A i \in DOMAIN pending : pending'[i] = pending[i]
  BY <1>1, <1>2
<1>4. Keeps(pending, current_request, pending', current_request')
  BY <1>1, <1>2, <1>3 DEF Keeps
<1>5. From(Master) \in Clients /\ Msg(Master).cli = From(Master)
  BY Separate, TakenMessage DEF Good
<1>6. Good(Master, command, pending', current_request')
  BY <1>1, <1>2, <1>5, Separate DEF Good, Fit, Commands
<1> QED
  BY <1>1, <1>3, <1>4, <1>6, Separate, ReplyGood DEF Accept

\* Creates, updates and deletes are refused or accepted under their own number.
LEMMA OwnedMasterWrite ==
  ASSUME Owned, NEW command,
         MasterWrite(command),
         Taken(Master, Msg(Master).type), Msg(Master).type \in Commands,
         command.type \in Commands \ {"R"},
         command.id = current_request, command.cli = Msg(Master).cli,
         repositories # <<>> => command.to \in Repos
  PROVE  GoodMessages' /\ GoodJobs' /\ BlockingHasQuery'
<1>1. /\ Keeps(pending, current_request, pending', current_request')
      /\ GoodMessages'
      /\ BlockingHasQuery'
  <2>1. ASSUME NEW kind, Refuse(kind)
        PROVE  /\ Keeps(pending, current_request, pending', current_request')
               /\ GoodMessages'
               /\ BlockingHasQuery'
    BY <2>1, OwnedRefuse DEF Refuse, MasterWrite, Owned, BlockingHasQuery
  <2>2. CASE repositories # <<>> /\ Accept(Nothing, command)
    <3>1. /\ Keeps(pending, current_request, pending', current_request')
          /\ GoodMessages'
          /\ DOMAIN pending' = DOMAIN pending \cup {current_request}
          /\ \A i \in DOMAIN pending : pending'[i] = pending[i]
      BY <2>2, OwnedAccept
    <3>2. BlockingHasQuery'
      BY <3>1 DEF MasterWrite, Owned, BlockingHasQuery
    <3> QED
      BY <3>1, <3>2
  <2> QED
    BY <2>1, <2>2 DEF MasterWrite
<1>2. GoodJobs'
  BY <1>1, KeptJobs DEF GoodJobs, MasterWrite, Working
<1> QED
  BY <1>1, <1>2

\* A command is routed to a repository when there is one.
LEMMA HomeIsRepo ==
  ASSUME Owned, Taken(Master, Msg(Master).type),
         Msg(Master).type \in Commands, repositories # <<>>
  PROVE  Home \in Repos
<1>1. Msg(Master) \in Message
  BY Separate, TakenMessage
<1> QED
  BY <1>1, CommandFields, RequestFields, RouteType
     DEF Home, Commands, Owned, Typed, TypeOK, MasterOK

\* The three write handlers of the main server keep the matching.
LEMMA OwnedMasterCommands ==
  ASSUME Owned, 
         MasterCreate \/ MasterUpdate \/ MasterDelete
  PROVE  GoodMessages' /\ GoodJobs' /\ BlockingHasQuery'
<1>1. /\ Taken(Master, Msg(Master).type)
      /\ Msg(Master).type \in Commands
  BY DEF MasterCreate, MasterUpdate, MasterDelete, Taken, Msg, Commands
<1>2. repositories # <<>> => Home \in Repos
  BY <1>1, HomeIsRepo
<1>3. CASE MasterCreate
  <2> DEFINE command == ParseNewNode(Home, Msg(Master).body, current_request,
                                     repositories, Msg(Master).cli)
  <2>1. /\ command.type \in Commands \ {"R"}
        /\ command.id = current_request
        /\ command.cli = Msg(Master).cli
        /\ command.to = Home
    BY DEF ParseNewNode, Commands
  <2>2. MasterWrite(command)
    BY <1>3 DEF MasterCreate
  <2> HIDE DEF command
  <2> QED
    BY <1>1, <1>2, <2>1, <2>2, OwnedMasterWrite
<1>4. CASE MasterUpdate
  <2> DEFINE command == ParseNewUpdate(Home, Msg(Master).body,
                                       current_request, Msg(Master).cli)
  <2>1. /\ command.type \in Commands \ {"R"}
        /\ command.id = current_request
        /\ command.cli = Msg(Master).cli
        /\ command.to = Home
    BY DEF ParseNewUpdate, Commands
  <2>2. MasterWrite(command)
    BY <1>4 DEF MasterUpdate
  <2> HIDE DEF command
  <2> QED
    BY <1>1, <1>2, <2>1, <2>2, OwnedMasterWrite
<1>5. CASE MasterDelete
  <2> DEFINE command == ParseNewDelete(Home, Msg(Master).body, current_request,
                                       repositories, Msg(Master).cli)
  <2>1. /\ command.type \in Commands \ {"R"}
        /\ command.id = current_request
        /\ command.cli = Msg(Master).cli
        /\ command.to = Home
    BY DEF ParseNewDelete, Commands
  <2>2. MasterWrite(command)
    BY <1>5 DEF MasterDelete
  <2> HIDE DEF command
  <2> QED
    BY <1>1, <1>2, <2>1, <2>2, OwnedMasterWrite
<1> QED
  BY <1>3, <1>4, <1>5

\* So does the query handler, which also sets cud_blocking.
LEMMA OwnedMasterQuery ==
  ASSUME Owned, MasterQuery
  PROVE  GoodMessages' /\ GoodJobs' /\ BlockingHasQuery'
<1> DEFINE b == Msg(Master).body
           state == NewState(b.name, b.depth, b.leaf, b.cond)
           command == ParseNewQuery(Home, b, current_request, Msg(Master).cli)
<1>1. /\ Taken(Master, Msg(Master).type)
      /\ Msg(Master).type = "R"
      /\ Msg(Master).type \in Commands
  BY DEF MasterQuery, Taken, Msg, Commands
<1>2. /\ Keeps(pending, current_request, pending', current_request')
      /\ GoodMessages'
      /\ BlockingHasQuery'
  <2>1. CASE repositories = <<>> /\ cud_blocking' = FALSE /\ Refuse("detached")
    BY <1>1, <2>1, OwnedRefuse DEF BlockingHasQuery
  <2>2. CASE /\ repositories # <<>>
             /\ Accept(state, command)
    <3>1. b \in QueryRequest
      BY <1>1, Separate, TakenMessage, CommandFields, RequestFields
    <3>2. WellFormed(state)
      BY <3>1, NewStateWellFormed DEF QueryRequest
    <3>3. state # Nothing
      BY <3>2, NothingAssumption DEF WellFormed
    <3>4. /\ command.type = "R" /\ command.type \in Commands
          /\ command.id = current_request
          /\ command.cli = Msg(Master).cli
          /\ command.to \in Repos
      BY <1>1, <2>2, HomeIsRepo DEF ParseNewQuery, Commands
    <3> HIDE DEF state, command
    <3>5. /\ Keeps(pending, current_request, pending', current_request')
          /\ GoodMessages'
          /\ DOMAIN pending' = DOMAIN pending \cup {current_request}
          /\ pending'[current_request].state = state
      BY <1>1, <2>2, <3>3, <3>4, OwnedAccept
    <3>6. BlockingHasQuery'
      BY <3>3, <3>5 DEF BlockingHasQuery
    <3> QED
      BY <3>5, <3>6
  <2> QED
    BY <2>1, <2>2 DEF MasterQuery
<1>3. GoodJobs'
  BY <1>2, KeptJobs DEF GoodJobs, MasterQuery, Working
<1> QED
  BY <1>2, <1>3

\* Forgetting a number disturbs nothing that carries another one.
LEMMA EraseKeeps ==
  ASSUME Owned, NEW id, Erase(id), UNCHANGED current_request
  PROVE  /\ Keeps(pending, current_request, pending', current_request')
         /\ id \notin DOMAIN pending'
         /\ DOMAIN pending' = DOMAIN pending \ {id}
         /\ \A i \in DOMAIN pending' : pending'[i] = pending[i]
<1>1. /\ DOMAIN pending' = DOMAIN pending \ {id}
      /\ \A i \in DOMAIN pending' : pending'[i] = pending[i]
  BY DEF Erase, Restrict
<1>2. current_request \in Nat
  BY DEF Owned, Typed, TypeOK, MasterOK
<1> QED
  BY <1>1, <1>2 DEF Keeps

\* The reply the main server passes on reaches the client it belongs to.
LEMMA PassedOn ==
  ASSUME Owned, NEW text,
         Msg(Master).type \in {"M", "I"},
         Good(From(Master), Msg(Master), pending, current_request),
         Msg(Master) \in Message,
         Msg(Master).id \in DOMAIN pending,
         Erase(Msg(Master).id), UNCHANGED current_request
  PROVE  Good(Master,
              ParseNewMessageResponse(pending[Msg(Master).id].client, text,
                                      Msg(Master).id, Msg(Master).cli),
              pending', current_request')
<1> DEFINE m == Msg(Master)
<1>1. /\ m.id \in Nat \ {0}
      /\ m.id < current_request
      /\ m.id \in 1..(current_request - 1)
      /\ current_request \in Nat
  BY DEF Owned, Typed, TypeOK, MasterOK
<1>2. pending[m.id].client = m.cli
  BY <1>1 DEF Good, Fit
<1>3. m.id \notin DOMAIN pending'
  BY EraseKeeps
<1> QED
  BY <1>1, <1>2, <1>3, Separate DEF Good, Fit, ParseNewMessageResponse, Commands

\* MasterMessage keeps messages, handlers and the flag matched to the table.
LEMMA OwnedMasterMessage ==
  ASSUME Owned, MasterMessage
  PROVE  GoodMessages' /\ GoodJobs' /\ BlockingHasQuery'
<1> DEFINE m == Msg(Master)
           reply == ParseNewMessageResponse(pending[m.id].client, m.text,
                                            m.id, m.cli)
<1>1. /\ m \in Message /\ m.type = "M"
      /\ Good(From(Master), m, pending, current_request)
  BY Separate, TakenMessage DEF MasterMessage
<1>2. /\ Keeps(pending, current_request, pending', current_request')
      /\ GoodMessages'
      /\ BlockingHasQuery'
  <2>1. CASE /\ m.id \in DOMAIN pending
             /\ Erase(m.id)
             /\ Reply(Master, reply)
    <3>1. UNCHANGED <<current_request, cud_blocking>>
      BY DEF MasterMessage
    <3>2. Good(Master, reply, pending', current_request')
      BY <1>1, <2>1, <3>1, PassedOn
    <3>3. /\ Keeps(pending, current_request, pending', current_request')
          /\ DOMAIN pending' = DOMAIN pending \ {m.id}
          /\ \A i \in DOMAIN pending' : pending'[i] = pending[i]
      BY <2>1, <3>1, EraseKeeps
    <3>4. GoodMessages'
      <4> HIDE DEF reply
      <4> QED
        BY <2>1, <3>2, <3>3, Separate, ReplyGood
    <3>5. m.id # 0
      BY <2>1 DEF Owned, Typed, TypeOK, MasterOK
    <3>6. pending[m.id].state = Nothing
      BY <1>1, <2>1, <3>5 DEF Good, Fit
    <3>7. BlockingHasQuery'
      BY <3>1, <3>3, <3>6 DEF Owned, BlockingHasQuery
    <3> QED
      BY <3>3, <3>4, <3>7
  <2>2. CASE Exit(Master) /\ UNCHANGED pending
    <3>1. UNCHANGED masterVars
      BY <2>2 DEF MasterMessage, masterVars
    <3> QED
      BY <2>2, <3>1, Separate, SameTable, ReplyGood DEF Exit
  <2> QED
    BY <2>1, <2>2 DEF MasterMessage
<1>3. GoodJobs'
  BY <1>2, KeptJobs DEF GoodJobs, MasterMessage, Working
<1> QED
  BY <1>2, <1>3

\* The end of a query answers its own client and clears cud_blocking.
LEMMA OwnedComplete ==
  ASSUME Owned, NEW text, Complete(text),
         Msg(Master).type = "I", Msg(Master) \in Message,
         Good(From(Master), Msg(Master), pending, current_request),
         Msg(Master).id \in DOMAIN pending, UNCHANGED current_request
  PROVE  /\ Keeps(pending, current_request, pending', current_request')
         /\ GoodMessages'
         /\ BlockingHasQuery'
<1> DEFINE reply == ParseNewMessageResponse(pending[Msg(Master).id].client, text,
                                            Msg(Master).id, Msg(Master).cli)
<1>1. Keeps(pending, current_request, pending', current_request')
  BY EraseKeeps DEF Complete
<1>2. Good(Master, reply, pending', current_request')
  BY PassedOn DEF Complete
<1>3. Reply(Master, reply)
  BY DEF Complete
<1>4. GoodMessages'
  <2> HIDE DEF reply
  <2> QED
    BY <1>1, <1>2, <1>3, Separate, ReplyGood
<1> QED
  BY <1>1, <1>4 DEF Complete, BlockingHasQuery

\* The next look-up of a query keeps its number and its client.
LEMMA OwnedContinue ==
  ASSUME Owned, NEW q, Continue(q), q # Nothing,
         Head(q.queue).name \in Names,
         Msg(Master).type = "I", Msg(Master) \in Message,
         Good(From(Master), Msg(Master), pending, current_request),
         IsQuery(Msg(Master).id), UNCHANGED current_request
  PROVE  /\ Keeps(pending, current_request, pending', current_request')
         /\ GoodMessages'
         /\ BlockingHasQuery'
<1> DEFINE m == Msg(Master)
           next == Head(q.queue)
           body == [op |-> "R", name |-> next.name, depth |-> next.left,
                    leaf |-> q.leaf, cond |-> q.cond]
           command == ParseNewQuery(Route(repositories, next.name), body,
                                    m.id, m.cli)
<1>1. /\ m.id \in DOMAIN pending
      /\ pending[m.id].state # Nothing
      /\ m.id # 0
      /\ current_request \in Nat
  BY DEF IsQuery, Owned, Typed, TypeOK, MasterOK
<1>2. /\ DOMAIN pending' = DOMAIN pending
      /\ \A i \in DOMAIN pending :
           /\ pending'[i].client = pending[i].client
           /\ pending'[i].state = IF i = m.id THEN q ELSE pending[i].state
  BY <1>1 DEF Continue, Owned, Typed, TypeOK, MasterOK, PendingEntry
<1>3. Keeps(pending, current_request, pending', current_request')
  BY <1>1, <1>2 DEF Keeps
<1>4. Route(repositories, next.name) \in Repos
  BY <1>1, RouteType DEF Owned, Typed, QueriesGoOn, TypeOK, MasterOK
<1>5. Good(Master, command, pending', current_request')
  <2>1. /\ command.type = "R" /\ command.id = m.id /\ command.cli = m.cli
        /\ command.to \in Repos
    BY <1>4 DEF ParseNewQuery
  <2>2. pending[m.id].client = m.cli /\ m.id < current_request
    BY <1>1 DEF Good, Fit
  <2> HIDE DEF command
  <2> QED
    BY <1>1, <1>2, <2>1, <2>2, Separate DEF Good, Fit, Commands
<1>6. Reply(Master, command)
  BY DEF Continue
<1>7. GoodMessages'
  <2> HIDE DEF command
  <2> QED
    BY <1>3, <1>5, <1>6, Separate, ReplyGood
<1>8. BlockingHasQuery'
  BY <1>1, <1>2 DEF BlockingHasQuery
<1> QED
  BY <1>3, <1>7, <1>8

\* MasterInfo keeps messages, handlers and the flag matched to the table.
LEMMA OwnedMasterInfo ==
  ASSUME Owned, MasterInfo
  PROVE  GoodMessages' /\ GoodJobs' /\ BlockingHasQuery'
<1> DEFINE m == Msg(Master)
           q == pending[m.id].state
<1>1. /\ m \in InfoMessage /\ m \in Message /\ m.type = "I"
      /\ Good(From(Master), m, pending, current_request)
  BY Separate, TakenMessage, MessageFields DEF MasterInfo
<1>2. UNCHANGED <<repositories, current_request>>
  BY DEF MasterInfo
<1>3. /\ Keeps(pending, current_request, pending', current_request')
      /\ GoodMessages'
      /\ BlockingHasQuery'
  <2>1. ASSUME IsQuery(m.id),
               NEW order \in SetToSeqs(Fresh(q, m.rels)),
               LET next == Absorb(q, m.valid, order) IN
               \/ /\ next.queue = <<>>
                  /\ Complete([kind |-> "query", found |-> next.response])
               \/ /\ next.queue # <<>>
                  /\ Continue(next)
        PROVE  /\ Keeps(pending, current_request, pending', current_request')
               /\ GoodMessages'
               /\ BlockingHasQuery'
    <3> DEFINE next == Absorb(q, m.valid, order)
    <3>1. WellFormed(q) /\ m.id \in DOMAIN pending
      BY <2>1 DEF IsQuery, Owned, Typed, QueriesGoOn
    <3>2. m.rels \in SUBSET Names /\ m.valid \in BOOLEAN
      BY <1>1 DEF InfoMessage
    <3>3. /\ order \in Seq(Names)
          /\ order # <<>> => Head(q.queue).left > 0
      BY <3>1, <3>2, OrderType DEF WellFormed
    <3>4. next \in QueryState(Names)
      BY <3>1, <3>2, <3>3, AbsorbType
    <3>5. next # Nothing
      BY <3>4, NothingAssumption
    <3>6. next.queue # <<>> => Head(next.queue).name \in Names
      <4> HIDE DEF next
      <4>1. next.queue \in Seq(Entry(Names))
        BY <3>4 DEF QueryState
      <4>2. next.queue # <<>> => Head(next.queue) \in Entry(Names)
        BY <4>1
      <4> QED
        BY <4>2 DEF Entry
    <3> HIDE DEF next
    <3> QED
      BY <1>1, <1>2, <2>1, <3>1, <3>5, <3>6, OwnedComplete, OwnedContinue
         DEF next
  <2>2. CASE IsQuery(m.id) /\ Complete(Say("internal"))
    BY <1>1, <1>2, <2>2, OwnedComplete DEF IsQuery
  <2>3. CASE Exit(Master) /\ UNCHANGED <<pending, cud_blocking>>
    <3>1. UNCHANGED masterVars
      BY <1>2, <2>3 DEF masterVars
    <3> QED
      BY <2>3, <3>1, Separate, SameTable, ReplyGood DEF Exit
  <2> QED
    BY <2>1, <2>2, <2>3 DEF MasterInfo
<1>4. GoodJobs'
  BY <1>3, KeptJobs DEF GoodJobs, MasterInfo, Working
<1> QED
  BY <1>3, <1>4

\* MasterEnrol keeps messages, handlers and the flag matched to the table.
LEMMA OwnedMasterEnrol ==
  ASSUME Owned, MasterEnrol
  PROVE  GoodMessages' /\ GoodJobs' /\ BlockingHasQuery'
<1>1. Keeps(pending, current_request, pending', current_request')
  BY DEF MasterEnrol, Keeps, Owned, Typed, TypeOK, MasterOK
<1>2. GoodMessages'
  BY <1>1, Separate, ReplyGood DEF MasterEnrol
<1>3. GoodJobs'
  BY <1>1, KeptJobs DEF GoodJobs, MasterEnrol, Working
<1>4. BlockingHasQuery'
  BY DEF MasterEnrol, Owned, BlockingHasQuery
<1> QED
  BY <1>2, <1>3, <1>4
-----------------------------------------------------------------------------
\* SetRepository keeps messages, handlers and the flag matched to the table.
LEMMA OwnedSetRepository ==
  ASSUME Owned, NEW r \in Repos, SetRepository(r)
  PROVE  GoodMessages' /\ GoodJobs' /\ BlockingHasQuery'
<1>1. UNCHANGED masterVars
  BY DEF SetRepository
<1>2. Good(r, RegisterRepository, pending', current_request')
  BY Separate DEF Good, RegisterRepository, Commands
<1>3. GoodMessages'
  BY <1>1, <1>2, SameTable, StillGood
     DEF SetRepository, socketVars, Owned, Typed, TypeOK, SocketOK
<1>4. GoodJobs'
  BY <1>1, SameTable, KeptJobs DEF GoodJobs, SetRepository, Working
<1> QED
  BY <1>1, <1>3, <1>4, SameTable

\* The handlers of a repository read nothing of the main server.
LEMMA OwnedHandOver ==
  ASSUME Owned, UNCHANGED masterVars, NEW r \in Repos,
         NEW reply, Reply(r, reply),
         reply = Nothing \/ Good(r, reply, pending, current_request),
         \A x \in Working' :
           \/ x \in Working /\ job'[x] = job[x]
           \/ GoodJob(job'[x], pending, current_request)
  PROVE  GoodMessages' /\ GoodJobs' /\ BlockingHasQuery'
<1>1. GoodMessages'
  BY Separate, SameTable, ReplyGood DEF masterVars
<1>2. GoodJobs'
  BY DEF GoodJobs, Owned, masterVars
<1> QED
  BY <1>1, <1>2, SameTable

\* A text about a number of a create, update or delete.
LEMMA GoodText ==
  ASSUME NEW r \in Repos, NEW host \in Procs \ Clients, NEW text,
         NEW id \in Nat, NEW cli,
         Fit(id, cli, "C", pending, current_request)
  PROVE  Good(r, ParseNewMessageResponse(host, text, id, cli),
              pending, current_request)
BY Separate DEF Good, Fit, ParseNewMessageResponse, Commands

\* A process that sends to a repository is no client.
LEMMA SenderOfRepo ==
  ASSUME Owned, NEW r \in Repos, NEW t, Taken(r, t)
  PROVE  From(r) \in Procs \ Clients
BY TakenMessage, Separate DEF Good

\* The number of a command that writes fits a handler that writes.
LEMMA CommandNumber ==
  ASSUME Owned, NEW d \in Procs, NEW t, Taken(d, t),
         t \in Commands \ {"R"}
  PROVE  Fit(Msg(d).id, Msg(d).cli, "C", pending, current_request)
<1>1. /\ Good(From(d), Msg(d), pending, current_request)
      /\ Msg(d).type = t
      /\ Msg(d) \in Message
  BY TakenMessage
<1>2. CASE Msg(d).id = 0
  BY <1>2 DEF Fit, Owned, Typed, TypeOK, MasterOK
<1>3. CASE Msg(d).id # 0
  BY <1>1, <1>3 DEF Good, Fit, Commands
<1> QED
  BY <1>2, <1>3

\* RepoCreate keeps messages, handlers and the flag matched to the table.
LEMMA OwnedRepoCreate ==
  ASSUME Owned, NEW r \in Repos, RepoCreate(r)
  PROVE  GoodMessages' /\ GoodJobs' /\ BlockingHasQuery'
<1> DEFINE m == Msg(r)
           b == m.body
           newJob == [name |-> b.name, todo |-> b.rels, id |-> m.id,
                      table |-> m.table, from |-> From(r), cli |-> m.cli,
                      kind |-> IF b.name \in nodes[r] THEN "exists"
                                                      ELSE "stored"]
           reply == ParseNewMessageResponse(From(r), Say("failed"), m.id, m.cli)
<1>1. /\ Taken(r, "C") /\ UNCHANGED masterVars
      /\ m \in Message /\ m.type = "C"
  BY Separate, TakenMessage DEF RepoCreate
<1>2. From(r) \in Procs \ Clients
  BY <1>1, SenderOfRepo
<1>3. Fit(m.id, m.cli, "C", pending, current_request) /\ m.id \in Nat
  BY <1>1, Separate, CommandNumber, MessageId DEF Commands
<1>4. Good(r, reply, pending, current_request)
  BY <1>2, <1>3, GoodText
<1>5. GoodJob(newJob, pending, current_request)
  BY <1>2, <1>3 DEF GoodJob
<1>6. Reply(r, Nothing) \/ Reply(r, reply)
  BY DEF RepoCreate, Exit
<1>7. UNCHANGED job \/ job' = [job EXCEPT ![r] = newJob]
  BY DEF RepoCreate
<1> HIDE DEF newJob, reply
<1>8. \A x \in Working' :
        \/ x \in Working /\ job'[x] = job[x]
        \/ GoodJob(job'[x], pending, current_request)
  BY <1>5, <1>7 DEF Working, Owned, Typed, TypeOK
<1> QED
  BY <1>1, <1>4, <1>6, <1>8, OwnedHandOver

\* RepoDelete keeps messages, handlers and the flag matched to the table.
LEMMA OwnedRepoDelete ==
  ASSUME Owned, NEW r \in Repos, RepoDelete(r)
  PROVE  GoodMessages' /\ GoodJobs' /\ BlockingHasQuery'
<1> DEFINE m == Msg(r)
           b == m.body
           body == [op |-> "D", name |-> b.rel, object |-> 2, rel |-> b.name]
           command == ParseNewDelete(Route(m.table, b.rel), body, 0, <<>>, m.cli)
           newJob == [name |-> b.name, todo |-> <<>>, id |-> m.id,
                      table |-> m.table, from |-> From(r), cli |-> m.cli,
                      kind |-> IF b.object = 1 THEN "cleared" ELSE "deleted"]
<1>1. /\ Taken(r, "D") /\ UNCHANGED masterVars
      /\ m \in Message /\ m.type = "D"
  BY Separate, TakenMessage DEF RepoDelete
<1>2. From(r) \in Procs \ Clients
  BY <1>1, SenderOfRepo
<1>3. Fit(m.id, m.cli, "C", pending, current_request) /\ m.id \in Nat
  BY <1>1, Separate, CommandNumber, MessageId DEF Commands
<1>4. b.object = 2 /\ m.table # <<>> =>
        Good(r, command, pending, current_request)
  <2>1. m.table \in Seq(Repos) /\ b \in DeleteRequest
    BY <1>1, CommandFields, RequestFields
  <2>2. m.table # <<>> => Route(m.table, b.rel) \in Repos
    BY <2>1, RouteType DEF DeleteRequest
  <2>3. /\ command.type = "D" /\ command.id = 0
        /\ command.to = Route(m.table, b.rel)
    BY DEF ParseNewDelete
  <2> HIDE DEF command
  <2> QED
    BY <2>2, <2>3, Separate DEF Good, Commands
<1>5. GoodJob(newJob, pending, current_request)
  BY <1>2, <1>3 DEF GoodJob
<1>6. \/ b.object = 2 /\ m.table # <<>> /\ Reply(r, command)
      \/ Reply(r, Nothing)
  BY DEF RepoDelete
<1>7. job' = [job EXCEPT ![r] = newJob]
  BY DEF RepoDelete
<1> HIDE DEF newJob, command
<1>8. \A x \in Working' :
        \/ x \in Working /\ job'[x] = job[x]
        \/ GoodJob(job'[x], pending, current_request)
  BY <1>5, <1>7 DEF Working, Owned, Typed, TypeOK
<1> QED
  BY <1>1, <1>4, <1>6, <1>8, OwnedHandOver

\* RepoQuery keeps messages, handlers and the flag matched to the table.
LEMMA OwnedRepoQuery ==
  ASSUME Owned, NEW r \in Repos, RepoQuery(r)
  PROVE  GoodMessages' /\ GoodJobs' /\ BlockingHasQuery'
<1> DEFINE m == Msg(r)
           reply == ParseNewInfoResponse(m.body.name, Master,
                                         RelatedTo(r, m.body.name), m.id,
                                         ValidNode(r, m.body), m.cli)
<1>1. /\ UNCHANGED masterVars /\ UNCHANGED job /\ Reply(r, reply)
      /\ m \in Message /\ m.type = "R"
      /\ Good(From(r), m, pending, current_request)
  BY Separate, TakenMessage DEF RepoQuery
<1>2. reply.type = "I" /\ reply.id = m.id /\ reply.cli = m.cli
  BY DEF ParseNewInfoResponse
<1> HIDE DEF reply
<1>3. Good(r, reply, pending, current_request)
  BY <1>1, <1>2, Separate DEF Good, Fit, Commands
<1> QED
  BY <1>1, <1>3, OwnedHandOver DEF Working

\* RepoUpdate keeps messages, handlers and the flag matched to the table.
LEMMA OwnedRepoUpdate ==
  ASSUME Owned, NEW r \in Repos, RepoUpdate(r)
  PROVE  GoodMessages' /\ GoodJobs' /\ BlockingHasQuery'
<1> DEFINE m == Msg(r)
           reply == ParseNewMessageResponse(Master, Say("updated"), m.id, m.cli)
<1>1. /\ Taken(r, "U") /\ UNCHANGED masterVars /\ UNCHANGED job
      /\ Reply(r, reply)
      /\ m \in Message /\ m.type = "U"
  BY Separate, TakenMessage DEF RepoUpdate
<1>2. Fit(m.id, m.cli, "C", pending, current_request) /\ m.id \in Nat
  BY <1>1, Separate, CommandNumber, MessageId DEF Commands
<1>3. Good(r, reply, pending, current_request)
  BY <1>2, Separate, GoodText
<1> QED
  BY <1>1, <1>3, OwnedHandOver DEF Working

\* RepoMessage keeps messages, handlers and the flag matched to the table.
LEMMA OwnedRepoMessage ==
  ASSUME Owned, NEW r \in Repos, RepoMessage(r)
  PROVE  GoodMessages' /\ GoodJobs' /\ BlockingHasQuery'
BY OwnedHandOver DEF RepoMessage, Exit, Working

\* The steps of a repository that no message starts.
LEMMA OwnedOwnStep ==
  ASSUME Owned, UNCHANGED masterVars, NEW r \in Repos, NEW reply,
         sending' = [sending EXCEPT ![r] = reply], UNCHANGED socketVars,
         reply = Nothing \/ Good(r, reply, pending, current_request),
         \A x \in Working' :
           \/ x \in Working /\ job'[x] = job[x]
           \/ GoodJob(job'[x], pending, current_request)
  PROVE  GoodMessages' /\ GoodJobs' /\ BlockingHasQuery'
<1>1. \A p \in Procs :
        sending'[p] # Nothing =>
          \/ sending'[p] = sending[p]
          \/ Good(p, sending'[p], pending', current_request')
  BY DEF Owned, Typed, TypeOK, SocketOK, masterVars
<1>2. GoodMessages'
  BY <1>1, SameTable, StillGood DEF socketVars
<1>3. GoodJobs'
  BY DEF GoodJobs, Owned, masterVars
<1> QED
  BY <1>2, <1>3, SameTable

\* RepoRelation keeps messages, handlers and the flag matched to the table.
LEMMA OwnedRepoRelation ==
  ASSUME Owned, NEW r \in Repos, RepoRelation(r)
  PROVE  GoodMessages' /\ GoodJobs' /\ BlockingHasQuery'
<1> DEFINE j == job[r]
           b == Head(j.todo)
           body == [op |-> "C", name |-> b, attr |-> FALSE, rels |-> <<j.name>>]
           command == ParseNewNode(Route(j.table, b), body, 0, <<>>, j.cli)
           reply == ParseNewMessageResponse(j.from, Say("failed"), j.id, j.cli)
           newJob == [j EXCEPT !.todo = Tail(@)]
           badJob == [j EXCEPT !.todo = Tail(@), !.kind = "failed"]
<1>1. /\ UNCHANGED masterVars /\ UNCHANGED socketVars
      /\ j \in Job /\ r \in Working /\ j.todo # <<>>
  BY DEF RepoRelation, Working, Owned, Typed, TypeOK
<1>2. GoodJob(j, pending, current_request)
  BY <1>1 DEF Owned, GoodJobs
<1>3. Good(r, reply, pending, current_request)
  BY <1>1, <1>2, GoodText DEF GoodJob, Job
<1>4. j.table # <<>> => Good(r, command, pending, current_request)
  <2>1. j.table # <<>> => Route(j.table, b) \in Repos
    BY <1>1, RouteType DEF Job
  <2>2. /\ command.type = "C" /\ command.id = 0
        /\ command.to = Route(j.table, b)
    BY DEF ParseNewNode
  <2> HIDE DEF command
  <2> QED
    BY <2>1, <2>2, Separate DEF Good, Commands
<1>5. /\ GoodJob(newJob, pending, current_request)
      /\ GoodJob(badJob, pending, current_request)
  BY <1>1, <1>2 DEF GoodJob, Job
<1>6. \/ sending' = [sending EXCEPT ![r] = Nothing]
      \/ j.table # <<>> /\ sending' = [sending EXCEPT ![r] = command]
      \/ sending' = [sending EXCEPT ![r] = reply]
  BY <1>1, Separate DEF RepoRelation, Owned, Typed, TypeOK, SocketOK
<1>7. \/ job' = [job EXCEPT ![r] = newJob]
      \/ job' = [job EXCEPT ![r] = badJob]
      \/ job' = [job EXCEPT ![r] = Nothing]
  BY DEF RepoRelation, Owned, Typed, TypeOK
<1> HIDE DEF newJob, badJob, command, reply, j
<1>8. \A x \in Working' :
        \/ x \in Working /\ job'[x] = job[x]
        \/ GoodJob(job'[x], pending, current_request)
  BY <1>5, <1>7 DEF Working, Owned, Typed, TypeOK
<1> QED
  BY <1>1, <1>3, <1>4, <1>6, <1>8, OwnedOwnStep

\* RepoFinish keeps messages, handlers and the flag matched to the table.
LEMMA OwnedRepoFinish ==
  ASSUME Owned, NEW r \in Repos, RepoFinish(r)
  PROVE  GoodMessages' /\ GoodJobs' /\ BlockingHasQuery'
<1> DEFINE j == job[r]
           reply == ParseNewMessageResponse(Master, Say(j.kind), j.id, j.cli)
<1>1. /\ UNCHANGED masterVars /\ UNCHANGED socketVars
      /\ j \in Job /\ r \in Working
  BY DEF RepoFinish, Working, Owned, Typed, TypeOK
<1>2. GoodJob(j, pending, current_request)
  BY <1>1 DEF Owned, GoodJobs
<1>3. Good(r, reply, pending, current_request)
  BY <1>1, <1>2, Separate, GoodText DEF GoodJob, Job
<1>4. \/ sending' = [sending EXCEPT ![r] = Nothing]
      \/ sending' = [sending EXCEPT ![r] = reply]
  BY DEF RepoFinish
<1>5. \A x \in Working' : x \in Working /\ job'[x] = job[x]
  BY DEF RepoFinish, Working, Owned, Typed, TypeOK
<1> HIDE DEF reply
<1> QED
  BY <1>1, <1>3, <1>4, <1>5, OwnedOwnStep

-----------------------------------------------------------------------------
\* Every cluster starts with no number given out.
THEOREM OwnedInit == Init => Owned
<1> SUFFICES ASSUME Init PROVE Owned
  OBVIOUS
<1>1. GoodMessages /\ GoodJobs
  BY DEF Init, GoodMessages, GoodJobs, Working
<1>2. BlockingHasQuery
  BY DEF Init, BlockingHasQuery
<1> QED
  BY <1>1, <1>2, TypedInit DEF Owned

\* Owned is inductive while the main server is not started again.
THEOREM OwnedStep ==
  ASSUME Master \notin Mortal
  PROVE  Owned /\ [Next]_vars => Owned'
<1> SUFFICES ASSUME Owned, [Next]_vars
             PROVE  GoodMessages' /\ GoodJobs' /\ BlockingHasQuery'
  BY TypedStep DEF Owned
<1> DEFINE Goal == GoodMessages' /\ GoodJobs' /\ BlockingHasQuery'
<1>1. ASSUME MasterStep PROVE Goal
  BY <1>1, OwnedMasterCommands, OwnedMasterQuery, OwnedMasterMessage,
     OwnedMasterInfo, OwnedMasterEnrol DEF MasterStep
<1>2. ASSUME NEW r \in Repos, RepoStep(r) PROVE Goal
  BY <1>2, OwnedRepoCreate, OwnedRepoRelation, OwnedRepoFinish, OwnedRepoQuery,
     OwnedRepoUpdate, OwnedRepoDelete, OwnedRepoMessage DEF RepoStep
<1>3. CASE Work
  BY <1>1, <1>2, <1>3, OwnedReceive, OwnedOverrun, OwnedFalseAcks,
     OwnedWaitResponse DEF Work
<1>4. CASE \E c \in Clients : Invoke(c)
  BY <1>4, OwnedInvoke
<1>5. CASE \E r \in Repos : SetRepository(r)
  BY <1>5, OwnedSetRepository
<1>6. CASE SetServer
  BY <1>6 DEF SetServer
<1>7. CASE \E p \in Procs : Crash(p)
  BY <1>7, OwnedCrash
<1>8. CASE UNCHANGED vars
  <2>1. UNCHANGED masterVars /\ UNCHANGED procVars
    BY <1>8 DEF vars
  <2> QED
    BY <2>1, SameTable DEF Owned, procVars, socketVars, masterVars, GoodMessages,
       GoodJobs, Working, Msg, From
<1> QED
  BY <1>3, <1>4, <1>5, <1>6, <1>7, <1>8 DEF Next

\* A message in flight is good for some sender.
LEMMA HeldGood ==
  ASSUME Owned, NEW p \in InFlight
  PROVE  \E q : Good(q, Held(p), pending, current_request)
BY DEF Owned, GoodMessages, InFlight, Held, Msg

\* Owned holds in every reachable state of a main server that never restarts.
LEMMA OwnedAlways ==
  ASSUME Master \notin Mortal
  PROVE  Spec => []Owned
BY OwnedInit, OwnedStep, PTL DEF Spec

(***************************************************************************)
(* Every request number in a message or in a handler is matched in the     *)
(* table of the main server to the client the work is for, and to a query  *)
(* exactly when the message is one of a query's.                           *)
(***************************************************************************)
THEOREM NumbersMatch ==
  ASSUME Master \notin Mortal
  PROVE  Spec => []Matching
<1>1. ASSUME Owned PROVE MatchingMessages
  <2> SUFFICES ASSUME NEW p \in Numbered
               PROVE  Fit(Held(p).id, Held(p).cli, Held(p).type, pending,
                          current_request)
    BY DEF MatchingMessages
  <2>1. /\ p \in InFlight
        /\ Held(p).type # "E"
        /\ Held(p).id # 0
    BY DEF Numbered
  <2>2. \E q : Good(q, Held(p), pending, current_request)
    BY <1>1, <2>1, HeldGood
  <2> QED
    BY <2>1, <2>2 DEF Good
<1>2. ASSUME Owned PROVE MatchingJobs
  BY <1>2 DEF Owned, GoodJobs, GoodJob, MatchingJobs
<1>3. Owned => Matching
  BY <1>1, <1>2 DEF Matching
<1> QED
  BY <1>3, OwnedAlways, PTL

(***************************************************************************)
(* No client ever receives the answer to another client's request,         *)
(* whatever repositories die, fail, come back or join, and whatever        *)
(* messages the transport loses.                                           *)
(***************************************************************************)
THEOREM NoCrossTalk ==
  ASSUME Master \notin Mortal
  PROVE  Spec => []AnswersOwn
<1>1. Owned => AnswersOwn
  <2> SUFFICES ASSUME Owned, NEW p \in InFlight PROVE
         Held(p).type = "M" /\ Held(p).to \in Clients
           => Held(p).to = Held(p).cli
    BY DEF AnswersOwn
  <2>1. \E q : Good(q, Held(p), pending, current_request)
    BY HeldGood
  <2> QED
    BY <2>1 DEF Good
<1> QED
  BY <1>1, OwnedAlways, PTL

(***************************************************************************)
(* When creates, updates and deletes are refused there is a query in the   *)
(* table that can still let them in again.                                 *)
(***************************************************************************)
THEOREM BlockingIsForAQuery ==
  ASSUME Master \notin Mortal
  PROVE  Spec => []BlockingHasQuery
<1>1. Owned => BlockingHasQuery
  BY DEF Owned
<1> QED
  BY <1>1, OwnedAlways, PTL

-----------------------------------------------------------------------------
(***************************************************************************)
(* The traversal of a query: what the queue of a query looks like at all   *)
(* times, and that each report the main server reads is about the node at  *)
(* its front.                                                              *)
(***************************************************************************)

\* What a report makes of the queue and of the list, position by position.
LEMMA AbsorbFields ==
  ASSUME NEW q, WellFormed(q), NEW order \in Seq(Names), NEW valid
  PROVE  LET n    == Len(q.queue)
             k    == Len(order)
             top  == q.queue[1]
             next == Absorb(q, valid, order)
         IN
         /\ n \in Nat \ {0} /\ k \in Nat
         /\ DOMAIN q.queue = 1..n /\ DOMAIN order = 1..k
         /\ DOMAIN next.queue = 1..(n - 1 + k)
         /\ \A i \in 1..(n - 1) : next.queue[i] = q.queue[i + 1]
         /\ \A i \in n..(n - 1 + k) :
              next.queue[i] = [name |-> order[i - n + 1], left |-> top.left - 1]
         /\ next.visited = q.visited \cup ToSet(order)
         /\ next.depth = q.depth
<1> DEFINE n == Len(q.queue)
           k == Len(order)
           top == q.queue[1]
           next == Absorb(q, valid, order)
           added == [i \in DOMAIN order |->
                       [name |-> order[i], left |-> top.left - 1]]
           T == [name : Names, left : Int]
<1>1. /\ q.queue \in Seq(Entry(Names)) /\ q.queue # <<>>
      /\ n \in Nat \ {0} /\ k \in Nat
      /\ DOMAIN q.queue = 1..n /\ DOMAIN order = 1..k
  BY DEF WellFormed, QueryState
<1>2. Head(q.queue) = top
  BY <1>1
<1>3. /\ next.queue = Tail(q.queue) \o added
      /\ next.visited = q.visited \cup ToSet(order)
      /\ next.depth = q.depth
  BY <1>2 DEF Absorb, WellFormed, QueryState
<1>4. added = [i \in 1..k |-> [name |-> order[i], left |-> top.left - 1]]
  BY <1>1
<1>5. added \in Seq(T) /\ Len(added) = k
  <2>1. top \in Entry(Names)
    BY <1>1
  <2>2. top.left \in Nat
    BY <2>1 DEF Entry
  <2>3. \A i \in 1..k : added[i] \in T
    BY <1>1, <1>4, <2>2
  <2> QED
    BY <1>1, <1>4, <2>3
<1>6. /\ Tail(q.queue) \in Seq(T) /\ Len(Tail(q.queue)) = n - 1
      /\ \A i \in 1..(n - 1) : Tail(q.queue)[i] = q.queue[i + 1]
  <2>1. Entry(Names) \subseteq T
    BY DEF Entry
  <2> HIDE DEF T
  <2>2. \A i \in 1..n : q.queue[i] \in Entry(Names)
    BY <1>1
  <2>3. q.queue \in Seq(T)
    BY <1>1, <2>1, <2>2
  <2> QED
    BY <1>1, <2>3
<1> HIDE DEF added, n, k, T
<1>7. DOMAIN next.queue = 1..(n - 1 + k)
  <2>1. Len(Tail(q.queue) \o added) = Len(Tail(q.queue)) + Len(added)
    BY <1>5, <1>6, ConcatProperties
  <2>2. DOMAIN (Tail(q.queue) \o added) = 1..Len(Tail(q.queue) \o added)
    BY <1>5, <1>6
  <2> QED
    BY <1>1, <1>3, <1>5, <1>6, <2>1, <2>2
<1>8. \A i \in 1..(n - 1) : next.queue[i] = q.queue[i + 1]
  BY <1>1, <1>3, <1>5, <1>6
<1>9. ASSUME NEW i \in n..(n - 1 + k)
      PROVE  next.queue[i] = [name |-> order[i - n + 1], left |-> top.left - 1]
  <2>1. i - (n - 1) = i - n + 1 /\ i - n + 1 \in 1..k
    BY <1>1
  <2>2. next.queue[i] = added[i - n + 1]
    BY <1>1, <1>3, <1>5, <1>6, <2>1
  <2> QED
    BY <1>4, <2>1, <2>2
<1> QED
  BY <1>1, <1>3, <1>7, <1>8, <1>9 DEF n, k

\* The node at the front is listed behind the others, or no node is.
LEMMA AbsorbResponse ==
  ASSUME NEW q, WellFormed(q), NEW order, NEW valid \in BOOLEAN
  PROVE  LET h    == Len(q.response)
             top  == q.queue[1]
             next == Absorb(q, valid, order)
         IN
         /\ h \in Nat /\ DOMAIN q.response = 1..h
         /\ \/ next.response = q.response
            \/ /\ DOMAIN next.response = 1..(h + 1)
               /\ \A i \in 1..h : next.response[i] = q.response[i]
               /\ next.response[h + 1] =
                    [name |-> top.name, depth |-> q.depth - top.left]
<1>1. Head(q.queue) = q.queue[1] /\ q.response \in Seq(Listed(Names))
  BY DEF WellFormed, QueryState
<1>2. Absorb(q, valid, order).response =
        IF valid THEN Append(q.response,
                             [name |-> q.queue[1].name,
                              depth |-> q.depth - q.queue[1].left])
                 ELSE q.response
  BY <1>1 DEF Absorb, WellFormed, QueryState
<1> QED
  BY <1>1, <1>2

\* Fresh nodes are new to the query, and come once each.
LEMMA OrderFresh ==
  ASSUME NEW q, NEW related, NEW order \in SetToSeqs(Fresh(q, related)),
         order \in Seq(Names)
  PROVE  /\ \A i \in 1..Len(order) : order[i] \notin q.visited
         /\ \A i, j \in 1..Len(order) : i # j => order[i] # order[j]
<1> DEFINE S == Fresh(q, related)
<1>1. /\ order \in [1..Cardinality(S) -> S]
      /\ \A i, j \in 1..Cardinality(S) : i # j => order[i] # order[j]
  BY DEF SetToSeqs
<1>2. 1..Cardinality(S) = 1..Len(order)
  BY <1>1
<1>3. S \cap q.visited = {}
  BY DEF Fresh
<1> QED
  BY <1>1, <1>2, <1>3

\* The only node of a new query is visited, and nothing is listed yet.
LEMMA NewStateLayered ==
  ASSUME NEW name \in Names, NEW depth \in Nat, NEW leaf, NEW cond
  PROVE  Layered(NewState(name, depth, leaf, cond))
<1> DEFINE q == NewState(name, depth, leaf, cond)
<1>1. /\ q.queue = <<[name |-> name, left |-> depth]>>
      /\ q.visited = {name} /\ q.response = <<>>
      /\ DOMAIN q.queue = {1} /\ DOMAIN q.response = {}
  BY DEF NewState
<1>2. NamesOf(q.queue) = {name} /\ NamesOf(q.response) = {}
  BY <1>1 DEF NamesOf
<1> QED
  BY <1>1, <1>2 DEF Layered

\* The depths left and the depths printed are numbers.
LEMMA Depths ==
  ASSUME NEW q, WellFormed(q)
  PROVE  /\ q.depth \in Nat
         /\ \A i \in DOMAIN q.queue : q.queue[i].left \in Nat
         /\ \A i \in DOMAIN q.response : q.response[i].depth \in Nat
<1>1. /\ q.depth \in Nat
      /\ q.queue \in Seq(Entry(Names))
      /\ q.response \in Seq(Listed(Names))
  BY DEF WellFormed, QueryState
<1>2. /\ \A i \in DOMAIN q.queue : q.queue[i] \in Entry(Names)
      /\ \A i \in DOMAIN q.response : q.response[i] \in Listed(Names)
  BY <1>1
<1> QED
  BY <1>1, <1>2 DEF Entry, Listed

(***************************************************************************)
(* A report keeps the layers: what enters the queue is new, and one deeper *)
(* than the node at the front; what was behind that node is as deep as it, *)
(* or one deeper.                                                          *)
(***************************************************************************)
LEMMA AbsorbLayered ==
  ASSUME NEW q, WellFormed(q), Layered(q),
         NEW related \in SUBSET Names,
         NEW order \in SetToSeqs(Fresh(q, related)), NEW valid \in BOOLEAN
  PROVE  Layered(Absorb(q, valid, order))
<1> DEFINE n == Len(q.queue)
           k == Len(order)
           h == Len(q.response)
           top == q.queue[1]
           next == Absorb(q, valid, order)
<1>1. order \in Seq(Names)
  BY OrderType DEF WellFormed
<1>2. /\ n \in Nat \ {0} /\ k \in Nat
      /\ DOMAIN q.queue = 1..n
      /\ DOMAIN next.queue = 1..(n - 1 + k)
      /\ \A i \in 1..(n - 1) : next.queue[i] = q.queue[i + 1]
      /\ \A i \in n..(n - 1 + k) :
           next.queue[i] = [name |-> order[i - n + 1], left |-> top.left - 1]
      /\ next.visited = q.visited \cup {order[i] : i \in 1..k}
      /\ next.depth = q.depth
  <2>1. /\ n \in Nat \ {0} /\ k \in Nat
        /\ DOMAIN q.queue = 1..n /\ DOMAIN order = 1..k
        /\ DOMAIN next.queue = 1..(n - 1 + k)
        /\ \A i \in 1..(n - 1) : next.queue[i] = q.queue[i + 1]
        /\ \A i \in n..(n - 1 + k) :
             next.queue[i] = [name |-> order[i - n + 1], left |-> top.left - 1]
        /\ next.visited = q.visited \cup ToSet(order)
        /\ next.depth = q.depth
    BY <1>1, AbsorbFields, Zenon
  <2>2. ToSet(order) = {order[i] : i \in 1..k}
    BY <2>1 DEF ToSet
  <2> QED
    BY <2>1, <2>2
<1>3. /\ h \in Nat /\ DOMAIN q.response = 1..h
      /\ \/ next.response = q.response
         \/ /\ DOMAIN next.response = 1..(h + 1)
            /\ \A i \in 1..h : next.response[i] = q.response[i]
            /\ next.response[h + 1] =
                 [name |-> top.name, depth |-> q.depth - top.left]
  BY AbsorbResponse
<1>4. /\ \A i \in 1..k : order[i] \notin q.visited
      /\ \A i, j \in 1..k : i # j => order[i] # order[j]
  BY <1>1, OrderFresh
<1>5. /\ q.depth \in Nat
      /\ \A i \in 1..n : q.queue[i].left \in Nat
      /\ \A i \in 1..h : q.response[i].depth \in Nat
  BY <1>2, <1>3, Depths
<1> HIDE DEF n, k, h, next
<1>6. /\ \A i, j \in 1..n :
           i < j => /\ q.queue[i].name # q.queue[j].name
                    /\ q.queue[j].left \in
                         {q.queue[i].left, q.queue[i].left - 1}
      /\ \A i, j \in 1..h :
           i < j => /\ q.response[i].name # q.response[j].name
                    /\ q.response[i].depth <= q.response[j].depth
      /\ \A i \in 1..n : q.queue[i].name \in q.visited
      /\ \A j \in 1..h : q.response[j].name \in q.visited
      /\ \A i \in 1..n, j \in 1..h :
           /\ q.queue[i].name # q.response[j].name
           /\ q.response[j].depth + q.queue[i].left <= q.depth
  <2>1. /\ \A i \in 1..n : q.queue[i].name \in NamesOf(q.queue)
        /\ \A j \in 1..h : q.response[j].name \in NamesOf(q.response)
    BY <1>2, <1>3 DEF NamesOf
  <2> QED
    BY <1>2, <1>3, <2>1 DEF Layered
\* Where the nodes of the queue come from,
<1>7. ASSUME NEW i \in 1..(n - 1 + k)
      PROVE  \/ /\ i \in 1..(n - 1) /\ i + 1 \in 2..n
                /\ next.queue[i] = q.queue[i + 1]
             \/ /\ i \in n..(n - 1 + k) /\ i - n + 1 \in 1..k
                /\ next.queue[i].name = order[i - n + 1]
                /\ next.queue[i].left = top.left - 1
  <2>1. CASE i \in 1..(n - 1)
    BY <1>2, <2>1
  <2>2. CASE i \in n..(n - 1 + k)
    <3>1. i - n + 1 \in 1..k
      BY <1>2, <2>2
    <3>2. next.queue[i] = [name |-> order[i - n + 1], left |-> top.left - 1]
      BY <1>2, <2>2
    <3> QED
      BY <2>2, <3>1, <3>2
  <2> QED
    BY <1>2, <2>1, <2>2
\* and those of the list.
<1>8. ASSUME NEW j \in DOMAIN next.response
      PROVE  \/ j \in 1..h /\ next.response[j] = q.response[j]
             \/ /\ j = h + 1
                /\ next.response[j].name = top.name
                /\ next.response[j].depth = q.depth - top.left
  BY <1>3
<1>9. 1 \in 1..n /\ top.left \in Nat /\ top.name \in q.visited
  BY <1>2, <1>5, <1>6
<1>10. \A i \in 1..(n - 1) :
         q.queue[i + 1].left \in {top.left, top.left - 1}
  BY <1>2, <1>6, <1>9
<1>11. ASSUME NEW i \in DOMAIN next.queue, NEW j \in DOMAIN next.queue, i < j
       PROVE  /\ next.queue[i].name # next.queue[j].name
              /\ next.queue[j].left \in
                   {next.queue[i].left, next.queue[i].left - 1}
  <2>1. CASE j \in 1..(n - 1)
    <3>1. i \in 1..(n - 1)
      BY <1>2, <1>11, <2>1
    <3>2. i + 1 \in 1..n /\ j + 1 \in 1..n /\ i + 1 < j + 1
      BY <1>2, <1>11, <2>1, <3>1
    <3>3. next.queue[i] = q.queue[i + 1] /\ next.queue[j] = q.queue[j + 1]
      BY <1>2, <2>1, <3>1
    <3> QED
      BY <1>6, <3>2, <3>3
  <2>2. CASE i \in 1..(n - 1) /\ j \in n..(n - 1 + k)
    <3>1. q.queue[i + 1].name \in q.visited
      BY <1>2, <1>6, <2>2
    <3>2. /\ order[j - n + 1] \notin q.visited
          /\ next.queue[j].name = order[j - n + 1]
          /\ next.queue[j].left = top.left - 1
      BY <1>2, <1>4, <1>7, <2>2
    <3>3. next.queue[i].left \in {top.left, top.left - 1}
      BY <1>2, <1>10, <2>2
    <3> QED
      BY <1>2, <1>9, <2>2, <3>1, <3>2, <3>3
  <2>3. CASE i \in n..(n - 1 + k) /\ j \in n..(n - 1 + k)
    <3>1. order[i - n + 1] # order[j - n + 1]
      BY <1>2, <1>4, <1>11, <2>3
    <3>2. next.queue[i] = [name |-> order[i - n + 1], left |-> top.left - 1]
      BY <1>2, <2>3, Zenon
    <3>3. next.queue[j] = [name |-> order[j - n + 1], left |-> top.left - 1]
      BY <1>2, <2>3, Zenon
    <3>4. top.left - 1 \in {top.left - 1, top.left - 1 - 1}
      OBVIOUS
    <3> QED
      BY <3>1, <3>2, <3>3, <3>4
  <2> QED
    BY <1>2, <1>11, <2>1, <2>2, <2>3
<1>12. ASSUME NEW i \in DOMAIN next.response, NEW j \in DOMAIN next.response,
              i < j
       PROVE  /\ next.response[i].name # next.response[j].name
              /\ next.response[i].depth <= next.response[j].depth
  <2>1. CASE j \in 1..h
    <3>1. i \in 1..h
      BY <1>3, <1>8, <1>12, <2>1
    <3>2. next.response[i] = q.response[i] /\ next.response[j] = q.response[j]
      BY <1>3, <2>1, <3>1
    <3>3. /\ q.response[i].name # q.response[j].name
          /\ q.response[i].depth <= q.response[j].depth
      BY <1>6, <1>12, <2>1, <3>1
    <3> QED
      BY <3>2, <3>3
  <2>2. CASE j = h + 1
    <3>1. i \in 1..h /\ next.response[i] = q.response[i]
      BY <1>3, <1>8, <1>12, <2>2
    <3>2. next.response[j].name = top.name
          /\ next.response[j].depth = q.depth - top.left
      BY <1>3, <1>8, <2>2
    <3>3. /\ top.name # q.response[i].name
          /\ q.response[i].depth + top.left <= q.depth
      BY <1>6, <1>9, <3>1
    <3> QED
      BY <1>5, <1>9, <3>1, <3>2, <3>3
  <2> QED
    BY <1>8, <2>1, <2>2
<1>13. ASSUME NEW i \in DOMAIN next.queue
       PROVE  /\ next.queue[i].name \in next.visited
              /\ next.queue[i].name # top.name
              /\ \A j \in 1..h : next.queue[i].name # q.response[j].name
              /\ next.queue[i].left <= top.left
              /\ next.queue[i].left \in Int
  <2>1. CASE i \in 1..(n - 1)
    <3>1. i + 1 \in 1..n /\ 1 < i + 1 /\ next.queue[i] = q.queue[i + 1]
      BY <1>2, <2>1
    <3>2. next.queue[i].left \in {top.left, top.left - 1}
      BY <1>10, <2>1, <3>1
    <3> QED
      BY <1>2, <1>6, <1>9, <3>1, <3>2
  <2>2. CASE i \in n..(n - 1 + k)
    <3>1. i \in 1..(n - 1 + k) /\ i \notin 1..(n - 1)
      BY <1>2, <2>2
    <3>2. /\ i - n + 1 \in 1..k
          /\ next.queue[i].name = order[i - n + 1]
          /\ next.queue[i].left = top.left - 1
      BY <1>7, <3>1
    <3>3. /\ order[i - n + 1] \notin q.visited
          /\ order[i - n + 1] \in next.visited
      BY <1>2, <1>4, <3>2
    <3> QED
      BY <1>6, <1>9, <3>2, <3>3
  <2> QED
    BY <1>2, <2>1, <2>2
<1>14. ASSUME NEW j \in DOMAIN next.response
       PROVE  next.response[j].name \in next.visited
  BY <1>2, <1>6, <1>8, <1>9
<1>15. ASSUME NEW i \in DOMAIN next.queue, NEW j \in DOMAIN next.response
       PROVE  /\ next.queue[i].name # next.response[j].name
              /\ next.response[j].depth + next.queue[i].left <= next.depth
  <2>1. CASE j \in 1..h /\ next.response[j] = q.response[j]
    <3>1. q.response[j].depth + top.left <= q.depth
      BY <1>6, <1>9, <2>1
    <3>2. /\ next.queue[i].name # q.response[j].name
          /\ next.queue[i].left <= top.left /\ next.queue[i].left \in Int
      BY <1>13, <2>1
    <3>3. q.response[j].depth \in Nat /\ top.left \in Nat /\ q.depth \in Nat
      BY <1>2, <1>5, <2>1
    <3>4. q.response[j].depth + next.queue[i].left <= q.depth
      BY <3>1, <3>2, <3>3
    <3> QED
      BY <1>2, <2>1, <3>2, <3>4
  <2>2. CASE /\ next.response[j].name = top.name
             /\ next.response[j].depth = q.depth - top.left
    BY <1>2, <1>5, <1>9, <1>13, <2>2
  <2> QED
    BY <1>8, <2>1, <2>2
<1>16. /\ NamesOf(next.queue) \cap NamesOf(next.response) = {}
       /\ NamesOf(next.queue) \cup NamesOf(next.response) \subseteq next.visited
  BY <1>13, <1>14, <1>15 DEF NamesOf
<1>17. Layered(next)
  BY <1>11, <1>12, <1>15, <1>16 DEF Layered
<1> QED
  BY <1>17 DEF next

-----------------------------------------------------------------------------
\* An entry without a query, or one whose queue is as a search keeps it.
InLayers(state) ==
  state # Nothing => state.queue # <<>> /\ Layered(state)

\* Entries that stay, go, or are in layers leave the table in layers.
LEMMA FrontierKept ==
  ASSUME Frontier,
         \A i \in DOMAIN pending' :
           \/ i \in DOMAIN pending /\ pending'[i].state = pending[i].state
           \/ InLayers(pending'[i].state)
  PROVE  Frontier'
BY DEF Frontier, InLayers

\* A command that is accepted enters the table in layers, or as no query.
LEMMA FrontierAccept ==
  ASSUME Frontier, NEW state, NEW command, Accept(state, command),
         InLayers(state)
  PROVE  Frontier'
<1>1. \A i \in DOMAIN pending' :
        \/ i \in DOMAIN pending /\ pending'[i] = pending[i]
        \/ pending'[i] = [client |-> From(Master), state |-> state]
  BY DEF Accept, Enter
<1> QED
  BY <1>1, FrontierKept

\* The numbers that stay when one is forgotten stay what they are.
LEMMA FrontierErase ==
  ASSUME Frontier, NEW id, Erase(id)
  PROVE  Frontier'
<1>1. \A i \in DOMAIN pending' :
        i \in DOMAIN pending /\ pending'[i] = pending[i]
  BY DEF Erase, Restrict
<1> QED
  BY <1>1, FrontierKept

\* The write handlers of the main server enter no query.
LEMMA FrontierWrite ==
  ASSUME Frontier, NEW command, MasterWrite(command)
  PROVE  Frontier'
<1>1. InLayers(Nothing)
  BY DEF InLayers
<1>2. UNCHANGED pending \/ Accept(Nothing, command)
  BY DEF MasterWrite, Refuse
<1>3. CASE UNCHANGED pending
  BY <1>3, FrontierKept
<1> QED
  BY <1>1, <1>2, <1>3, FrontierAccept

\* MasterQuery enters a query with one layer.
LEMMA FrontierMasterQuery ==
  ASSUME Typed, Frontier, MasterQuery
  PROVE  Frontier'
<1> DEFINE b == Msg(Master).body
           state == NewState(b.name, b.depth, b.leaf, b.cond)
           command == ParseNewQuery(Home, b, current_request, Msg(Master).cli)
<1>1. UNCHANGED pending \/ Accept(state, command)
  BY DEF MasterQuery, Refuse
<1>2. b \in QueryRequest
  <2>1. Msg(Master) \in Message /\ Msg(Master).type = "R"
    BY IncomingMessage DEF MasterQuery, Typed, Procs
  <2> QED
    BY <2>1, CommandFields, RequestFields
<1>3. InLayers(state)
  BY <1>2, NewStateWellFormed, NewStateLayered
     DEF InLayers, QueryRequest, WellFormed
<1>4. CASE UNCHANGED pending
  BY <1>4, FrontierKept
<1> HIDE DEF state, command
<1> QED
  BY <1>1, <1>3, <1>4, FrontierAccept

\* MasterMessage forgets a number, if it does anything to the table.
LEMMA FrontierMasterMessage ==
  ASSUME Frontier, MasterMessage
  PROVE  Frontier'
<1>1. UNCHANGED pending \/ Erase(Msg(Master).id)
  BY DEF MasterMessage
<1>2. CASE UNCHANGED pending
  BY <1>2, FrontierKept
<1> QED
  BY <1>1, <1>2, FrontierErase

\* MasterInfo ends a query or goes on with the layers of the report.
LEMMA FrontierMasterInfo ==
  ASSUME Typed, Frontier, MasterInfo
  PROVE  Frontier'
<1> DEFINE m == Msg(Master)
           q == pending[m.id].state
<1>1. m \in InfoMessage
  BY IncomingMessage, MessageFields DEF MasterInfo, Typed, Procs
<1>2. \/ UNCHANGED pending
      \/ Erase(m.id)
      \/ /\ IsQuery(m.id)
         /\ \E order \in SetToSeqs(Fresh(q, m.rels)) :
              /\ Absorb(q, m.valid, order).queue # <<>>
              /\ Continue(Absorb(q, m.valid, order))
  BY DEF MasterInfo, Complete
<1>3. CASE UNCHANGED pending
  BY <1>3, FrontierKept
<1>4. ASSUME IsQuery(m.id), NEW order \in SetToSeqs(Fresh(q, m.rels)),
             Absorb(q, m.valid, order).queue # <<>>,
             Continue(Absorb(q, m.valid, order))
      PROVE  Frontier'
  <2> DEFINE next == Absorb(q, m.valid, order)
  <2>1. WellFormed(q) /\ Layered(q)
    BY <1>4 DEF IsQuery, Typed, QueriesGoOn, Frontier
  <2>2. m.rels \in SUBSET Names /\ m.valid \in BOOLEAN
    BY <1>1 DEF InfoMessage
  <2>3. InLayers(next)
    BY <1>4, <2>1, <2>2, AbsorbLayered DEF InLayers
  <2>4. pending' = [pending EXCEPT ![m.id].state = next]
    BY <1>4 DEF Continue
  <2> HIDE DEF next
  <2>5. pending[m.id] \in PendingEntry
    BY <1>4 DEF IsQuery, Typed, TypeOK, MasterOK
  <2>6. \A i \in DOMAIN pending' :
          \/ i \in DOMAIN pending /\ pending'[i] = pending[i]
          \/ pending'[i].state = next
    BY <2>4, <2>5 DEF PendingEntry
  <2> QED
    BY <2>3, <2>6, FrontierKept
<1> QED
  BY <1>2, <1>3, <1>4, FrontierErase

\* Frontier is inductive beside the types, restarts of the main server included.
THEOREM FrontierStep == Typed /\ Frontier /\ [Next]_vars => Frontier'
<1> SUFFICES ASSUME Typed, Frontier, [Next]_vars PROVE Frontier'
  OBVIOUS
<1>1. ASSUME MasterStep PROVE Frontier'
  <2>1. CASE MasterCreate \/ MasterUpdate \/ MasterDelete
    BY <2>1, FrontierWrite DEF MasterCreate, MasterUpdate, MasterDelete
  <2>2. CASE MasterEnrol
    BY <2>2, FrontierKept DEF MasterEnrol
  <2> QED
    BY <1>1, <2>1, <2>2, FrontierMasterQuery, FrontierMasterMessage,
       FrontierMasterInfo DEF MasterStep
<1>2. ASSUME NEW r \in Repos, RepoStep(r) PROVE UNCHANGED pending
  BY <1>2 DEF RepoStep, RepoCreate, RepoRelation, RepoFinish, RepoQuery,
     RepoUpdate, RepoDelete, RepoMessage, masterVars
<1>3. ASSUME NEW s \in Procs, NEW d \in Procs, Receive(s, d) \/ Overrun(s, d)
      PROVE  UNCHANGED pending
  BY <1>3 DEF Receive, Overrun, masterVars, StopsLingering
<1>4. ASSUME NEW S \in SUBSET up, FalseAcks(S) PROVE UNCHANGED pending
  BY <1>4 DEF FalseAcks, masterVars
<1>5. ASSUME NEW c \in Clients, WaitResponse(c) \/ Invoke(c)
      PROVE  UNCHANGED pending
  BY <1>5 DEF WaitResponse, Invoke, masterVars
<1>6. ASSUME NEW r \in Repos, SetRepository(r) PROVE UNCHANGED pending
  BY <1>6 DEF SetRepository, masterVars
<1>7. ASSUME NEW p \in Procs, Crash(p) PROVE UNCHANGED pending
  BY <1>7 DEF Crash, masterVars
<1>8. CASE SetServer
  BY <1>8 DEF SetServer, NoPending, Frontier
<1>9. CASE UNCHANGED pending
  BY <1>9, FrontierKept
<1>10. CASE UNCHANGED vars
  BY <1>9, <1>10 DEF vars, masterVars
<1> QED
  BY <1>1, <1>2, <1>3, <1>4, <1>5, <1>6, <1>7, <1>8, <1>9, <1>10
     DEF Next, Work

(***************************************************************************)
(* The queue of every query is what a breadth-first search keeps, however  *)
(* many processes, names and queries there are, whatever the relations,    *)
(* and whatever dies or starts again - the main server included.           *)
(***************************************************************************)
THEOREM QueriesGoByLayers == Spec => []Frontier
<1>1. Init => Frontier
  BY DEF Init, NoPending, Frontier
<1>2. Spec => []Typed
  BY TypedInit, TypedStep, PTL DEF Spec
<1>3. Typed /\ Frontier /\ [Next]_vars => Frontier'
  BY FrontierStep
<1> QED
  BY <1>1, <1>2, <1>3, PTL DEF Spec

-----------------------------------------------------------------------------
(***************************************************************************)
(* A process has one thing in hand: it does not send before it is done     *)
(* with what it has read, reads nothing in the middle of a handler, and    *)
(* has neither to read nor to send when it does not run.                   *)
(***************************************************************************)
Solo ==
  /\ \A p \in Procs : sending[p] # Nothing => taken[p] = Nothing
  /\ \A r \in Repos : job[r] # Nothing => taken[r] = Nothing
  /\ \A p \in Procs \ up : sending[p] = Nothing /\ taken[p] = Nothing
  /\ \A c \in Clients : request[c] = Nothing => c \notin up

\* Solo is kept by a step in which only d takes something new in hand.
LEMMA SoloKept ==
  ASSUME Solo, NEW d \in Procs,
         \A p \in Procs \ {d} :
           /\ sending'[p] \in {sending[p], Nothing}
           /\ taken'[p] = taken[p]
           /\ p \in up' <=> p \in up,
         \A r \in Repos \ {d} : job'[r] = job[r],
         sending'[d] # Nothing => taken'[d] = Nothing,
         d \in Repos /\ job'[d] # Nothing => taken'[d] = Nothing,
         d \notin up' => sending'[d] = Nothing /\ taken'[d] = Nothing,
         \A c \in Clients :
           request'[c] = Nothing =>
             request[c] = Nothing /\ (c = d /\ d \in up' => d \in up)
  PROVE  Solo'
<1>1. \A p \in Procs : sending'[p] # Nothing => taken'[p] = Nothing
  BY DEF Solo
<1>2. \A r \in Repos : job'[r] # Nothing => taken'[r] = Nothing
  BY Separate DEF Solo
<1>3. \A p \in Procs \ up' : sending'[p] = Nothing /\ taken'[p] = Nothing
  BY DEF Solo
<1>4. \A c \in Clients : request'[c] = Nothing => c \notin up'
  BY Separate DEF Solo
<1> QED
  BY <1>1, <1>2, <1>3, <1>4 DEF Solo

\* A handler that ends with a reply, or with its process, keeps Solo.
LEMMA SoloReply ==
  ASSUME Owned, Solo, NEW d \in Procs, NEW reply, Reply(d, reply),
         taken[d] # Nothing, d \in up,
         up' = up \/ (up' = up \ {d} /\ reply = Nothing),
         \A r \in Repos \ {d} : job'[r] = job[r],
         UNCHANGED request
  PROVE  Solo'
<1>1. /\ sending' = [sending EXCEPT ![d] = reply]
      /\ taken' = [taken EXCEPT ![d] = Nothing]
      /\ DOMAIN sending = Procs /\ DOMAIN taken = Procs
  BY DEF Reply, NoLongerReads, Owned, Typed, TypeOK, SocketOK, StopsLingering
<1>2. /\ sending'[d] = reply /\ taken'[d] = Nothing
      /\ \A p \in Procs \ {d} :
           sending'[p] = sending[p] /\ taken'[p] = taken[p]
  BY <1>1
<1> QED
  BY <1>2, SoloKept

\* A repository that goes on with its handler keeps Solo.
LEMMA SoloOwn ==
  ASSUME Owned, Solo, NEW r \in Repos, NEW m,
         sending' = [sending EXCEPT ![r] = m], UNCHANGED socketVars,
         job[r] # Nothing, r \in up,
         up' = up \/ (up' = up \ {r} /\ m = Nothing),
         \A x \in Repos \ {r} : job'[x] = job[x],
         UNCHANGED request
  PROVE  Solo'
<1>1. /\ sending'[r] = m /\ taken'[r] = Nothing /\ r \in Procs
      /\ \A p \in Procs \ {r} :
           sending'[p] = sending[p] /\ taken'[p] = taken[p]
  BY Separate DEF Solo, socketVars, Owned, Typed, TypeOK, SocketOK
<1> QED
  BY <1>1, SoloKept

\* The handlers of the main server end with a reply, a refusal or their process.
LEMMA SoloMaster ==
  ASSUME Owned, Solo, MasterStep
  PROVE  Solo'
<1>1. /\ taken[Master] # Nothing /\ Master \in up
      /\ UNCHANGED job /\ UNCHANGED request
  BY DEF MasterStep, MasterCreate, MasterUpdate, MasterDelete, MasterWrite,
     MasterQuery, MasterMessage, MasterInfo, MasterEnrol, Taken, clientVars
<1>2. \E reply :
        /\ Reply(Master, reply)
        /\ up' = up \/ (up' = up \ {Master} /\ reply = Nothing)
  <2>1. ASSUME NEW command, MasterWrite(command)
        PROVE  UNCHANGED up /\ \E reply : Reply(Master, reply)
    BY <2>1 DEF MasterWrite, Refuse, Accept
  <2>2. CASE MasterCreate \/ MasterUpdate \/ MasterDelete
    BY <2>1, <2>2 DEF MasterCreate, MasterUpdate, MasterDelete
  <2>3. CASE MasterQuery
    BY <2>3 DEF MasterQuery, Refuse, Accept
  <2>4. CASE MasterMessage
    BY <2>4 DEF MasterMessage, Exit
  <2>5. CASE MasterInfo
    BY <2>5 DEF MasterInfo, Complete, Continue, Exit
  <2>6. CASE MasterEnrol
    BY <2>6 DEF MasterEnrol
  <2> QED
    BY <2>2, <2>3, <2>4, <2>5, <2>6 DEF MasterStep
<1> QED
  BY <1>1, <1>2, Separate, SoloReply

\* The repositories do one thing after the other.
LEMMA SoloRepo ==
  ASSUME Owned, Solo, NEW r \in Repos, RepoStep(r)
  PROVE  Solo'
<1>1. UNCHANGED request /\ \A x \in Repos \ {r} : job'[x] = job[x]
  BY DEF RepoStep, RepoCreate, RepoRelation, RepoFinish, RepoQuery, RepoUpdate,
     RepoDelete, RepoMessage, clientVars, Owned, Typed, TypeOK
<1>2. CASE RepoRelation(r) \/ RepoFinish(r)
  <2>1. /\ job[r] # Nothing /\ r \in up /\ UNCHANGED socketVars
        /\ sending[r] = Nothing
    BY <1>2 DEF RepoRelation, RepoFinish
  <2>2. sending = [sending EXCEPT ![r] = Nothing]
    BY <2>1, Separate DEF Owned, Typed, TypeOK, SocketOK
  <2>3. \E m : /\ sending' = [sending EXCEPT ![r] = m]
               /\ up' = up \/ (up' = up \ {r} /\ m = Nothing)
    BY <1>2, <2>2 DEF RepoRelation, RepoFinish
  <2> QED
    BY <1>1, <2>1, <2>3, SoloOwn
<1>3. CASE \/ RepoCreate(r) \/ RepoQuery(r) \/ RepoUpdate(r) \/ RepoDelete(r)
           \/ RepoMessage(r)
  <2>1. taken[r] # Nothing /\ r \in up
    BY <1>3 DEF RepoCreate, RepoQuery, RepoUpdate, RepoDelete, RepoMessage, Taken
  <2>2. \E reply : /\ Reply(r, reply)
                   /\ up' = up \/ (up' = up \ {r} /\ reply = Nothing)
    BY <1>3 DEF RepoCreate, RepoQuery, RepoUpdate, RepoDelete, RepoMessage, Exit
  <2> QED
    BY <1>1, <2>1, <2>2, Separate, SoloReply
<1> QED
  BY <1>2, <1>3 DEF RepoStep

\* The transport hands a message to a process that has none.
LEMMA SoloTransport ==
  ASSUME Owned, Solo
  PROVE  /\ \A s, d \in Procs : Receive(s, d) \/ Overrun(s, d) => Solo'
         /\ \A S \in SUBSET up : FalseAcks(S) => Solo'
<1>1. ASSUME NEW s \in Procs, NEW d \in Procs, Receive(s, d) PROVE Solo'
  <2>1. /\ sending' = [sending EXCEPT ![s] = Nothing]
        /\ taken' = [taken EXCEPT ![d] = [from |-> s, msg |-> sending[s]]]
        /\ UNCHANGED up /\ UNCHANGED job /\ UNCHANGED request
        /\ d \in up /\ sending[d] = Nothing
        /\ d \in Repos => job[d] = Nothing
    BY <1>1 DEF Receive, Listening, clientVars
  <2>2. /\ sending'[d] = Nothing
        /\ \A p \in Procs \ {d} :
             sending'[p] \in {sending[p], Nothing} /\ taken'[p] = taken[p]
    BY <2>1 DEF Owned, Typed, TypeOK, SocketOK
  <2> QED
    BY <2>1, <2>2, SoloKept
<1>2. ASSUME NEW s \in Procs, NEW d \in Procs, Overrun(s, d) PROVE Solo'
  <2>1. /\ sending' = [sending EXCEPT ![s] = Nothing]
        /\ UNCHANGED taken /\ UNCHANGED up /\ UNCHANGED job
        /\ UNCHANGED request
    BY <1>2 DEF Overrun, clientVars, StopsLingering
  <2>2. \A p \in Procs : sending'[p] \in {sending[p], Nothing}
    BY <2>1 DEF Owned, Typed, TypeOK, SocketOK
  <2> QED
    BY <2>1, <2>2 DEF Solo
<1>3. ASSUME NEW S \in SUBSET up, FalseAcks(S) PROVE Solo'
  <2>1. /\ \A p \in Procs : sending'[p] \in {sending[p], Nothing}
        /\ UNCHANGED taken /\ UNCHANGED up /\ UNCHANGED job
        /\ UNCHANGED request
    BY <1>3 DEF FalseAcks, socketVars, clientVars
  <2> QED
    BY <2>1 DEF Solo
<1> QED
  BY <1>1, <1>2, <1>3

\* Processes start with nothing in hand but what they announce or ask.
LEMMA SoloLives ==
  ASSUME Owned, Solo
  PROVE  /\ \A c \in Clients : Invoke(c) \/ WaitResponse(c) => Solo'
         /\ \A r \in Repos : SetRepository(r) => Solo'
         /\ \A p \in Procs : Crash(p) => Solo'
<1>1. ASSUME NEW c \in Clients, Invoke(c) PROVE Solo'
  <2>1. PICK r \in Requests :
          /\ request' = [request EXCEPT ![c] = r]
          /\ sending' = [sending EXCEPT ![c] = ClientCommand(r, c)]
    BY <1>1 DEF Invoke
  <2>2. /\ up' = up \cup {c} /\ UNCHANGED taken /\ UNCHANGED job
        /\ request[c] = Nothing
    BY <1>1 DEF Invoke, socketVars
  <2>3. taken[c] = Nothing /\ sending[c] = Nothing /\ c \in Procs
    BY <2>2, Separate DEF Solo
  <2>4. \A p \in Procs \ {c} : sending'[p] = sending[p]
    BY <2>1 DEF Owned, Typed, TypeOK, SocketOK
  <2>5. \A x \in Clients : request'[x] = Nothing => request[x] = Nothing
    BY <2>1, <2>2 DEF Owned, Typed, TypeOK, ClientOK
  <2>6. request'[c] = r
    BY <2>1 DEF Owned, Typed, TypeOK, ClientOK
  <2>7. r # Nothing
    BY ClusterAssumption, NothingAssumption
  <2> QED
    BY <2>2, <2>3, <2>4, <2>5, <2>6, <2>7, SoloKept
<1>2. ASSUME NEW c \in Clients, WaitResponse(c) PROVE Solo'
  BY <1>2, Separate, SoloReply DEF WaitResponse, Taken, Exit
<1>3. ASSUME NEW r \in Repos, SetRepository(r) PROVE Solo'
  <2>1. /\ up' = up \cup {r} /\ r \notin up /\ UNCHANGED taken
        /\ sending' = [sending EXCEPT ![r] = RegisterRepository]
        /\ UNCHANGED job /\ UNCHANGED request
    BY <1>3 DEF SetRepository, socketVars, clientVars
  <2>2. taken[r] = Nothing /\ r \in Procs /\ r \notin Clients
    BY <2>1, Separate DEF Solo
  <2>3. \A p \in Procs \ {r} : sending'[p] = sending[p]
    BY <2>1 DEF Owned, Typed, TypeOK, SocketOK
  <2> QED
    BY <2>1, <2>2, <2>3, SoloKept
<1>4. ASSUME NEW p \in Procs, Crash(p) PROVE Solo'
  <2>1. /\ sending' = [sending EXCEPT ![p] = Nothing]
        /\ taken' = [taken EXCEPT ![p] = Nothing]
        /\ up' = up \ {p} /\ UNCHANGED request
        /\ job' = [r \in Repos |-> IF r = p THEN Nothing ELSE job[r]]
    BY <1>4 DEF Crash, NoLongerReads, clientVars, StopsLingering
  <2>2. /\ sending'[p] = Nothing /\ taken'[p] = Nothing
        /\ \A x \in Procs \ {p} :
             sending'[x] = sending[x] /\ taken'[x] = taken[x]
    BY <2>1 DEF Owned, Typed, TypeOK, SocketOK
  <2> QED
    BY <2>1, <2>2, SoloKept
<1> QED
  BY <1>1, <1>2, <1>3, <1>4

-----------------------------------------------------------------------------
\* A message of a query under way: a look-up or its report.
Asks(m) == m # Nothing /\ m.type \in {"R", "I"} /\ m.id # 0

About(m) == IF m.type = "R" THEN m.body.name ELSE m.name

\* It is about the node the query has at the front of its queue.
AboutFront(m, table) ==
  /\ m.id \in DOMAIN table
  /\ table[m.id].state # Nothing
  /\ About(m) = Head(table[m.id].state.queue).name

\* QueryInStep, said of the processes.
InStep ==
  /\ \A p \in Procs : Asks(Held(p)) => AboutFront(Held(p), pending)
  /\ \A p, q \in Procs :
       Asks(Held(p)) /\ Asks(Held(q)) /\ Held(p).id = Held(q).id => p = q

\* The message of a query goes from s to d, or changes hands nowhere.
LEMMA InStepMove ==
  ASSUME InStep, UNCHANGED pending, NEW s \in Procs, NEW d \in Procs,
         \A p \in Procs \ {d} :
           Asks(Held(p))' => p # s /\ Held(p)' = Held(p),
         Asks(Held(d))' =>
           /\ Asks(Held(s))
           /\ Held(d).id' = Held(s).id
           /\ About(Held(d))' = About(Held(s))
  PROVE  InStep'
<1>1. ASSUME NEW p \in Procs, Asks(Held(p))'
      PROVE  \E x \in Procs :
               /\ x = IF p = d THEN s ELSE p
               /\ Asks(Held(x)) /\ Held(p).id' = Held(x).id
               /\ About(Held(p))' = About(Held(x))
  BY <1>1 DEF Asks, About
<1>2. ASSUME NEW p \in Procs, Asks(Held(p))'
      PROVE  AboutFront(Held(p), pending)'
  BY <1>1, <1>2 DEF InStep, AboutFront
<1>3. ASSUME NEW p \in Procs, NEW q \in Procs, Asks(Held(p))', Asks(Held(q))',
             Held(p).id' = Held(q).id'
      PROVE  p = q
  BY <1>1, <1>3 DEF InStep
<1> QED
  BY <1>2, <1>3 DEF InStep

(***************************************************************************)
(* The main server takes part in a query by sending: the other queries     *)
(* under way keep their entries, and a look-up it sends is the only        *)
(* message of its query, about the node at the front.                      *)
(***************************************************************************)
LEMMA InStepMaster ==
  ASSUME InStep, NEW reply,
         Held(Master)' = reply,
         \A p \in Procs \ {Master} : Held(p)' = Held(p),
         \A p \in Procs \ {Master} :
           Asks(Held(p)) =>
             /\ Held(p).id \in DOMAIN pending'
             /\ pending'[Held(p).id].state = pending[Held(p).id].state
             /\ Asks(reply) => Held(p).id # reply.id,
         Asks(reply) => AboutFront(reply, pending')
  PROVE  InStep'
<1>1. ASSUME NEW p \in Procs, Asks(Held(p))'
      PROVE  AboutFront(Held(p), pending)'
  <2>1. CASE p = Master
    BY <1>1, <2>1 DEF Asks, AboutFront, About
  <2>2. CASE p # Master
    <3>1. Asks(Held(p)) /\ Held(p)' = Held(p)
      BY <1>1, <2>2 DEF Asks
    <3>2. AboutFront(Held(p), pending) /\ p \in Procs \ {Master}
      BY <2>2, <3>1 DEF InStep
    <3> QED
      BY <3>1, <3>2 DEF AboutFront, About
  <2> QED
    BY <2>1, <2>2
<1>2. ASSUME NEW p \in Procs, NEW q \in Procs, Asks(Held(p))', Asks(Held(q))',
             Held(p).id' = Held(q).id'
      PROVE  p = q
  BY <1>2 DEF InStep, Asks
<1> QED
  BY <1>1, <1>2 DEF InStep

\* What the processes have in hand after a handler replied.
LEMMA HeldAfterReply ==
  ASSUME Owned, NEW d \in Procs, NEW reply, Reply(d, reply)
  PROVE  /\ Held(d)' = reply
         /\ \A p \in Procs \ {d} : Held(p)' = Held(p)
<1>1. /\ sending' = [sending EXCEPT ![d] = reply]
      /\ taken' = [taken EXCEPT ![d] = Nothing]
      /\ DOMAIN sending = Procs /\ DOMAIN taken = Procs
  BY DEF Reply, NoLongerReads, Owned, Typed, TypeOK, SocketOK, StopsLingering
<1> QED
  BY <1>1 DEF Held

\* What they have in hand after one that has read nothing began to send.
LEMMA HeldAfterSend ==
  ASSUME Owned, NEW d \in Procs, NEW m,
         sending' = [sending EXCEPT ![d] = m], UNCHANGED taken,
         taken[d] = Nothing
  PROVE  /\ Held(d)' = m
         /\ \A p \in Procs \ {d} : Held(p)' = Held(p)
BY DEF Held, Owned, Typed, TypeOK, SocketOK

\* A step that hands out no message of a query leaves the queries in step.
LEMMA InStepQuiet ==
  ASSUME InStep, UNCHANGED pending, NEW d \in Procs, ~Asks(Held(d))',
         \A p \in Procs \ {d} : Held(p)' = Held(p)
  PROVE  InStep'
<1>1. \A p \in Procs \ {d} : Asks(Held(p))' => p # d /\ Held(p)' = Held(p)
  OBVIOUS
<1> QED
  BY <1>1, InStepMove

\* Repositories pass the queries on, each report for its look-up.
LEMMA InStepRepo ==
  ASSUME Owned, Solo, InStep, NEW r \in Repos, RepoStep(r)
  PROVE  InStep'
<1>1. UNCHANGED pending /\ r \in Procs
  BY Separate DEF RepoStep, RepoCreate, RepoRelation, RepoFinish, RepoQuery,
     RepoUpdate, RepoDelete, RepoMessage, masterVars
<1>2. ~Asks(Nothing)
  BY DEF Asks
<1>3. CASE RepoRelation(r) \/ RepoFinish(r)
  <2>1. taken[r] = Nothing /\ UNCHANGED taken /\ sending[r] = Nothing
    BY <1>3 DEF RepoRelation, RepoFinish, Solo, socketVars
  <2>2. sending = [sending EXCEPT ![r] = Nothing]
    BY <1>1, <2>1 DEF Owned, Typed, TypeOK, SocketOK
  <2>3. \E m : sending' = [sending EXCEPT ![r] = m] /\ ~Asks(m)
    BY <1>2, <1>3, <2>2 DEF RepoRelation, RepoFinish, Asks, ParseNewNode,
       ParseNewMessageResponse
  <2> QED
    BY <1>1, <2>1, <2>3, HeldAfterSend, InStepQuiet
<1>4. CASE RepoCreate(r) \/ RepoUpdate(r) \/ RepoDelete(r) \/ RepoMessage(r)
  <2>1. \E reply : Reply(r, reply) /\ ~Asks(reply)
    BY <1>2, <1>4 DEF RepoCreate, RepoUpdate, RepoDelete, RepoMessage, Exit,
       Asks, ParseNewDelete, ParseNewMessageResponse
  <2> QED
    BY <1>1, <2>1, HeldAfterReply, InStepQuiet
<1>5. CASE RepoQuery(r)
  <2> DEFINE m == Msg(r)
             reply == ParseNewInfoResponse(m.body.name, Master,
                                           RelatedTo(r, m.body.name), m.id,
                                           ValidNode(r, m.body), m.cli)
  <2>1. Held(r) = m /\ m # Nothing /\ m.type = "R"
    <3>1. Taken(r, "R")
      BY <1>5 DEF RepoQuery
    <3>2. m \in Message
      BY <1>1, <3>1, TakenMessage
    <3> QED
      BY <3>1, <3>2, NothingAssumption DEF Taken, Held, Msg
  <2>2. /\ Held(r)' = reply
        /\ \A p \in Procs \ {r} : Held(p)' = Held(p)
    BY <1>1, <1>5, HeldAfterReply DEF RepoQuery
  <2>3. /\ reply.type = "I" /\ reply.id = m.id /\ reply.name = m.body.name
    BY DEF ParseNewInfoResponse
  <2> HIDE DEF reply
  <2>4. Asks(reply) => Asks(m) /\ reply.id = m.id /\ About(reply) = About(m)
    BY <2>1, <2>3 DEF Asks, About
  <2> QED
    BY <1>1, <2>1, <2>2, <2>4, InStepMove
<1> QED
  BY <1>3, <1>4, <1>5 DEF RepoStep

\* The transport and the processes' lives start and end messages, and hand
\* them over; they make none of a query.
LEMMA InStepTransport ==
  ASSUME Owned, Solo, InStep
  PROVE  /\ \A s, d \in Procs : Receive(s, d) \/ Overrun(s, d) => InStep'
         /\ \A S \in SUBSET up : FalseAcks(S) => InStep'
         /\ \A c \in Clients : Invoke(c) \/ WaitResponse(c) => InStep'
         /\ \A r \in Repos : SetRepository(r) => InStep'
         /\ \A p \in Procs : Crash(p) => InStep'
<1>1. ~Asks(Nothing)
  BY DEF Asks
<1>2. ASSUME NEW s \in Procs, NEW d \in Procs, Receive(s, d) PROVE InStep'
  <2>1. /\ sending' = [sending EXCEPT ![s] = Nothing]
        /\ taken' = [taken EXCEPT ![d] = [from |-> s, msg |-> sending[s]]]
        /\ UNCHANGED pending
        /\ sending[d] = Nothing /\ taken[d] = Nothing
        /\ sending[s] # Nothing
    BY <1>2 DEF Receive, Listening, masterVars
  <2>2. taken[s] = Nothing /\ s # d /\ Held(s) = sending[s]
    BY <2>1 DEF Solo, Held
  <2>4. Held(d)' = Held(s) \/ Held(d)' = Nothing
    BY <2>1, <2>2 DEF Held, Owned, Typed, TypeOK, SocketOK
  <2>5. Held(s)' = Nothing
    BY <2>1, <2>2 DEF Held, Owned, Typed, TypeOK, SocketOK
  <2>6. \A p \in Procs \ {s, d} : Held(p)' = Held(p)
    BY <2>1 DEF Held, Owned, Typed, TypeOK, SocketOK
  <2>7. \A p \in Procs \ {d} : Asks(Held(p))' => p # s /\ Held(p)' = Held(p)
    BY <1>1, <2>5, <2>6
  <2>8. Asks(Held(d))' => /\ Asks(Held(s))
                          /\ Held(d).id' = Held(s).id
                          /\ About(Held(d))' = About(Held(s))
    BY <1>1, <2>4 DEF Asks, About
  <2> QED
    BY <2>1, <2>7, <2>8, InStepMove
<1>3. ASSUME UNCHANGED pending,
             \A p \in Procs : Held(p)' = Held(p) \/ ~Asks(Held(p))'
      PROVE  InStep'
  <2>1. \A p \in Procs \ {Master} :
          Asks(Held(p))' => p # Master /\ Held(p)' = Held(p)
    BY <1>3
  <2>2. Asks(Held(Master))' => /\ Asks(Held(Master))
                               /\ Held(Master).id' = Held(Master).id
                               /\ About(Held(Master))' = About(Held(Master))
    BY <1>3, Separate DEF Asks, About
  <2> QED
    BY <1>3, <2>1, <2>2, Separate, InStepMove
<1>4. ASSUME UNCHANGED taken, UNCHANGED pending,
             \A p \in Procs : sending'[p] \in {sending[p], Nothing}
      PROVE  InStep'
  <2>1. \A p \in Procs : Held(p)' = Held(p) \/ Held(p)' = Nothing
    BY <1>4 DEF Held
  <2> QED
    BY <1>1, <1>3, <1>4, <2>1
<1>5. ASSUME NEW s \in Procs, NEW d \in Procs, Overrun(s, d) PROVE InStep'
  BY <1>4, <1>5 DEF Overrun, masterVars, Owned, Typed, TypeOK, SocketOK, StopsLingering
<1>6. ASSUME NEW S \in SUBSET up, FalseAcks(S) PROVE InStep'
  BY <1>4, <1>6 DEF FalseAcks, socketVars, masterVars
<1>7. ASSUME NEW c \in Clients, Invoke(c) PROVE InStep'
  <2>1. PICK r \in Requests :
          sending' = [sending EXCEPT ![c] = ClientCommand(r, c)]
    BY <1>7 DEF Invoke
  <2>2. r \in Request
    BY ClusterAssumption
  <2>3. ~Asks(ClientCommand(r, c))
    BY <2>2, RequestFields DEF ClientCommand, Asks, ParseNewNode,
       ParseNewQuery, ParseNewUpdate, ParseNewDelete
  <2>4. /\ UNCHANGED taken /\ UNCHANGED pending /\ taken[c] = Nothing
    BY <1>7, Separate DEF Invoke, Solo, socketVars, masterVars
  <2> QED
    BY <2>1, <2>3, <2>4, Separate, HeldAfterSend, InStepQuiet
<1>8. ASSUME NEW c \in Clients, WaitResponse(c) PROVE InStep'
  BY <1>1, <1>8, Separate, HeldAfterReply, InStepQuiet
     DEF WaitResponse, Exit, masterVars
<1>9. ASSUME NEW r \in Repos, SetRepository(r) PROVE InStep'
  <2>1. /\ sending' = [sending EXCEPT ![r] = RegisterRepository]
        /\ UNCHANGED taken /\ UNCHANGED pending /\ taken[r] = Nothing
    BY <1>9, Separate DEF SetRepository, Solo, socketVars, masterVars
  <2>2. ~Asks(RegisterRepository)
    BY DEF Asks, RegisterRepository
  <2> QED
    BY <2>1, <2>2, Separate, HeldAfterSend, InStepQuiet
<1>10. ASSUME NEW p \in Procs, Crash(p) PROVE InStep'
  <2>1. Reply(p, Nothing) /\ UNCHANGED pending
    BY <1>10 DEF Crash, Reply, masterVars
  <2> QED
    BY <1>1, <2>1, HeldAfterReply, InStepQuiet
<1> QED
  BY <1>2, <1>5, <1>6, <1>7, <1>8, <1>9, <1>10

\* The number of a message of a query is one that was given out.
LEMMA AskedNumber ==
  ASSUME Owned, InStep, NEW p \in Procs, Asks(Held(p))
  PROVE  /\ Held(p).id \in DOMAIN pending
         /\ Held(p).id # current_request
         /\ pending[Held(p).id].state # Nothing
BY DEF InStep, AboutFront, Owned, Typed, TypeOK, MasterOK

\* A command that is accepted is the first message of its query, if it is one.
LEMMA InStepAccept ==
  ASSUME Owned, InStep, NEW state, NEW command, Accept(state, command),
         Asks(command) =>
           /\ command.id = current_request
           /\ state # Nothing
           /\ About(command) = Head(state.queue).name
  PROVE  InStep'
<1>1. /\ Held(Master)' = command
      /\ \A p \in Procs \ {Master} : Held(p)' = Held(p)
  BY Separate, HeldAfterReply DEF Accept
<1>2. /\ DOMAIN pending' = DOMAIN pending \cup {current_request}
      /\ pending'[current_request].state = state
      /\ \A i \in DOMAIN pending : i # current_request =>
           pending'[i] = pending[i]
  BY DEF Accept, Enter
<1>3. \A p \in Procs \ {Master} :
        Asks(Held(p)) =>
          /\ Held(p).id \in DOMAIN pending'
          /\ pending'[Held(p).id].state = pending[Held(p).id].state
          /\ Asks(command) => Held(p).id # command.id
  BY <1>2, AskedNumber
<1>4. Asks(command) => AboutFront(command, pending')
  BY <1>2 DEF AboutFront
<1> QED
  BY <1>1, <1>3, <1>4, InStepMaster

\* A text the main server sends leaves the queries it does not end in step.
LEMMA InStepText ==
  ASSUME Owned, InStep, NEW reply, ~Asks(reply), Reply(Master, reply),
         \/ UNCHANGED pending
         \/ \E id : /\ Erase(id)
                    /\ \A p \in Procs \ {Master} :
                         Asks(Held(p)) => Held(p).id # id
  PROVE  InStep'
<1>1. /\ Held(Master)' = reply
      /\ \A p \in Procs \ {Master} : Held(p)' = Held(p)
  BY Separate, HeldAfterReply
<1>2. ASSUME NEW p \in Procs \ {Master}, Asks(Held(p))
      PROVE  /\ Held(p).id \in DOMAIN pending'
             /\ pending'[Held(p).id].state = pending[Held(p).id].state
  <2>1. Held(p).id \in DOMAIN pending
    BY <1>2, AskedNumber
  <2>2. ASSUME NEW id, Erase(id), Held(p).id # id
        PROVE  /\ Held(p).id \in DOMAIN pending'
               /\ pending'[Held(p).id] = pending[Held(p).id]
    BY <2>1, <2>2 DEF Erase, Restrict
  <2> QED
    BY <1>2, <2>1, <2>2
<1> QED
  BY <1>1, <1>2, InStepMaster

\* The write handlers send no message of a query.
LEMMA InStepWrite ==
  ASSUME Owned, InStep, NEW command, MasterWrite(command), ~Asks(command)
  PROVE  InStep'
<1>1. ASSUME NEW kind, Refuse(kind) PROVE InStep'
  <2>1. \E reply : /\ Reply(Master, reply) /\ ~Asks(reply)
    BY <1>1 DEF Refuse, Asks, ParseNewMessageResponse
  <2>2. UNCHANGED pending
    BY <1>1 DEF Refuse
  <2> QED
    BY <2>1, <2>2, InStepText
<1> QED
  BY <1>1, InStepAccept DEF MasterWrite

\* MasterQuery sends the first look-up, about the node asked for.
LEMMA InStepMasterQuery ==
  ASSUME Owned, InStep, MasterQuery
  PROVE  InStep'
<1> DEFINE b == Msg(Master).body
           state == NewState(b.name, b.depth, b.leaf, b.cond)
           command == ParseNewQuery(Home, b, current_request, Msg(Master).cli)
<1>1. CASE Refuse("detached")
  <2>1. \E reply : /\ Reply(Master, reply) /\ ~Asks(reply)
    BY <1>1 DEF Refuse, Asks, ParseNewMessageResponse
  <2>2. UNCHANGED pending
    BY <1>1 DEF Refuse
  <2> QED
    BY <2>1, <2>2, InStepText
<1>2. CASE Accept(state, command)
  <2>1. b \in QueryRequest
    BY Separate, TakenMessage, CommandFields, RequestFields DEF MasterQuery
  <2>2. state # Nothing
    BY <2>1, NewStateWellFormed, NothingAssumption DEF QueryRequest, WellFormed
  <2>3. Head(state.queue).name = b.name
    BY DEF NewState
  <2>4. command.id = current_request /\ About(command) = b.name
    BY DEF ParseNewQuery, About
  <2> HIDE DEF state, command
  <2> QED
    BY <1>2, <2>2, <2>3, <2>4, InStepAccept
<1> QED
  BY <1>1, <1>2 DEF MasterQuery

\* MasterMessage forgets a create, update or delete, never a query.
LEMMA InStepMasterMessage ==
  ASSUME Owned, InStep, MasterMessage
  PROVE  InStep'
<1> DEFINE m == Msg(Master)
<1>1. /\ m \in Message /\ m.type = "M"
      /\ Good(From(Master), m, pending, current_request)
  BY Separate, TakenMessage DEF MasterMessage
<1>2. m.id \in DOMAIN pending => m.id # 0 /\ pending[m.id].state = Nothing
  BY <1>1 DEF Good, Fit, Owned, Typed, TypeOK, MasterOK
<1>3. CASE m.id \in DOMAIN pending
  <2>1. Erase(m.id)
    BY <1>3 DEF MasterMessage
  <2>2. \E reply : /\ Reply(Master, reply) /\ ~Asks(reply)
    BY <1>3 DEF MasterMessage, Asks, ParseNewMessageResponse
  <2>3. \A p \in Procs \ {Master} : Asks(Held(p)) => Held(p).id # m.id
    BY <1>2, <1>3, AskedNumber
  <2> QED
    BY <2>1, <2>2, <2>3, InStepText
<1>4. CASE m.id \notin DOMAIN pending
  <2>1. Reply(Master, Nothing) /\ UNCHANGED pending /\ ~Asks(Nothing)
    BY <1>4 DEF MasterMessage, Exit, Asks
  <2> QED
    BY <2>1, InStepText
<1> QED
  BY <1>3, <1>4

\* MasterInfo ends its query, or sends the one look-up that follows.
LEMMA InStepMasterInfo ==
  ASSUME Owned, InStep, MasterInfo
  PROVE  InStep'
<1> DEFINE m == Msg(Master)
           q == pending[m.id].state
<1>1. /\ m \in InfoMessage /\ m.type = "I"
      /\ Held(Master) = m /\ m # Nothing
  <2>1. Taken(Master, "I")
    BY DEF MasterInfo
  <2>2. m \in Message /\ m.type = "I"
    BY <2>1, Separate, TakenMessage
  <2> QED
    BY <2>1, <2>2, MessageFields, NothingAssumption DEF Taken, Held, Msg
<1>2. CASE ~IsQuery(m.id)
  <2>1. Reply(Master, Nothing) /\ UNCHANGED pending /\ ~Asks(Nothing)
    BY <1>2 DEF MasterInfo, Exit, Asks
  <2> QED
    BY <2>1, InStepText
<1>3. CASE IsQuery(m.id)
  <2>1. /\ m.id \in DOMAIN pending /\ m.id # 0
        /\ pending[m.id] \in PendingEntry
    BY <1>3 DEF IsQuery, Owned, Typed, TypeOK, MasterOK
  <2>2. Asks(m)
    BY <1>1, <2>1 DEF Asks
  <2>3. \A p \in Procs \ {Master} : Asks(Held(p)) => Held(p).id # m.id
    BY <1>1, <2>2, Separate DEF InStep
  <2>4. ASSUME NEW text, Complete(text) PROVE InStep'
    <3>1. \E reply : /\ Reply(Master, reply) /\ ~Asks(reply)
      BY <2>4 DEF Complete, Asks, ParseNewMessageResponse
    <3>2. Erase(m.id)
      BY <2>4 DEF Complete
    <3> QED
      BY <2>3, <3>1, <3>2, InStepText
  <2>5. ASSUME NEW next, next \in QueryState(Names), Continue(next)
        PROVE  InStep'
    <3> DEFINE front == Head(next.queue)
               look == ParseNewQuery(Route(repositories, front.name),
                         [op |-> "R", name |-> front.name, depth |-> front.left,
                          leaf |-> next.leaf, cond |-> next.cond],
                         m.id, m.cli)
    <3>1. /\ Reply(Master, look)
          /\ pending' = [pending EXCEPT ![m.id].state = next]
      BY <2>5 DEF Continue
    <3>2. look.id = m.id /\ About(look) = front.name
      BY DEF ParseNewQuery, About
    <3> HIDE DEF look
    <3>3. /\ DOMAIN pending' = DOMAIN pending
          /\ pending'[m.id].state = next
          /\ \A i \in DOMAIN pending : i # m.id => pending'[i] = pending[i]
      BY <2>1, <3>1 DEF PendingEntry
    <3>4. AboutFront(look, pending')
      BY <2>1, <2>5, <3>2, <3>3, NothingAssumption DEF AboutFront
    <3>5. \A p \in Procs \ {Master} :
            Asks(Held(p)) =>
              /\ Held(p).id \in DOMAIN pending'
              /\ pending'[Held(p).id].state = pending[Held(p).id].state
              /\ Asks(look) => Held(p).id # look.id
      BY <2>3, <3>2, <3>3, AskedNumber
    <3>6. /\ Held(Master)' = look
          /\ \A p \in Procs \ {Master} : Held(p)' = Held(p)
      BY <3>1, Separate, HeldAfterReply
    <3> QED
      BY <3>4, <3>5, <3>6, InStepMaster
  <2>6. ASSUME NEW order \in SetToSeqs(Fresh(q, m.rels))
        PROVE  Absorb(q, m.valid, order) \in QueryState(Names)
    <3>1. WellFormed(q)
      BY <1>3 DEF IsQuery, Owned, Typed, QueriesGoOn
    <3>2. m.rels \in SUBSET Names /\ m.valid \in BOOLEAN
      BY <1>1 DEF InfoMessage
    <3>3. order \in Seq(Names) /\ (order # <<>> => Head(q.queue).left > 0)
      BY <2>6, <3>1, <3>2, OrderType DEF WellFormed
    <3> QED
      BY <3>1, <3>2, <3>3, AbsorbType
  <2> QED
    BY <1>3, <2>4, <2>5, <2>6 DEF MasterInfo
<1> QED
  BY <1>2, <1>3

-----------------------------------------------------------------------------
\* One thing in hand, and the queries in step: inductive beside Owned.
QueryInv == Owned /\ Solo /\ InStep

\* Every cluster starts with nothing in any hand.
LEMMA QueryInvInit == Init => QueryInv
<1> SUFFICES ASSUME Init PROVE QueryInv
  OBVIOUS
<1>1. /\ sending = [p \in Procs |-> Nothing] /\ taken = [p \in Procs |-> Nothing]
      /\ job = [r \in Repos |-> Nothing] /\ up = {Master} \cup ToSet(Attached)
  BY DEF Init
<1>2. ToSet(Attached) \subseteq Repos
  BY ClusterAssumption DEF ToSet
<1>3. Solo
  BY <1>1, <1>2, Separate DEF Solo
<1>4. \A p \in Procs : ~Asks(Held(p))
  BY <1>1 DEF Held, Asks
<1>5. InStep
  BY <1>4 DEF InStep
<1> QED
  BY <1>3, <1>5, OwnedInit DEF QueryInv

\* No step of a main server that is not started again leaves it.
LEMMA QueryInvStep ==
  ASSUME Master \notin Mortal
  PROVE  QueryInv /\ [Next]_vars => QueryInv'
<1> SUFFICES ASSUME QueryInv, [Next]_vars
             PROVE  Solo' /\ InStep'
  BY OwnedStep DEF QueryInv
<1>1. Owned /\ Solo /\ InStep
  BY DEF QueryInv
<1>2. ASSUME MasterStep PROVE Solo' /\ InStep'
  <2>1. ASSUME MasterCreate \/ MasterUpdate \/ MasterDelete PROVE InStep'
    <3>1. \E command : MasterWrite(command) /\ ~Asks(command)
      BY <2>1 DEF MasterCreate, MasterUpdate, MasterDelete, Asks,
         ParseNewNode, ParseNewUpdate, ParseNewDelete
    <3> QED
      BY <1>1, <3>1, InStepWrite
  <2>2. ASSUME MasterEnrol PROVE InStep'
    <3>1. Reply(Master, Nothing) /\ UNCHANGED pending /\ ~Asks(Nothing)
      BY <2>2 DEF MasterEnrol, Asks
    <3> QED
      BY <1>1, <3>1, InStepText
  <2>3. InStep'
    BY <1>1, <1>2, <2>1, <2>2, InStepMasterQuery, InStepMasterMessage,
       InStepMasterInfo DEF MasterStep
  <2> QED
    BY <1>1, <1>2, <2>3, SoloMaster
<1>3. CASE Work
  BY <1>1, <1>2, <1>3, SoloTransport, InStepTransport, SoloRepo, InStepRepo,
     SoloLives DEF Work
<1>4. CASE \E c \in Clients : Invoke(c)
  BY <1>1, <1>4, SoloLives, InStepTransport
<1>5. CASE \E r \in Repos : SetRepository(r)
  BY <1>1, <1>5, SoloLives, InStepTransport
<1>6. CASE SetServer
  BY <1>6 DEF SetServer
<1>7. CASE \E p \in Procs : Crash(p)
  BY <1>1, <1>7, SoloLives, InStepTransport
<1>8. CASE UNCHANGED vars
  <2>1. /\ UNCHANGED <<up, sending, taken, job, pending, request>>
    BY <1>8 DEF vars, procVars, socketVars, masterVars, clientVars
  <2> QED
    BY <1>1, <2>1 DEF Solo, InStep, AboutFront, Held
<1> QED
  BY <1>3, <1>4, <1>5, <1>6, <1>7, <1>8 DEF Next

(***************************************************************************)
(* A report the main server reads is always about the node at the front of *)
(* its query, and no second message of the query is under way: "[ERROR]    *)
(* Internal Error" is never said, and no report is counted twice, while    *)
(* the main server keeps its table.                                        *)
(***************************************************************************)
THEOREM ReportsInStep ==
  ASSUME Master \notin Mortal
  PROVE  Spec => []QueryInStep
<1>1. ASSUME QueryInv PROVE QueryInStep
  <2> SUFFICES ASSUME NEW p \in Numbered, Held(p).type \in {"R", "I"}
               PROVE  /\ Carriers({"R", "I"}, Held(p).id) = {p}
                      /\ IsQuery(Held(p).id)
                      /\ About(Held(p)) =
                           Head(pending[Held(p).id].state.queue).name
    BY DEF QueryInStep, About
  <2>1. p \in Procs /\ Asks(Held(p)) /\ p \in InFlight
    BY DEF Numbered, InFlight, Asks
  <2>2. AboutFront(Held(p), pending) /\ Held(p).id # 0
    BY <1>1, <2>1 DEF QueryInv, InStep, Asks
  <2>3. ASSUME NEW x \in Carriers({"R", "I"}, Held(p).id) PROVE x = p
    <3>1. x \in Procs /\ Asks(Held(x)) /\ Held(x).id = Held(p).id
      BY <2>2 DEF Carriers, InFlight, Asks
    <3> QED
      BY <1>1, <2>1, <3>1 DEF QueryInv, InStep
  <2>4. p \in Carriers({"R", "I"}, Held(p).id)
    BY <2>1 DEF Carriers
  <2> QED
    BY <2>2, <2>3, <2>4 DEF AboutFront, IsQuery
<1>2. Spec => []QueryInv
  BY QueryInvInit, QueryInvStep, PTL DEF Spec
<1> QED
  BY <1>1, <1>2, PTL
=============================================================================
