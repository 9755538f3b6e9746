----------------------------- MODULE TurnsProofs -----------------------------
(***************************************************************************)
(* The cluster when it is set up and clients come one at a time: no client *)
(* starts before the one before it has printed its answer.  Then what a    *)
(* client is told is stored has reached the other repositories too, and    *)
(* what a query lists is exact.                                            *)
(***************************************************************************)
EXTENDS ServiceProofs

InTurns == Settled /\ MaxActive = 1

-----------------------------------------------------------------------------
(***************************************************************************)
(* One process at a time does what the running client asked.  The others   *)
(* write, at most, the halves of relations they were sent.                 *)
(***************************************************************************)

\* The half of a relation, for which nobody waits; and any other message.
Side(m) == m.type \in {"C", "D"} /\ m.to \in Repos /\ m.id = 0
Main(m) == m # Nothing /\ ~Side(m)

\* The handler of r is that of a request.
Heads(r) == job[r] # Nothing /\ job[r].id # 0

Serves(p) == Main(Held(p)) \/ (p \in Repos /\ Heads(p))

\* The request of the one client that runs is in one hand.
OneHand ==
  /\ \A c, d \in Running : c = d
  /\ \A p, q \in Procs : Serves(p) /\ Serves(q) => p = q
  /\ \A p \in Procs : Main(Held(p)) => Held(p).cli \in Running
  /\ \A r \in Repos : Heads(r) => job[r].cli \in Running

\* Whoever sends has it, a half is sent by the handler of the whole, and
\* makes nobody send another one.
Leads ==
  /\ \A p \in Procs : sending[p] # Nothing => Serves(p)
  /\ \A r \in Repos : job[r] # Nothing /\ sending[r] # Nothing => Side(sending[r])
  /\ \A p \in Procs : Held(p) # Nothing /\ Side(Held(p)) => Held(p).table = <<>>
  /\ \A r \in Repos : job[r] # Nothing /\ job[r].id = 0 => job[r].table = <<>>

Turns == Orderly /\ OneHand /\ Leads

\* What is held while it is sent; what has a handler, and what is read.
LEMMA HeldSending ==
  ASSUME Orderly, NEW p \in Procs, sending[p] # Nothing
  PROVE  taken[p] = Nothing /\ Held(p) = sending[p]
BY DEF Orderly, QueryInv, Solo, Held

LEMMA HeldTaken ==
  ASSUME Orderly, NEW p \in Procs, taken[p] # Nothing
  PROVE  /\ sending[p] = Nothing /\ Held(p) = Msg(p) /\ Held(p) # Nothing
         /\ Msg(p) \in Message
         /\ p \in Repos => job[p] = Nothing
<1>1. taken[p].msg \in Message
  BY DEF Orderly, QueryInv, Owned, Typed, TypeOK, SocketOK
<1> QED
  BY <1>1, NothingAssumption DEF Orderly, QueryInv, Solo, Held, Msg

LEMMA MainHeld ==
  ASSUME Turns, NEW r \in Repos, Main(Held(r))
  PROVE  job[r] = Nothing
<1>1. r \in Procs
  BY Separate
<1>2. CASE taken[r] # Nothing
  BY <1>1, <1>2, HeldTaken DEF Turns
<1>3. CASE taken[r] = Nothing
  <2>1. sending[r] # Nothing /\ Held(r) = sending[r]
    BY <1>3 DEF Main, Held
  <2> QED
    BY <2>1 DEF Turns, Leads, Main
<1> QED
  BY <1>2, <1>3

\* A message goes from s to d, or is lost.
LEMMA TurnsTransport ==
  ASSUME Turns, Orderly', NEW s \in Procs, NEW d \in Procs, Moves(s, d),
         \A p \in Procs : sending'[p] \in {sending[p], Nothing}
  PROVE  Turns'
<1>1. /\ UNCHANGED job /\ UNCHANGED request /\ UNCHANGED answer
      /\ UNCHANGED Running
      /\ \A r \in Repos : Heads(r)' <=> Heads(r)
  BY DEF Moves, clientVars, Heads, Running
<1>2. ASSUME NEW p \in Procs, Held(p)' # Nothing
      PROVE  /\ p = d => Held(p)' = Held(s)
             /\ p # d => Held(p)' = Held(p) /\ p # s
  BY <1>2 DEF Moves, Carried
<1>3. ASSUME NEW p \in Procs, Main(Held(p))'
      PROVE  /\ p = d => Main(Held(s)) /\ Held(p)' = Held(s)
             /\ p # d => Main(Held(p)) /\ Held(p)' = Held(p) /\ p # s
  BY <1>2, <1>3 DEF Main, Side
<1>4. ASSUME NEW p \in Procs, NEW q \in Procs, Serves(p)', Serves(q)'
      PROVE  p = q
  <2>1. \A x \in Repos : ~(Main(Held(x)) /\ Heads(x))
    BY MainHeld DEF Heads
  <2>2. \A x \in Procs : Serves(x)' =>
          \/ x = d /\ Main(Held(s))
          \/ x # d /\ Main(Held(x)) /\ x # s
          \/ x \in Repos /\ Heads(x)
    BY <1>1, <1>3 DEF Serves
  <2> QED
    BY <1>4, <2>1, <2>2 DEF Serves, Turns, OneHand
<1>5. OneHand'
  BY <1>1, <1>3, <1>4 DEF Turns, OneHand, Heads
<1>6. ASSUME NEW p \in Procs, sending'[p] # Nothing
      PROVE  Serves(p)'
  <2>1. sending[p] # Nothing /\ sending'[p] = sending[p]
    BY <1>6
  <2>2. Held(p)' = sending'[p] /\ Held(p) = sending[p]
    BY <2>1, HeldSending DEF Orderly, QueryInv, Solo, Held, Turns
  <2> QED
    BY <1>1, <2>1, <2>2 DEF Serves, Turns, Leads, Main, Side
<1>7. \A p \in Procs : Held(p)' # Nothing /\ Side(Held(p))' => Held(p).table' = <<>>
  BY <1>2 DEF Turns, Leads, Side
<1>8. \A r \in Repos : job'[r] # Nothing /\ sending'[r] # Nothing => Side(sending[r])'
  BY <1>1, Separate DEF Turns, Leads, Side
<1>9. Leads'
  BY <1>1, <1>6, <1>7, <1>8 DEF Turns, Leads
<1> QED
  BY <1>5, <1>9 DEF Turns

\* A handler of d goes on to send m.
LEMMA TurnsActs ==
  ASSUME Turns, Orderly', NEW d \in Procs, NEW m,
         Held(d)' = m, \A p \in Procs \ {d} : Held(p)' = Held(p),
         \A p \in Procs \ {d} : sending'[p] = sending[p],
         \A r \in Repos \ {d} : job'[r] = job[r],
         UNCHANGED clientVars,
         m # Nothing =>
           IF Side(m) THEN m.table = <<>> /\ d \in Repos /\ Heads(d)'
                      ELSE /\ Serves(d) /\ m.cli \in Running
                           /\ d \in Repos => job'[d] = Nothing,
         d \in Repos /\ job'[d] # Nothing =>
           IF job'[d].id = 0 THEN job'[d].table = <<>>
                             ELSE Serves(d) /\ job'[d].cli \in Running
  PROVE  Turns'
<1>1. UNCHANGED Running
  BY DEF clientVars, Running
<1>2. \A p \in Procs \ {d} : Main(Held(p))' <=> Main(Held(p))
  BY DEF Main, Side
<1>3. \A r \in Repos \ {d} : Heads(r)' <=> Heads(r)
  BY DEF Heads
<1>4. \A p \in Procs \ {d} : Serves(p)' <=> Serves(p)
  BY <1>2, <1>3 DEF Serves
<1>5. Main(Held(d))' => Serves(d) /\ m.cli \in Running
  BY DEF Main, Side
<1>6. d \in Repos /\ Heads(d)' => Serves(d) /\ job'[d].cli \in Running
  BY DEF Heads
<1>7. Serves(d)' => Serves(d)
  BY <1>5, <1>6 DEF Serves
<1>8. OneHand'
  <2>1. \A p, q \in Procs : Serves(p)' /\ Serves(q)' => p = q
    BY <1>4, <1>7 DEF Turns, OneHand
  <2>2. \A p \in Procs : Main(Held(p))' => Held(p).cli' \in Running
    BY <1>2, <1>5 DEF Turns, OneHand
  <2>3. \A r \in Repos : Heads(r)' => job'[r].cli \in Running
    BY <1>3, <1>6 DEF Turns, OneHand
  <2> QED
    BY <1>1, <2>1, <2>2, <2>3 DEF Turns, OneHand
<1>9. sending'[d] # Nothing => m = sending'[d]
  BY DEF Orderly, QueryInv, Solo, Held
<1>10. \A p \in Procs : sending'[p] # Nothing => Serves(p)'
  <2>1. sending'[d] # Nothing => Serves(d)'
    BY <1>9 DEF Serves, Main, Side
  <2> QED
    BY <1>4, <2>1 DEF Turns, Leads
<1>11. \A r \in Repos : job'[r] # Nothing /\ sending'[r] # Nothing => Side(sending[r])'
  <2>1. \A r \in Repos \ {d} : r \in Procs
    BY Separate
  <2>2. d \in Repos /\ job'[d] # Nothing /\ sending'[d] # Nothing => Side(sending[d])'
    BY <1>9 DEF Side
  <2> QED
    BY <2>1, <2>2 DEF Turns, Leads, Side
<1>12. \A p \in Procs : Held(p)' # Nothing /\ Side(Held(p))' => Held(p).table' = <<>>
  BY DEF Turns, Leads, Side
<1>13. \A r \in Repos : job'[r] # Nothing /\ job'[r].id = 0 => job'[r].table = <<>>
  BY DEF Turns, Leads
<1>14. Leads'
  BY <1>10, <1>11, <1>12, <1>13 DEF Leads
<1> QED
  BY <1>8, <1>14 DEF Turns

-----------------------------------------------------------------------------
(***************************************************************************)
(* Every step leaves the request in one hand.                              *)
(***************************************************************************)
LEMMA TurnsMoves ==
  ASSUME Settled, Turns, Orderly',
         \/ \E s, d \in Procs : Receive(s, d) \/ Overrun(s, d)
         \/ \E S \in SUBSET up : FalseAcks(S)
         \/ \E p \in Procs : Crash(p)
         \/ UNCHANGED vars
  PROVE  Turns'
<1>1. sending \in [Procs -> Message \cup {Nothing}]
  BY DEF Turns, Orderly, QueryInv, Owned, Typed, TypeOK, SocketOK
<1>2. \A p \in Procs : sending'[p] \in {sending[p], Nothing}
  <2>1. ASSUME NEW s \in Procs, NEW d \in Procs, Receive(s, d) \/ Overrun(s, d)
        PROVE  \A p \in Procs : sending'[p] \in {sending[p], Nothing}
    BY <1>1, <2>1 DEF Receive, Overrun, StopsLingering
  <2>2. ASSUME NEW S \in SUBSET up, FalseAcks(S)
        PROVE  \A p \in Procs : sending'[p] \in {sending[p], Nothing}
    BY <2>2 DEF FalseAcks
  <2>3. ASSUME NEW x \in Procs, Crash(x)
        PROVE  \A p \in Procs : sending'[p] \in {sending[p], Nothing}
    BY <1>1, <2>3 DEF Crash
  <2>4. UNCHANGED vars => UNCHANGED sending
    BY DEF vars, procVars
  <2> QED
    BY <2>1, <2>2, <2>3, <2>4
<1>3. PICK s, d \in Procs : Moves(s, d)
  BY TransportMoves DEF Turns
<1> QED
  BY <1>2, <1>3, TurnsTransport

LEMMA ReplySends ==
  ASSUME Orderly, NEW d \in Procs, NEW m, Reply(d, m)
  PROVE  /\ Held(d)' = m /\ \A p \in Procs \ {d} : Held(p)' = Held(p)
         /\ sending'[d] = m
         /\ \A p \in Procs \ {d} : sending'[p] = sending[p]
<1>1. Owned /\ sending \in [Procs -> Message \cup {Nothing}]
  BY DEF Orderly, QueryInv, Owned, Typed, TypeOK, SocketOK
<1>2. sending'[d] = m /\ \A p \in Procs \ {d} : sending'[p] = sending[p]
  BY <1>1 DEF Reply
<1> QED
  BY <1>1, <1>2, HeldAfterReply

\* What the main server sends is the request, the query or the answer.
LEMMA MasterSends ==
  ASSUME Settled, Turns, MasterStep
  PROVE  \E t, m :
           /\ Taken(Master, t) /\ Reply(Master, m)
           /\ m # Nothing => ~Side(m) /\ m.cli = Msg(Master).cli
           /\ UNCHANGED job /\ UNCHANGED clientVars
<1>1. current_request # 0
  BY DEF Turns, Orderly, QueryInv, Owned, Typed, TypeOK, MasterOK
<1>2. \A kind : Refuse(kind) =>
        \E m : /\ Reply(Master, m)
               /\ ~Side(m) /\ m.cli = Msg(Master).cli
  BY DEF Refuse, ParseNewMessageResponse, Side
<1>3. \A state, command : /\ Accept(state, command)
                          /\ command.id # 0 /\ command.cli = Msg(Master).cli
        => \E m : Reply(Master, m) /\ ~Side(m) /\ m.cli = Msg(Master).cli
  BY DEF Accept, Side
<1>4. \A command : /\ MasterWrite(command)
                   /\ command.id # 0 /\ command.cli = Msg(Master).cli
        => /\ \E m : Reply(Master, m) /\ ~Side(m) /\ m.cli = Msg(Master).cli
           /\ UNCHANGED job /\ UNCHANGED clientVars
  BY <1>2, <1>3 DEF MasterWrite
<1>5. CASE MasterCreate
  <2>1. PICK command : /\ MasterWrite(command) /\ command.id # 0
                       /\ command.cli = Msg(Master).cli /\ Taken(Master, "C")
    BY <1>1, <1>5 DEF MasterCreate, ParseNewNode
  <2> QED
    BY <1>4, <2>1
<1>6. CASE MasterUpdate
  <2>1. PICK command : /\ MasterWrite(command) /\ command.id # 0
                       /\ command.cli = Msg(Master).cli /\ Taken(Master, "U")
    BY <1>1, <1>6 DEF MasterUpdate, ParseNewUpdate
  <2> QED
    BY <1>4, <2>1
<1>7. CASE MasterDelete
  <2>1. PICK command : /\ MasterWrite(command) /\ command.id # 0
                       /\ command.cli = Msg(Master).cli /\ Taken(Master, "D")
    BY <1>1, <1>7 DEF MasterDelete, ParseNewDelete
  <2> QED
    BY <1>4, <2>1
<1>8. CASE MasterQuery
  <2>1. /\ Taken(Master, "R") /\ UNCHANGED job /\ UNCHANGED clientVars
        /\ \/ Refuse("detached")
           \/ \E state, command : /\ Accept(state, command) /\ command.id # 0
                                  /\ command.cli = Msg(Master).cli
    BY <1>1, <1>8 DEF MasterQuery, ParseNewQuery
  <2> QED
    BY <1>2, <1>3, <2>1
<1>9. CASE MasterMessage
  <2>1. /\ Taken(Master, "M") /\ UNCHANGED job /\ UNCHANGED clientVars
        /\ \E m : /\ Reply(Master, m)
                  /\ m # Nothing => ~Side(m) /\ m.cli = Msg(Master).cli
    BY <1>9 DEF MasterMessage, Exit, ParseNewMessageResponse, Side
  <2> QED
    BY <2>1
<1>10. CASE MasterInfo
  <2>1. \A text : Complete(text) =>
          \E m : Reply(Master, m) /\ ~Side(m) /\ m.cli = Msg(Master).cli
    BY DEF Complete, ParseNewMessageResponse, Side
  <2>2. \A q : Continue(q) =>
          \E m : Reply(Master, m) /\ ~Side(m) /\ m.cli = Msg(Master).cli
    BY DEF Continue, ParseNewQuery, Side
  <2>3. /\ Taken(Master, "I") /\ UNCHANGED job /\ UNCHANGED clientVars
        /\ \/ \E text : Complete(text)
           \/ \E q : Continue(q)
           \/ Reply(Master, Nothing)
    BY <1>10 DEF MasterInfo, Exit
  <2> QED
    BY <2>1, <2>2, <2>3
<1>11. CASE MasterEnrol
  BY <1>11 DEF MasterEnrol
<1> QED
  BY <1>5, <1>6, <1>7, <1>8, <1>9, <1>10, <1>11 DEF MasterStep

LEMMA TurnsMaster ==
  ASSUME Settled, Turns, Orderly', MasterStep
  PROVE  Turns'
<1>1. PICK t, m : /\ Taken(Master, t) /\ Reply(Master, m)
                  /\ m # Nothing => ~Side(m) /\ m.cli = Msg(Master).cli
                  /\ UNCHANGED job /\ UNCHANGED clientVars
  BY MasterSends
<1>2. /\ Master \in Procs /\ Master \notin Repos
      /\ Held(Master) = Msg(Master) /\ Msg(Master) # Nothing
      /\ Msg(Master).to = Master
  BY <1>1, TakenHeld, Separate DEF Turns
<1>3. Main(Held(Master))
  BY <1>2 DEF Main, Side
<1>4. Serves(Master) /\ Msg(Master).cli \in Running
  BY <1>2, <1>3 DEF Serves, Turns, OneHand
<1>5. /\ Held(Master)' = m /\ \A p \in Procs \ {Master} : Held(p)' = Held(p)
      /\ \A p \in Procs \ {Master} : sending'[p] = sending[p]
  BY <1>1, <1>2, ReplySends DEF Turns
<1> QED
  BY <1>1, <1>2, <1>4, <1>5, TurnsActs

LEMMA TurnsRepoReply ==
  ASSUME Settled, Turns, Orderly', NEW r \in Repos, NEW t, Taken(r, t),
         NEW m, Reply(r, m), \A x \in Repos \ {r} : job'[x] = job[x],
         UNCHANGED clientVars,
         m # Nothing => IF Side(m) THEN m.table = <<>> /\ Heads(r)'
                        ELSE /\ m.cli = Msg(r).cli /\ Main(Msg(r))
                             /\ job'[r] = Nothing,
         job'[r] # Nothing =>
           IF job'[r].id = 0 THEN job'[r].table = <<>>
                             ELSE job'[r].cli = Msg(r).cli /\ Main(Msg(r))
  PROVE  Turns'
<1>1. r \in Procs /\ Held(r) = Msg(r) /\ Msg(r) # Nothing
  BY TakenHeld, Separate DEF Turns
<1>2. Main(Msg(r)) => Serves(r) /\ Msg(r).cli \in Running
  BY <1>1 DEF Serves, Turns, OneHand
<1>3. /\ Held(r)' = m /\ \A p \in Procs \ {r} : Held(p)' = Held(p)
      /\ \A p \in Procs \ {r} : sending'[p] = sending[p]
  BY <1>1, ReplySends DEF Turns
<1> QED
  BY <1>1, <1>2, <1>3, TurnsActs

\* A request at its repository has a number, another message is a half.
LEMMA MainNumber ==
  ASSUME Turns, NEW r \in Repos, NEW t \in {"C", "D"}, Taken(r, t)
  PROVE  /\ Main(Msg(r)) <=> Msg(r).id # 0
         /\ Msg(r).id = 0 => Msg(r).table = <<>>
<1>1. /\ r \in Procs /\ Held(r) = Msg(r) /\ Msg(r) # Nothing
      /\ Msg(r).type = t /\ Msg(r).to = r
  BY TakenHeld, Separate DEF Turns
<1> QED
  BY <1>1 DEF Main, Side, Turns, Leads

LEMMA NewJob ==
  ASSUME Turns, NEW r \in Repos, NEW t \in {"C", "D"}, Taken(r, t),
         NEW todo \in Seq(Names), NEW kind \in Kinds
  PROVE  LET m == Msg(r)
             j == [name |-> m.body.name, todo |-> todo, id |-> m.id,
                   table |-> m.table, from |-> From(r), cli |-> m.cli,
                   kind |-> kind]
         IN  j \in Job /\ j # Nothing
<1>1. Msg(r) \in Message /\ Msg(r).type = t /\ From(r) \in Procs
  BY TakenHeld, Separate DEF Turns
<1>2. /\ Msg(r).body.name \in Names /\ Msg(r).id \in Nat
      /\ Msg(r).table \in Seq(Repos) /\ Msg(r).cli \in Clients
  BY <1>1, CommandFields, RequestFields
<1>3. [name |-> Msg(r).body.name, todo |-> todo, id |-> Msg(r).id,
       table |-> Msg(r).table, from |-> From(r), cli |-> Msg(r).cli,
       kind |-> kind] \in Job
  BY <1>1, <1>2 DEF Job
<1> QED
  BY <1>3, NothingAssumption

LEMMA TurnsRepoCreate ==
  ASSUME Settled, Turns, Orderly', NEW r \in Repos, RepoCreate(r)
  PROVE  Turns'
<1>1. PICK m, b : m = Msg(r) /\ b = m.body
  OBVIOUS
<1>2. /\ Taken(r, "C") /\ ~Fail(failures) /\ UNCHANGED clientVars
      /\ job \in [Repos -> Job \cup {Nothing}]
  BY NoFailure, SettledCluster
     DEF RepoCreate, Turns, Orderly, QueryInv, Owned, Typed, TypeOK
<1>3. /\ Reply(r, Nothing)
      /\ job' = [job EXCEPT ![r] =
                   [name |-> b.name, todo |-> b.rels, id |-> m.id,
                    table |-> m.table, from |-> From(r), cli |-> m.cli,
                    kind |-> IF b.name \in nodes[r] THEN "exists"
                                                     ELSE "stored"]]
  BY <1>1, <1>2 DEF RepoCreate
<1>4. /\ \A x \in Repos \ {r} : job'[x] = job[x]
      /\ job'[r].id = m.id /\ job'[r].table = m.table /\ job'[r].cli = m.cli
  BY <1>2, <1>3
<1> QED
  BY <1>1, <1>2, <1>3, <1>4, MainNumber, TurnsRepoReply

LEMMA TurnsRepoDelete ==
  ASSUME Settled, Turns, Orderly', NEW r \in Repos, RepoDelete(r)
  PROVE  Turns'
<1>1. PICK m, b : m = Msg(r) /\ b = m.body
  OBVIOUS
<1>2. PICK half :
        /\ Reply(r, half)
        /\ half = IF b.object = 2 /\ m.table # <<>>
                    THEN ParseNewDelete(Route(m.table, b.rel),
                                        [op |-> "D", name |-> b.rel, object |-> 2,
                                         rel |-> b.name], 0, <<>>, m.cli)
                    ELSE Nothing
  BY <1>1 DEF RepoDelete
<1>3. /\ Taken(r, "D") /\ UNCHANGED clientVars
      /\ job \in [Repos -> Job \cup {Nothing}]
      /\ job' = [job EXCEPT ![r] =
                  [name |-> b.name, todo |-> <<>>, id |-> m.id,
                   table |-> m.table, from |-> From(r), cli |-> m.cli,
                   kind |-> IF b.object = 1 THEN "cleared" ELSE "deleted"]]
  BY <1>1 DEF RepoDelete, Turns, Orderly, QueryInv, Owned, Typed, TypeOK
<1>4. /\ \A x \in Repos \ {r} : job'[x] = job[x]
      /\ job'[r].id = m.id /\ job'[r].table = m.table /\ job'[r].cli = m.cli
      /\ job'[r] = [name |-> b.name, todo |-> <<>>, id |-> m.id,
                   table |-> m.table, from |-> From(r), cli |-> m.cli,
                   kind |-> IF b.object = 1 THEN "cleared" ELSE "deleted"]
  BY <1>3
<1>5. /\ m.table # <<>> => Main(m) /\ m.id # 0
      /\ m.table # <<>> => Route(m.table, b.rel) \in Repos
  <2>1. m.table # <<>> => Main(m) /\ m.id # 0
    BY <1>1, <1>3, MainNumber
  <2>2. m \in Message /\ m.type = "D" /\ b.op = "D"
    BY <1>1, <1>3, RepoReads DEF Turns, Commands
  <2>3. m.table \in Seq(Repos) /\ b \in DeleteRequest
    BY <1>1, <2>2, CommandFields, RequestFields
  <2> QED
    BY <2>1, <2>3, RouteType DEF DeleteRequest
<1>6. ASSUME half # Nothing
      PROVE  Side(half) /\ half.table = <<>> /\ Heads(r)'
  <2>1. /\ half = ParseNewDelete(Route(m.table, b.rel),
                                 [op |-> "D", name |-> b.rel, object |-> 2,
                                  rel |-> b.name], 0, <<>>, m.cli)
        /\ m.table # <<>>
    BY <1>2, <1>6
  <2>2. Side(half) /\ half.table = <<>>
    BY <1>5, <2>1 DEF ParseNewDelete, Side
  <2>3. job'[r] # Nothing
    <3>1. <<>> \in Seq(Names) /\ (IF b.object = 1 THEN "cleared" ELSE "deleted") \in Kinds
      BY DEF Kinds, LongTexts, BriefTexts
    <3> QED
      BY <1>1, <1>3, <1>4, <3>1, NewJob
  <2> QED
    BY <1>4, <1>5, <2>1, <2>2, <2>3 DEF Heads
<1> QED
  BY <1>1, <1>2, <1>3, <1>4, <1>6, MainNumber, TurnsRepoReply

LEMMA TurnsRepoAnswer ==
  ASSUME Settled, Turns, Orderly', NEW r \in Repos,
         RepoQuery(r) \/ RepoUpdate(r) \/ RepoMessage(r)
  PROVE  Turns'
<1>1. ~RepoMessage(r)
  <2> SUFFICES ASSUME Taken(r, "M") PROVE FALSE
    BY DEF RepoMessage
  <2>1. Msg(r).to = r /\ Msg(r).type = "M" /\ Sound(Msg(r))
    BY TakenHeld, Separate DEF Turns
  <2> QED
    BY <2>1 DEF Sound
<1>2. PICK t, m : /\ t \in {"R", "U"} /\ Taken(r, t) /\ Reply(r, m)
                  /\ m.type \in {"I", "M"} /\ m.cli = Msg(r).cli
                  /\ UNCHANGED job /\ UNCHANGED clientVars
  BY <1>1 DEF RepoQuery, RepoUpdate, ParseNewInfoResponse,
              ParseNewMessageResponse
<1>3. ~Side(m) /\ Main(Msg(r)) /\ job[r] = Nothing
  <2>1. Msg(r).type = t /\ Msg(r) # Nothing /\ Held(r) = Msg(r)
    BY <1>2, TakenHeld, Separate DEF Turns
  <2>2. Main(Msg(r))
    BY <1>2, <2>1 DEF Main, Side
  <2> QED
    BY <1>2, <2>1, <2>2, MainHeld DEF Side
<1> QED
  BY <1>2, <1>3, TurnsRepoReply

LEMMA TurnsRepoRelation ==
  ASSUME Settled, Turns, Orderly', NEW r \in Repos, RepoRelation(r)
  PROVE  Turns'
<1>1. PICK j, b : j = job[r] /\ b = Head(j.todo)
  OBVIOUS
<1>2. PICK m :
        /\ sending' = [sending EXCEPT ![r] = m]
        /\ m = IF j.table = <<>> THEN Nothing
               ELSE ParseNewNode(Route(j.table, b),
                                 [op |-> "C", name |-> b, attr |-> FALSE,
                                  rels |-> <<j.name>>],
                                 0, <<>>, j.cli)
  BY <1>1, RepoWrites DEF Turns
<1>3. /\ j \in Job /\ j # Nothing /\ b \in Names /\ taken[r] = Nothing
      /\ job' = [job EXCEPT ![r].todo = Tail(@)]
      /\ UNCHANGED taken /\ UNCHANGED clientVars
  BY <1>1, RepoWrites DEF Turns, socketVars
<1>4. /\ job \in [Repos -> Job \cup {Nothing}] /\ Owned
      /\ sending \in [Procs -> Message \cup {Nothing}]
  BY DEF Turns, Orderly, QueryInv, Owned, Typed, TypeOK, SocketOK
<1>5. /\ job'[r] = [j EXCEPT !.todo = Tail(@)]
      /\ \A x \in Repos \ {r} : job'[x] = job[x]
  BY <1>1, <1>3, <1>4
<1>6. /\ job'[r].id = j.id /\ job'[r].table = j.table /\ job'[r].cli = j.cli
  BY <1>3, <1>5 DEF Job
<1>7. job'[r] # Nothing
  <2>1. j.todo \in Seq(Names) /\ j.todo # <<>>
    BY <1>1, RepoWrites DEF Turns
  <2>2. job'[r] \in Job
    <3>1. Tail(j.todo) \in Seq(Names)
      BY <2>1
    <3>2. ASSUME NEW k \in Job, NEW s \in Seq(Names)
          PROVE  [k EXCEPT !.todo = s] \in Job
      BY DEF Job
    <3> QED
      BY <1>3, <1>5, <3>1, <3>2
  <2> QED
    BY <2>2, NothingAssumption
<1>8. r \in Procs /\ Serves(r) <=> (Main(Held(r)) \/ Heads(r))
  BY Separate DEF Serves
<1>9. ASSUME m # Nothing
      PROVE  Side(m) /\ m.table = <<>> /\ Heads(r)'
  <2>1. j.table # <<>> /\ j.table \in Seq(Repos)
    BY <1>2, <1>3, <1>9 DEF Job
  <2>2. Route(j.table, b) \in Repos
    BY <1>3, <2>1, RouteType
  <2>3. Side(m) /\ m.table = <<>>
    BY <1>2, <2>1, <2>2 DEF ParseNewNode, Side
  <2>4. j.id # 0
    BY <1>1, <1>3, <2>1 DEF Turns, Leads
  <2> QED
    BY <1>6, <1>7, <2>3, <2>4 DEF Heads
<1>10. IF job'[r].id = 0 THEN job'[r].table = <<>>
                         ELSE Serves(r) /\ job'[r].cli \in Running
  BY <1>1, <1>3, <1>6, <1>8 DEF Heads, Turns, OneHand, Leads
<1>11. /\ Held(r)' = m /\ \A p \in Procs \ {r} : Held(p)' = Held(p)
       /\ \A p \in Procs \ {r} : sending'[p] = sending[p]
  <2>1. r \in Procs
    BY Separate
  <2> QED
    BY <1>2, <1>3, <1>4, <2>1, HeldAfterSend
<1>12. r \in Procs
  BY Separate
<1> QED
  BY <1>3, <1>5, <1>9, <1>10, <1>11, <1>12, TurnsActs

LEMMA TurnsRepoFinish ==
  ASSUME Settled, Turns, Orderly', NEW r \in Repos, RepoFinish(r)
  PROVE  Turns'
<1>1. PICK j, m :
        /\ j = job[r]
        /\ m = IF j.id = 0 THEN Nothing
               ELSE ParseNewMessageResponse(Master, Say(j.kind), j.id, j.cli)
  OBVIOUS
<1>2. /\ sending' = [sending EXCEPT ![r] = m]
      /\ job' = [job EXCEPT ![r] = Nothing] /\ j # Nothing
      /\ UNCHANGED taken /\ UNCHANGED clientVars
  BY <1>1 DEF RepoFinish, socketVars
<1>3. /\ job \in [Repos -> Job \cup {Nothing}] /\ taken[r] = Nothing
      /\ r \in Procs /\ Owned
      /\ sending \in [Procs -> Message \cup {Nothing}]
  BY <1>1, <1>2, Separate
     DEF Turns, Orderly, QueryInv, Owned, Typed, TypeOK, SocketOK, Solo
<1>4. /\ Held(r)' = m /\ \A p \in Procs \ {r} : Held(p)' = Held(p)
      /\ \A p \in Procs \ {r} : sending'[p] = sending[p]
  BY <1>2, <1>3, HeldAfterSend
<1>5. job'[r] = Nothing /\ \A x \in Repos \ {r} : job'[x] = job[x]
  BY <1>2, <1>3
<1>6. ASSUME m # Nothing
      PROVE  ~Side(m) /\ Serves(r) /\ m.cli \in Running
  <2>1. j.id # 0 /\ m.type = "M" /\ m.cli = j.cli
    BY <1>1, <1>6 DEF ParseNewMessageResponse
  <2>2. Heads(r)
    BY <1>1, <1>2, <2>1 DEF Heads
  <2> QED
    BY <1>1, <2>1, <2>2 DEF Side, Serves, Turns, OneHand
<1> QED
  BY <1>2, <1>3, <1>4, <1>5, <1>6, TurnsActs

LEMMA TurnsRepo ==
  ASSUME Settled, Turns, Orderly', NEW r \in Repos, RepoStep(r)
  PROVE  Turns'
BY TurnsRepoCreate, TurnsRepoDelete, TurnsRepoAnswer, TurnsRepoRelation,
   TurnsRepoFinish DEF RepoStep

\* A client starts when none runs, so when nothing is in any hand.
LEMMA NoneRuns ==
  ASSUME InTurns, Turns, NEW c \in Clients, Invoke(c)
  PROVE  /\ Running = {} /\ \A p \in Procs : ~Serves(p) /\ sending[p] = Nothing
<1>1. Cardinality(Running) < 1
  BY DEF Invoke, InTurns
<1>2. ASSUME NEW d \in Running PROVE FALSE
  <2>1. Running = {d}
    BY DEF Turns, OneHand
  <2>2. Cardinality({d}) = 1
    BY FS_Singleton
  <2> QED
    BY <1>1, <2>1, <2>2
<1> QED
  BY <1>2 DEF Serves, Turns, OneHand, Leads

LEMMA TurnsInvoke ==
  ASSUME InTurns, Turns, Orderly', NEW c \in Clients, Invoke(c)
  PROVE  Turns'
<1>1. PICK r \in Request :
        /\ request' = [request EXCEPT ![c] = r]
        /\ Held(c)' = ClientCommand(r, c)
        /\ \A p \in Procs \ {c} : Held(p)' = Held(p)
        /\ UNCHANGED job /\ UNCHANGED answer
        /\ request[c] = Nothing /\ answer[c] = Nothing
  BY InvokeActs DEF Turns
<1>2. PICK m : m = ClientCommand(r, c)
  OBVIOUS
<1>3. m.to = Master /\ m.cli = c
  BY <1>2, CommandOf
<1>4. /\ Running = {} /\ \A p \in Procs : ~Serves(p) /\ sending[p] = Nothing
      /\ c \in Procs /\ c \notin Repos
  BY NoneRuns, Separate
<1>5. /\ request \in [Clients -> Request \cup {Nothing}] /\ r # Nothing
      /\ sending \in [Procs -> Message \cup {Nothing}]
  BY NothingAssumption
     DEF Turns, Orderly, QueryInv, Owned, Typed, TypeOK, ClientOK, SocketOK
<1>6. Running' = {c}
  BY <1>1, <1>4, <1>5 DEF Running
<1>7. ~Side(m)
  BY <1>3, Separate DEF Side
<1>8. \A p \in Procs \ {c} : /\ Main(Held(p))' <=> Main(Held(p))
                             /\ Side(Held(p))' <=> Side(Held(p))
                             /\ Held(p)' = Held(p)
  BY <1>1 DEF Main, Side
<1>9. \A r2 \in Repos : (Heads(r2)' <=> Heads(r2)) /\ ~Heads(r2)
  BY <1>1, <1>4, Separate DEF Heads, Serves
<1>10. \A p \in Procs \ {c} : ~Serves(p)'
  BY <1>4, <1>8, <1>9 DEF Serves
<1>11. \A p \in Procs : Main(Held(p))' => Held(p).cli' \in Running'
  BY <1>1, <1>2, <1>3, <1>6, <1>10 DEF Serves
<1>12. OneHand'
  BY <1>6, <1>9, <1>10, <1>11 DEF OneHand
<1>13. /\ sending' = [sending EXCEPT ![c] = m]
  <2>1. PICK b : sending' = [sending EXCEPT ![c] = ClientCommand(b, c)]
    BY DEF Invoke
  <2>2. taken[c] = Nothing /\ UNCHANGED taken
    BY <1>1, <1>4 DEF Turns, Orderly, QueryInv, Solo, Invoke, socketVars
  <2>3. Held(c)' = ClientCommand(b, c)
    BY <1>4, <2>1, <2>2, HeldAfterSend DEF Turns, Orderly, QueryInv
  <2> QED
    BY <1>1, <1>2, <2>1, <2>3
<1>14. \A p \in Procs : sending'[p] # Nothing => Serves(p)'
  <2>1. \A p \in Procs \ {c} : sending'[p] = Nothing
    BY <1>4, <1>5, <1>13
  <2>2. m \in Message
    <3>1. r.op \in {"C", "R", "U", "D"}
      BY RequestFields
    <3>2. Master \in Procs /\ 0 \in Nat /\ <<>> \in Seq(Repos)
      BY DEF Procs
    <3> QED
      BY <1>2, <3>1, <3>2, CommandType DEF ClientCommand
  <2>3. Held(c)' # Nothing /\ Held(c)' = m
    BY <1>1, <1>2, <2>2, NothingAssumption
  <2> QED
    BY <1>7, <2>1, <2>3 DEF Serves, Main, Side
<1>15. \A r2 \in Repos : sending'[r2] = Nothing
  BY <1>4, <1>5, <1>13, Separate
<1>16. \A p \in Procs : Held(p)' # Nothing /\ Side(Held(p))' => Held(p).table' = <<>>
  BY <1>1, <1>2, <1>7, <1>8 DEF Turns, Leads, Side
<1>17. Leads'
  BY <1>1, <1>14, <1>15, <1>16 DEF Turns, Leads
<1> QED
  BY <1>12, <1>17 DEF Turns

LEMMA TurnsWaitResponse ==
  ASSUME Turns, Orderly', NEW c \in Clients, WaitResponse(c)
  PROVE  Turns'
<1>1. /\ Held(c) = Msg(c) /\ Msg(c) \in Message /\ Msg(c).type = "M"
      /\ answer' = [answer EXCEPT ![c] = Msg(c).text]
      /\ Held(c)' = Nothing
      /\ \A p \in Procs \ {c} : Held(p)' = Held(p)
      /\ UNCHANGED job /\ UNCHANGED request /\ c \in Procs /\ c \notin Repos
  BY WaitResponseActs, Separate DEF Turns
<1>2. Serves(c)
  BY <1>1, NothingAssumption DEF Serves, Main, Side
<1>3. \A p \in Procs : ~Serves(p)'
  <2>1. \A p \in Procs \ {c} : Serves(p)' <=> Serves(p)
    BY <1>1 DEF Serves, Main, Side, Heads
  <2>2. ~Serves(c)'
    BY <1>1 DEF Serves, Main
  <2> QED
    BY <1>1, <1>2, <2>1, <2>2 DEF Turns, OneHand
<1>4. Running' \subseteq Running
  <2>1. answer \in [Clients -> Text \cup {Nothing}]
    BY DEF Turns, Orderly, QueryInv, Owned, Typed, TypeOK, ClientOK
  <2>2. answer[c] = Nothing
    <3>1. Msg(c).cli = c /\ Main(Held(c))
      BY <1>1, <1>2, WaitResponseActs DEF Serves, Turns
    <3> QED
      BY <1>1, <3>1 DEF Turns, OneHand, Running
  <2> QED
    BY <1>1, <2>1, <2>2 DEF Running
<1>5. OneHand'
  BY <1>3, <1>4, Separate DEF Serves, Turns, OneHand
<1>6. \A p \in Procs : sending'[p] = Nothing
  <2>1. \A p \in Procs : sending[p] = Nothing
    <3>1. sending[c] = Nothing
      BY <1>1, HeldTaken DEF WaitResponse, Taken, Turns
    <3> QED
      BY <1>1, <1>2, <3>1 DEF Turns, OneHand, Leads
  <2>2. Reply(c, Nothing)
    BY DEF WaitResponse, Exit
  <2>3. sending \in [Procs -> Message \cup {Nothing}]
    BY DEF Turns, Orderly, QueryInv, Owned, Typed, TypeOK, SocketOK
  <2> QED
    BY <2>1, <2>2, <2>3 DEF Reply
<1>7. \A p \in Procs : Held(p)' # Nothing /\ Side(Held(p))' => Held(p).table' = <<>>
  BY <1>1 DEF Turns, Leads, Side
<1>8. Leads'
  BY <1>1, <1>6, <1>7, Separate DEF Turns, Leads
<1> QED
  BY <1>5, <1>8 DEF Turns

LEMMA TurnsStep ==
  ASSUME InTurns, Turns, [Next]_vars
  PROVE  Turns'
<1>1. Settled /\ Orderly'
  BY OrderlyStep DEF InTurns, Turns
<1>2. \A r \in Repos : ~SetRepository(r)
  BY DEF Turns, Orderly, SetRepository
<1>3. ~SetServer
  BY <1>1, SettledCluster DEF SetServer
<1> QED
  BY <1>1, <1>2, <1>3, TurnsMoves, TurnsMaster, TurnsRepo, TurnsInvoke,
     TurnsWaitResponse DEF Next, Work

LEMMA TurnsInit == ASSUME InTurns, Init PROVE Turns
<1>1. Orderly
  BY OrderlyInit DEF InTurns
<1>2. /\ \A p \in Procs : sending[p] = Nothing /\ taken[p] = Nothing
      /\ \A r \in Repos : job[r] = Nothing
      /\ Running = {}
  BY DEF Init, Running
<1>3. \A p \in Procs : Held(p) = Nothing
  BY <1>2 DEF Held
<1> QED
  BY <1>1, <1>2, <1>3 DEF Turns, OneHand, Leads, Serves, Main, Heads

-----------------------------------------------------------------------------
(***************************************************************************)
(* The half of a relation, once its repository has read it, is not lost.   *)
(***************************************************************************)

\* What a repository keeps or has in hand, another process does not touch.
LEMMA HandStays ==
  ASSUME Settled, Orderly, [Next]_vars, NEW r \in Repos
  PROVE  \/ relations'[r] = relations[r] /\ job'[r] = job[r] /\ taken'[r] = taken[r]
         \/ \E s \in Procs : Receive(s, r)
         \/ RepoStep(r)
<1> DEFINE Same == relations'[r] = relations[r] /\ job'[r] = job[r]
                     /\ taken'[r] = taken[r]
<1>1. /\ r \in Procs /\ r # Master /\ r \notin Clients
      /\ taken \in [Procs -> [from : Procs, msg : Message] \cup {Nothing}]
      /\ job \in [Repos -> Job \cup {Nothing}]
      /\ relations \in [Repos -> SUBSET (Names \X Names)]
  BY Separate DEF Orderly, QueryInv, Owned, Typed, TypeOK, SocketOK, StoreOK
<1>2. \A d \in Procs \ {r} : \A m : Reply(d, m) => taken'[r] = taken[r]
  BY <1>1 DEF Reply, NoLongerReads, StopsLingering
<1>3. ASSUME NEW s \in Procs, NEW d \in Procs, Receive(s, d), d # r PROVE Same
  BY <1>1, <1>3 DEF Receive, storeVars
<1>4. ASSUME NEW s \in Procs, NEW d \in Procs, Overrun(s, d) PROVE Same
  BY <1>4 DEF Overrun, storeVars, StopsLingering
<1>5. ASSUME NEW S \in SUBSET up, FalseAcks(S) PROVE Same
  BY <1>5 DEF FalseAcks, socketVars, storeVars
<1>6. ASSUME NEW p \in Procs, Crash(p) PROVE Same
  <2>1. p \in Clients
    BY <1>6 DEF Crash, Settled
  <2> QED
    BY <1>1, <1>6, <2>1 DEF Crash, NoLongerReads, storeVars, StopsLingering
<1>7. MasterStep => Same
  <2>1. MasterStep => UNCHANGED job /\ UNCHANGED relations
    BY DEF MasterStep, MasterCreate, MasterUpdate, MasterDelete, MasterWrite,
           MasterQuery, MasterMessage, MasterInfo, MasterEnrol, storeVars
  <2>2. MasterStep => \E m : Reply(Master, m)
    <3>1. \A kind : Refuse(kind) => \E m : Reply(Master, m)
      BY DEF Refuse
    <3>2. \A state, command : Accept(state, command) => \E m : Reply(Master, m)
      BY DEF Accept
    <3>3. \A command : MasterWrite(command) => \E m : Reply(Master, m)
      BY <3>1, <3>2 DEF MasterWrite
    <3>4. \A text : Complete(text) => \E m : Reply(Master, m)
      BY DEF Complete
    <3>5. \A q : Continue(q) => \E m : Reply(Master, m)
      BY DEF Continue
    <3>6. MasterCreate \/ MasterUpdate \/ MasterDelete => \E m : Reply(Master, m)
      BY <3>3 DEF MasterCreate, MasterUpdate, MasterDelete
    <3>7. MasterQuery => \E m : Reply(Master, m)
      BY <3>1, <3>2 DEF MasterQuery
    <3>8. MasterMessage \/ MasterEnrol => \E m : Reply(Master, m)
      BY DEF MasterMessage, MasterEnrol, Exit
    <3>9. MasterInfo => \E m : Reply(Master, m)
      BY <3>4, <3>5 DEF MasterInfo, Exit
    <3> QED
      BY <3>6, <3>7, <3>8, <3>9 DEF MasterStep
  <2> QED
    BY <1>1, <1>2, <2>1, <2>2, Separate
<1>8. ASSUME NEW x \in Repos \ {r}, RepoStep(x) PROVE Same
  <2>1. job'[r] = job[r] /\ relations'[r] = relations[r]
    BY <1>1, <1>8 DEF RepoStep, RepoCreate, RepoRelation, RepoFinish, RepoQuery,
       RepoUpdate, RepoDelete, RepoMessage, storeVars
  <2>2. UNCHANGED taken \/ \E m : Reply(x, m)
    BY <1>8 DEF RepoStep, RepoCreate, RepoRelation, RepoFinish, RepoQuery,
       RepoUpdate, RepoDelete, RepoMessage, Exit, socketVars
  <2> QED
    BY <1>2, <2>1, <2>2, Separate
<1>9. ASSUME NEW c \in Clients, Invoke(c) \/ WaitResponse(c) PROVE Same
  <2>1. Invoke(c) => Same
    BY DEF Invoke, socketVars, storeVars
  <2>2. WaitResponse(c) => Same
    BY <1>1, <1>2, Separate DEF WaitResponse, Exit, storeVars
  <2> QED
    BY <1>9, <2>1, <2>2
<1>10. ASSUME SetServer \/ \E x \in Repos : SetRepository(x) PROVE Same
  BY <1>10 DEF SetServer, SetRepository, socketVars, storeVars
<1>11. UNCHANGED vars => Same
  BY DEF vars, procVars, socketVars, storeVars
<1> QED
  BY <1>3, <1>4, <1>5, <1>6, <1>7, <1>8, <1>9, <1>10, <1>11 DEF Next, Work

\* A turn of the loop writes what it takes from the list.
LEMMA TodoAfter ==
  ASSUME Settled, Orderly, NEW r \in Repos, RepoRelation(r)
  PROVE  /\ job'[r] # Nothing /\ job'[r] \in Job
         /\ job'[r].name = job[r].name /\ job'[r].todo = Tail(job[r].todo)
         /\ job'[r].id = job[r].id /\ job'[r].cli = job[r].cli
         /\ job'[r].kind = job[r].kind /\ job'[r].table = job[r].table
         /\ relations'[r] = relations[r]
                              \cup {<<job[r].name, Head(job[r].todo)>>}
         /\ \A x \in Repos \ {r} : job'[x] = job[x]
<1>1. /\ job[r] \in Job /\ job[r].todo \in Seq(Names) /\ job[r].todo # <<>>
      /\ relations' = [relations EXCEPT
           ![r] = @ \cup {<<job[r].name, Head(job[r].todo)>>}]
      /\ job' = [job EXCEPT ![r].todo = Tail(@)]
  BY RepoWrites
<1>2. /\ job \in [Repos -> Job \cup {Nothing}]
      /\ relations \in [Repos -> SUBSET (Names \X Names)]
  BY DEF Orderly, QueryInv, Owned, Typed, TypeOK, StoreOK
<1>3. /\ job'[r] = [job[r] EXCEPT !.todo = Tail(@)]
      /\ \A x \in Repos \ {r} : job'[x] = job[x]
  BY <1>1, <1>2
<1>4. job'[r] \in Job
  <2>1. Tail(job[r].todo) \in Seq(Names)
    BY <1>1
  <2>2. ASSUME NEW k \in Job, NEW s \in Seq(Names)
        PROVE  [k EXCEPT !.todo = s] \in Job
    BY DEF Job
  <2> QED
    BY <1>1, <1>3, <2>1, <2>2
<1>5. ASSUME NEW k \in Job, NEW s, NEW h, h = [k EXCEPT !.todo = s]
      PROVE  /\ h.name = k.name /\ h.id = k.id /\ h.cli = k.cli /\ h.todo = s
             /\ h.kind = k.kind /\ h.table = k.table
  BY <1>5 DEF Job
<1>6. /\ job'[r].name = job[r].name /\ job'[r].todo = Tail(job[r].todo)
      /\ job'[r].id = job[r].id /\ job'[r].cli = job[r].cli
      /\ job'[r].kind = job[r].kind /\ job'[r].table = job[r].table
  <2>1. PICK k, s, h : k = job[r] /\ s = Tail(job[r].todo) /\ h = job'[r]
    OBVIOUS
  <2>2. k \in Job /\ h = [k EXCEPT !.todo = s]
    BY <1>1, <1>3, <2>1
  <2>3. /\ h.name = k.name /\ h.id = k.id /\ h.cli = k.cli /\ h.todo = s
        /\ h.kind = k.kind /\ h.table = k.table
    BY <1>5, <2>2
  <2> QED
    BY <2>1, <2>3
<1>7. relations'[r] = relations[r] \cup {<<job[r].name, Head(job[r].todo)>>}
  BY <1>1, <1>2
<1> QED
  BY <1>3, <1>4, <1>6, <1>7, NothingAssumption

\* What of a half is in the file, in the handler, or only read.
InFile(r, a, b) == <<a, b>> \in relations[r]
InJob(r, a, b) ==
  job[r] # Nothing /\ job[r].name = a /\ b \in ToSet(job[r].todo)
Relates(m, a, b) == m.type = "C" /\ m.body.name = a /\ b \in ToSet(m.body.rels)
InHand(r, a, b) == taken[r] # Nothing /\ Relates(taken[r].msg, a, b)

LEMMA HalfMeans ==
  ASSUME NEW a, NEW b
  PROVE  Half(a, b) <=> LET r == HomeOf(a) IN
           InFile(r, a, b) \/ InJob(r, a, b) \/ InHand(r, a, b)
BY DEF Half, InFile, InJob, InHand, Relates

LEMMA HalfMeansNext ==
  ASSUME NEW a, NEW b
  PROVE  Half(a, b)' <=> LET r == HomeOf(a) IN
           InFile(r, a, b)' \/ InJob(r, a, b)' \/ InHand(r, a, b)'
BY DEF Half, InFile, InJob, InHand, Relates, HomeOf, Route

LEMMA HalfRelation ==
  ASSUME Settled, Orderly, NEW a, NEW b, NEW r \in Repos, r = HomeOf(a),
         RepoRelation(r)
  PROVE  Half(a, b)' <=> Half(a, b)
<1>1. PICK j, top : j = job[r] /\ top = Head(j.todo)
  OBVIOUS
<1>2. /\ j # Nothing /\ taken[r] = Nothing /\ taken'[r] = Nothing
      /\ j.todo \in Seq(Names) /\ j.todo # <<>>
  BY <1>1, RepoWrites DEF socketVars
<1>3. /\ job'[r] # Nothing /\ job'[r].name = j.name /\ job'[r].todo = Tail(j.todo)
      /\ relations'[r] = relations[r] \cup {<<j.name, top>>}
  BY <1>1, TodoAfter
<1>4. ToSet(j.todo) = {top} \cup ToSet(Tail(j.todo))
  BY <1>1, <1>2, FirstAndRest
<1>5. ~InHand(r, a, b) /\ ~InHand(r, a, b)'
  BY <1>2 DEF InHand
<1>6. InFile(r, a, b)' <=> InFile(r, a, b) \/ (a = j.name /\ b = top)
  <2>1. <<a, b>> = <<j.name, top>> <=> a = j.name /\ b = top
    OBVIOUS
  <2> QED
    BY <1>3, <2>1 DEF InFile
<1>7. /\ InJob(r, a, b) <=> (a = j.name /\ (b = top \/ b \in ToSet(Tail(j.todo))))
      /\ InJob(r, a, b)' <=> (a = j.name /\ b \in ToSet(Tail(j.todo)))
  <2>1. InJob(r, a, b) <=> (a = j.name /\ b \in ToSet(j.todo))
    BY <1>1, <1>2 DEF InJob
  <2>2. InJob(r, a, b)' <=> (a = j.name /\ b \in ToSet(Tail(j.todo)))
    BY <1>3 DEF InJob, ToSet
  <2> QED
    BY <1>4, <2>1, <2>2
<1> QED
  BY <1>5, <1>6, <1>7, HalfMeans, HalfMeansNext

LEMMA HalfCreate ==
  ASSUME Settled, Orderly, NEW a, NEW b, NEW r \in Repos, r = HomeOf(a),
         RepoCreate(r)
  PROVE  Half(a, b)' <=> Half(a, b)
<1>1. PICK m : m = Msg(r)
  OBVIOUS
<1>2. /\ Taken(r, "C") /\ ~Fail(failures)
      /\ job \in [Repos -> Job \cup {Nothing}]
      /\ taken \in [Procs -> [from : Procs, msg : Message] \cup {Nothing}]
      /\ r \in Procs
  BY NoFailure, SettledCluster, Separate
     DEF RepoCreate, Orderly, QueryInv, Owned, Typed, TypeOK, SocketOK
<1>3. /\ taken[r] # Nothing /\ job[r] = Nothing /\ taken[r].msg = m
      /\ m.type = "C" /\ m \in Message
  <2>1. taken[r] # Nothing /\ taken[r].msg = m /\ m.type = "C" /\ m \in Message
    BY <1>1, <1>2, TakenHeld, Separate DEF Taken, Msg
  <2> QED
    BY <2>1, HeldTaken, Separate
<1>4. PICK j : /\ j = [name |-> m.body.name, todo |-> m.body.rels, id |-> m.id,
                       table |-> m.table, from |-> From(r), cli |-> m.cli,
                       kind |-> IF m.body.name \in nodes[r]
                                  THEN "exists" ELSE "stored"]
               /\ job' = [job EXCEPT ![r] = j]
               /\ Reply(r, Nothing) /\ UNCHANGED relations
  BY <1>1, <1>2 DEF RepoCreate
<1>5. j # Nothing /\ j.name = m.body.name /\ j.todo = m.body.rels
  <2>1. /\ From(r) \in Procs /\ m.body.name \in Names /\ m.id \in Nat
        /\ m.table \in Seq(Repos) /\ m.cli \in Clients
        /\ m.body \in CreateRequest
    BY <1>1, <1>2, <1>3, TakenHeld, CommandFields, RequestFields, Separate
  <2>2. m.body.rels \in Seq(Names)
    BY <2>1 DEF CreateRequest
  <2>3. (IF m.body.name \in nodes[r] THEN "exists" ELSE "stored") \in Kinds
    BY DEF Kinds, LongTexts, BriefTexts
  <2>4. j \in Job
    BY <1>4, <2>1, <2>2, <2>3 DEF Job
  <2> QED
    BY <1>4, <2>4, NothingAssumption
<1>6. job'[r] = j /\ taken'[r] = Nothing
  BY <1>2, <1>4 DEF Reply, NoLongerReads, StopsLingering
<1>7. InFile(r, a, b)' <=> InFile(r, a, b)
  BY <1>4 DEF InFile
<1>8. ~InJob(r, a, b) /\ ~InHand(r, a, b)'
  BY <1>3, <1>6 DEF InJob, InHand
<1>9. InJob(r, a, b)' <=> InHand(r, a, b)
  <2>1. InHand(r, a, b) <=> (m.body.name = a /\ b \in ToSet(m.body.rels))
    BY <1>3 DEF InHand, Relates
  <2>2. InJob(r, a, b)' <=> (j.name = a /\ b \in ToSet(j.todo))
    BY <1>5, <1>6 DEF InJob, ToSet
  <2> QED
    BY <1>5, <2>1, <2>2
<1> QED
  BY <1>7, <1>8, <1>9, HalfMeans, HalfMeansNext

\* The handlers of other messages have no half in hand.
LEMMA HalfOthers ==
  ASSUME Settled, Orderly, NEW a, NEW b, NEW r \in Repos, r = HomeOf(a),
         RepoStep(r), ~RepoCreate(r), ~RepoRelation(r)
  PROVE  Half(a, b)' <=> Half(a, b)
<1>1. /\ job \in [Repos -> Job \cup {Nothing}]
      /\ taken \in [Procs -> [from : Procs, msg : Message] \cup {Nothing}]
      /\ r \in Procs
  BY Separate DEF Orderly, QueryInv, Owned, Typed, TypeOK, SocketOK
<1>2. UNCHANGED relations
  BY DEF RepoStep, RepoFinish, RepoQuery, RepoUpdate, RepoDelete, RepoMessage,
         storeVars
<1>3. ~InHand(r, a, b) /\ ~InHand(r, a, b)'
  <2>1. CASE RepoFinish(r)
    <3>1. taken[r] = Nothing /\ taken'[r] = Nothing
      BY <2>1 DEF RepoFinish, socketVars, Orderly, QueryInv, Solo
    <3> QED
      BY <3>1 DEF InHand
  <2>2. CASE ~RepoFinish(r)
    <3>1. PICK t : Taken(r, t) /\ t # "C" /\ \E m : Reply(r, m)
      BY <2>2 DEF RepoStep, RepoQuery, RepoUpdate, RepoDelete, RepoMessage, Exit
    <3>2. taken'[r] = Nothing
      BY <1>1, <3>1 DEF Reply, NoLongerReads, StopsLingering
    <3> QED
      BY <3>1, <3>2 DEF InHand, Taken, Relates
  <2> QED
    BY <2>1, <2>2
<1>4. ~InJob(r, a, b)' /\ ~InJob(r, a, b)
  <2>1. \A s : s = <<>> => b \notin ToSet(s)
    BY DEF ToSet
  <2>2. CASE RepoFinish(r)
    <3>1. job'[r] = Nothing /\ job[r].todo = <<>>
      BY <1>1, <2>2 DEF RepoFinish
    <3> QED
      BY <2>1, <3>1 DEF InJob
  <2>3. CASE RepoDelete(r)
    <3>1. Taken(r, "D") /\ job'[r].todo = <<>>
      BY <1>1, <2>3 DEF RepoDelete
    <3>2. job[r] = Nothing
      BY <1>1, <3>1, HeldTaken DEF Taken
    <3>3. b \notin ToSet(job[r].todo)'
      BY <3>1 DEF ToSet
    <3> QED
      BY <3>1, <3>2, <3>3 DEF InJob
  <2>4. CASE RepoQuery(r) \/ RepoUpdate(r) \/ RepoMessage(r)
    <3>1. taken[r] # Nothing /\ UNCHANGED job
      BY <2>4 DEF RepoQuery, RepoUpdate, RepoMessage, Taken
    <3>2. job[r] = Nothing
      BY <1>1, <3>1, HeldTaken
    <3> QED
      BY <3>1, <3>2 DEF InJob
  <2> QED
    BY <2>2, <2>3, <2>4 DEF RepoStep
<1>5. InFile(r, a, b)' <=> InFile(r, a, b)
  BY <1>2 DEF InFile
<1> QED
  BY <1>3, <1>4, <1>5, HalfMeans, HalfMeansNext

\* A half is there once it is read, and not before.
LEMMA HalfStep ==
  ASSUME Settled, Orderly, [Next]_vars, NEW a \in Names, NEW b
  PROVE  /\ Half(a, b) => Half(a, b)'
         /\ Half(a, b)' => \/ Half(a, b)
                           \/ \E s \in Procs : /\ Receive(s, HomeOf(a))
                                               /\ Relates(sending[s], a, b)
<1>1. PICK r \in Repos : r = HomeOf(a)
  BY HomeOfRepo
<1>2. CASE relations'[r] = relations[r] /\ job'[r] = job[r] /\ taken'[r] = taken[r]
  <2>1. /\ InFile(r, a, b)' <=> InFile(r, a, b)
        /\ InJob(r, a, b)' <=> InJob(r, a, b)
        /\ InHand(r, a, b)' <=> InHand(r, a, b)
    BY <1>2 DEF InFile, InJob, InHand, Relates, ToSet
  <2> QED
    BY <1>1, <2>1, HalfMeans, HalfMeansNext
<1>3. CASE \E s \in Procs : Receive(s, r)
  <2>1. PICK s \in Procs : Receive(s, r)
    BY <1>3
  <2>2. /\ taken \in [Procs -> [from : Procs, msg : Message] \cup {Nothing}]
        /\ r \in Procs
    BY Separate DEF Orderly, QueryInv, Owned, Typed, TypeOK, SocketOK
  <2>3. /\ taken[r] = Nothing /\ taken'[r].msg = sending[s]
        /\ UNCHANGED relations /\ UNCHANGED job
    BY <2>1, <2>2 DEF Receive, Listening, storeVars
  <2>4. /\ InFile(r, a, b)' <=> InFile(r, a, b)
        /\ InJob(r, a, b)' <=> InJob(r, a, b)
        /\ ~InHand(r, a, b)
        /\ InHand(r, a, b)' => Relates(sending[s], a, b)
    BY <2>3 DEF InFile, InJob, InHand, Relates, ToSet
  <2> QED
    BY <1>1, <2>1, <2>4, HalfMeans, HalfMeansNext
<1>4. CASE RepoStep(r)
  BY <1>1, <1>4, HalfRelation, HalfCreate, HalfOthers
<1> QED
  BY <1>2, <1>3, <1>4, HandStays

-----------------------------------------------------------------------------
(***************************************************************************)
(* The client of a request hears when nobody lingers any more: RecvFrom    *)
(* lingers for sure after the texts that answer a request whose handler    *)
(* sends halves, and in the order it began, so the main server passes them *)
(* on last; the handler of any other request begins when nobody lingers.   *)
(***************************************************************************)
ToMaster(m) == m.type = "M" /\ m.to = Master /\ m.text.kind \in LongTexts

\* The handler of r ends with a text after which nobody may linger.
Brief(r) == Heads(r) /\ job[r].kind \notin LongTexts

\* Only who has read something lingers.
Readers == lingering \subseteq {p \in Procs : taken[p] # Nothing}

\* Who has the request waits for all the others, and such a text is waited
\* for.
Waiting ==
  /\ \A p \in lingering : Main(Held(p)) => ahead[p] = lingering \ {p}
  /\ \A p \in Procs : taken[p] # Nothing /\ ToMaster(Msg(p)) => p \in lingering

\* Others linger only while a handler sends, or has sent, halves.
Others ==
  /\ Running = {} => lingering = {}
  /\ \A p \in Procs :
       Main(Held(p)) /\ ~ToMaster(Held(p)) => lingering \subseteq {p}
  /\ \A r \in Repos : Brief(r) => sending[r] = Nothing /\ lingering = {}

Lingering == Turns /\ Readers /\ Waiting /\ Others

LEMMA OneMain ==
  ASSUME Turns, NEW p \in Procs, Serves(p), NEW q \in Procs, Main(Held(q))
  PROVE  q = p
BY DEF Turns, OneHand, Serves

\* When who has the request goes on, nobody else lingers.
LEMMA NobodyElse ==
  ASSUME Lingering, NEW d \in Procs, NEW t, Taken(d, t), Main(Held(d))
  PROVE  lingering \subseteq {d}
<1>1. ahead[d] = {} /\ taken[d] # Nothing /\ Msg(d).type = t /\ Held(d) = Msg(d)
  BY HeldTaken DEF Taken, Msg, Lingering, Turns
<1>2. CASE d \in lingering
  BY <1>1, <1>2 DEF Lingering, Waiting
<1>3. CASE d \notin lingering
  <2>1. ~ToMaster(Held(d))
    BY <1>1, <1>3 DEF Lingering, Waiting
  <2> QED
    BY <2>1 DEF Lingering, Others
<1> QED
  BY <1>2, <1>3

\* A handler goes on with what it has read.
LEMMA LingerActs ==
  ASSUME Lingering, Turns', NEW d \in Procs, NEW t, Taken(d, t), NEW m, Reply(d, m),
         Main(Held(d)) \/ (m # Nothing => Side(m) \/ ToMaster(m)),
         Main(Held(d)) \/ UNCHANGED Running,
         \A r \in Repos \ {d} : job'[r] = job[r],
         \/ UNCHANGED job
         \/ d \in Repos /\ Brief(d)' => Main(Held(d)) /\ m = Nothing
  PROVE  Lingering'
<1>1. /\ taken \in [Procs -> [from : Procs, msg : Message] \cup {Nothing}]
      /\ ahead \in [Procs -> SUBSET Procs] /\ lingering \subseteq Procs
  BY DEF Lingering, Turns, Orderly, QueryInv, Owned, Typed, TypeOK, SocketOK
<1>2. /\ lingering' = lingering \ {d}
      /\ \A p \in Procs \ {d} : taken'[p] = taken[p] /\ ahead'[p] = ahead[p] \ {d}
      /\ taken'[d] = Nothing
  BY <1>1 DEF Reply, NoLongerReads, StopsLingering
<1>3. Held(d)' = m /\ \A p \in Procs \ {d} : Held(p)' = Held(p)
  BY ReplySends DEF Lingering, Turns
<1>4. Readers'
  BY <1>1, <1>2 DEF Lingering, Readers
<1>5. \A p \in Procs \ {d} : Main(Held(p))' <=> Main(Held(p))
  BY <1>3 DEF Main, Side
<1>6. ASSUME NEW p \in lingering', Main(Held(p))'
      PROVE  ahead'[p] = lingering' \ {p}
  <2>1. p \in lingering /\ p # d /\ Main(Held(p)) /\ p \in Procs
    BY <1>1, <1>2, <1>5, <1>6
  <2>2. ahead[p] = lingering \ {p} /\ ahead'[p] = ahead[p] \ {d}
    BY <1>2, <2>1 DEF Lingering, Waiting
  <2> QED
    BY <1>2, <2>2
<1>7. \A p \in Procs : taken'[p] # Nothing /\ ToMaster(Msg(p))' => p \in lingering'
  BY <1>2 DEF Lingering, Waiting, Msg, ToMaster
<1>8. Main(Held(d)) => lingering' = {}
  BY <1>2, NobodyElse
<1>9. Running' = {} => lingering' = {}
  BY <1>2, <1>8 DEF Lingering, Others
<1>10. ASSUME NEW p \in Procs, Main(Held(p))', ~ToMaster(Held(p))'
       PROVE  lingering' \subseteq {p}
  <2>1. CASE p = d
    BY <1>3, <1>8, <1>10, <2>1 DEF Main, Side, ToMaster
  <2>2. CASE p # d
    <3>1. Main(Held(p)) /\ ~ToMaster(Held(p))
      BY <1>3, <1>5, <1>10, <2>2 DEF ToMaster
    <3> QED
      BY <1>2, <3>1 DEF Lingering, Others
  <2> QED
    BY <2>1, <2>2
<1>11. ASSUME NEW r \in Repos, Brief(r)'
       PROVE  sending'[r] = Nothing /\ lingering' = {}
  <2>1. Turns /\ r \in Procs
    BY Separate DEF Lingering
  <2>2. CASE r = d
    <3>1. job[d] = Nothing
      BY <2>1, <2>2, HeldTaken DEF Taken, Turns
    <3>2. Main(Held(d)) /\ m = Nothing
      BY <1>11, <2>2, <3>1 DEF Brief, Heads
    <3> QED
      BY <1>8, <2>1, <2>2, <3>2, ReplySends DEF Turns
  <2>3. CASE r # d
    <3>1. Brief(r)
      BY <1>11, <2>3 DEF Brief, Heads
    <3>2. sending'[r] = sending[r]
      BY <2>1, <2>3, ReplySends DEF Turns
    <3> QED
      BY <1>2, <3>1, <3>2 DEF Lingering, Others
  <2> QED
    BY <2>2, <2>3
<1>12. Waiting' /\ Others'
  BY <1>6, <1>7, <1>9, <1>10, <1>11 DEF Waiting, Others
<1> QED
  BY <1>4, <1>12 DEF Lingering

\* A handler that has nothing more to read sends a half, or its answer.
LEMMA LingerSends ==
  ASSUME Lingering, Turns', NEW d \in Procs, taken[d] = Nothing,
         UNCHANGED socketVars, UNCHANGED clientVars, NEW m, Held(d)' = m,
         \A p \in Procs \ {d} : Held(p)' = Held(p) /\ sending'[p] = sending[p],
         m # Nothing => Side(m) \/ ToMaster(m) \/ lingering = {},
         \A r \in Repos \ {d} : job'[r] = job[r], ~Brief(d)'
  PROVE  Lingering'
<1>1. UNCHANGED taken /\ UNCHANGED lingering /\ UNCHANGED ahead /\ UNCHANGED Running
  BY DEF socketVars, clientVars, Running
<1>2. \A p \in Procs : Main(Held(p))' /\ ~ToMaster(Held(p))' =>
        \/ lingering = {}
        \/ p # d /\ Main(Held(p)) /\ ~ToMaster(Held(p))
  BY DEF Main, Side, ToMaster
<1>3. \A p \in lingering : p \in Procs /\ p # d
  BY DEF Lingering, Readers
<1>4. \A p \in lingering : Main(Held(p))' => Main(Held(p))
  BY <1>3 DEF Main, Side
<1>5. Readers' /\ Waiting'
  BY <1>1, <1>4 DEF Lingering, Readers, Waiting, Msg, ToMaster
<1>6. ASSUME NEW r \in Repos, Brief(r)'
      PROVE  sending'[r] = Nothing /\ lingering' = {}
  <2>1. r # d /\ r \in Procs
    BY <1>6, Separate
  <2>2. Brief(r) /\ sending'[r] = sending[r]
    BY <1>6, <2>1 DEF Brief, Heads
  <2> QED
    BY <1>1, <2>2 DEF Lingering, Others
<1>7. Others'
  BY <1>1, <1>2, <1>6 DEF Lingering, Others
<1> QED
  BY <1>5, <1>7 DEF Lingering

\* While one that serves sends, no handler is about to end with such a text.
LEMMA NoneBrief ==
  ASSUME Lingering, NEW s \in Procs, sending[s] # Nothing, NEW r \in Repos
  PROVE  ~Brief(r)
<1> SUFFICES ASSUME Brief(r) PROVE FALSE
  OBVIOUS
<1>1. r \in Procs /\ Serves(r) /\ Serves(s)
  BY Separate DEF Lingering, Turns, Leads, Brief, Serves
<1>2. r = s
  BY <1>1 DEF Lingering, Turns, OneHand
<1> QED
  BY <1>2 DEF Lingering, Others

\* A message that is read: its reader waits for those that linger already.
LEMMA LingerReceive ==
  ASSUME Lingering, Turns', NEW s \in Procs, NEW d \in Procs, Receive(s, d)
  PROVE  Lingering'
<1>0. PICK m : m = sending[s]
  OBVIOUS
<1>1. /\ taken \in [Procs -> [from : Procs, msg : Message] \cup {Nothing}]
      /\ sending \in [Procs -> Message \cup {Nothing}]
      /\ ahead \in [Procs -> SUBSET Procs] /\ lingering \subseteq Procs
  BY DEF Lingering, Turns, Orderly, QueryInv, Owned, Typed, TypeOK, SocketOK
<1>2. /\ m # Nothing /\ taken[d] = Nothing /\ s # d /\ m.to = d /\ m \in Message
      /\ sending[d] = Nothing
  BY <1>0, <1>1 DEF Receive, Listening
<1>3. /\ taken'[d] = [from |-> s, msg |-> m] /\ taken'[s] = taken[s]
      /\ \A p \in Procs \ {d} : taken'[p] = taken[p]
      /\ sending'[s] = Nothing
      /\ \A p \in Procs \ {s} : sending'[p] = sending[p]
  BY <1>0, <1>1, <1>2 DEF Receive
<1>4. /\ taken[s] = Nothing /\ Held(s) = m /\ Serves(s)
  BY <1>0, <1>2, HeldSending DEF Lingering, Turns, Leads
<1>5. /\ \/ lingering' = lingering \cup {d} /\ ahead'[d] = lingering
         \/ lingering' = lingering /\ ~ToMaster(m)
      /\ \A p \in Procs \ {d} : ahead'[p] = ahead[p]
  <2>1. ToMaster(m) => FALSE \notin Lingers(m)
    BY DEF Lingers, ToMaster, LongTexts, BriefTexts
  <2> QED
    BY <1>0, <1>1, <2>1 DEF Receive
<1>6. d \notin lingering /\ s \notin lingering
  BY <1>2, <1>4 DEF Lingering, Readers
<1>7. [from |-> s, msg |-> m] # Nothing
  <2>1. [from |-> s, msg |-> m] \in [from : Procs, msg : Message]
    BY <1>2
  <2> QED
    BY <2>1, NothingAssumption
<1>8. Held(d)' = m
  BY <1>3, <1>7 DEF Held
<1>9. \A p \in Procs \ {s, d} : Held(p)' = Held(p)
  BY <1>3 DEF Held
<1>10. Held(s)' = Nothing
  BY <1>2, <1>3, <1>4 DEF Held
<1>11. ASSUME NEW p \in Procs, Main(Held(p))'
       PROVE  p = d /\ Main(m)
  <2>1. p # s
    BY <1>10, <1>11 DEF Main
  <2>2. p # d => Main(Held(p))
    BY <1>9, <1>11, <2>1 DEF Main, Side
  <2>3. p = d
    BY <1>4, <2>1, <2>2, OneMain DEF Lingering
  <2> QED
    BY <1>8, <1>11, <2>3 DEF Main, Side
<1>12. UNCHANGED Running
  BY DEF Receive, clientVars, Running
<1>13. Readers'
  BY <1>1, <1>3, <1>5, <1>7 DEF Lingering, Readers
<1>14. ASSUME NEW p \in lingering', Main(Held(p))'
       PROVE  ahead'[p] = lingering' \ {p}
  <2>1. p = d
    BY <1>1, <1>5, <1>11, <1>14
  <2> QED
    BY <1>5, <1>6, <1>14, <2>1
<1>15. \A p \in Procs : taken'[p] # Nothing /\ ToMaster(Msg(p))' => p \in lingering'
  <2>1. Msg(d)' = m
    BY <1>3 DEF Msg
  <2>2. ToMaster(m) => d \in lingering'
    BY <1>5
  <2>3. \A p \in Procs \ {d} :
          taken'[p] # Nothing /\ ToMaster(Msg(p))' => p \in lingering
    BY <1>3 DEF Lingering, Waiting, Msg, ToMaster
  <2>4. ToMaster(Msg(d))' => ToMaster(m)
    BY <2>1 DEF ToMaster
  <2> QED
    BY <1>5, <2>2, <2>3, <2>4
<1>16. Running # {}
  <2>1. \A p \in Procs : Serves(p) => Running # {}
    BY DEF Lingering, Turns, OneHand, Serves
  <2> QED
    BY <1>4, <2>1
<1>17. ASSUME NEW p \in Procs, Main(Held(p))', ~ToMaster(Held(p))'
       PROVE  lingering' \subseteq {p}
  <2>1. p = d /\ Main(m) /\ ~ToMaster(m)
    BY <1>8, <1>11, <1>17 DEF ToMaster
  <2>2. lingering \subseteq {s}
    BY <1>4, <2>1 DEF Lingering, Others
  <2> QED
    BY <1>5, <1>6, <2>1, <2>2
<1>18. \A r \in Repos : ~Brief(r)'
  <2>1. UNCHANGED job /\ sending[s] # Nothing
    BY DEF Receive
  <2> QED
    BY <2>1, NoneBrief DEF Brief, Heads
<1>19. Waiting' /\ Others'
  BY <1>12, <1>14, <1>15, <1>16, <1>17, <1>18 DEF Waiting, Others
<1> QED
  BY <1>13, <1>19 DEF Lingering

\* A message that is lost, to a process that lingers or in a circle.
LEMMA LingerLost ==
  ASSUME Lingering, Turns', NEW s \in Procs, sending[s] # Nothing,
         UNCHANGED taken, lingering' \subseteq lingering, UNCHANGED job,
         UNCHANGED clientVars,
         sending' = [sending EXCEPT ![s] = Nothing]
  PROVE  Lingering'
<1>1. /\ sending \in [Procs -> Message \cup {Nothing}]
  BY DEF Lingering, Turns, Orderly, QueryInv, Owned, Typed, TypeOK, SocketOK
<1>2. taken[s] = Nothing /\ Serves(s)
  BY HeldSending DEF Lingering, Turns, Leads
<1>3. Held(s)' = Nothing /\ \A p \in Procs \ {s} : Held(p)' = Held(p)
  BY <1>1, <1>2 DEF Held
<1>4. \A p \in Procs : ~Main(Held(p))'
  <2>1. \A p \in Procs \ {s} : ~Main(Held(p))
    BY <1>2, OneMain DEF Lingering
  <2> QED
    BY <1>3, <2>1 DEF Main, Side
<1>5. UNCHANGED Running
  BY DEF clientVars, Running
<1>6. lingering \subseteq Procs
  BY DEF Lingering, Turns, Orderly, QueryInv, Owned, Typed, TypeOK, SocketOK
<1>7. \A p \in Procs : taken[p] # Nothing => ~ToMaster(Msg(p))
  <2>1. ASSUME NEW p \in Procs, taken[p] # Nothing, ToMaster(Msg(p)) PROVE FALSE
    <3>1. Main(Held(p))
      BY <2>1, HeldTaken DEF Lingering, Turns, Main, Side, ToMaster
    <3>2. p = s
      BY <1>2, <3>1, OneMain DEF Lingering
    <3> QED
      BY <1>2, <2>1, <3>2
  <2> QED
    BY <2>1
<1>8. Readers' /\ Waiting'
  BY <1>4, <1>6, <1>7 DEF Lingering, Readers, Waiting, Msg, ToMaster
<1>9. \A r \in Repos : ~Brief(r)'
  BY NoneBrief DEF Brief, Heads
<1>10. Others'
  BY <1>4, <1>5, <1>9 DEF Lingering, Others
<1> QED
  BY <1>8, <1>10 DEF Lingering

LEMMA OnlyCircle ==
  ASSUME Turns, NEW S \in SUBSET up, FalseAcks(S)
  PROVE  \E s \in Procs : /\ S = {s} /\ sending[s] # Nothing /\ sending[s].to = s
                          /\ sending' = [sending EXCEPT ![s] = Nothing]
<1>1. up \subseteq Procs /\ sending \in [Procs -> Message \cup {Nothing}]
  BY DEF Turns, Orderly, QueryInv, Owned, Typed, TypeOK, SocketOK
<1>2. S # {} /\ \A p \in S : p \in Procs /\ sending[p] # Nothing
  BY <1>1 DEF FalseAcks
<1>3. \A p \in S : Serves(p)
  BY <1>2 DEF Turns, Leads
<1>4. \A p, q \in S : p = q
  BY <1>2, <1>3 DEF Turns, OneHand
<1>5. PICK s \in S : S = {s}
  BY <1>2, <1>4
<1>6. sending[s].to = s
  BY <1>5 DEF FalseAcks
<1>7. sending' = [sending EXCEPT ![s] = Nothing]
  BY <1>1, <1>5 DEF FalseAcks
<1> QED
  BY <1>2, <1>5, <1>6, <1>7

LEMMA LingerMoves ==
  ASSUME Settled, Lingering, Turns',
         \/ \E s, d \in Procs : Receive(s, d) \/ Overrun(s, d)
         \/ \E S \in SUBSET up : FalseAcks(S)
         \/ \E p \in Procs : Crash(p)
         \/ UNCHANGED vars
  PROVE  Lingering'
<1>1. ASSUME NEW s \in Procs, NEW d \in Procs, Overrun(s, d) PROVE Lingering'
  BY <1>1, LingerLost DEF Overrun, StopsLingering
<1>2. ASSUME NEW S \in SUBSET up, FalseAcks(S) PROVE Lingering'
  <2>1. PICK s \in Procs : /\ sending[s] # Nothing
                           /\ sending' = [sending EXCEPT ![s] = Nothing]
    BY <1>2, OnlyCircle DEF Lingering
  <2> QED
    BY <1>2, <2>1, LingerLost DEF FalseAcks, socketVars
<1>3. ASSUME NEW x \in Procs, Crash(x) PROVE Lingering'
  <2>1. /\ taken \in [Procs -> [from : Procs, msg : Message] \cup {Nothing}]
        /\ sending \in [Procs -> Message \cup {Nothing}]
        /\ ahead \in [Procs -> SUBSET Procs] /\ lingering \subseteq Procs
    BY DEF Lingering, Turns, Orderly, QueryInv, Owned, Typed, TypeOK, SocketOK
  <2>2. /\ taken'[x] = Nothing /\ sending'[x] = Nothing
        /\ \A p \in Procs \ {x} : /\ taken'[p] = taken[p]
                                  /\ sending'[p] = sending[p]
                                  /\ ahead'[p] = ahead[p] \ {x}
        /\ lingering' = lingering \ {x}
        /\ UNCHANGED Running
    BY <1>3, <2>1 DEF Crash, NoLongerReads, clientVars, Running, StopsLingering
  <2>3. Held(x)' = Nothing /\ \A p \in Procs \ {x} : Held(p)' = Held(p)
    BY <2>2 DEF Held
  <2>4. \A p \in Procs : Main(Held(p))' => p # x /\ Main(Held(p))
    BY <2>3 DEF Main, Side
  <2>5. \A p \in Procs : ToMaster(Held(p)) /\ p # x => ToMaster(Held(p))'
    BY <2>3 DEF ToMaster
  <2>6. Readers'
    BY <2>2 DEF Lingering, Readers
  <2>7. ASSUME NEW p \in lingering', Main(Held(p))'
        PROVE  ahead'[p] = lingering' \ {p}
    <3>1. p \in lingering /\ p \in Procs \ {x} /\ Main(Held(p))
      BY <2>1, <2>2, <2>4, <2>7
    <3> QED
      BY <2>2, <3>1 DEF Lingering, Waiting
  <2>8. \A p \in Procs : taken'[p] # Nothing /\ ToMaster(Msg(p))' => p \in lingering'
    BY <2>2 DEF Lingering, Waiting, Msg, ToMaster
  <2>9. ASSUME NEW r \in Repos, Brief(r)'
        PROVE  sending'[r] = Nothing /\ lingering' = {}
    <3>1. r \in Procs /\ Brief(r)
      BY <1>3, <2>9, Separate DEF Crash, Brief, Heads
    <3>2. sending'[r] \in {sending[r], Nothing}
      BY <2>2, <3>1
    <3> QED
      BY <2>2, <3>1, <3>2 DEF Lingering, Others
  <2>10. Others'
    BY <2>2, <2>4, <2>5, <2>9 DEF Lingering, Others
  <2>11. Waiting'
    BY <2>7, <2>8 DEF Waiting
  <2> QED
    BY <2>6, <2>10, <2>11 DEF Lingering
<1>4. UNCHANGED vars => Lingering'
  <2>1. ASSUME UNCHANGED vars
        PROVE  /\ UNCHANGED socketVars /\ UNCHANGED sending /\ UNCHANGED Running
               /\ UNCHANGED job
    BY <2>1 DEF vars, procVars, clientVars, Running
  <2> QED
    BY <2>1 DEF Lingering, Readers, Waiting, Others, Held, Main, Side, ToMaster,
       Msg, Brief, Heads, socketVars
<1> QED
  BY <1>1, <1>2, <1>3, <1>4, LingerReceive

LEMMA LingerMaster ==
  ASSUME Settled, Lingering, Turns', MasterStep
  PROVE  Lingering'
<1>1. PICK t, m : /\ Taken(Master, t) /\ Reply(Master, m)
                  /\ UNCHANGED job /\ UNCHANGED clientVars
  BY MasterSends DEF Lingering
<1>2. Master \in Procs /\ Main(Held(Master))
  <2>1. /\ Held(Master) = Msg(Master) /\ Msg(Master) # Nothing
        /\ Msg(Master).to = Master
    BY <1>1, TakenHeld, Separate DEF Lingering, Turns
  <2> QED
    BY <2>1, Separate DEF Main, Side
<1> QED
  BY <1>1, <1>2, LingerActs

LEMMA LingerRepo ==
  ASSUME Settled, Lingering, Turns', NEW r \in Repos, RepoStep(r)
  PROVE  Lingering'
<1>1. r \in Procs /\ Orderly /\ Turns
  BY Separate DEF Lingering, Turns
<1>2. UNCHANGED clientVars => UNCHANGED Running
  BY DEF clientVars, Running
<1>3. ASSUME NEW t, Taken(r, t), t \notin {"C", "D"}
      PROVE  Main(Held(r))
  <2>1. Held(r) = Msg(r) /\ Msg(r) # Nothing /\ Msg(r).type = t
    BY <1>1, <1>3, TakenHeld
  <2> QED
    BY <1>3, <2>1 DEF Main, Side
<1>4. CASE RepoCreate(r)
  <2>1. ~Fail(failures)
    BY <1>1, NoFailure, SettledCluster DEF Orderly, QueryInv, Owned
  <2>2. Taken(r, "C") /\ Reply(r, Nothing) /\ UNCHANGED clientVars
    BY <1>4, <2>1 DEF RepoCreate
  <2>3. job' = [job EXCEPT ![r] =
                  [name |-> Msg(r).body.name, todo |-> Msg(r).body.rels,
                   id |-> Msg(r).id, table |-> Msg(r).table, from |-> From(r),
                   cli |-> Msg(r).cli,
                   kind |-> IF Msg(r).body.name \in nodes[r] THEN "exists"
                                                             ELSE "stored"]]
    BY <1>4, <2>1 DEF RepoCreate
  <2>4. (\A x \in Repos \ {r} : job'[x] = job[x]) /\ ~Brief(r)'
    BY <1>1, <2>3 DEF Brief, LongTexts, Orderly, QueryInv, Owned, Typed, TypeOK
  <2> QED
    BY <1>1, <1>2, <2>2, <2>4, LingerActs
<1>5. CASE RepoQuery(r) \/ RepoUpdate(r) \/ RepoMessage(r)
  <2>1. \E t, m : /\ Taken(r, t) /\ Reply(r, m) /\ t \notin {"C", "D"}
                  /\ UNCHANGED clientVars /\ UNCHANGED job
    BY <1>5 DEF RepoQuery, RepoUpdate, RepoMessage, Exit
  <2> QED
    BY <1>1, <1>2, <1>3, <2>1, LingerActs
<1>6. CASE RepoDelete(r)
  <2>1. PICK m, b : m = Msg(r) /\ b = m.body
    OBVIOUS
  <2>2. PICK half :
        /\ Reply(r, half)
        /\ half = IF b.object = 2 /\ m.table # <<>>
                    THEN ParseNewDelete(Route(m.table, b.rel),
                                        [op |-> "D", name |-> b.rel, object |-> 2,
                                         rel |-> b.name], 0, <<>>, m.cli)
                    ELSE Nothing
    BY <1>6, <2>1 DEF RepoDelete
  <2>3. Taken(r, "D") /\ UNCHANGED clientVars
    BY <1>6 DEF RepoDelete
  <2>4. job' = [job EXCEPT ![r] =
                  [name |-> b.name, todo |-> <<>>, id |-> m.id,
                   table |-> m.table, from |-> From(r), cli |-> m.cli,
                   kind |-> IF b.object = 1 THEN "cleared" ELSE "deleted"]]
    BY <1>6, <2>1 DEF RepoDelete
  <2>5. \A x \in Repos \ {r} : job'[x] = job[x]
    BY <2>4
  <2>6. Held(r) = m /\ m.type = "D" /\ m # Nothing
    BY <1>1, <2>1, <2>3, TakenHeld
  <2>7. ASSUME Brief(r)' PROVE Main(Held(r)) /\ half = Nothing
    <3>1. job'[r] = [name |-> b.name, todo |-> <<>>, id |-> m.id,
                     table |-> m.table, from |-> From(r), cli |-> m.cli,
                     kind |-> IF b.object = 1 THEN "cleared" ELSE "deleted"]
      BY <1>1, <2>4 DEF Orderly, QueryInv, Owned, Typed, TypeOK
    <3>2. m.id # 0 /\ b.object = 1
      BY <2>4, <2>7, <3>1 DEF Brief, Heads, LongTexts
    <3> QED
      BY <2>2, <2>6, <3>2 DEF Main, Side
  <2>8. CASE m.table # <<>>
    <3>1. Main(m) /\ Held(r) = m
      BY <1>1, <2>1, <2>3, <2>8, MainNumber, TakenHeld
    <3> QED
      BY <1>1, <2>2, <2>3, <2>5, <2>7, <3>1, LingerActs
  <2>9. CASE m.table = <<>>
    BY <1>1, <1>2, <2>2, <2>3, <2>5, <2>7, <2>9, LingerActs
  <2> QED
    BY <2>8, <2>9
<1>7. CASE RepoRelation(r)
  <2>1. PICK m :
        /\ sending' = [sending EXCEPT ![r] = m]
        /\ m = IF job[r].table = <<>> THEN Nothing
               ELSE ParseNewNode(Route(job[r].table, Head(job[r].todo)),
                                 [op |-> "C", name |-> Head(job[r].todo),
                                  attr |-> FALSE, rels |-> <<job[r].name>>],
                                 0, <<>>, job[r].cli)
    BY <1>1, <1>7, RepoWrites
  <2>2. /\ taken[r] = Nothing /\ UNCHANGED socketVars /\ UNCHANGED clientVars
        /\ Head(job[r].todo) \in Names /\ job[r] \in Job
    BY <1>1, <1>7, RepoWrites
  <2>3. m # Nothing => Side(m)
    <3>1. ASSUME m # Nothing PROVE Side(m)
      <4>1. job[r].table # <<>> /\ job[r].table \in Seq(Repos)
        BY <2>1, <2>2, <3>1 DEF Job
      <4>2. Route(job[r].table, Head(job[r].todo)) \in Repos
        BY <2>2, <4>1, RouteType
      <4> QED
        BY <2>1, <4>1, <4>2 DEF ParseNewNode, Side
    <3> QED
      BY <3>1
  <2>4. /\ Held(r)' = m
        /\ \A p \in Procs \ {r} : Held(p)' = Held(p) /\ sending'[p] = sending[p]
    <3>1. \A p \in Procs \ {r} : sending'[p] = sending[p]
      BY <1>1, <2>1
         DEF Orderly, QueryInv, Owned, Typed, TypeOK, SocketOK
    <3>2. Held(r)' = m /\ \A p \in Procs \ {r} : Held(p)' = Held(p)
      BY <1>1, <2>1, <2>2, HeldAfterSend DEF socketVars, Orderly, QueryInv
    <3> QED
      BY <3>1, <3>2
  <2>5. (\A x \in Repos \ {r} : job'[x] = job[x]) /\ ~Brief(r)'
    <3>1. /\ Confirms(job[r].kind) /\ job[r] # Nothing
          /\ job' = [job EXCEPT ![r].todo = Tail(@)]
      BY <1>1, <1>7, RepoWrites
    <3>2. job[r] \in Job /\ job \in [Repos -> Job \cup {Nothing}]
      BY <1>1, <2>2 DEF Orderly, QueryInv, Owned, Typed, TypeOK
    <3>3. job'[r].kind = job[r].kind
      BY <3>1, <3>2 DEF Job
    <3> QED
      BY <3>1, <3>2, <3>3 DEF Brief, Confirms, LongTexts
  <2> QED
    BY <1>1, <2>2, <2>3, <2>4, <2>5, LingerSends
<1>8. CASE RepoFinish(r)
  <2>1. PICK m :
        /\ m = IF job[r].id = 0 THEN Nothing
               ELSE ParseNewMessageResponse(Master, Say(job[r].kind), job[r].id,
                                            job[r].cli)
        /\ sending' = [sending EXCEPT ![r] = m]
        /\ job[r] # Nothing /\ UNCHANGED socketVars /\ UNCHANGED clientVars
        /\ job' = [job EXCEPT ![r] = Nothing]
    BY <1>8 DEF RepoFinish
  <2>2. taken[r] = Nothing
    BY <1>1, <2>1 DEF Orderly, QueryInv, Solo
  <2>3. m # Nothing => ToMaster(m) \/ lingering = {}
    <3>1. CASE job[r].kind \in LongTexts
      BY <2>1, <3>1 DEF ParseNewMessageResponse, ToMaster, Say
    <3>2. CASE job[r].kind \notin LongTexts
      BY <2>1, <3>2 DEF Lingering, Others, Brief, Heads
    <3> QED
      BY <3>1, <3>2
  <2>4. /\ Held(r)' = m
        /\ \A p \in Procs \ {r} : Held(p)' = Held(p) /\ sending'[p] = sending[p]
    <3>1. \A p \in Procs \ {r} : sending'[p] = sending[p]
      BY <1>1, <2>1
         DEF Orderly, QueryInv, Owned, Typed, TypeOK, SocketOK
    <3>2. Held(r)' = m /\ \A p \in Procs \ {r} : Held(p)' = Held(p)
      BY <1>1, <2>1, <2>2, HeldAfterSend DEF socketVars, Orderly, QueryInv
    <3> QED
      BY <3>1, <3>2
  <2>5. (\A x \in Repos \ {r} : job'[x] = job[x]) /\ ~Brief(r)'
    BY <1>1, <2>1
       DEF Brief, Heads, Orderly, QueryInv, Owned, Typed, TypeOK
  <2> QED
    BY <1>1, <2>1, <2>2, <2>3, <2>4, <2>5, LingerSends
<1> QED
  BY <1>4, <1>5, <1>6, <1>7, <1>8 DEF RepoStep

LEMMA LingerStep ==
  ASSUME InTurns, Lingering, [Next]_vars
  PROVE  Lingering'
<1>1. Settled /\ Turns /\ Turns'
  BY TurnsStep DEF InTurns, Lingering
<1>2. ASSUME NEW c \in Clients, Invoke(c) PROVE Lingering'
  <2>1. Running = {} /\ lingering = {}
    BY <1>1, <1>2, NoneRuns DEF Lingering, Others
  <2>2. UNCHANGED lingering /\ UNCHANGED taken
    BY <1>2 DEF Invoke, socketVars
  <2>3. \A p \in Procs : taken'[p] # Nothing /\ ToMaster(Msg(p))' => p \in lingering'
    BY <2>2 DEF Lingering, Waiting, Msg, ToMaster
  <2>5. \A r \in Repos : ~Brief(r)'
    <3>1. \A r \in Repos : ~Heads(r)
      BY <2>1 DEF Lingering, Turns, OneHand
    <3> QED
      BY <1>2, <3>1 DEF Invoke, Brief, Heads
  <2>4. Readers' /\ Waiting' /\ Others'
    BY <2>1, <2>2, <2>3, <2>5 DEF Readers, Waiting, Others
  <2> QED
    BY <1>1, <2>4 DEF Lingering
<1>3. ASSUME NEW c \in Clients, WaitResponse(c) PROVE Lingering'
  <2>1. Taken(c, "M") /\ Reply(c, Nothing) /\ c \in Procs /\ UNCHANGED job
    BY <1>3, Separate DEF WaitResponse, Exit
  <2>2. Main(Held(c))
    BY <1>1, <1>3, WaitResponseActs, NothingAssumption DEF Turns, Main, Side
  <2> QED
    BY <1>1, <2>1, <2>2, LingerActs
<1>4. \A r \in Repos : ~SetRepository(r)
  BY <1>1 DEF Turns, Orderly, SetRepository
<1>5. ~SetServer
  BY <1>1, SettledCluster DEF SetServer
<1> QED
  BY <1>1, <1>2, <1>3, <1>4, <1>5, LingerMoves, LingerMaster, LingerRepo
     DEF Next, Work

LEMMA LingerInit == ASSUME InTurns, Init PROVE Lingering
<1>1. Turns
  BY TurnsInit
<1>2. /\ \A p \in Procs : sending[p] = Nothing /\ taken[p] = Nothing
      /\ \A r \in Repos : job[r] = Nothing
      /\ lingering = {}
  BY DEF Init
<1>3. \A p \in Procs : Held(p) = Nothing
  BY <1>2 DEF Held
<1> QED
  BY <1>1, <1>2, <1>3
     DEF Lingering, Readers, Waiting, Others, Main, Brief, Heads

-----------------------------------------------------------------------------
(***************************************************************************)
(* The halves of a create, one after the other.  What is sent is read, or  *)
(* lost at a repository that another half has reached, or at the sender.   *)
(***************************************************************************)

\* The relations of q whose halves were sent, and are no longer being sent.
Reached(q, todo, out) ==
  IF out = Nothing THEN Len(q.rels) - Len(todo) ELSE Len(q.rels) - Len(todo) - 1

\* What is left to do are the last relations of q, and the one before them
\* is being sent.
OnCourse(q, todo, out) ==
  LET n == Len(q.rels) - Len(todo) IN
  /\ n \in 0..Len(q.rels)
  /\ \A i \in 1..Len(todo) : todo[i] = q.rels[n + i]
  /\ out # Nothing => /\ n > 0 /\ out.to = HomeOf(q.rels[n])
                      /\ Relates(out, q.rels[n], q.name)

FromHomes(q, k, others) == \A d \in others : \E i \in 1..k : d = HomeOf(q.rels[i])
HalvesUpTo(q, k) == \A i \in 1..k : FirstAway(q, i) => Half(q.rels[i], q.name)

HalvesSent(r) ==
  Heads(r) /\ Confirms(job[r].kind) =>
    \A q \in {request[job[r].cli]} :
    \A k \in {Reached(q, job[r].todo, sending[r])} :
      /\ OnCourse(q, job[r].todo, sending[r])
      /\ FromHomes(q, k, lingering)
      /\ HalvesUpTo(q, k)

\* All that were not lost are there when the text says that it is stored.
HalvesThere(c) ==
  \A q \in {request[c]} : q.op = "C" /\ HalvesUpTo(q, Len(q.rels))
HalvesTold(m) == m.type = "M" /\ Confirms(m.text.kind) => HalvesThere(m.cli)

Halves ==
  /\ Lingering
  /\ \A r \in Repos : HalvesSent(r)
  /\ \A p \in Procs : Held(p) # Nothing => HalvesTold(Held(p))
  /\ \A c \in Clients : Stored(c) => KeptAtHome(c) /\ HalvesThere(c)

LEMMA RequestIs ==
  ASSUME Orderly, NEW c \in Clients, request[c] # Nothing
  PROVE  /\ request[c] \in Request
         /\ request[c].op = "C" => /\ request[c] \in CreateRequest
                                   /\ request[c].rels \in Seq(Names)
                                   /\ request[c].name \in Names
<1>1. request[c] \in Request
  BY DEF Orderly, QueryInv, Owned, Typed, TypeOK, ClientOK
<1> QED
  BY <1>1, RequestFields DEF CreateRequest

LEMMA HalvesStay ==
  ASSUME Settled, Orderly, [Next]_vars, NEW q, q.rels \in Seq(Names),
         NEW k \in Int, k <= Len(q.rels), HalvesUpTo(q, k)
  PROVE  HalvesUpTo(q, k)'
<1>1. ASSUME NEW i \in 1..k, FirstAway(q, i)
      PROVE  Half(q.rels[i], q.name)'
  <2>1. Half(q.rels[i], q.name)
    BY <1>1 DEF HalvesUpTo
  <2>2. q.rels[i] \in Names
    <3>1. i \in 1..Len(q.rels)
      OBVIOUS
    <3> QED
      BY <3>1
  <2> QED
    BY <2>1, <2>2, HalfStep
<1>2. \A i \in 1..k : FirstAway(q, i)' <=> FirstAway(q, i)
  BY DEF FirstAway, HomeOf, Route
<1> QED
  BY <1>1, <1>2 DEF HalvesUpTo

LEMMA ThereStays ==
  ASSUME Settled, Orderly, [Next]_vars, NEW c \in Clients, request[c] # Nothing,
         HalvesThere(c)
  PROVE  HalvesThere(c)'
<1>1. PICK q : q = request[c]
  OBVIOUS
<1>2. q.op = "C" /\ HalvesUpTo(q, Len(q.rels)) /\ q.rels \in Seq(Names)
  BY <1>1, RequestIs DEF HalvesThere
<1>3. HalvesUpTo(q, Len(q.rels))'
  <2>1. Len(q.rels) \in Int /\ Len(q.rels) <= Len(q.rels)
    BY <1>2
  <2>2. PICK k : k = Len(q.rels)
    OBVIOUS
  <2>3. HalvesUpTo(q, k)'
    BY <1>2, <2>1, <2>2, HalvesStay
  <2> QED
    BY <2>2, <2>3
<1>4. request'[c] = q
  BY <1>1, OnwardStep DEF Onward
<1> QED
  BY <1>2, <1>3, <1>4 DEF HalvesThere

\* What the handler of a create sends, another process does not touch.
LEMMA SendsStay ==
  ASSUME Settled, Turns, [Next]_vars, NEW r \in Repos, Heads(r), ~RepoStep(r)
  PROVE  \/ sending'[r] = sending[r] /\ lingering' \subseteq lingering
         \/ \E d \in Procs : Receive(r, d) \/ Overrun(r, d)
         \/ /\ sending[r] # Nothing /\ sending[r].to = r /\ sending'[r] = Nothing
            /\ UNCHANGED lingering
<1> DEFINE Same == sending'[r] = sending[r] /\ lingering' \subseteq lingering
<1>1. /\ sending \in [Procs -> Message \cup {Nothing}]
      /\ r \in Procs /\ r # Master /\ r \notin Clients /\ Orderly
  BY Separate DEF Turns, Orderly, QueryInv, Owned, Typed, TypeOK, SocketOK
<1>2. \A d \in Procs \ {r} : \A m : Reply(d, m) => Same
  BY <1>1 DEF Reply, NoLongerReads, StopsLingering
<1>3. \A s \in Procs : sending[s] # Nothing => s = r
  BY <1>1 DEF Turns, Leads, OneHand, Serves
<1>4. ASSUME NEW s \in Procs, NEW d \in Procs, Receive(s, d) \/ Overrun(s, d)
      PROVE  s = r
  BY <1>3, <1>4 DEF Receive, Overrun, StopsLingering
<1>5. ASSUME NEW S \in SUBSET up, FalseAcks(S)
      PROVE  /\ sending[r] # Nothing /\ sending[r].to = r /\ sending'[r] = Nothing
             /\ UNCHANGED lingering
  <2>1. PICK s \in Procs : /\ sending[s] # Nothing /\ sending[s].to = s
                           /\ sending' = [sending EXCEPT ![s] = Nothing]
    BY <1>5, OnlyCircle
  <2>2. UNCHANGED lingering
    BY <1>5 DEF FalseAcks, socketVars
  <2> QED
    BY <1>1, <1>3, <2>1, <2>2
<1>6. ASSUME NEW p \in Procs, Crash(p) PROVE Same
  <2>1. p \in Clients
    BY <1>6 DEF Crash, Settled
  <2> QED
    BY <1>1, <1>6, <2>1 DEF Crash, NoLongerReads, StopsLingering
<1>7. MasterStep => Same
  BY <1>1, <1>2, MasterSends, Separate
<1>8. ASSUME NEW x \in Repos \ {r}, RepoStep(x) PROVE Same
  <2>1. \/ UNCHANGED lingering /\ \E m : sending' = [sending EXCEPT ![x] = m]
        \/ \E m : Reply(x, m)
        \/ UNCHANGED <<sending, lingering>>
    BY <1>8 DEF RepoStep, RepoCreate, RepoRelation, RepoFinish, RepoQuery,
       RepoUpdate, RepoDelete, RepoMessage, Exit, socketVars
  <2> QED
    BY <1>1, <1>2, <2>1, Separate
<1>9. ASSUME NEW c \in Clients, Invoke(c) \/ WaitResponse(c) PROVE Same
  <2>1. Invoke(c) => Same
    BY <1>1 DEF Invoke, socketVars
  <2>2. WaitResponse(c) => Same
    BY <1>1, <1>2, Separate DEF WaitResponse, Exit
  <2> QED
    BY <1>9, <2>1, <2>2
<1>10. SetServer => Same
  BY DEF SetServer, socketVars
<1>11. \A x \in Repos : ~SetRepository(x)
  BY <1>1 DEF Orderly, SetRepository
<1>12. UNCHANGED vars => Same
  BY DEF vars, procVars, socketVars
<1> QED
  BY <1>4, <1>5, <1>6, <1>7, <1>8, <1>9, <1>10, <1>11, <1>12 DEF Next, Work

\* A handler that answers a create is about one.
LEMMA HandlerIs ==
  ASSUME Settled, Turns, NEW r \in Repos, Heads(r), Confirms(job[r].kind)
  PROVE  LET j == job[r]
             q == request[j.cli]
         IN
         /\ j \in Job /\ j.cli \in Clients /\ j.todo \in Seq(Names)
         /\ q # Nothing /\ q.op = "C" /\ q.rels \in Seq(Names)
         /\ q.name \in Names /\ q.name = j.name
         /\ r = HomeOf(q.name) /\ j.table = Attached /\ Attached # <<>>
<1>1. PICK j, q : j = job[r] /\ q = request[j.cli]
  OBVIOUS
<1>2. /\ j \in Job /\ j.cli \in Clients /\ j.todo \in Seq(Names) /\ q # Nothing
      /\ j # Nothing /\ j.id # 0
  BY <1>1, JobClient DEF Turns, Heads, Job
<1>3. SoundJob(r)
  BY <1>1, <1>2 DEF Turns, Orderly
<1>4. /\ q.op = "C" /\ r = HomeOf(j.name) /\ j.table = Attached /\ j.name = q.name
  BY <1>1, <1>2, <1>3 DEF SoundJob, Confirms
<1>5. q.rels \in Seq(Names) /\ q.name \in Names
  <2>1. PICK c \in Clients : c = j.cli /\ q = request[c]
    BY <1>1, <1>2
  <2>2. Orderly
    BY DEF Turns
  <2> QED
    BY <1>2, <1>4, <2>1, <2>2, RequestIs
<1>6. Attached # <<>>
  BY DEF Settled
<1>7. r = HomeOf(q.name) /\ q.name = j.name
  BY <1>4
<1>8. \A x, y : x = j /\ y = q =>
        /\ x \in Job /\ x.cli \in Clients /\ x.todo \in Seq(Names)
        /\ y # Nothing /\ y.op = "C" /\ y.rels \in Seq(Names)
        /\ y.name \in Names /\ y.name = x.name
        /\ r = HomeOf(y.name) /\ x.table = Attached
  BY <1>2, <1>4, <1>5, <1>7, Zenon
<1>9. j = job[r] /\ q = request[job[r].cli]
  BY <1>1
<1> QED
  BY <1>6, <1>8, <1>9, Zenon

\* It begins with all relations to do, when nobody else lingers.
LEMMA SentCreate ==
  ASSUME Settled, Halves, Lingering', NEW r \in Repos, RepoCreate(r), Orderly'
  PROVE  HalvesSent(r)'
<1>1. PICK m, b : m = Msg(r) /\ b = m.body
  OBVIOUS
<1>2. /\ Turns /\ Orderly /\ Lingering /\ r \in Procs
      /\ job \in [Repos -> Job \cup {Nothing}]
      /\ sending \in [Procs -> Message \cup {Nothing}]
  BY Separate DEF Halves, Lingering, Turns, Orderly, QueryInv, Owned, Typed, TypeOK,
                  SocketOK
<1>3. Taken(r, "C") /\ ~Fail(failures) /\ UNCHANGED clientVars
  BY <1>2, NoFailure, SettledCluster DEF RepoCreate, Orderly, QueryInv, Owned
<1>4. PICK j : /\ job' = [job EXCEPT ![r] = j] /\ Reply(r, Nothing)
               /\ j.todo = b.rels /\ j.id = m.id /\ j.cli = m.cli
  <2>1. PICK j : j = [name |-> b.name, todo |-> b.rels, id |-> m.id,
                      table |-> m.table, from |-> From(r), cli |-> m.cli,
                      kind |-> IF b.name \in nodes[r] THEN "exists"
                                                       ELSE "stored"]
    OBVIOUS
  <2>2. job' = [job EXCEPT ![r] = j] /\ Reply(r, Nothing)
    BY <1>1, <1>3, <2>1 DEF RepoCreate
  <2>3. j.todo = b.rels /\ j.id = m.id /\ j.cli = m.cli
    BY <2>1
  <2> QED
    BY <2>2, <2>3
<1>5. job'[r] = j /\ sending'[r] = Nothing
  BY <1>2, <1>4 DEF Reply
<1> SUFFICES ASSUME Heads(r)', Confirms(job'[r].kind)
    PROVE  \A q \in {request'[j.cli]} :
           \A k \in {Reached(q, j.todo, Nothing)} :
             /\ OnCourse(q, j.todo, Nothing)
             /\ FromHomes(q, k, lingering')
             /\ HalvesUpTo(q, k)'
  BY <1>5 DEF HalvesSent
<1>6. j.id # 0
  BY <1>5 DEF Heads
<1>7. /\ Held(r) = m /\ m # Nothing /\ m.type = "C" /\ m.to = r /\ Sound(m)
      /\ m.cli \in Clients /\ request[m.cli] # Nothing /\ m \in Message
  BY <1>1, <1>2, <1>3, TakenHeld
<1>8. Main(Held(r))
  BY <1>4, <1>6, <1>7 DEF Main, Side
<1>9. lingering' = {}
  BY <1>2, <1>3, <1>4, <1>8, NobodyElse DEF Reply, NoLongerReads, StopsLingering
<1>10. PICK q : q = request'[j.cli] /\ q = request[j.cli] /\ q = m.body
  BY <1>3, <1>4, <1>6, <1>7 DEF clientVars, Sound, FaithfulCommand, Commands
<1>11. q.rels \in Seq(Names) /\ j.todo = q.rels
  <2>1. q.op = "C"
    BY <1>7, <1>10, MessageFields DEF CommandMessage
  <2> QED
    BY <1>1, <1>2, <1>4, <1>7, <1>10, <2>1, RequestIs
<1>12. Len(q.rels) \in Nat /\ Len(q.rels) - Len(j.todo) = 0
  BY <1>11
<1>13. Reached(q, j.todo, Nothing) = 0
  BY <1>12 DEF Reached
<1>14. OnCourse(q, j.todo, Nothing)
  BY <1>11, <1>12 DEF OnCourse
<1>15. FromHomes(q, 0, lingering') /\ HalvesUpTo(q, 0)'
  BY <1>9 DEF FromHomes, HalvesUpTo
<1> QED
  BY <1>10, <1>13, <1>14, <1>15

\* A turn of the loop sends the next half.
LEMMA SentRelation ==
  ASSUME Settled, Halves, [Next]_vars, NEW r \in Repos, RepoRelation(r)
  PROVE  HalvesSent(r)'
<1>1. PICK j, q, n : /\ j = job[r] /\ q = request[j.cli]
                     /\ n = Len(q.rels) - Len(j.todo)
  OBVIOUS
<1>2. /\ Turns /\ Orderly /\ r \in Procs
      /\ sending \in [Procs -> Message \cup {Nothing}]
  BY Separate DEF Halves, Lingering, Turns, Orderly, QueryInv, Owned, Typed, TypeOK,
                  SocketOK
<1>3. /\ job'[r] # Nothing /\ job'[r].todo = Tail(j.todo) /\ job'[r].id = j.id
      /\ job'[r].cli = j.cli /\ job'[r].kind = j.kind
  BY <1>1, <1>2, TodoAfter
<1>4. /\ j # Nothing /\ j.todo \in Seq(Names) /\ j.todo # <<>>
      /\ UNCHANGED clientVars /\ UNCHANGED lingering /\ sending[r] = Nothing
      /\ sending' = [sending EXCEPT ![r] =
           IF j.table = <<>> THEN Nothing
           ELSE ParseNewNode(Route(j.table, Head(j.todo)),
                             [op |-> "C", name |-> Head(j.todo), attr |-> FALSE,
                              rels |-> <<j.name>>],
                             0, <<>>, j.cli)]
  <2>1. sending[r] = Nothing
    BY DEF RepoRelation
  <2>2. UNCHANGED lingering /\ UNCHANGED clientVars
    BY <1>2, RepoWrites DEF socketVars
  <2> QED
    BY <1>1, <1>2, <2>1, <2>2, RepoWrites
<1> SUFFICES ASSUME Heads(r)', Confirms(job'[r].kind)
    PROVE  \A k \in {Reached(q, Tail(j.todo), sending'[r])} :
             /\ OnCourse(q, Tail(j.todo), sending'[r])
             /\ FromHomes(q, k, lingering)
             /\ HalvesUpTo(q, k)'
  BY <1>1, <1>3, <1>4 DEF HalvesSent, clientVars
<1>5. Heads(r) /\ Confirms(job[r].kind)
  BY <1>1, <1>3, <1>4 DEF Heads, Confirms
<1>6. /\ q.rels \in Seq(Names) /\ q.name = j.name /\ j.table = Attached
      /\ Attached # <<>>
  BY <1>1, <1>2, <1>5, HandlerIs
<1>7. PICK m : /\ m = sending'[r]
               /\ m = ParseNewNode(Route(Attached, Head(j.todo)),
                             [op |-> "C", name |-> Head(j.todo), attr |-> FALSE,
                              rels |-> <<j.name>>], 0, <<>>, j.cli)
  BY <1>2, <1>4, <1>6
<1>8. Reached(q, j.todo, sending[r]) = n
  BY <1>1, <1>4 DEF Reached
<1>9. OnCourse(q, j.todo, sending[r]) /\ FromHomes(q, n, lingering) /\ HalvesUpTo(q, n)
  BY <1>1, <1>5, <1>8 DEF Halves, HalvesSent
<1>10. /\ n \in 0..Len(q.rels)
       /\ \A i \in 1..Len(j.todo) : j.todo[i] = q.rels[n + i]
  BY <1>1, <1>9 DEF OnCourse
<1>11. /\ Len(Tail(j.todo)) = Len(j.todo) - 1 /\ Len(j.todo) \in Nat
       /\ Len(j.todo) > 0 /\ Len(q.rels) \in Nat
       /\ \A i \in 1..(Len(j.todo) - 1) : Tail(j.todo)[i] = j.todo[i + 1]
       /\ Head(j.todo) = j.todo[1]
  BY <1>4, <1>6
<1>12. Len(q.rels) - Len(Tail(j.todo)) = n + 1 /\ n + 1 \in 0..Len(q.rels) /\ n + 1 > 0
  <2>1. PICK x, y, z : x = Len(q.rels) /\ y = Len(j.todo) /\ z = Len(Tail(j.todo))
    OBVIOUS
  <2>2. x \in Nat /\ y \in Nat /\ y > 0 /\ z = y - 1 /\ n = x - y /\ n \in 0..x
    BY <1>1, <1>10, <1>11, <2>1
  <2>3. x - z = n + 1 /\ n + 1 \in 0..x /\ n + 1 > 0
    BY <2>2
  <2> QED
    BY <2>1, <2>3
<1>13. \A i \in 1..Len(Tail(j.todo)) : Tail(j.todo)[i] = q.rels[(n + 1) + i]
  <2> TAKE i \in 1..Len(Tail(j.todo))
  <2>1. i \in 1..(Len(j.todo) - 1) /\ i + 1 \in 1..Len(j.todo)
    BY <1>11
  <2>2. Tail(j.todo)[i] = q.rels[n + (i + 1)]
    BY <1>10, <1>11, <2>1
  <2>3. n + (i + 1) = (n + 1) + i
    BY <1>10
  <2> QED
    BY <2>2, <2>3
<1>14. m # Nothing
  <2>1. Heads(r)' /\ job'[r] # Nothing
    BY <1>3
  <2>2. [op |-> "C", name |-> Head(j.todo), attr |-> FALSE, rels |-> <<j.name>>]
          \in Request
    <3>1. Head(j.todo) \in Names /\ j.name \in Names
      BY <1>1, <1>2, <1>5, <1>6, <1>4, HandlerIs
    <3> QED
      BY <3>1 DEF Request, CreateRequest
  <2>3. Route(Attached, Head(j.todo)) \in Procs
    <3>1. Head(j.todo) \in Names
      BY <1>4
    <3>2. HomeOf(Head(j.todo)) \in Repos
      BY <3>1, HomeOfRepo
    <3> QED
      BY <3>2, Separate DEF HomeOf
  <2>4. j.cli \in Clients /\ 0 \in Nat /\ <<>> \in Seq(Repos)
    BY <1>1, <1>2, <1>5, HandlerIs
  <2>5. m \in Message
    BY <1>7, <2>2, <2>3, <2>4, CommandType
  <2> QED
    BY <2>5, NothingAssumption
<1>15. m.to = HomeOf(q.rels[n + 1]) /\ Relates(m, q.rels[n + 1], q.name)
  <2>1. Head(j.todo) = q.rels[n + 1]
    BY <1>10, <1>11
  <2>2. m.to = HomeOf(Head(j.todo)) /\ Relates(m, Head(j.todo), j.name)
    BY <1>7 DEF ParseNewNode, HomeOf, Relates, ToSet
  <2> QED
    BY <1>6, <2>1, <2>2
<1>16. OnCourse(q, Tail(j.todo), m)
  BY <1>12, <1>13, <1>15 DEF OnCourse
<1>17. Reached(q, Tail(j.todo), m) = n
  <2>1. (Len(q.rels) - Len(Tail(j.todo))) - 1 = n
    <3>1. PICK d, x : d = Len(q.rels) - Len(Tail(j.todo)) /\ x = Len(q.rels)
      OBVIOUS
    <3>2. d = n + 1 /\ n \in 0..x /\ x \in Nat
      BY <1>10, <1>11, <1>12, <3>1
    <3>3. d - 1 = n
      BY <3>2
    <3> QED
      BY <3>1, <3>3
  <2> QED
    BY <1>14, <2>1 DEF Reached
<1>18. HalvesUpTo(q, n)'
  BY <1>2, <1>6, <1>9, <1>10, <1>11, HalvesStay
<1> QED
  BY <1>7, <1>9, <1>16, <1>17, <1>18

\* Where the handler of a create is.
LEMMA Course ==
  ASSUME Settled, Halves, NEW r \in Repos, Heads(r), Confirms(job[r].kind)
  PROVE  \E q, todo, n :
           /\ q = request[job[r].cli] /\ todo = job[r].todo
           /\ n = Len(q.rels) - Len(todo)
           /\ n \in 0..Len(q.rels) /\ Len(q.rels) \in Nat
           /\ q # Nothing /\ job[r].cli \in Clients
           /\ q.op = "C" /\ q.rels \in Seq(Names)
           /\ q.name \in Names /\ r = HomeOf(q.name)
           /\ OnCourse(q, todo, sending[r])
           /\ sending[r] = Nothing =>
                FromHomes(q, n, lingering) /\ HalvesUpTo(q, n)
           /\ sending[r] # Nothing =>
                /\ n - 1 \in Int /\ n \in 1..Len(q.rels)
                /\ FromHomes(q, n - 1, lingering) /\ HalvesUpTo(q, n - 1)
                /\ sending[r].to = HomeOf(q.rels[n])
                /\ Relates(sending[r], q.rels[n], q.name)
<1>1. PICK j, q, todo, n : /\ j = job[r] /\ q = request[j.cli] /\ todo = j.todo
                           /\ n = Len(q.rels) - Len(todo)
  OBVIOUS
<1>2. Turns
  BY DEF Halves, Lingering
<1>3. /\ q # Nothing /\ j.cli \in Clients /\ q.op = "C" /\ q.rels \in Seq(Names)
      /\ q.name \in Names /\ r = HomeOf(q.name)
  BY <1>1, <1>2, HandlerIs
<1>4. Len(q.rels) \in Nat
  BY <1>3
<1>5. PICK k : k = Reached(q, todo, sending[r])
  OBVIOUS
<1>6. /\ OnCourse(q, todo, sending[r]) /\ FromHomes(q, k, lingering)
      /\ HalvesUpTo(q, k)
  BY <1>1, <1>5 DEF Halves, HalvesSent
<1>7. /\ n \in 0..Len(q.rels)
      /\ sending[r] # Nothing => /\ n > 0 /\ sending[r].to = HomeOf(q.rels[n])
                                 /\ Relates(sending[r], q.rels[n], q.name)
  BY <1>1, <1>6 DEF OnCourse
<1>8. IF sending[r] = Nothing THEN k = n ELSE k = n - 1
  BY <1>1, <1>5 DEF Reached
<1>9. n > 0 => n - 1 \in Int /\ n \in 1..Len(q.rels)
  <2>1. PICK x : x = Len(q.rels)
    OBVIOUS
  <2>2. x \in Nat /\ n \in 0..x
    BY <1>4, <1>7, <2>1
  <2>3. n > 0 => n - 1 \in Int /\ n \in 1..x
    BY <2>2
  <2> QED
    BY <2>1, <2>3
<1>10. sending[r] # Nothing =>
         /\ n - 1 \in Int /\ n \in 1..Len(q.rels)
         /\ FromHomes(q, n - 1, lingering) /\ HalvesUpTo(q, n - 1)
         /\ sending[r].to = HomeOf(q.rels[n])
         /\ Relates(sending[r], q.rels[n], q.name)
  <2> SUFFICES ASSUME sending[r] # Nothing
      PROVE  /\ n - 1 \in Int /\ n \in 1..Len(q.rels)
             /\ FromHomes(q, n - 1, lingering) /\ HalvesUpTo(q, n - 1)
             /\ sending[r].to = HomeOf(q.rels[n])
             /\ Relates(sending[r], q.rels[n], q.name)
    OBVIOUS
  <2>1. k = n - 1
    BY <1>8
  <2>2. FromHomes(q, n - 1, lingering) /\ HalvesUpTo(q, n - 1)
    BY <1>6, <2>1
  <2> QED
    BY <1>7, <1>9, <2>2
<1>11. sending[r] = Nothing => FromHomes(q, n, lingering) /\ HalvesUpTo(q, n)
  BY <1>6, <1>8
<1>12. q = request[job[r].cli] /\ todo = job[r].todo /\ job[r].cli \in Clients
  BY <1>1, <1>3
<1>13. n = Len(q.rels) - Len(todo) /\ n \in 0..Len(q.rels)
  BY <1>1, <1>7
<1>14. OnCourse(q, todo, sending[r])
  BY <1>6
<1> QED
  BY <1>3, <1>4, <1>10, <1>11, <1>12, <1>13, <1>14, Zenon

\* The handler waits for its message no more: it is read, or lost.
LEMMA SentAway ==
  ASSUME Settled, Halves, [Next]_vars, NEW r \in Repos, job'[r] = job[r],
         sending[r] # Nothing, sending'[r] = Nothing,
         NEW d \in Procs, d = sending[r].to, lingering' \subseteq lingering \cup {d},
         \A q, n : /\ q.rels \in Seq(Names) /\ q.name \in Names
                   /\ n \in 1..Len(q.rels) /\ FromHomes(q, n - 1, lingering)
                   /\ r = HomeOf(q.name) /\ d = HomeOf(q.rels[n])
                   /\ Relates(sending[r], q.rels[n], q.name)
                   /\ FirstAway(q, n)
              => Half(q.rels[n], q.name)'
  PROVE  HalvesSent(r)'
<1> SUFFICES ASSUME Heads(r)', Confirms(job'[r].kind) PROVE HalvesSent(r)'
  BY DEF HalvesSent
<1>1. Heads(r) /\ Confirms(job[r].kind)
  BY DEF Heads
<1>2. PICK q, todo, n :
        /\ q = request[job[r].cli] /\ todo = job[r].todo
        /\ n = Len(q.rels) - Len(todo) /\ Len(q.rels) \in Nat
        /\ q # Nothing /\ job[r].cli \in Clients
        /\ q.rels \in Seq(Names) /\ q.name \in Names /\ r = HomeOf(q.name)
        /\ OnCourse(q, todo, sending[r])
        /\ n - 1 \in Int /\ n \in 1..Len(q.rels)
        /\ FromHomes(q, n - 1, lingering) /\ HalvesUpTo(q, n - 1)
        /\ sending[r].to = HomeOf(q.rels[n])
        /\ Relates(sending[r], q.rels[n], q.name)
  <2>1. PICK q, todo, n :
          /\ q = request[job[r].cli] /\ todo = job[r].todo
          /\ n = Len(q.rels) - Len(todo)
          /\ n \in 0..Len(q.rels) /\ Len(q.rels) \in Nat
          /\ q # Nothing /\ job[r].cli \in Clients
          /\ q.op = "C" /\ q.rels \in Seq(Names)
          /\ q.name \in Names /\ r = HomeOf(q.name)
          /\ OnCourse(q, todo, sending[r])
          /\ sending[r] # Nothing =>
               /\ n - 1 \in Int /\ n \in 1..Len(q.rels)
               /\ FromHomes(q, n - 1, lingering) /\ HalvesUpTo(q, n - 1)
               /\ sending[r].to = HomeOf(q.rels[n])
               /\ Relates(sending[r], q.rels[n], q.name)
    BY <1>1, Course
  <2> QED
    BY <2>1, Zenon
<1>3. n - 1 \in Int /\ n \in 1..Len(q.rels) /\ Len(q.rels) \in Nat
  BY <1>2, Zenon
<1>4. FromHomes(q, n - 1, lingering) /\ HalvesUpTo(q, n - 1)
  BY <1>2, Zenon
<1>5. q.rels \in Seq(Names) /\ d = HomeOf(q.rels[n])
  BY <1>2, Zenon
<1>6. FirstAway(q, n) => Half(q.rels[n], q.name)'
  BY <1>2, Zenon
<1>7. request'[job'[r].cli] = q /\ todo = job'[r].todo
  <2>1. Orderly
    BY DEF Halves, Lingering, Turns
  <2>2. /\ q = request[job[r].cli] /\ todo = job[r].todo
        /\ q # Nothing /\ job[r].cli \in Clients
    BY <1>2, Zenon
  <2> QED
    BY <2>1, <2>2, OnwardStep DEF Onward
<1>8. OnCourse(q, todo, Nothing) /\ Reached(q, todo, Nothing) = n
  <2>1. n = Len(q.rels) - Len(todo) /\ OnCourse(q, todo, sending[r])
    BY <1>2, Zenon
  <2> QED
    BY <2>1 DEF OnCourse, Reached
<1>9. FromHomes(q, n, lingering')
  <2>1. ASSUME NEW x \in lingering' PROVE \E i \in 1..n : x = HomeOf(q.rels[i])
    <3>1. CASE x \in lingering
      <4>1. PICK i \in 1..(n - 1) : x = HomeOf(q.rels[i])
        BY <1>4, <3>1 DEF FromHomes
      <4>2. i \in 1..n
        BY <1>3
      <4> QED
        BY <4>1, <4>2
    <3>2. CASE x = d
      <4>1. n \in 1..n
        BY <1>3
      <4> QED
        BY <1>5, <3>2, <4>1
    <3> QED
      BY <3>1, <3>2
  <2> QED
    BY <2>1 DEF FromHomes
<1>10. HalvesUpTo(q, n)'
  <2>1. Orderly
    BY DEF Halves, Lingering, Turns
  <2>2. n - 1 <= Len(q.rels)
    BY <1>3
  <2>3. PICK k : k = n - 1
    OBVIOUS
  <2>4. HalvesUpTo(q, k)'
    <3>1. k \in Int /\ k <= Len(q.rels) /\ HalvesUpTo(q, k)
      BY <1>3, <1>4, <2>2, <2>3
    <3> QED
      BY <1>5, <2>1, <3>1, HalvesStay
  <2>5. FirstAway(q, n) => Half(q.rels[n], q.name)'
    BY <1>6
  <2>6. \A i \in 1..n : i \in 1..k \/ i = n
    BY <1>3, <2>3
  <2>7. \A i \in 1..n : FirstAway(q, i)' <=> FirstAway(q, i)
    BY DEF FirstAway, HomeOf, Route
  <2>8. \A i \in 1..k : FirstAway(q, i)' => Half(q.rels[i], q.name)'
    BY <2>4 DEF HalvesUpTo
  <2>9. \A i \in 1..n : FirstAway(q, i)' => Half(q.rels[i], q.name)'
    BY <2>5, <2>6, <2>7, <2>8
  <2> QED
    BY <2>9 DEF HalvesUpTo
<1> QED
  BY <1>7, <1>8, <1>9, <1>10 DEF HalvesSent

\* It is read: the half is in hand, unless its home is the sender.
LEMMA SentReceive ==
  ASSUME Settled, Halves, [Next]_vars, NEW r \in Repos, NEW d \in Procs,
         Receive(r, d)
  PROVE  HalvesSent(r)'
<1>1. /\ sending[r] # Nothing /\ sending[r].to = d /\ UNCHANGED job
      /\ sending' = [sending EXCEPT ![r] = Nothing] /\ lingering' \subseteq lingering \cup {d}
      /\ taken' = [taken EXCEPT ![d] = [from |-> r, msg |-> sending[r]]]
  BY DEF Receive
<1>2. /\ sending \in [Procs -> Message \cup {Nothing}] /\ r \in Procs
      /\ taken \in [Procs -> [from : Procs, msg : Message] \cup {Nothing}]
  BY Separate
     DEF Halves, Lingering, Turns, Orderly, QueryInv, Owned, Typed, TypeOK, SocketOK
<1>3. sending'[r] = Nothing /\ taken'[d] = [from |-> r, msg |-> sending[r]]
  BY <1>1, <1>2
<1>4. taken'[d] # Nothing /\ taken'[d].msg = sending[r]
  <2>1. taken'[d] \in [from : Procs, msg : Message]
    BY <1>1, <1>2, <1>3
  <2> QED
    BY <1>3, <2>1, NothingAssumption
<1>5. ASSUME NEW q, NEW n, d = HomeOf(q.rels[n]),
             Relates(sending[r], q.rels[n], q.name)
      PROVE  Half(q.rels[n], q.name)'
  <2>1. PICK a, b : a = q.rels[n] /\ b = q.name
    OBVIOUS
  <2>2. d = HomeOf(a) /\ Relates(sending[r], a, b)
    BY <1>5, <2>1
  <2>3. InHand(d, a, b)'
    BY <1>4, <2>2 DEF InHand, Relates, ToSet
  <2>4. Half(a, b)'
    BY <2>2, <2>3, HalfMeansNext
  <2> QED
    BY <2>1, <2>4
<1> QED
  BY <1>1, <1>3, <1>5, SentAway

\* It is lost at a repository that lingers: another half was sent there.
LEMMA SentOverrun ==
  ASSUME Settled, Halves, [Next]_vars, NEW r \in Repos, NEW d \in Procs,
         Overrun(r, d)
  PROVE  HalvesSent(r)'
<1>1. /\ sending[r] # Nothing /\ sending[r].to = d /\ UNCHANGED job
      /\ sending' = [sending EXCEPT ![r] = Nothing]
      /\ lingering' \subseteq lingering \cup {d}
      /\ d \in lingering
  BY DEF Overrun, StopsLingering
<1>2. /\ sending \in [Procs -> Message \cup {Nothing}] /\ r \in Procs
  BY Separate
     DEF Halves, Lingering, Turns, Orderly, QueryInv, Owned, Typed, TypeOK, SocketOK
<1>3. ASSUME NEW q, NEW n, d = HomeOf(q.rels[n]), FromHomes(q, n - 1, lingering)
      PROVE  ~FirstAway(q, n)
  BY <1>1, <1>3 DEF FromHomes, FirstAway
<1> QED
  BY <1>1, <1>2, <1>3, SentAway

\* It is lost at the sender.
LEMMA SentCircle ==
  ASSUME Settled, Halves, [Next]_vars, NEW r \in Repos, job'[r] = job[r],
         sending[r] # Nothing, sending[r].to = r, sending'[r] = Nothing,
         UNCHANGED lingering
  PROVE  HalvesSent(r)'
<1>1. r \in Procs
  BY Separate
<1>2. ASSUME NEW q, NEW n, r = HomeOf(q.name), r = HomeOf(q.rels[n])
      PROVE  ~FirstAway(q, n)
  BY <1>2 DEF FirstAway
<1> QED
  BY <1>1, <1>2, SentAway

\* What others do does not undo it.
LEMMA SentSame ==
  ASSUME Settled, Halves, [Next]_vars, NEW r \in Repos, job'[r] = job[r],
         sending'[r] = sending[r], lingering' \subseteq lingering
  PROVE  HalvesSent(r)'
<1> SUFFICES ASSUME Heads(r)', Confirms(job'[r].kind) PROVE HalvesSent(r)'
  BY DEF HalvesSent
<1>1. Heads(r) /\ Confirms(job[r].kind) /\ Turns /\ Orderly
  BY DEF Heads, Halves, Lingering, Turns
<1>2. PICK q, todo, k : /\ q = request[job[r].cli] /\ todo = job[r].todo
                        /\ k = Reached(q, todo, sending[r])
  OBVIOUS
<1>3. /\ OnCourse(q, todo, sending[r]) /\ FromHomes(q, k, lingering)
      /\ HalvesUpTo(q, k)
  BY <1>1, <1>2 DEF Halves, HalvesSent
<1>4. /\ q # Nothing /\ job[r].cli \in Clients /\ q.rels \in Seq(Names)
  BY <1>1, <1>2, HandlerIs
<1>5. k \in Int /\ k <= Len(q.rels)
  <2>1. PICK n, x : n = Len(q.rels) - Len(todo) /\ x = Len(q.rels)
    OBVIOUS
  <2>2. x \in Nat /\ n \in 0..x
    BY <1>3, <1>4, <2>1 DEF OnCourse
  <2>3. k = n \/ k = n - 1
    BY <1>2, <2>1 DEF Reached
  <2>4. k \in Int /\ k <= x
    BY <2>2, <2>3
  <2> QED
    BY <2>1, <2>4
<1>6. request'[job'[r].cli] = q
  BY <1>1, <1>2, <1>4, OnwardStep DEF Onward
<1>7. HalvesUpTo(q, k)'
  BY <1>1, <1>3, <1>4, <1>5, HalvesStay
<1>8. FromHomes(q, k, lingering')
  BY <1>3 DEF FromHomes
<1> QED
  BY <1>2, <1>3, <1>6, <1>7, <1>8 DEF HalvesSent

LEMMA SentStep ==
  ASSUME Settled, Halves, Lingering', [Next]_vars, NEW r \in Repos
  PROVE  HalvesSent(r)'
<1>1. /\ Turns /\ Orderly /\ Orderly'
      /\ job \in [Repos -> Job \cup {Nothing}]
  BY DEF Halves, Lingering, Turns, Orderly, QueryInv, Owned, Typed, TypeOK
<1> SUFFICES ASSUME Heads(r)', Confirms(job'[r].kind) PROVE HalvesSent(r)'
  BY DEF HalvesSent
<1>2. CASE RepoStep(r)
  <2>1. ASSUME RepoFinish(r) PROVE FALSE
    BY <1>1, <2>1 DEF RepoFinish, Heads
  <2>2. ASSUME RepoDelete(r) PROVE FALSE
    <3>1. job'[r].kind \in {"deleted", "cleared"}
      BY <1>1, <2>2 DEF RepoDelete
    <3> QED
      BY <3>1 DEF Confirms
  <2>3. ASSUME RepoQuery(r) \/ RepoUpdate(r) \/ RepoMessage(r) PROVE FALSE
    <3>1. taken[r] # Nothing /\ UNCHANGED job
      BY <2>3 DEF RepoQuery, RepoUpdate, RepoMessage, Taken
    <3>2. job[r] = Nothing
      BY <1>1, <3>1, HeldTaken, Separate
    <3> QED
      BY <3>1, <3>2 DEF Heads
  <2>4. RepoCreate(r) => HalvesSent(r)'
    BY <1>1, SentCreate
  <2>5. RepoRelation(r) => HalvesSent(r)'
    BY SentRelation
  <2> QED
    BY <1>2, <2>1, <2>2, <2>3, <2>4, <2>5 DEF RepoStep
<1>3. CASE ~RepoStep(r)
  <2>1. job'[r] = job[r]
    <3>1. ASSUME NEW s \in Procs, Receive(s, r) PROVE UNCHANGED job
      BY <3>1 DEF Receive
    <3> QED
      BY <1>1, <1>3, <3>1, HandStays
  <2>2. Heads(r)
    BY <2>1 DEF Heads
  <2>3. \/ sending'[r] = sending[r] /\ lingering' \subseteq lingering
        \/ \E d \in Procs : Receive(r, d) \/ Overrun(r, d)
        \/ /\ sending[r] # Nothing /\ sending[r].to = r /\ sending'[r] = Nothing
           /\ UNCHANGED lingering
    BY <1>1, <1>3, <2>2, SendsStay
  <2> QED
    BY <2>1, <2>3, SentSame, SentReceive, SentOverrun, SentCircle
<1> QED
  BY <1>2, <1>3

\* The main server confirms only what it has read.
LEMMA MasterTexts ==
  ASSUME MasterStep
  PROVE  \E t, m :
           /\ Taken(Master, t) /\ Reply(Master, m)
           /\ m # Nothing /\ m.type = "M" /\ Confirms(m.text.kind) =>
                t = "M" /\ m.text = Msg(Master).text /\ m.cli = Msg(Master).cli
<1> DEFINE Silent(m) == m.type = "M" => ~Confirms(m.text.kind)
<1>1. \A kind : ~Confirms(kind) /\ Refuse(kind) =>
        \E m : Reply(Master, m) /\ Silent(m)
  BY DEF Refuse, ParseNewMessageResponse, Say
<1>2. \A state, command : Accept(state, command) /\ command.type # "M" =>
        \E m : Reply(Master, m) /\ Silent(m)
  BY DEF Accept
<1>3. ~Confirms("busy") /\ ~Confirms("detached") /\ ~Confirms("internal")
      /\ ~Confirms("query")
  BY DEF Confirms
<1>4. \A command : MasterWrite(command) /\ command.type # "M" =>
        \E m : Reply(Master, m) /\ Silent(m)
  BY <1>1, <1>2, <1>3 DEF MasterWrite
<1>5. CASE MasterCreate
  BY <1>4, <1>5 DEF MasterCreate, ParseNewNode
<1>6. CASE MasterUpdate
  BY <1>4, <1>6 DEF MasterUpdate, ParseNewUpdate
<1>7. CASE MasterDelete
  BY <1>4, <1>7 DEF MasterDelete, ParseNewDelete
<1>8. CASE MasterQuery
  BY <1>1, <1>2, <1>3, <1>8 DEF MasterQuery, ParseNewQuery
<1>9. CASE MasterMessage
  BY <1>9 DEF MasterMessage, Exit, ParseNewMessageResponse
<1>10. CASE MasterInfo
  <2>1. \A text : ~Confirms(text.kind) /\ Complete(text) =>
          \E m : Reply(Master, m) /\ Silent(m)
    BY DEF Complete, ParseNewMessageResponse
  <2>2. \A q : Continue(q) => \E m : Reply(Master, m) /\ Silent(m)
    BY DEF Continue, ParseNewQuery
  <2>3. /\ Taken(Master, "I")
        /\ \/ \E text : ~Confirms(text.kind) /\ Complete(text)
           \/ \E q : Continue(q)
           \/ Reply(Master, Nothing)
    BY <1>3, <1>10 DEF MasterInfo, Exit, Say
  <2> QED
    BY <2>1, <2>2, <2>3
<1>11. CASE MasterEnrol
  BY <1>11 DEF MasterEnrol
<1> QED
  BY <1>5, <1>6, <1>7, <1>8, <1>9, <1>10, <1>11 DEF MasterStep

\* A create is confirmed by its handler when it ends; the others pass it on.
LEMMA TextFrom ==
  ASSUME Settled, Turns, [Next]_vars, NEW p \in Procs, NEW m, m = Held(p)',
         m # Nothing, m.type = "M", Confirms(m.text.kind)
  PROVE  \/ \E q \in Procs : /\ Held(q) # Nothing /\ Held(q).type = "M"
                             /\ Held(q).text = m.text /\ Held(q).cli = m.cli
         \/ \E r \in Repos : /\ RepoFinish(r) /\ Heads(r) /\ Confirms(job[r].kind)
                             /\ job[r].cli = m.cli
<1> DEFINE Had == \E q \in Procs : /\ Held(q) # Nothing /\ Held(q).type = "M"
                                   /\ Held(q).text = m.text /\ Held(q).cli = m.cli
<1>0. Orderly
  BY DEF Turns
<1>1. Held(p)' = Held(p) => Had
  OBVIOUS
<1>2. CASE \/ \E s, d \in Procs : Receive(s, d) \/ Overrun(s, d)
           \/ \E S \in SUBSET up : FalseAcks(S)
           \/ \E x \in Procs : Crash(x)
           \/ UNCHANGED vars
  <2>1. PICK s, d \in Procs : Moves(s, d)
    BY <1>0, <1>2, TransportMoves
  <2>2. Held(p)' = Held(IF p = d THEN s ELSE p)
    BY <2>1 DEF Moves, Carried
  <2> QED
    BY <2>2
<1>3. CASE MasterStep
  <2>1. PICK t, x : /\ Taken(Master, t) /\ Reply(Master, x)
                    /\ x # Nothing /\ x.type = "M" /\ Confirms(x.text.kind) =>
                         /\ t = "M" /\ x.text = Msg(Master).text
                         /\ x.cli = Msg(Master).cli
    BY <1>3, MasterTexts
  <2>2. /\ Held(Master)' = x /\ \A q \in Procs \ {Master} : Held(q)' = Held(q)
        /\ Held(Master) = Msg(Master) /\ Held(Master) # Nothing
        /\ Msg(Master).type = t /\ Master \in Procs
    BY <1>0, <2>1, ReplySends, TakenHeld, Separate
  <2> QED
    BY <1>1, <2>1, <2>2
<1>4. ASSUME NEW r \in Repos, RepoStep(r), ~RepoFinish(r) PROVE Had
  <2>1. r \in Procs
    BY Separate
  <2>2. CASE RepoRelation(r)
    <3>1. PICK x : /\ sending' = [sending EXCEPT ![r] = x]
                   /\ x = IF job[r].table = <<>> THEN Nothing
                          ELSE ParseNewNode(Route(job[r].table, Head(job[r].todo)),
                                 [op |-> "C", name |-> Head(job[r].todo),
                                  attr |-> FALSE, rels |-> <<job[r].name>>],
                                 0, <<>>, job[r].cli)
      BY <1>0, <2>2, RepoWrites
    <3>2. taken[r] = Nothing /\ UNCHANGED taken
      BY <1>0, <2>2, RepoWrites DEF socketVars
    <3>3. Held(r)' = x /\ \A q \in Procs \ {r} : Held(q)' = Held(q)
      BY <1>0, <2>1, <3>1, <3>2, HeldAfterSend DEF Orderly, QueryInv
    <3>4. x = Nothing \/ x.type = "C"
      BY <3>1 DEF ParseNewNode
    <3> QED
      BY <1>1, <3>3, <3>4
  <2>3. CASE ~RepoRelation(r)
    <3>1. \E x : Reply(r, x) /\ (x # Nothing /\ x.type = "M" => ~Confirms(x.text.kind))
      <4>1. RepoCreate(r) => Reply(r, Nothing)
        <5>1. ~Fail(failures)
          BY <1>0, NoFailure, SettledCluster DEF Orderly, QueryInv, Owned
        <5> QED
          BY <5>1 DEF RepoCreate
      <4>2. RepoQuery(r) => \E x : Reply(r, x) /\ x.type = "I"
        BY DEF RepoQuery, ParseNewInfoResponse
      <4>3. RepoUpdate(r) => \E x : Reply(r, x) /\ x.text.kind = "updated"
        BY DEF RepoUpdate, ParseNewMessageResponse, Say
      <4>4. RepoDelete(r) => \E x : Reply(r, x) /\ (x = Nothing \/ x.type = "D")
        BY DEF RepoDelete, ParseNewDelete
      <4>5. RepoMessage(r) => Reply(r, Nothing)
        BY DEF RepoMessage, Exit
      <4>6. ~Confirms("updated")
        BY DEF Confirms
      <4> QED
        BY <1>4, <2>3, <4>1, <4>2, <4>3, <4>4, <4>5, <4>6 DEF RepoStep
    <3> QED
      BY <1>0, <1>1, <2>1, <3>1, ReplySends
  <2> QED
    BY <2>2, <2>3
<1>5. ASSUME NEW r \in Repos, RepoFinish(r)
      PROVE  Had \/ (Heads(r) /\ Confirms(job[r].kind) /\ job[r].cli = m.cli)
  <2>1. r \in Procs
    BY Separate
  <2>2. PICK x : /\ x = IF job[r].id = 0 THEN Nothing
                        ELSE ParseNewMessageResponse(Master, Say(job[r].kind),
                                                     job[r].id, job[r].cli)
                 /\ sending' = [sending EXCEPT ![r] = x]
                 /\ job[r] # Nothing /\ UNCHANGED taken
    BY <1>5 DEF RepoFinish, socketVars
  <2>3. taken[r] = Nothing
    BY <1>0, <2>2 DEF Orderly, QueryInv, Solo
  <2>4. Held(r)' = x /\ \A q \in Procs \ {r} : Held(q)' = Held(q)
    BY <1>0, <2>1, <2>2, <2>3, HeldAfterSend DEF Orderly, QueryInv
  <2>5. x # Nothing => Heads(r) /\ x.text.kind = job[r].kind /\ x.cli = job[r].cli
    BY <2>2 DEF Heads, ParseNewMessageResponse, Say
  <2> QED
    BY <1>1, <2>4, <2>5
<1>6. ASSUME NEW c \in Clients, Invoke(c) PROVE Had
  <2>1. PICK q \in Request : /\ Held(c)' = ClientCommand(q, c)
                             /\ \A x \in Procs \ {c} : Held(x)' = Held(x)
    BY <1>0, <1>6, InvokeActs
  <2>2. ClientCommand(q, c).type # "M"
    BY CommandOf DEF Commands
  <2> QED
    BY <1>1, <2>1, <2>2
<1>7. ASSUME NEW c \in Clients, WaitResponse(c) PROVE Had
  BY <1>0, <1>1, <1>7, WaitResponseActs
<1>8. \A r \in Repos : ~SetRepository(r)
  BY <1>0 DEF Orderly, SetRepository
<1>9. ~SetServer
  BY <1>0, SettledCluster DEF SetServer
<1> QED
  BY <1>2, <1>3, <1>4, <1>5, <1>6, <1>7, <1>8, <1>9 DEF Next, Work

\* A handler that ends has sent all halves.
LEMMA FinishThere ==
  ASSUME Settled, Halves, NEW r \in Repos, RepoFinish(r), Heads(r),
         Confirms(job[r].kind)
  PROVE  HalvesThere(job[r].cli)
<1>1. PICK q, todo, n :
        /\ q = request[job[r].cli] /\ todo = job[r].todo
        /\ n = Len(q.rels) - Len(todo)
        /\ n \in 0..Len(q.rels) /\ Len(q.rels) \in Nat
        /\ q # Nothing /\ job[r].cli \in Clients
        /\ q.op = "C" /\ q.rels \in Seq(Names)
        /\ q.name \in Names /\ r = HomeOf(q.name)
        /\ OnCourse(q, todo, sending[r])
        /\ sending[r] = Nothing =>
             FromHomes(q, n, lingering) /\ HalvesUpTo(q, n)
        /\ sending[r] # Nothing =>
             /\ n - 1 \in Int /\ n \in 1..Len(q.rels)
             /\ FromHomes(q, n - 1, lingering) /\ HalvesUpTo(q, n - 1)
             /\ sending[r].to = HomeOf(q.rels[n])
             /\ Relates(sending[r], q.rels[n], q.name)
  BY Course
<1>2. sending[r] = Nothing /\ job[r].todo = <<>>
  BY DEF RepoFinish
<1>3. n = Len(q.rels)
  <2>1. todo = <<>> /\ n = Len(q.rels) - Len(todo) /\ Len(q.rels) \in Nat
    BY <1>1, <1>2, Zenon
  <2> QED
    BY <2>1
<1>4. HalvesUpTo(q, n) /\ q.op = "C" /\ q = request[job[r].cli]
  BY <1>1, <1>2, Zenon
<1> QED
  BY <1>3, <1>4 DEF HalvesThere

LEMMA ToldStep ==
  ASSUME Settled, Halves, [Next]_vars, NEW p \in Procs, Held(p)' # Nothing
  PROVE  HalvesTold(Held(p))'
<1>1. PICK m : m = Held(p)'
  OBVIOUS
<1>2. Turns /\ Orderly
  BY DEF Halves, Lingering, Turns
<1> SUFFICES ASSUME m.type = "M", Confirms(m.text.kind) PROVE HalvesThere(m.cli)'
  BY <1>1 DEF HalvesTold
<1>3. CASE \E q \in Procs : /\ Held(q) # Nothing /\ Held(q).type = "M"
                            /\ Held(q).text = m.text /\ Held(q).cli = m.cli
  <2>1. PICK q \in Procs : /\ Held(q) # Nothing /\ Held(q).type = "M"
                           /\ Held(q).text = m.text /\ Held(q).cli = m.cli
    BY <1>3
  <2>2. PICK c \in Clients : c = m.cli /\ request[c] # Nothing
    BY <1>2, <2>1, HeldClient
  <2>3. HalvesThere(c)
    BY <2>1, <2>2 DEF Halves, HalvesTold
  <2>4. HalvesThere(c)'
    BY <1>2, <2>2, <2>3, ThereStays
  <2> QED
    BY <2>2, <2>4
<1>4. CASE \E r \in Repos : /\ RepoFinish(r) /\ Heads(r) /\ Confirms(job[r].kind)
                            /\ job[r].cli = m.cli
  <2>1. PICK r \in Repos : /\ RepoFinish(r) /\ Heads(r) /\ Confirms(job[r].kind)
                           /\ job[r].cli = m.cli
    BY <1>4
  <2>2. PICK c \in Clients : c = m.cli /\ request[c] # Nothing
    BY <1>2, <2>1, JobClient DEF Heads
  <2>3. HalvesThere(c)
    BY <2>1, <2>2, FinishThere
  <2>4. HalvesThere(c)'
    BY <1>2, <2>2, <2>3, ThereStays
  <2> QED
    BY <2>2, <2>4
<1> QED
  BY <1>1, <1>2, <1>3, <1>4, TextFrom

\* An answer is printed, or stays.
LEMMA AnswerComes ==
  ASSUME Settled, Orderly, [Next]_vars, NEW c \in Clients
  PROVE  answer'[c] = answer[c] \/ WaitResponse(c)
<1>1. ASSUME NEW d \in Clients, WaitResponse(d), d # c PROVE answer'[c] = answer[c]
  BY <1>1 DEF WaitResponse, Orderly, QueryInv, Owned, Typed, TypeOK, ClientOK
<1>2. \A d \in Clients : Invoke(d) => UNCHANGED answer
  BY DEF Invoke
<1>3. UNCHANGED clientVars => UNCHANGED answer
  BY DEF clientVars
<1> QED
  BY <1>1, <1>2, <1>3, ClientStep

\* What a client has printed stays true.
LEMMA StoredStep ==
  ASSUME Settled, Halves, [Next]_vars, NEW c \in Clients, Stored(c)'
  PROVE  KeptAtHome(c)' /\ HalvesThere(c)'
<1>1. Orderly /\ Turns /\ Typed
  BY DEF Halves, Lingering, Turns, Orderly, QueryInv, Owned
<1>2. KeptAtHome(c) /\ HalvesThere(c) /\ request[c] # Nothing
  <2>1. CASE answer'[c] = answer[c]
    <3>1. Stored(c)
      BY <2>1 DEF Stored
    <3> QED
      BY <1>1, <3>1 DEF Halves, Stored, Orderly, Traces
  <2>2. CASE WaitResponse(c)
    <3>1. PICK m : m = Msg(c)
      OBVIOUS
    <3>2. /\ Held(c) = m /\ m \in Message /\ m.type = "M" /\ m.cli = c /\ Sound(m)
          /\ request[c] # Nothing
          /\ answer' = [answer EXCEPT ![c] = m.text]
      BY <1>1, <2>2, <3>1, WaitResponseActs
    <3>3. answer'[c] = m.text
      BY <1>1, <3>2 DEF Typed, TypeOK, ClientOK
    <3>4. Confirms(m.text.kind)
      BY <3>3 DEF Stored, Confirms
    <3>5. FaithfulText(m) /\ HalvesTold(m)
      BY <3>2, NothingAssumption, Separate DEF Sound, Halves
    <3> QED
      BY <3>2, <3>4, <3>5 DEF FaithfulText, HalvesTold, Confirms
  <2> QED
    BY <1>1, <2>1, <2>2, AnswerComes
<1>3. Onward
  BY <1>1, OnwardStep
<1> QED
  BY <1>1, <1>2, <1>3, KeptStays, ThereStays

LEMMA HalvesStep ==
  ASSUME InTurns, Halves, [Next]_vars
  PROVE  Halves'
<1>1. Settled /\ Lingering'
  BY LingerStep DEF InTurns, Halves
<1>2. \A r \in Repos : HalvesSent(r)'
  BY <1>1, SentStep
<1>3. \A p \in Procs : Held(p)' # Nothing => HalvesTold(Held(p))'
  BY <1>1, ToldStep
<1>4. \A c \in Clients : Stored(c)' => KeptAtHome(c)' /\ HalvesThere(c)'
  BY <1>1, StoredStep
<1> QED
  BY <1>1, <1>2, <1>3, <1>4 DEF Halves

LEMMA HalvesInit == ASSUME InTurns, Init PROVE Halves
<1>1. Lingering
  BY LingerInit
<1>2. /\ \A p \in Procs : sending[p] = Nothing /\ taken[p] = Nothing
      /\ \A r \in Repos : job[r] = Nothing
      /\ \A c \in Clients : answer[c] = Nothing
  BY DEF Init
<1>3. \A p \in Procs : Held(p) = Nothing
  BY <1>2 DEF Held
<1> QED
  BY <1>1, <1>2, <1>3 DEF Halves, HalvesSent, Heads, Stored

LEMMA HalvesMean == ASSUME Halves PROVE CreateVisible
<1> SUFFICES ASSUME NEW c \in Clients, Stored(c)
    PROVE  \A req : req = request[c] =>
             /\ req.name \in nodes[HomeOf(req.name)]
             /\ \A i \in DOMAIN req.rels :
                  /\ <<req.name, req.rels[i]>> \in relations[HomeOf(req.name)]
                  /\ FirstAway(req, i) => Half(req.rels[i], req.name)
  BY DEF CreateVisible
<1>1. /\ Orderly /\ request[c] # Nothing /\ KeptAtHome(c) /\ HalvesThere(c)
  BY DEF Halves, Lingering, Turns, Orderly, Traces, Stored
<1> TAKE req
<1> HAVE req = request[c]
<1>2. /\ req.op = "C" /\ Holds(HomeOf(req.name), req) /\ HalvesUpTo(req, Len(req.rels))
      /\ req.rels \in Seq(Names)
  BY <1>1, RequestIs DEF KeptAtHome, HalvesThere
<1>3. \A i \in DOMAIN req.rels : i \in 1..Len(req.rels) /\ req.rels[i] \in ToSet(req.rels)
  BY <1>2 DEF ToSet
<1> QED
  BY <1>2, <1>3 DEF Holds, HalvesUpTo

(***************************************************************************)
(* CreateVisible: a client that is told that its node is stored finds both *)
(* ends of each relation written, or read, at their homes, for any number  *)
(* of clients that come one after the other, processes and names: the loop *)
(* over the relations (307-333) has sent each half before the reply, and   *)
(* what is lost on the way is lost where the sender is the home itself, or *)
(* another half of this create has just arrived.  Assumed: repositories    *)
(* are attached, no process is killed and no statement fails (Settled).    *)
(* Whatever the lengths of the last packets are: where RecvFrom ends at    *)
(* once (rdt/RDT_UDP.cpp 106) is left open for all but the constant texts. *)
(***************************************************************************)
THEOREM CreatesVisible ==
  ASSUME InTurns
  PROVE  Spec => []CreateVisible
<1>1. Init => Halves
  BY HalvesInit
<1>2. Halves /\ [Next]_vars => Halves'
  BY HalvesStep
<1>3. Halves => CreateVisible
  BY HalvesMean
<1> QED
  BY <1>1, <1>2, <1>3, PTL DEF Spec

-----------------------------------------------------------------------------
(***************************************************************************)
(* While a query is under way nothing is created: the graph it will have   *)
(* seen when it ends is bounded by what the repositories have read.  What  *)
(* a repository has read it writes before it reads the query.              *)
(***************************************************************************)
Bound ==
  {x \in Facts : \E n \in Names : x = Service!Attribute(n)} \cup
  {x \in Service!Fact : \E a, b \in Names : x = Service!Relation(a, b) /\ Half(a, b)}

BoundMeans ==
  /\ \A n \in Names : Service!Attribute(n) \in Bound <=> Service!Attribute(n) \in Facts
  /\ \A a, b \in Names : Linked(Bound, a, b) <=> Half(a, b)
  /\ \A x \in Bound : \/ \E n \in Names : x = Service!Attribute(n)
                      \/ \E a, b \in Names : x = Service!Relation(a, b)

LEMMA BoundHeld == BoundMeans
<1>1. \A n, a, b : Service!Attribute(n) # Service!Relation(a, b)
  BY DEF Service!Attribute, Service!Relation
<1>2. \A a, b, x, y : Service!Relation(a, b) = Service!Relation(x, y)
                        => a = x /\ b = y
  BY DEF Service!Relation
<1>3. \A a, b \in Names : Service!Relation(a, b) \in Service!Fact
  BY DEF Service!Fact
<1>4. \A n \in Names : Service!Attribute(n) \in Bound <=> Service!Attribute(n) \in Facts
  BY <1>1 DEF Bound
<1>5. \A a, b \in Names : Linked(Bound, a, b) <=> Half(a, b)
  BY <1>1, <1>2, <1>3 DEF Bound, Linked
<1>6. \A x \in Bound : \/ \E n \in Names : x = Service!Attribute(n)
                       \/ \E a, b \in Names : x = Service!Relation(a, b)
  BY DEF Bound
<1> QED
  BY <1>4, <1>5, <1>6 DEF BoundMeans

LEMMA BoundHeldNext == BoundMeans'
BY BoundHeld, PTL

\* More relations reach more.
LEMMA LinksMore ==
  ASSUME NEW g, NEW h, \A a, b : Linked(g, a, b) => Linked(h, a, b),
         NEW name, NEW k \in Nat
  PROVE  Service!Within(g, name, k) \subseteq Service!Within(h, name, k)
<1> DEFINE S == {i \in Nat : Service!Within(g, name, i)
                               \subseteq Service!Within(h, name, i)}
<1>1. 0 \in S
  BY WithinZero
<1>2. ASSUME NEW n \in Nat, n \in S PROVE n + 1 \in S
  BY <1>2, WithinNext DEF Further, Linked
<1> HIDE DEF S
<1>3. Nat \subseteq S
  BY <1>1, <1>2, Induct
<1> QED
  BY <1>3 DEF S

\* What is written is bounded, link by link.
LEMMA FactsBound == \A a, b : Linked(Facts, a, b) => Linked(Bound, a, b)
<1> SUFFICES ASSUME NEW a, NEW b, Linked(Facts, a, b) PROVE Linked(Bound, a, b)
  OBVIOUS
<1>1. a \in Names /\ b \in Names
  <2>1. \A n : /\ Service!Relation(a, b) # Service!Node(n)
               /\ Service!Relation(a, b) # Service!Attribute(n)
    BY DEF Service!Attribute, Service!Relation, Service!Node
  <2>2. \A x, y : Service!Relation(a, b) = Service!Relation(x, y) => a = x /\ b = y
    BY DEF Service!Relation
  <2> QED
    BY <2>1, <2>2, FactsHeld DEF FactsMean, Linked
<1>2. <<a, b>> \in relations[HomeOf(a)]
  BY <1>1, FactsHeld DEF FactsMean
<1>3. Half(a, b)
  BY <1>2 DEF Half
<1> QED
  BY <1>1, <1>3, BoundHeld DEF BoundMeans

\* A message of a query that was accepted, or its answer.
OfQuery(m) == Asks(m) \/ (m # Nothing /\ m.type = "M" /\ m.text.kind = "query")

\* Neither is made by, or makes, a create.
LEMMA BoundSame ==
  ASSUME Settled, Turns, [Next]_vars, NEW p \in Procs, OfQuery(Held(p))
  PROVE  Bound' = Bound
<1>1. Orderly /\ Main(Held(p)) /\ Held(p).type \in {"R", "I", "M"}
  BY DEF Turns, OfQuery, Asks, Main, Side
<1>2. \A s \in Procs : Serves(s) => s = p
  BY <1>1 DEF Turns, OneHand, Serves
<1>3. ASSUME NEW a \in Names, NEW b \in Names PROVE Half(a, b)' <=> Half(a, b)
  <2>1. ASSUME NEW s \in Procs, Receive(s, HomeOf(a)), Relates(sending[s], a, b)
        PROVE  FALSE
    <3>1. s = p /\ Held(s) = sending[s]
      BY <1>1, <1>2, <2>1, HeldSending DEF Receive, Turns, Leads
    <3> QED
      BY <1>1, <2>1, <3>1 DEF Relates
  <2> QED
    BY <1>1, <2>1, HalfStep
<1>4. \A n \in Names : n \in attributes'[HomeOf(n)] <=> n \in attributes[HomeOf(n)]
  <2>1. ASSUME NEW r \in Repos, RepoCreate(r)
        PROVE  \A n \in Names : n \in attributes'[HomeOf(n)] <=> n \in attributes[HomeOf(n)]
    <3>1. PICK m : m = Msg(r)
      OBVIOUS
    <3>2. Taken(r, "C") /\ ~Fail(failures) /\ r \in Procs
      BY <1>1, <2>1, NoFailure, SettledCluster, Separate
         DEF RepoCreate, Orderly, QueryInv, Owned
    <3>3. /\ Held(r) = m /\ m # Nothing /\ m.type = "C" /\ m.to = r /\ Sound(m)
      BY <1>1, <3>1, <3>2, TakenHeld
    <3>4. ~Main(Held(r))
      BY <1>1, <1>2, <3>2, <3>3 DEF Serves
    <3>5. m.id = 0
      BY <3>3, <3>4 DEF Main, Side
    <3>6. m.body.attr = FALSE
      BY <3>3, <3>5, Separate DEF Sound, FaithfulCommand, Commands
    <3>7. attributes' = [attributes EXCEPT ![r] = attributes[r]]
      BY <2>1, <3>1, <3>2, <3>6 DEF RepoCreate
    <3>8. attributes \in [Repos -> SUBSET Names]
      BY <1>1 DEF Orderly, QueryInv, Owned, Typed, TypeOK, StoreOK
    <3> QED
      BY <3>7, <3>8
  <2>2. (\A r \in Repos : ~RepoCreate(r)) => UNCHANGED attributes
    <3>1. UNCHANGED storeVars => UNCHANGED attributes
      BY DEF storeVars
    <3>2. \A r \in Repos : RepoRelation(r) => UNCHANGED attributes
      BY DEF RepoRelation
    <3> QED
      BY <1>1, <3>1, <3>2, StoreStep
  <2>3. UNCHANGED attributes =>
          \A n \in Names : n \in attributes'[HomeOf(n)] <=> n \in attributes[HomeOf(n)]
    OBVIOUS
  <2> QED
    BY <2>1, <2>2, <2>3
<1>5. /\ FactsMean /\ FactsMean' /\ BoundMeans /\ BoundMeans'
  BY FactsHeld, FactsHeldNext, BoundHeld, BoundHeldNext
<1>6. \A n \in Names : Service!Attribute(n) \in Bound' <=> Service!Attribute(n) \in Bound
  BY <1>4, <1>5 DEF FactsMean, BoundMeans
<1>7. \A a, b \in Names : Service!Relation(a, b) \in Bound' <=> Service!Relation(a, b) \in Bound
  BY <1>3, <1>5 DEF BoundMeans, Linked
<1>8. \A x \in Bound' : \/ \E n \in Names : x = Service!Attribute(n)
                        \/ \E a, b \in Names : x = Service!Relation(a, b)
  BY <1>5 DEF BoundMeans
<1>9. \A x \in Bound : \/ \E n \in Names : x = Service!Attribute(n)
                       \/ \E a, b \in Names : x = Service!Relation(a, b)
  BY <1>5 DEF BoundMeans
<1>10. \A x : x \in Bound' <=> x \in Bound
  BY <1>6, <1>7, <1>8, <1>9
<1> QED
  BY <1>10

\* Where the messages of a query come from.
LEMMA QueryFrom ==
  ASSUME Settled, Turns, [Next]_vars, NEW p \in Procs, NEW m, m = Held(p)',
         OfQuery(m)
  PROVE  \/ UNCHANGED pending /\ \E q \in Procs : Held(q) = m
         \/ p = Master /\ (MasterQuery \/ MasterMessage \/ MasterInfo)
         \/ p \in Repos /\ RepoQuery(p)
<1> DEFINE Had == UNCHANGED pending /\ \E q \in Procs : Held(q) = m
<1>0. /\ Orderly /\ m # Nothing /\ m.type \in {"R", "I", "M"}
      /\ m.type # "M" => m.id # 0
      /\ m.type = "M" => m.text.kind = "query"
  BY DEF Turns, OfQuery, Asks
<1>1. CASE \/ \E s, d \in Procs : Receive(s, d) \/ Overrun(s, d)
           \/ \E S \in SUBSET up : FalseAcks(S)
           \/ \E x \in Procs : Crash(x)
           \/ UNCHANGED vars
  <2>1. PICK s, d \in Procs : Moves(s, d)
    BY <1>0, <1>1, TransportMoves
  <2>2. Held(p)' = Held(IF p = d THEN s ELSE p) /\ UNCHANGED pending
    BY <1>0, <2>1 DEF Moves, Carried, masterVars
  <2> QED
    BY <2>2
<1>2. CASE MasterStep
  <2>1. PICK t, x : Taken(Master, t) /\ Reply(Master, x)
    BY <1>2, MasterTexts
  <2>2. /\ Held(Master)' = x /\ \A q \in Procs \ {Master} : Held(q)' = Held(q)
        /\ Held(Master) = Msg(Master) /\ Held(Master) # Nothing
        /\ Msg(Master).to = Master /\ Master \in Procs
    BY <1>0, <2>1, ReplySends, TakenHeld, Separate
  <2>3. p = Master
    <3>1. Serves(Master)
      BY <2>2, Separate DEF Serves, Main, Side
    <3>2. Main(m)
      BY <1>0 DEF Main, Side
    <3>3. p # Master => Serves(p)
      BY <2>2, <3>2 DEF Serves
    <3> QED
      BY <2>2, <3>1, <3>3 DEF Turns, OneHand
  <2>4. \A kind : Refuse(kind) => \E y : Reply(Master, y) /\ y.type = "M"
                                          /\ y.text.kind = kind
    BY DEF Refuse, ParseNewMessageResponse, Say
  <2>5. ASSUME NEW command, MasterWrite(command), command.type \in {"C", "U", "D"}
        PROVE  FALSE
    <3>1. PICK y : /\ Reply(Master, y)
                   /\ \/ y.type \in {"C", "U", "D"}
                      \/ y.type = "M" /\ y.text.kind \in {"busy", "detached"}
      BY <2>4, <2>5 DEF MasterWrite, Accept
    <3>2. m = y
      BY <1>0, <2>2, <2>3, <3>1, ReplySends
    <3> QED
      BY <1>0, <3>1, <3>2
  <2>6. ~MasterCreate /\ ~MasterUpdate /\ ~MasterDelete
    BY <2>5 DEF MasterCreate, MasterUpdate, MasterDelete, ParseNewNode,
                ParseNewUpdate, ParseNewDelete
  <2>7. ~MasterEnrol
    <3>1. Reply(Master, Nothing) => m = Nothing
      BY <1>0, <2>2, <2>3, ReplySends
    <3> QED
      BY <1>0, <3>1 DEF MasterEnrol
  <2> QED
    BY <1>2, <2>3, <2>6, <2>7 DEF MasterStep
<1>3. ASSUME NEW r \in Repos, RepoStep(r)
      PROVE  Had \/ (p = r /\ RepoQuery(r))
  <2>1. r \in Procs /\ UNCHANGED pending
    BY <1>3, Separate DEF RepoStep, RepoCreate, RepoRelation, RepoFinish, RepoQuery,
                          RepoUpdate, RepoDelete, RepoMessage, masterVars
  <2>2. CASE RepoRelation(r)
    <3>1. PICK x : /\ sending' = [sending EXCEPT ![r] = x]
                   /\ x = IF job[r].table = <<>> THEN Nothing
                          ELSE ParseNewNode(Route(job[r].table, Head(job[r].todo)),
                                 [op |-> "C", name |-> Head(job[r].todo),
                                  attr |-> FALSE, rels |-> <<job[r].name>>],
                                 0, <<>>, job[r].cli)
      BY <1>0, <2>2, RepoWrites
    <3>2. taken[r] = Nothing /\ UNCHANGED taken
      BY <1>0, <2>2, RepoWrites DEF socketVars
    <3>3. Held(r)' = x /\ \A q \in Procs \ {r} : Held(q)' = Held(q)
      BY <1>0, <2>1, <3>1, <3>2, HeldAfterSend DEF Orderly, QueryInv
    <3>4. x = Nothing \/ x.type = "C"
      BY <3>1 DEF ParseNewNode
    <3> QED
      BY <1>0, <2>1, <3>3, <3>4
  <2>3. CASE RepoFinish(r)
    <3>1. PICK x : /\ x = IF job[r].id = 0 THEN Nothing
                          ELSE ParseNewMessageResponse(Master, Say(job[r].kind),
                                                       job[r].id, job[r].cli)
                   /\ sending' = [sending EXCEPT ![r] = x]
                   /\ job[r] # Nothing /\ UNCHANGED taken
      BY <2>3 DEF RepoFinish, socketVars
    <3>2. taken[r] = Nothing
      BY <1>0, <3>1 DEF Orderly, QueryInv, Solo
    <3>3. Held(r)' = x /\ \A q \in Procs \ {r} : Held(q)' = Held(q)
      BY <1>0, <2>1, <3>1, <3>2, HeldAfterSend DEF Orderly, QueryInv
    <3>4. job[r].kind # "query"
      BY <1>0, <3>1 DEF Orderly, SoundJob, Confirms
    <3>5. x # Nothing => x.type = "M" /\ x.text.kind # "query"
      BY <3>1, <3>4 DEF ParseNewMessageResponse, Say
    <3> QED
      BY <1>0, <2>1, <3>3, <3>5
  <2>4. CASE ~RepoRelation(r) /\ ~RepoFinish(r) /\ ~RepoQuery(r)
    <3> DEFINE Other(x) == \/ x = Nothing
                           \/ x.type = "D"
                           \/ x.type = "M" /\ x.text.kind = "updated"
    <3>1. \E x : Reply(r, x) /\ Other(x)
      <4>1. RepoCreate(r) => Reply(r, Nothing)
        <5>1. ~Fail(failures)
          BY <1>0, NoFailure, SettledCluster DEF Orderly, QueryInv, Owned
        <5> QED
          BY <5>1 DEF RepoCreate
      <4>2. RepoUpdate(r) => \E x : Reply(r, x) /\ x.type = "M"
                                                /\ x.text.kind = "updated"
        BY DEF RepoUpdate, ParseNewMessageResponse, Say
      <4>3. RepoDelete(r) => \E x : Reply(r, x) /\ (x = Nothing \/ x.type = "D")
        BY DEF RepoDelete, ParseNewDelete
      <4>4. RepoMessage(r) => Reply(r, Nothing)
        BY DEF RepoMessage, Exit
      <4>5. RepoCreate(r) \/ RepoUpdate(r) \/ RepoDelete(r) \/ RepoMessage(r)
        BY <1>3, <2>4 DEF RepoStep
      <4> QED
        BY <4>1, <4>2, <4>3, <4>4, <4>5
    <3>2. PICK x : Reply(r, x) /\ Other(x)
      BY <3>1
    <3>3. Held(r)' = x /\ \A q \in Procs \ {r} : Held(q)' = Held(q)
      BY <1>0, <2>1, <3>2, ReplySends
    <3> QED
      BY <1>0, <2>1, <3>2, <3>3
  <2>5. CASE RepoQuery(r)
    <3>1. \A q \in Procs \ {r} : Held(q)' = Held(q)
      BY <1>0, <2>1, <2>5, ReplySends DEF RepoQuery
    <3> QED
      BY <2>1, <2>5, <3>1
  <2> QED
    BY <2>2, <2>3, <2>4, <2>5
<1>4. ASSUME NEW c \in Clients, Invoke(c) PROVE Had
  <2>1. PICK q \in Request : /\ Held(c)' = ClientCommand(q, c)
                             /\ \A x \in Procs \ {c} : Held(x)' = Held(x)
    BY <1>0, <1>4, InvokeActs
  <2>2. ClientCommand(q, c).type # "M" /\ ClientCommand(q, c).id = 0
    BY RequestFields DEF ClientCommand, ParseNewNode, ParseNewQuery, ParseNewUpdate,
                         ParseNewDelete
  <2>3. UNCHANGED pending
    BY <1>4 DEF Invoke, masterVars
  <2> QED
    BY <1>0, <2>1, <2>2, <2>3
<1>5. ASSUME NEW c \in Clients, WaitResponse(c) PROVE Had
  <2>1. /\ Held(c)' = Nothing /\ \A x \in Procs \ {c} : Held(x)' = Held(x)
        /\ UNCHANGED pending
    BY <1>0, <1>5, WaitResponseActs DEF masterVars
  <2> QED
    BY <1>0, <2>1
<1>6. \A r \in Repos : ~SetRepository(r)
  BY <1>0 DEF Orderly, SetRepository
<1>7. ~SetServer
  BY <1>0, SettledCluster DEF SetServer
<1> QED
  BY <1>1, <1>2, <1>3, <1>4, <1>5, <1>6, <1>7 DEF Next, Work

-----------------------------------------------------------------------------
(***************************************************************************)
(* A query searches between what is written and what is bounded; since     *)
(* neither end moves past the other, its list is exact when it is printed. *)
(***************************************************************************)
Seeks(m, q) ==
  /\ Search(Facts, Bound, request[m.cli], q)
  /\ m.type = "R" => /\ m.to = HomeOf(q.queue[1].name)
                     /\ m.body.depth = q.queue[1].left
                     /\ m.body.leaf = q.leaf /\ m.body.cond = q.cond
  /\ m.type = "I" => Reports(Facts, Bound, q, m.rels, m.valid)

ListsAll(m) ==
  m.type = "M" /\ m.text.kind = "query" =>
    Service!Lists(m.text.found, request[m.cli], Bound)

Exactly ==
  /\ Turns /\ Frontier
  /\ \A p \in Procs : \A m \in {Held(p)} \ {Nothing} :
       /\ ListsAll(m)
       /\ Asks(m) => \A q \in {pending[m.id].state} : Seeks(m, q)

LEMMA SeeksStay ==
  ASSUME Settled, Turns, [Next]_vars, NEW p \in Procs, NEW m, m = Held(p), Asks(m),
         NEW q, WellFormed(q), Seeks(m, q)
  PROVE  Seeks(m, q)'
<1>1. Orderly /\ m # Nothing
  BY DEF Turns, Asks
<1>2. Onward
  BY <1>1, OnwardStep
<1>3. Facts \subseteq Facts'
  BY <1>2, FactsGrow
<1>4. PICK bound : bound = Bound
  OBVIOUS
<1>5. Bound' = bound
  BY <1>4, BoundSame DEF OfQuery
<1>6. PICK c \in Clients : c = m.cli /\ request[c] # Nothing
  BY <1>1, HeldClient
<1>7. PICK r : r = request[c]
  OBVIOUS
<1>8. request'[c] = r
  BY <1>2, <1>6, <1>7 DEF Onward
<1>9. Search(Facts', bound, r, q)
  BY <1>3, <1>4, <1>6, <1>7, SearchMore DEF Seeks
<1>10. m.type = "I" => Reports(Facts', bound, q, m.rels, m.valid)
  BY <1>3, <1>4, ReportsMore DEF Seeks
<1> QED
  BY <1>5, <1>6, <1>8, <1>9, <1>10 DEF Seeks

LEMMA ListsStay ==
  ASSUME Settled, Turns, [Next]_vars, NEW p \in Procs, NEW m, m = Held(p),
         m # Nothing, ListsAll(m)
  PROVE  ListsAll(m)'
<1> SUFFICES ASSUME m.type = "M", m.text.kind = "query" PROVE ListsAll(m)'
  BY DEF ListsAll
<1>1. Orderly /\ OfQuery(m)
  BY DEF Turns, OfQuery
<1>2. Onward
  BY <1>1, OnwardStep
<1>3. Facts \subseteq Facts'
  BY <1>2, FactsGrow
<1>4. PICK bound : bound = Bound
  OBVIOUS
<1>5. Bound' = bound
  BY <1>1, <1>4, BoundSame
<1>6. PICK c \in Clients : c = m.cli /\ request[c] # Nothing
  BY <1>1, HeldClient
<1>7. PICK r : r = request[c]
  OBVIOUS
<1>8. request'[c] = r
  BY <1>2, <1>6, <1>7 DEF Onward
<1>9. r.op = "R" /\ r \in Request
  BY <1>1, <1>6, <1>7 DEF Orderly, Sound, FaithfulText, Confirms, QueryInv, Owned,
                          Typed, TypeOK, ClientOK
<1>10. r.depth \in Nat
  BY <1>9, RequestFields DEF QueryRequest
<1>11. Service!Lists(m.text.found, r, bound)
  BY <1>4, <1>6, <1>7 DEF ListsAll
<1>12. Service!Lists(m.text.found, r, bound)'
  BY <1>3, <1>10, <1>11, ListsMore
<1> QED
  BY <1>5, <1>6, <1>8, <1>12 DEF ListsAll, Service!Lists

\* What Exactly says of one message.
Right(m) ==
  /\ ListsAll(m)
  /\ Asks(m) => \A q \in {pending[m.id].state} : Seeks(m, q)

LEMMA AskedWellFormed ==
  ASSUME Turns, Frontier, NEW p \in Procs, NEW m, m = Held(p), Asks(m)
  PROVE  /\ WellFormed(pending[m.id].state) /\ Layered(pending[m.id].state)
         /\ m.id \in DOMAIN pending /\ pending[m.id].state # Nothing
<1>1. Orderly
  BY DEF Turns
<1>2. m.id \in DOMAIN pending /\ pending[m.id].state # Nothing
  BY <1>1, AskedEntry
<1> QED
  BY <1>1, <1>2 DEF Frontier, Orderly, QueryInv, Owned, Typed, QueriesGoOn

LEMMA RightStays ==
  ASSUME Settled, Exactly, [Next]_vars, NEW p \in Procs, NEW m, m = Held(p),
         m # Nothing, UNCHANGED pending
  PROVE  Right(m)'
<1>1. Turns /\ Frontier /\ ListsAll(m)
  BY DEF Exactly
<1>2. ListsAll(m)'
  BY <1>1, ListsStay
<1>3. ASSUME Asks(m), NEW q, q = pending[m.id].state PROVE Seeks(m, q)'
  <2>1. Seeks(m, q)
    BY <1>3 DEF Exactly
  <2>2. WellFormed(q)
    BY <1>1, <1>3, AskedWellFormed
  <2> QED
    BY <1>1, <1>3, <2>1, <2>2, SeeksStay
<1> QED
  BY <1>2, <1>3 DEF Right

LEMMA RightMasterQuery ==
  ASSUME Settled, Exactly, [Next]_vars, MasterQuery, NEW m, m = Held(Master)'
  PROVE  Right(m)'
<1>0. Orderly /\ Onward
  BY OnwardStep DEF Exactly, Turns
<1>1. repositories = Attached /\ repositories # <<>> /\ Taken(Master, "R")
  BY <1>0 DEF Orderly, Settled, MasterQuery
<1>2. PICK b, c, q, x :
        /\ b = Msg(Master).body /\ c = Msg(Master).cli
        /\ q = NewState(b.name, b.depth, b.leaf, b.cond)
        /\ x = ParseNewQuery(Home, b, current_request, c)
  OBVIOUS
<1>3. Accept(q, x)
  BY <1>1, <1>2 DEF MasterQuery
<1>4. /\ c \in Clients /\ b = request[c] /\ b \in QueryRequest
      /\ b.name \in Names /\ request[c] # Nothing
  BY <1>0, <1>1, <1>2, RawClient, RequestFields, TakenHeld, Separate DEF Commands
<1>5. /\ Reply(Master, x)
      /\ pending'[current_request].state = q
  BY <1>3 DEF Accept, Enter
<1>6. m = x
  BY <1>0, <1>5, ReplySends, Separate
<1>7. request'[c] = b
  BY <1>0, <1>4 DEF Onward
<1>8. \A g, old : Search(g, old, b, q)
  BY <1>2, <1>4, SearchBegins
<1>9. /\ m.type = "R" /\ m.to = HomeOf(b.name) /\ m.body = b /\ m.cli = c
      /\ m.id = current_request
  BY <1>1, <1>2, <1>6 DEF ParseNewQuery, Home, HomeOf
<1>10. /\ q.queue[1].name = b.name /\ q.queue[1].left = b.depth
       /\ q.leaf = b.leaf /\ q.cond = b.cond
  BY <1>2 DEF NewState
<1>11. Seeks(m, q)'
  BY <1>7, <1>8, <1>9, <1>10 DEF Seeks
<1>12. pending'[m.id].state = q
  BY <1>5, <1>9
<1>13. ListsAll(m)'
  BY <1>9 DEF ListsAll
<1> QED
  BY <1>11, <1>12, <1>13 DEF Right

LEMMA RightMasterMessage ==
  ASSUME Settled, Exactly, [Next]_vars, MasterMessage, NEW m, m = Held(Master)',
         m # Nothing
  PROVE  Right(m)'
<1>0. Orderly /\ Turns
  BY DEF Exactly, Turns
<1>1. PICK x : x = Msg(Master)
  OBVIOUS
<1>2. Held(Master) = x /\ x # Nothing /\ x.type = "M"
  <2>1. Taken(Master, "M")
    BY DEF MasterMessage
  <2> QED
    BY <1>0, <1>1, <2>1, TakenHeld, Separate
<1>3. ListsAll(x)'
  BY <1>0, <1>2, ListsStay, Separate DEF Exactly
<1>4. PICK y : /\ Reply(Master, y)
               /\ \/ y = Nothing
                  \/ y.type = "M" /\ y.text = x.text /\ y.cli = x.cli
  BY <1>1 DEF MasterMessage, Exit, ParseNewMessageResponse
<1>5. m = y
  BY <1>0, <1>4, ReplySends, Separate
<1>6. m.type = "M" /\ m.text = x.text /\ m.cli = x.cli
  BY <1>4, <1>5
<1>7. ListsAll(m)'
  BY <1>2, <1>3, <1>6 DEF ListsAll
<1> QED
  BY <1>6, <1>7 DEF Right, Asks

LEMMA RightRepoQuery ==
  ASSUME Settled, Exactly, [Next]_vars, NEW r \in Repos, RepoQuery(r),
         NEW m, m = Held(r)'
  PROVE  Right(m)'
<1>0. Orderly /\ Turns /\ Frontier /\ r \in Procs
  BY Separate DEF Exactly, Turns
<1>1. PICK x, b, c, rels, valid :
        /\ x = Msg(r) /\ b = x.body /\ c = x.cli
        /\ rels = RelatedTo(r, b.name) /\ valid = ValidNode(r, b)
  OBVIOUS
<1>2. PICK report :
        /\ report = ParseNewInfoResponse(b.name, Master, rels, x.id, valid, c)
        /\ Reply(r, report)
  BY <1>1 DEF RepoQuery
<1>3. m = report
  BY <1>0, <1>2, ReplySends
<1>4. /\ m.type = "I" /\ m.id = x.id /\ m.cli = c /\ m.rels = rels
      /\ m.valid = valid
  BY <1>2, <1>3 DEF ParseNewInfoResponse
<1>5. Taken(r, "R") /\ UNCHANGED <<job, pending, storeVars, request>>
  BY DEF RepoQuery, masterVars, clientVars
<1>6. /\ Held(r) = x /\ x # Nothing /\ x.type = "R" /\ x.to = r
      /\ c \in Clients /\ request[c] # Nothing /\ job[r] = Nothing
  BY <1>0, <1>1, <1>5, TakenHeld DEF Orderly, QueryInv, Solo, Taken
<1>7. ASSUME Asks(m), NEW q, q = pending[m.id].state PROVE Seeks(m, q)'
  <2>1. Asks(x)
    BY <1>4, <1>6, <1>7 DEF Asks
  <2>2. Head(q.queue).name = b.name /\ WellFormed(q) /\ Layered(q) /\ Seeks(x, q)
    BY <1>0, <1>1, <1>4, <1>6, <1>7, <2>1, AskedEntry, AskedWellFormed
       DEF About, Exactly
  <2>3. PICK top : /\ top = q.queue[1] /\ top = Head(q.queue) /\ top.name \in Names
    BY <2>2, FrontEntry
  <2>4. r = HomeOf(top.name) /\ b.depth = top.left
        /\ b.leaf = q.leaf /\ b.cond = q.cond
    BY <1>1, <1>6, <2>2, <2>3 DEF Seeks
  <2>5. ASSUME NEW n \in Names
        PROVE  /\ Linked(Facts, top.name, n) <=> n \in rels
               /\ Linked(Bound, top.name, n) <=> n \in rels
    <3>1. Linked(Facts, top.name, n) <=> n \in rels
      BY <1>1, <2>2, <2>3, <2>4, FactsHeld DEF FactsMean, RelatedTo
    <3>2. Half(top.name, n) <=> <<top.name, n>> \in relations[r]
      BY <1>1, <1>5, <1>6, <2>4 DEF Half, Msg, Taken
    <3>3. Linked(Bound, top.name, n) <=> Half(top.name, n)
      BY <2>3, BoundHeld DEF BoundMeans
    <3> QED
      BY <1>1, <2>2, <2>3, <3>1, <3>2, <3>3 DEF RelatedTo
  <2>6. /\ Service!Attribute(top.name) \in Facts <=> b.name \in attributes[r]
        /\ Service!Attribute(top.name) \in Bound <=> b.name \in attributes[r]
    BY <2>2, <2>3, <2>4, FactsHeld, BoundHeld DEF FactsMean, BoundMeans
  <2>7. /\ valid => /\ q.leaf => top.left = 0
                    /\ q.cond => Service!Attribute(top.name) \in Facts
        /\ ~valid => \/ q.leaf /\ top.left # 0
                     \/ q.cond /\ Service!Attribute(top.name) \notin Bound
    BY <1>1, <2>4, <2>6 DEF ValidNode
  <2>8. Reports(Facts, Bound, q, rels, valid)
    BY <2>3, <2>5, <2>7 DEF Reports
  <2>9. Search(Facts, Bound, request[c], q)
    BY <1>1, <2>2 DEF Seeks
  <2>10. Facts \subseteq Facts' /\ request'[c] = request[c]
    BY <1>0, <1>5, OnwardStep, FactsGrow
  <2>11. PICK bound, ask : bound = Bound /\ ask = request[c]
    OBVIOUS
  <2>12. Bound' = bound
    BY <1>0, <1>6, <2>1, <2>11, BoundSame DEF OfQuery
  <2>13. Search(Facts', bound, ask, q) /\ Reports(Facts', bound, q, rels, valid)
    BY <2>2, <2>8, <2>9, <2>10, <2>11, SearchMore, ReportsMore
  <2> QED
    BY <1>4, <2>10, <2>11, <2>12, <2>13 DEF Seeks
<1>8. ListsAll(m)'
  BY <1>4 DEF ListsAll
<1> QED
  BY <1>5, <1>7, <1>8 DEF Right

LEMMA RightMasterInfo ==
  ASSUME Settled, Exactly, [Next]_vars, MasterInfo, NEW m, m = Held(Master)',
         m # Nothing
  PROVE  Right(m)'
<1>0. Orderly /\ Turns /\ Frontier /\ repositories = Attached /\ Master \in Procs
  BY Separate DEF Exactly, Turns, Orderly
<1>1. Taken(Master, "I") /\ UNCHANGED request
  BY DEF MasterInfo, clientVars
<1>2. PICK x, q, c, r, bound :
        /\ x = Msg(Master) /\ q = pending[x.id].state /\ c = x.cli
        /\ r = request[c] /\ bound = Bound
  OBVIOUS
<1>3. /\ Held(Master) = x /\ x # Nothing /\ x \in Message /\ x.type = "I"
      /\ c \in Clients /\ r # Nothing /\ r.op = "R" /\ x.id \in Nat
  BY <1>0, <1>1, <1>2, TakenHeld DEF Sound
<1>4. IsQuery(x.id)
  <2>1. ~IsQuery(x.id) => Reply(Master, Nothing)
    BY <1>2 DEF MasterInfo, Exit
  <2> QED
    BY <1>0, <2>1, ReplySends
<1>5. /\ x.id \in DOMAIN pending /\ x.id # 0 /\ pending[x.id].client = c
      /\ q # Nothing /\ Head(q.queue).name = x.name
  BY <1>0, <1>1, <1>2, <1>4, EntryOf DEF IsQuery
<1>6. Asks(x) /\ WellFormed(q) /\ Layered(q) /\ Seeks(x, q)
  BY <1>0, <1>2, <1>3, <1>5, AskedWellFormed DEF Exactly, Asks
<1>7. Search(Facts, bound, r, q) /\ Reports(Facts, bound, q, x.rels, x.valid)
  BY <1>2, <1>3, <1>6 DEF Seeks
<1>8. x.rels \in SUBSET Names /\ x.valid \in BOOLEAN
  BY <1>3, MessageFields DEF InfoMessage
<1>9. PICK order \in SetToSeqs(Fresh(q, x.rels)) :
        LET next == Absorb(q, x.valid, order) IN
           \/ /\ next.queue = <<>>
              /\ Complete([kind |-> "query", found |-> next.response])
           \/ /\ next.queue # <<>>
              /\ Continue(next)
  BY <1>2, <1>4, <1>5 DEF MasterInfo
<1>10. PICK next : next = Absorb(q, x.valid, order)
  OBVIOUS
<1>11. Search(Facts, bound, r, next)
  BY <1>6, <1>7, <1>8, <1>10, SearchGoesOn
<1>12. /\ next \in QueryState(Names) /\ Layered(next)
       /\ next.queue # <<>> => WellFormed(next)
  <2>1. order \in Seq(Names) /\ (order # <<>> => Head(q.queue).left > 0)
    BY <1>6, <1>8, OrderType DEF WellFormed
  <2>2. /\ next \in QueryState(Names) /\ next.depth = q.depth
        /\ \A k \in DOMAIN next.queue : next.queue[k].left <= q.depth
    BY <1>6, <1>8, <1>10, <2>1, AbsorbType
  <2>3. Layered(next)
    BY <1>6, <1>8, <1>10, AbsorbLayered
  <2> QED
    BY <2>2, <2>3 DEF WellFormed
<1>13. r \in QueryRequest
  BY <1>0, <1>2, <1>3, RequestFields
     DEF Orderly, QueryInv, Owned, Typed, TypeOK, ClientOK
<1>14. Bound' = bound /\ Facts \subseteq Facts'
  BY <1>0, <1>2, <1>3, <1>6, BoundSame, OnwardStep, FactsGrow DEF OfQuery
<1>15. CASE next.queue = <<>>
  <2>1. PICK y : /\ Reply(Master, y) /\ y.type = "M" /\ y.cli = c
                 /\ y.text = [kind |-> "query", found |-> next.response]
    BY <1>2, <1>9, <1>10, <1>15 DEF Complete, ParseNewMessageResponse
  <2>2. m = y
    BY <1>0, <2>1, ReplySends
  <2>3. r.depth \in Nat /\ r.leaf \in BOOLEAN /\ r.cond \in BOOLEAN
    BY <1>13 DEF QueryRequest
  <2>4. Service!Lists(next.response, r, bound)
    BY <1>11, <1>12, <1>15, <2>3, SearchEnds
  <2>5. Service!Lists(next.response, r, bound)'
    BY <1>14, <2>3, <2>4, ListsMore
  <2>6. m.type = "M" /\ m.cli = c /\ m.text.found = next.response
    BY <2>1, <2>2
  <2>7. request'[c] = r
    BY <1>1, <1>2
  <2>8. ListsAll(m)'
    BY <1>14, <2>5, <2>6, <2>7 DEF ListsAll, Service!Lists
  <2> QED
    BY <2>6, <2>8 DEF Right, Asks
<1>16. CASE next.queue # <<>>
  <2>1. PICK y :
          /\ Reply(Master, y) /\ y.type = "R" /\ y.id = x.id /\ y.cli = c
          /\ y.to = Route(repositories, Head(next.queue).name)
          /\ y.body = [op |-> "R", name |-> Head(next.queue).name,
                       depth |-> Head(next.queue).left,
                       leaf |-> next.leaf, cond |-> next.cond]
          /\ pending' = [pending EXCEPT ![x.id].state = next]
    <3>1. Continue(next)
      BY <1>9, <1>10, <1>16
    <3> QED
      BY <1>2, <3>1 DEF Continue, ParseNewQuery
  <2>2. m = y
    BY <1>0, <2>1, ReplySends
  <2>3. Head(next.queue) = next.queue[1]
    BY <1>12, <1>16 DEF QueryState
  <2>4. pending'[m.id].state = next
    <3>1. pending[x.id] \in PendingEntry
      BY <1>0, <1>5 DEF Orderly, QueryInv, Owned, Typed, TypeOK, MasterOK
    <3> QED
      BY <1>5, <2>1, <2>2, <3>1 DEF PendingEntry
  <2>5. Search(Facts', bound, r, next)
    BY <1>11, <1>12, <1>14, <1>16, SearchMore
  <2>6. /\ m.type = "R" /\ m.cli = c /\ m.to = HomeOf(next.queue[1].name)
        /\ m.body.depth = next.queue[1].left
        /\ m.body.leaf = next.leaf /\ m.body.cond = next.cond
    BY <1>0, <2>1, <2>2, <2>3 DEF HomeOf
  <2>7. request'[c] = r
    BY <1>1, <1>2
  <2>8. Seeks(m, next)'
    BY <1>14, <2>5, <2>6, <2>7 DEF Seeks
  <2>9. ListsAll(m)'
    BY <2>6 DEF ListsAll
  <2> QED
    BY <2>4, <2>8, <2>9 DEF Right
<1> QED
  BY <1>15, <1>16

LEMMA ExactlyStep ==
  ASSUME InTurns, Exactly, [Next]_vars
  PROVE  Exactly'
<1>1. Settled /\ Turns /\ Orderly /\ Frontier /\ Typed
  BY DEF InTurns, Exactly, Turns, Orderly, QueryInv, Owned
<1>2. Turns'
  BY <1>1, TurnsStep
<1>3. Frontier'
  BY <1>1, FrontierStep
<1>4. ASSUME NEW p \in Procs, NEW m, m = Held(p)', m # Nothing
      PROVE  Right(m)'
  <2>1. CASE OfQuery(m)
    BY <1>1, <1>4, <2>1, QueryFrom, RightStays, RightMasterQuery,
       RightMasterMessage, RightMasterInfo, RightRepoQuery
  <2>2. CASE ~OfQuery(m)
    BY <1>4, <2>2 DEF Right, ListsAll, OfQuery
  <2> QED
    BY <2>1, <2>2
<1> QED
  BY <1>2, <1>3, <1>4 DEF Exactly, Right

LEMMA ExactlyInit == ASSUME InTurns, Init PROVE Exactly
<1>1. Turns
  BY TurnsInit
<1>2. pending = NoPending /\ \A p \in Procs : Held(p) = Nothing
  BY DEF Init, Held
<1>3. Frontier
  BY <1>2 DEF NoPending, Frontier
<1> QED
  BY <1>1, <1>2, <1>3 DEF Exactly

-----------------------------------------------------------------------------
\* The nodes at most k relations away, as the repositories hold them.
LEMMA BallNext ==
  ASSUME NEW name \in Names, NEW k \in Nat, NEW S, S = Service!Within(Facts, name, k)
  PROVE  /\ S \subseteq Names
         /\ Service!Within(Facts, name, k + 1) =
              S \cup UNION {Neighbours(n) : n \in S}
<1>1. S \subseteq Names
  <2>1. \A a \in Names, b \in Names : Service!Relation(a, b) \in Facts => b \in Names
    OBVIOUS
  <2> QED
    BY <2>1, WithinClosed
<1>2. \A a, b \in Names : Service!Relation(a, b) \in Facts <=> b \in Neighbours(a)
  <2> TAKE a, b \in Names
  <2>1. Linked(Facts, a, b) <=> <<a, b>> \in relations[HomeOf(a)]
    BY FactsHeld DEF FactsMean
  <2>2. b \in Neighbours(a) <=> <<a, b>> \in relations[HomeOf(a)]
    BY DEF Neighbours, RelatedTo
  <2> QED
    BY <2>1, <2>2 DEF Linked
<1>3. \A a : Neighbours(a) \subseteq Names
  BY DEF Neighbours, RelatedTo
<1>4. Service!Within(Facts, name, k + 1) = Further(Facts, S)
  BY WithinNext
<1>5. Further(Facts, S) = S \cup UNION {Neighbours(n) : n \in S}
  BY <1>1, <1>2, <1>3 DEF Further
<1> QED
  BY <1>1, <1>4, <1>5

LEMMA BallIs ==
  ASSUME NEW name \in Names, NEW k \in Nat
  PROVE  Ball(name, k) = Service!Within(Facts, name, k)
<1> DEFINE W(i) == Service!Within(Facts, name, i)
           Is(h) == h = [i \in 0..k |->
                          IF i = 0 THEN {name}
                          ELSE h[i - 1] \cup UNION {Neighbours(n) : n \in h[i - 1]}]
           reach == CHOOSE h : Is(h)
<1>1. W(0) = {name}
  BY WithinZero
<1>2. \A i \in Nat : W(i + 1) = W(i) \cup UNION {Neighbours(n) : n \in W(i)}
  BY BallNext
<1>3. Ball(name, k) = reach[k]
  BY DEF Ball
<1> HIDE DEF W
<1>4. \E h : Is(h)
  <2>1. PICK h : h = [i \in 0..k |-> W(i)]
    OBVIOUS
  <2>2. ASSUME NEW i \in 0..k
        PROVE  h[i] = IF i = 0 THEN {name}
                      ELSE h[i - 1] \cup UNION {Neighbours(n) : n \in h[i - 1]}
    <3>1. CASE i = 0
      BY <1>1, <2>1, <3>1
    <3>2. CASE i # 0
      <4>1. i - 1 \in Nat /\ i - 1 \in 0..k /\ (i - 1) + 1 = i
        BY <3>2
      <4>2. W((i - 1) + 1) = W(i - 1) \cup UNION {Neighbours(n) : n \in W(i - 1)}
        BY <1>2, <4>1
      <4>3. h[i] = W(i) /\ h[i - 1] = W(i - 1) /\ W((i - 1) + 1) = W(i)
        BY <2>1, <4>1
      <4> QED
        BY <3>2, <4>2, <4>3
    <3> QED
      BY <3>1, <3>2
  <2>3. Is(h)
    BY <2>1, <2>2
  <2> QED
    BY <2>3
<1>5. Is(reach)
  BY <1>4
<1> HIDE DEF reach
<1> DEFINE S == {i \in Nat : i <= k => reach[i] = W(i)}
<1>6. 0 \in S
  BY <1>1, <1>5
<1>7. ASSUME NEW n \in Nat, n \in S PROVE n + 1 \in S
  <2> SUFFICES ASSUME n + 1 <= k PROVE reach[n + 1] = W(n + 1)
    OBVIOUS
  <2>1. reach[n] = W(n) /\ n + 1 \in 0..k /\ n + 1 # 0 /\ (n + 1) - 1 = n
    BY <1>7
  <2>2. reach[n + 1] = reach[(n + 1) - 1]
                         \cup UNION {Neighbours(x) : x \in reach[(n + 1) - 1]}
    BY <1>5, <2>1
  <2> QED
    BY <1>2, <2>1, <2>2
<1> HIDE DEF S
<1>8. Nat \subseteq S
  BY <1>6, <1>7, Induct
<1>9. reach[k] = W(k)
  BY <1>8 DEF S
<1> QED
  BY <1>3, <1>9 DEF W

\* A list between what is written and what is bounded is what was asked.
LEMMA BetweenIsExact ==
  ASSUME NEW r \in QueryRequest, NEW found \in Seq(Listed(Names)),
         Service!Lists(found, r, Bound)
  PROVE  /\ ToSet(found) = Asked(r)
         /\ Len(found) = Cardinality(Asked(r))
         /\ \A i, j \in DOMAIN found : i < j => found[i].depth <= found[j].depth
<1> DEFINE At(k) == Service!AtMost(Facts, r.name, k)
<1>1. r.name \in Names /\ r.depth \in Nat
  BY DEF QueryRequest
<1>2. \A k \in Nat : At(k) = Ball(r.name, k)
  BY <1>1, BallIs DEF Service!AtMost
<1>3. At(-1) = {} /\ At(0 - 1) = {}
  BY DEF Service!AtMost
<1>4. \A k \in Int : At(k) \subseteq Service!AtMost(Bound, r.name, k)
  <2> TAKE k \in Int
  <2>1. k >= 0 => Service!Within(Facts, r.name, k) \subseteq
                    Service!Within(Bound, r.name, k)
    BY FactsBound, LinksMore
  <2> QED
    BY <2>1 DEF Service!AtMost
<1>5. \A j, k \in Int : j <= k =>
        Service!AtMost(Bound, r.name, j) \subseteq Service!AtMost(Bound, r.name, k)
  BY WithinGrows DEF Service!AtMost
<1>6. \A j, k \in Int : j <= k => At(j) \subseteq At(k)
  BY WithinGrows DEF Service!AtMost
<1> HIDE DEF At
<1>7. \A k \in Nat : Sphere(r.name, k) = At(k) \ At(k - 1)
  <2> TAKE k \in Nat
  <2>1. k # 0 => k - 1 \in Nat
    OBVIOUS
  <2>2. k = 0 => At(k - 1) = {}
    BY <1>3
  <2> QED
    BY <1>2, <2>1, <2>2 DEF Sphere
<1>8. ASSUME NEW i \in DOMAIN found
      PROVE  /\ found[i] \in [name : Names, depth : 0..r.depth]
             /\ found[i].name \in At(found[i].depth)
             /\ found[i].name \notin At(found[i].depth - 1)
             /\ r.leaf => found[i].depth = r.depth
             /\ r.cond => found[i].name \in attributes[HomeOf(found[i].name)]
  <2>1. found[i] \in Listed(Names)
    OBVIOUS
  <2>2. PICK n, d : found[i] = [name |-> n, depth |-> d] /\ n \in Names /\ d \in Nat
                      /\ found[i].name = n /\ found[i].depth = d
    BY <2>1 DEF Listed
  <2>3. /\ d \in 0..r.depth /\ n \in Service!AtMost(Facts, r.name, d)
        /\ n \notin Service!AtMost(Bound, r.name, d - 1)
        /\ r.leaf => d = r.depth
        /\ r.cond => Service!Attribute(n) \in Facts
    BY <2>2 DEF Service!Lists
  <2>4. n \in At(d) /\ n \notin At(d - 1)
    <3>1. d - 1 \in Int
      BY <2>2
    <3> QED
      BY <1>4, <2>3, <3>1 DEF At
  <2>5. r.cond => n \in attributes[HomeOf(n)]
    BY <2>2, <2>3, FactsHeld DEF FactsMean
  <2> QED
    BY <2>2, <2>3, <2>4, <2>5
<1>9. ASSUME NEW i \in DOMAIN found PROVE found[i] \in Asked(r)
  <2>1. found[i].depth \in Nat
    BY <1>1, <1>8
  <2> QED
    BY <1>7, <1>8, <2>1 DEF Asked
<1>10. ASSUME NEW l \in Asked(r) PROVE \E i \in DOMAIN found : found[i] = l
  <2>1. PICK n, d : /\ l = [name |-> n, depth |-> d] /\ l.name = n /\ l.depth = d
                    /\ n \in Names /\ d \in 0..r.depth
    BY DEF Asked
  <2>2. d \in Nat /\ d <= r.depth
    BY <1>1, <2>1
  <2>3. /\ n \in At(d) /\ n \notin At(d - 1)
        /\ r.leaf => d = r.depth
        /\ r.cond => n \in attributes[HomeOf(n)]
    BY <1>7, <2>1, <2>2 DEF Asked
  <2>4. n \in Service!AtMost(Bound, r.name, r.depth)
    <3>1. d \in Int /\ r.depth \in Int
      BY <1>1, <2>2
    <3> QED
      BY <1>4, <1>5, <2>2, <2>3, <3>1
  <2>5. r.leaf => n \notin Service!AtMost(Facts, r.name, r.depth - 1)
    BY <2>3 DEF At
  <2>6. r.cond => Service!Attribute(n) \in Bound
    BY <2>1, <2>3, FactsHeld, BoundHeld DEF FactsMean, BoundMeans
  <2>7. PICK i \in DOMAIN found : found[i].name = n
    BY <2>4, <2>5, <2>6 DEF Service!Lists
  <2>8. PICK e : e = found[i].depth
    OBVIOUS
  <2>9. /\ found[i] = [name |-> n, depth |-> e] /\ e \in 0..r.depth
        /\ n \in At(e) /\ n \notin At(e - 1)
    BY <1>8, <2>7, <2>8
  <2>10. e = d
    <3>1. e \in Int /\ d \in Int /\ e - 1 \in Int /\ d - 1 \in Int
      BY <2>2, <2>9
    <3>2. ~(e <= d - 1)
      BY <1>6, <2>3, <2>9, <3>1
    <3>3. ~(d <= e - 1)
      BY <1>6, <2>3, <2>9, <3>1
    <3> QED
      BY <3>1, <3>2, <3>3
  <2> QED
    BY <2>1, <2>9, <2>10
<1>11. ToSet(found) = Asked(r)
  BY <1>9, <1>10 DEF ToSet
<1>12. \A i, j \in DOMAIN found :
         i < j => /\ found[i].name # found[j].name
                  /\ found[i].depth <= found[j].depth
  BY DEF Service!Lists
<1>13. Len(found) = Cardinality(Asked(r))
  <2>1. DOMAIN found = 1..Len(found) /\ Len(found) \in Nat
    OBVIOUS
  <2>2. \A i, j \in 1..Len(found) : found[i] = found[j] => i = j
    <3> SUFFICES ASSUME NEW i \in 1..Len(found), NEW j \in 1..Len(found),
                        found[i] = found[j], i # j
                 PROVE  FALSE
      OBVIOUS
    <3>1. i < j \/ j < i
      OBVIOUS
    <3> QED
      BY <1>12, <2>1, <3>1
  <2>3. found \in Bijection(1..Len(found), Asked(r))
    <3>1. found \in [1..Len(found) -> Asked(r)]
      BY <1>9, <2>1
    <3>2. \A l \in Asked(r) : \E i \in 1..Len(found) : found[i] = l
      BY <1>10, <2>1
    <3> QED
      BY <2>2, <3>1, <3>2 DEF Bijection, Injection, Surjection, IsInjective
  <2>4. ExistsBijection(1..Len(found), Asked(r))
    BY <2>3 DEF ExistsBijection
  <2> QED
    BY <2>1, <2>4, FS_CountingElements
<1> QED
  BY <1>11, <1>12, <1>13

(***************************************************************************)
(* QueriesExact: when the database is set up and clients come one at a     *)
(* time, what a query prints is, for every graph, every request and every  *)
(* number of repositories, the list of the nodes within the depth asked    *)
(* for, each once, with its distance, nearest first.                       *)
(***************************************************************************)
THEOREM QueriesExact ==
  ASSUME InTurns
  PROVE  Spec => QueryExact
<1>1. Init => Exactly
  BY ExactlyInit
<1>2. Exactly /\ [Next]_vars => Exactly'
  BY ExactlyStep
<1>3. ASSUME Exactly, [Next]_vars, NEW c \in Clients, Answering(c),
             answer'[c].kind = "query"
      PROVE  LET found == answer'[c].found IN
             /\ ToSet(found) = Asked(request[c])
             /\ Len(found) = Cardinality(Asked(request[c]))
             /\ \A i, j \in DOMAIN found :
                  i < j => found[i].depth <= found[j].depth
  <2>1. Settled /\ Turns /\ Orderly /\ Typed
    BY <1>3 DEF InTurns, Exactly, Turns, Orderly, QueryInv, Owned
  <2>2. WaitResponse(c)
    BY <1>3, <2>1, AnswerComes DEF Answering
  <2>3. PICK m, r : m = Msg(c) /\ r = request[c]
    OBVIOUS
  <2>4. /\ Held(c) = m /\ m \in Message /\ m.type = "M" /\ m.cli = c /\ Sound(m)
        /\ r # Nothing /\ answer' = [answer EXCEPT ![c] = m.text]
    BY <2>1, <2>2, <2>3, WaitResponseActs
  <2>5. answer'[c] = m.text
    BY <2>1, <2>4 DEF Typed, TypeOK, ClientOK
  <2>6. m.text.kind = "query" /\ m.text.found \in Seq(Listed(Names))
    BY <1>3, <2>4, <2>5, MessageFields DEF TextMessage, Text
  <2>7. m # Nothing /\ c \in Procs
    BY <2>4, NothingAssumption, Separate
  <2>8. Service!Lists(m.text.found, r, Bound)
    BY <1>3, <2>3, <2>4, <2>6, <2>7 DEF Exactly, ListsAll
  <2>9. r \in QueryRequest
    BY <2>1, <2>3, <2>4, <2>6, RequestFields
       DEF Sound, FaithfulText, Confirms, Typed, TypeOK, ClientOK
  <2> QED
    BY <2>3, <2>5, <2>6, <2>8, <2>9, BetweenIsExact
<1>4. Exactly /\ [Next]_vars =>
        [\A c \in Clients :
           Answering(c) /\ answer'[c].kind = "query" =>
             LET found == answer'[c].found IN
             /\ ToSet(found) = Asked(request[c])
             /\ Len(found) = Cardinality(Asked(request[c]))
             /\ \A i, j \in DOMAIN found :
                  i < j => found[i].depth <= found[j].depth]_vars
  BY <1>3
<1> QED
  BY <1>1, <1>2, <1>4, PTL DEF Spec, QueryExact

=============================================================================
