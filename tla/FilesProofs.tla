------------------------------ MODULE FilesProofs ------------------------------
(***************************************************************************)
(* The files stay sound, for any number of repositories, names, storage    *)
(* errors, deaths and restarts, the main server's included: rows are only  *)
(* added, and a handler that was cut short has written the node before     *)
(* anything that refers to it.  And a create that was confirmed is in a    *)
(* file with all its relations, if no storage error was only reported.     *)
(***************************************************************************)
EXTENDS ClusterProofs

\* The files a cluster starts with have no dangling rows themselves.
SoundStores ==
  \A s \in Stores : \A r \in Repos :
    /\ s.relations[r] \subseteq s.nodes[r] \X s.nodes[r]
    /\ s.attributes[r] \subseteq s.nodes[r]

\* A handler that has relations left to write has written their node.
JobsRooted ==
  \A r \in Repos :
    job[r] # Nothing /\ job[r].todo # <<>> => job[r].name \in nodes[r]

Rooted == Typed /\ NoDangling /\ JobsRooted

-----------------------------------------------------------------------------
\* Every cluster starts with sound files and no handler under way.
LEMMA RootedInit == ASSUME SoundStores, Init PROVE Rooted
<1>1. Typed
  BY TypedInit
<1>2. NoDangling
  <2>1. PICK s \in Stores : /\ nodes = s.nodes
                            /\ relations = s.relations
                            /\ attributes = s.attributes
    BY DEF Init
  <2> QED
    BY <2>1 DEF SoundStores, NoDangling
<1>3. JobsRooted
  BY DEF Init, JobsRooted
<1> QED
  BY <1>1, <1>2, <1>3 DEF Rooted

\* Steps that leave the files alone and give no repository relations to write.
LEMMA OtherSteps ==
  ASSUME Rooted, UNCHANGED storeVars,
         \A r \in Repos :
           \/ job'[r] = job[r]
           \/ job'[r] = Nothing
           \/ job'[r].todo = <<>>
  PROVE  NoDangling' /\ JobsRooted'
BY DEF Rooted, NoDangling, JobsRooted, storeVars

\* A create writes the row of its node before its handler goes on.
LEMMA RootedCreate ==
  ASSUME Rooted, NEW r \in Repos, RepoCreate(r)
  PROVE  NoDangling' /\ JobsRooted'
<1> DEFINE b == Msg(r).body
<1>1. Taken(r, "C") /\ UNCHANGED relations
  BY DEF RepoCreate
<1>2. Msg(r) \in Message /\ Msg(r).type = "C"
  BY <1>1, IncomingMessage DEF Rooted, Typed, Procs
<1>3. b \in Request /\ b.name \in Names
  BY <1>2, CommandFields, RequestFields
<1>4. /\ nodes \in [Repos -> SUBSET Names]
      /\ attributes \in [Repos -> SUBSET Names]
      /\ job \in [Repos -> Job \cup {Nothing}]
  BY DEF Rooted, Typed, TypeOK, StoreOK
<1>5. CASE /\ StoreNode(r, b.name)
           /\ attributes' = [attributes EXCEPT
                               ![r] = IF b.attr THEN @ \cup {b.name} ELSE @]
           /\ \E j : job' = [job EXCEPT ![r] = j] /\ j.name = b.name
  <2>1. /\ b.name \in nodes'[r]
        /\ \A x \in Repos : nodes[x] \subseteq nodes'[x]
    BY <1>4, <1>5 DEF StoreNode
  <2>2. NoDangling'
    BY <1>1, <1>4, <1>5, <2>1 DEF Rooted, NoDangling
  <2>3. JobsRooted'
    BY <1>4, <1>5, <2>1 DEF Rooted, JobsRooted
  <2> QED
    BY <2>2, <2>3
<1>6. CASE UNCHANGED <<job, nodes, attributes>>
  BY <1>1, <1>6, OtherSteps DEF storeVars
<1>7. CASE StoreNode(r, b.name) /\ UNCHANGED <<job, attributes>>
  <2>1. \A x \in Repos : nodes[x] \subseteq nodes'[x]
    BY <1>4, <1>7 DEF StoreNode
  <2> QED
    BY <1>1, <1>7, <2>1 DEF Rooted, NoDangling, JobsRooted
<1> QED
  BY <1>5, <1>6, <1>7 DEF RepoCreate

\* A relation is written after the rows of both its ends.
LEMMA RootedRelation ==
  ASSUME Rooted, NEW r \in Repos, RepoRelation(r)
  PROVE  NoDangling' /\ JobsRooted'
<1> DEFINE j == job[r]
           b == Head(j.todo)
<1>1. j # Nothing /\ j.todo # <<>> /\ UNCHANGED attributes
  BY DEF RepoRelation
<1>2. /\ nodes \in [Repos -> SUBSET Names]
      /\ relations \in [Repos -> SUBSET (Names \X Names)]
      /\ job \in [Repos -> Job \cup {Nothing}]
  BY DEF Rooted, Typed, TypeOK, StoreOK
<1>3. j.name \in nodes[r]
  BY <1>1 DEF Rooted, JobsRooted
<1>4. ASSUME StoreNode(r, b)
      PROVE  /\ j.name \in nodes'[r] /\ b \in nodes'[r]
             /\ \A x \in Repos : nodes[x] \subseteq nodes'[x]
  BY <1>2, <1>3, <1>4 DEF StoreNode
<1>5. ASSUME job' = [job EXCEPT ![r].todo = Tail(@)]
      PROVE  /\ job'[r].name = j.name
             /\ \A x \in Repos : x # r => job'[x] = job[x]
  <2>1. j \in Job
    BY <1>1, <1>2
  <2> QED
    BY <1>2, <1>5, <2>1 DEF Job
<1>6. CASE /\ StoreNode(r, b)
           /\ relations' = [relations EXCEPT ![r] = @ \cup {<<j.name, b>>}]
           /\ job' = [job EXCEPT ![r].todo = Tail(@)]
  <2>1. NoDangling'
    BY <1>1, <1>2, <1>4, <1>6 DEF Rooted, NoDangling
  <2>2. JobsRooted'
    BY <1>4, <1>5, <1>6 DEF Rooted, JobsRooted
  <2> QED
    BY <2>1, <2>2
<1>7. CASE /\ job' = [job EXCEPT ![r].todo = Tail(@)]
           /\ UNCHANGED <<nodes, relations>>
  BY <1>1, <1>3, <1>5, <1>7 DEF Rooted, NoDangling, JobsRooted
<1>8. CASE /\ StoreNode(r, b)
           /\ job' = [job EXCEPT ![r] = Nothing]
           /\ UNCHANGED relations
  BY <1>1, <1>2, <1>4, <1>8 DEF Rooted, NoDangling, JobsRooted
<1> QED
  BY <1>6, <1>7, <1>8 DEF RepoRelation

\* Every other step of a repository.
LEMMA RootedOtherRepoStep ==
  ASSUME Rooted, NEW r \in Repos,
         RepoFinish(r) \/ RepoQuery(r) \/ RepoUpdate(r) \/ RepoDelete(r)
           \/ RepoMessage(r)
  PROVE  NoDangling' /\ JobsRooted'
<1>1. job \in [Repos -> Job \cup {Nothing}]
  BY DEF Rooted, Typed, TypeOK
<1>2. CASE RepoFinish(r)
  BY <1>1, <1>2, OtherSteps DEF RepoFinish
<1>3. CASE RepoQuery(r) \/ RepoUpdate(r) \/ RepoMessage(r)
  BY <1>3, OtherSteps DEF RepoQuery, RepoUpdate, RepoMessage
<1>4. CASE RepoDelete(r)
  <2> DEFINE m == Msg(r)
             j == [name |-> m.body.name, todo |-> <<>>, id |-> m.id,
                   table |-> m.table, from |-> From(r), cli |-> m.cli,
                   kind |-> IF m.body.object = 1
                             THEN "cleared" ELSE "deleted"]
  <2>1. UNCHANGED storeVars /\ job' = [job EXCEPT ![r] = j]
    BY <1>4 DEF RepoDelete
  <2>2. j.todo = <<>>
    OBVIOUS
  <2> HIDE DEF j
  <2> QED
    BY <1>1, <2>1, <2>2, OtherSteps
<1> QED
  BY <1>2, <1>3, <1>4

\* Steps of the main server, of clients and of the transport.
LEMMA RootedElsewhere ==
  ASSUME Rooted,
         \/ \E s, d \in Procs : Receive(s, d) \/ Overrun(s, d)
         \/ \E S \in SUBSET up : FalseAcks(S)
         \/ MasterStep
         \/ \E c \in Clients : WaitResponse(c) \/ Invoke(c)
         \/ \E r \in Repos : SetRepository(r)
         \/ SetServer
         \/ \E p \in Procs : Crash(p)
  PROVE  NoDangling' /\ JobsRooted'
<1>1. job \in [Repos -> Job \cup {Nothing}]
  BY DEF Rooted, Typed, TypeOK
<1>2. CASE \E s, d \in Procs : Receive(s, d) \/ Overrun(s, d)
  BY <1>2, OtherSteps DEF Receive, Overrun, StopsLingering
<1>3. CASE \E S \in SUBSET up : FalseAcks(S)
  BY <1>3, OtherSteps DEF FalseAcks
<1>4. CASE MasterStep
  <2>1. UNCHANGED job /\ UNCHANGED storeVars
    BY <1>4
       DEF MasterStep, MasterCreate, MasterUpdate, MasterDelete, MasterWrite,
           MasterQuery, MasterMessage, MasterInfo, MasterEnrol
  <2> QED
    BY <2>1, OtherSteps
<1>5. CASE \E c \in Clients : WaitResponse(c) \/ Invoke(c)
  BY <1>5, OtherSteps DEF WaitResponse, Invoke
<1>6. CASE \E r \in Repos : SetRepository(r)
  BY <1>6, OtherSteps DEF SetRepository
<1>7. CASE SetServer
  BY <1>7, OtherSteps DEF SetServer
<1>8. CASE \E p \in Procs : Crash(p)
  BY <1>8, OtherSteps DEF Crash
<1> QED
  BY <1>2, <1>3, <1>4, <1>5, <1>6, <1>7, <1>8

\* Rooted is inductive, with no assumption on what may fail or restart.
LEMMA RootedStep == Rooted /\ [Next]_vars => Rooted'
<1> SUFFICES ASSUME Rooted, [Next]_vars
             PROVE  Rooted'
  OBVIOUS
<1>1. Typed'
  BY TypedStep DEF Rooted
<1>2. ASSUME NEW r \in Repos, RepoStep(r)
      PROVE  NoDangling' /\ JobsRooted'
  BY <1>2, RootedCreate, RootedRelation, RootedOtherRepoStep DEF RepoStep
<1>3. ASSUME UNCHANGED vars
      PROVE  NoDangling' /\ JobsRooted'
  <2>1. UNCHANGED storeVars /\ UNCHANGED job
    BY <1>3 DEF vars, procVars
  <2> QED
    BY <2>1, OtherSteps
<1>4. ASSUME Next
      PROVE  NoDangling' /\ JobsRooted'
  <2>1. CASE \E r \in Repos : RepoStep(r)
    BY <2>1, <1>2
  <2>2. CASE ~ \E r \in Repos : RepoStep(r)
    BY <1>4, <2>2, RootedElsewhere DEF Next, Work
  <2> QED
    BY <2>1, <2>2
<1>5. NoDangling' /\ JobsRooted'
  BY <1>3, <1>4
<1> QED
  BY <1>1, <1>5 DEF Rooted

(***************************************************************************)
(* Both ends of a relation and the owner of an attribute have a row in the *)
(* same file, at every moment a repository may die (action 'C').           *)
(***************************************************************************)
THEOREM FilesSound ==
  ASSUME SoundStores
  PROVE  Spec => []NoDangling
<1>1. Init => Rooted
  BY RootedInit
<1>2. Rooted => NoDangling
  BY DEF Rooted
<1> QED
  BY <1>1, <1>2, RootedStep, PTL DEF Spec

-----------------------------------------------------------------------------
Confirms(kind) == kind \in {"stored", "exists"}

(***************************************************************************)
(* A text that confirms a create does so for one that is written; a create *)
(* with a number is what its client asked, and goes to a home of the name. *)
(***************************************************************************)
Truthful(m) ==
  /\ m.type = "M" /\ Confirms(m.text.kind) => Written(m.cli)
  /\ m.type = "C" /\ (m.to = Master \/ m.id # 0) =>
       request[m.cli] # Nothing /\ m.body = request[m.cli]
  /\ m.type = "C" /\ m.id # 0 => m.to \in HomesSoFar(m.body.name)

\* What the handler of a create has still to write is on its list.
Writes(r) ==
  job[r] # Nothing /\ job[r].id # 0 /\ Confirms(job[r].kind) =>
    LET b == request[job[r].cli] IN
    /\ b # Nothing /\ b.op = "C" /\ b.name = job[r].name
    /\ r \in HomesSoFar(b.name)
    /\ b.name \in nodes[r]
    /\ b.attr => b.name \in attributes[r]
    /\ \A n \in ToSet(b.rels) :
         n \in ToSet(job[r].todo) \/ <<b.name, n>> \in relations[r]

Confirmed ==
  /\ Owned
  /\ \A p \in Procs : sending[p] # Nothing => Truthful(sending[p])
  /\ \A p \in Procs : taken[p] # Nothing => Truthful(Msg(p))
  /\ \A r \in Repos : Writes(r)
  /\ CreateWritten

\* Rows, requests and the homes of names stay.
Lasting ==
  /\ \A r \in Repos : /\ nodes[r] \subseteq nodes'[r]
                      /\ relations[r] \subseteq relations'[r]
                      /\ attributes[r] \subseteq attributes'[r]
  /\ \A c \in Clients : request[c] # Nothing => request'[c] = request[c]
  /\ \A n \in Names : HomesSoFar(n) \subseteq HomesSoFar(n)'

\* The index of a home in a table of k repositories.
LEMMA HomeIndex ==
  ASSUME NEW h \in Nat, NEW k \in Nat \ {0}
  PROVE  (h % k) + 1 \in 1..k
OBVIOUS

\* A home is a repository.
LEMMA HomesAreRepos ==
  ASSUME Typed, NEW n \in Names
  PROVE  HomesSoFar(n) \subseteq Repos
<1>1. repositories \in Seq(Repos)
  BY DEF Typed, TypeOK, MasterOK
<1>2. ASSUME NEW k \in 1..Len(repositories)
      PROVE  repositories[(Hash[n] % k) + 1] \in Repos
  <2>1. Hash[n] \in Nat /\ k \in Nat \ {0} /\ k <= Len(repositories)
    BY <1>1, ClusterAssumption
  <2>2. (Hash[n] % k) + 1 \in 1..k
    BY <2>1, HomeIndex
  <2>3. (Hash[n] % k) + 1 \in 1..Len(repositories)
    BY <1>1, <2>1, <2>2
  <2> QED
    BY <1>1, <2>3
<1> QED
  BY <1>2 DEF HomesSoFar

\* The homes of a name are still there when repositories register.
LEMMA HomesLast ==
  ASSUME Typed, NEW n \in Names, NEW s \in Seq(Repos),
         repositories' = repositories \o s
  PROVE  HomesSoFar(n) \subseteq HomesSoFar(n)'
<1>1. repositories \in Seq(Repos)
  BY DEF Typed, TypeOK, MasterOK
<1>2. ASSUME NEW k \in 1..Len(repositories)
      PROVE  /\ k \in 1..Len(repositories')
             /\ repositories'[(Hash[n] % k) + 1] = repositories[(Hash[n] % k) + 1]
  <2>1. Hash[n] \in Nat /\ k \in Nat \ {0} /\ k <= Len(repositories)
    BY <1>1, ClusterAssumption
  <2>2. (Hash[n] % k) + 1 \in 1..k
    BY <2>1, HomeIndex
  <2>3. (Hash[n] % k) + 1 \in 1..Len(repositories)
    BY <1>1, <2>1, <2>2
  <2> QED
    BY <1>1, <2>3
<1> QED
  BY <1>2 DEF HomesSoFar

\* What was written stays written.
LEMMA WrittenLasts ==
  ASSUME Typed, Lasting, NEW c \in Clients, Written(c)
  PROVE  Written(c)'
<1>1. request[c] \in Request /\ request'[c] = request[c]
  BY DEF Typed, TypeOK, ClientOK, Written, Lasting
<1>2. request[c].name \in Names
  BY <1>1, RequestFields
<1>3. PICK r \in HomesSoFar(request[c].name) : Holds(r, request[c])
  BY DEF Written
<1>4. r \in Repos /\ r \in HomesSoFar(request[c].name)'
  BY <1>1, <1>2, <1>3, HomesAreRepos DEF Lasting
<1>5. Holds(r, request[c])'
  BY <1>1, <1>3, <1>4 DEF Holds, Lasting
<1> QED
  BY <1>1, <1>4, <1>5 DEF Written

\* A truthful message goes on to be one.
LEMMA TruthLasts ==
  ASSUME Typed, Lasting, NEW m \in Message, Truthful(m)
  PROVE  Truthful(m)'
<1>1. m.type \in {"C", "M"} => m.cli \in Clients
  BY MessageId
<1>2. m.type = "C" => m.body.name \in Names
  BY CommandFields, RequestFields
<1> QED
  BY <1>1, <1>2, WrittenLasts DEF Truthful, Lasting

\* So does a handler that keeps its list.
LEMMA WritesLast ==
  ASSUME Typed, Lasting, NEW r \in Repos, Writes(r), job'[r] = job[r]
  PROVE  Writes(r)'
<1> SUFFICES ASSUME job[r] # Nothing, job[r].id # 0, Confirms(job[r].kind)
             PROVE  Writes(r)'
  BY DEF Writes
<1>1. job[r].cli \in Clients
  BY DEF Typed, TypeOK, Job
<1>2. /\ request[job[r].cli] # Nothing
      /\ request'[job'[r].cli] = request[job[r].cli]
      /\ request[job[r].cli] \in Request
  BY <1>1 DEF Writes, Lasting, Typed, TypeOK, ClientOK
<1>3. request[job[r].cli].name \in Names
  BY <1>2, RequestFields
<1> QED
  BY <1>2, <1>3 DEF Writes, Lasting

\* A step keeps Confirmed when what it adds is true.
LEMMA ConfirmedKept ==
  ASSUME Confirmed, Owned', Lasting,
         \A p \in Procs : sending'[p] # Nothing =>
           sending'[p] = sending[p] \/ Truthful(sending[p])',
         \A p \in Procs : taken'[p] # Nothing =>
           taken'[p] = taken[p] \/ Truthful(Msg(p))',
         \A r \in Repos : job'[r] = job[r] \/ Writes(r)',
         \A c \in Clients :
           answer'[c] = answer[c] \/ (Stored(c) => Written(c))'
  PROVE  Confirmed'
<1>1. Typed
  BY DEF Confirmed, Owned
<1>2. ASSUME NEW p \in Procs, sending'[p] # Nothing PROVE Truthful(sending[p])'
  <2>1. CASE sending'[p] = sending[p]
    <3>1. sending[p] \in Message /\ Truthful(sending[p])
      BY <1>1, <1>2, <2>1 DEF Confirmed, Typed, TypeOK, SocketOK
    <3> QED
      BY <1>1, <2>1, <3>1, TruthLasts
  <2> QED
    BY <1>2, <2>1
<1>3. ASSUME NEW p \in Procs, taken'[p] # Nothing PROVE Truthful(Msg(p))'
  <2>1. CASE taken'[p] = taken[p]
    <3>1. Msg(p) \in Message /\ Truthful(Msg(p)) /\ Msg(p)' = Msg(p)
      BY <1>1, <1>3, <2>1 DEF Confirmed, Typed, TypeOK, SocketOK, Msg
    <3> QED
      BY <1>1, <3>1, TruthLasts
  <2> QED
    BY <1>3, <2>1
<1>4. \A r \in Repos : Writes(r)'
  BY <1>1, WritesLast DEF Confirmed
<1>5. CreateWritten'
  <2> SUFFICES ASSUME NEW c \in Clients, Stored(c)' PROVE Written(c)'
    BY DEF CreateWritten
  <2>1. CASE answer'[c] = answer[c]
    <3>1. Written(c)
      BY <2>1 DEF Confirmed, CreateWritten, Stored
    <3> QED
      BY <1>1, <3>1, WrittenLasts
  <2> QED
    BY <2>1
<1> QED
  BY <1>2, <1>3, <1>4, <1>5 DEF Confirmed

-----------------------------------------------------------------------------
\* Storage, requests and the table as they are: all that most steps leave.
LEMMA SameLasts ==
  ASSUME UNCHANGED <<storeVars, repositories, request>> PROVE Lasting
BY DEF Lasting, storeVars, HomesSoFar

\* Steps that only hand over or drop messages.
LEMMA ConfirmedDrops ==
  ASSUME Confirmed, Owned',
         UNCHANGED <<storeVars, repositories, request, answer>>,
         \A p \in Procs : sending'[p] # Nothing => sending'[p] = sending[p],
         \A p \in Procs : taken'[p] # Nothing =>
           \/ taken'[p] = taken[p]
           \/ \E s \in Procs : sending[s] # Nothing /\ taken'[p].msg = sending[s],
         \A r \in Repos : job'[r] = job[r] \/ job'[r] = Nothing
  PROVE  Confirmed'
<1>1. Lasting /\ Typed
  BY SameLasts DEF Confirmed, Owned
<1>2. ASSUME NEW p \in Procs, NEW s \in Procs, sending[s] # Nothing,
             taken'[p].msg = sending[s]
      PROVE  Truthful(Msg(p))'
  <2>1. sending[s] \in Message /\ Truthful(sending[s]) /\ Msg(p)' = sending[s]
    BY <1>1, <1>2 DEF Confirmed, Typed, TypeOK, SocketOK, Msg
  <2> QED
    BY <1>1, <2>1, TruthLasts
<1>3. \A r \in Repos : job'[r] = job[r] \/ Writes(r)'
  BY DEF Writes
<1> QED
  BY <1>1, <1>2, <1>3, ConfirmedKept

\* A handler that ends with a reply or none.
LEMMA ConfirmedReply ==
  ASSUME Confirmed, Owned', Lasting, NEW d \in Procs, NEW reply, Reply(d, reply),
         reply # Nothing => Truthful(reply)',
         UNCHANGED answer,
         \A r \in Repos : job'[r] = job[r] \/ Writes(r)'
  PROVE  Confirmed'
<1>1. Typed
  BY DEF Confirmed, Owned
<1>2. \A p \in Procs : taken'[p] # Nothing => taken'[p] = taken[p]
  BY <1>1, NoLongerReadsTyped DEF Reply
<1>3. \A p \in Procs : sending'[p] # Nothing =>
        sending'[p] = sending[p] \/ sending'[p] = reply
  BY <1>1 DEF Reply, Typed, TypeOK, SocketOK
<1>4. ASSUME NEW p \in Procs, sending'[p] # Nothing, sending'[p] = reply
      PROVE  Truthful(sending[p])'
  BY <1>4
<1> QED
  BY <1>2, <1>3, <1>4, ConfirmedKept

\* The transport hands messages over, or loses them; processes die.
LEMMA ConfirmedTransport ==
  ASSUME Confirmed, Owned',
         \/ \E s, d \in Procs : Receive(s, d) \/ Overrun(s, d)
         \/ \E S \in SUBSET up : FalseAcks(S)
         \/ \E p \in Procs : Crash(p)
  PROVE  Confirmed'
<1>1. /\ sending \in [Procs -> Message \cup {Nothing}]
      /\ taken \in [Procs -> [from : Procs, msg : Message] \cup {Nothing}]
      /\ job \in [Repos -> Job \cup {Nothing}] /\ Typed
  BY DEF Confirmed, Owned, Typed, TypeOK, SocketOK
<1>2. CASE \E s, d \in Procs : Receive(s, d)
  <2>1. PICK s \in Procs, d \in Procs : Receive(s, d)
    BY <1>2
  <2> QED
    BY <1>1, <2>1, ConfirmedDrops DEF Receive, masterVars, clientVars
<1>3. CASE \E s, d \in Procs : Overrun(s, d)
  BY <1>1, <1>3, ConfirmedDrops DEF Overrun, masterVars, clientVars, StopsLingering
<1>4. CASE \E S \in SUBSET up : FalseAcks(S)
  BY <1>1, <1>4, ConfirmedDrops DEF FalseAcks, masterVars, clientVars, socketVars
<1>5. CASE \E p \in Procs : Crash(p)
  <2>1. PICK p \in Procs : Crash(p)
    BY <1>5
  <2>2. \A q \in Procs : taken'[q] # Nothing => taken'[q] = taken[q]
    BY <1>1, <2>1, NoLongerReadsTyped DEF Crash
  <2> QED
    BY <1>1, <2>1, <2>2, ConfirmedDrops DEF Crash, masterVars, clientVars
<1> QED
  BY <1>2, <1>3, <1>4, <1>5

\* A client asks in its own name.
LEMMA ConfirmedInvoke ==
  ASSUME Confirmed, Owned', NEW c \in Clients, Invoke(c)
  PROVE  Confirmed'
<1>1. /\ c \in Procs /\ Typed
      /\ sending \in [Procs -> Message \cup {Nothing}]
      /\ request \in [Clients -> Request \cup {Nothing}]
  BY Separate DEF Confirmed, Owned, Typed, TypeOK, SocketOK, ClientOK
<1>2. PICK r \in Requests : /\ request' = [request EXCEPT ![c] = r]
                            /\ sending' = [sending EXCEPT ![c] = ClientCommand(r, c)]
  BY DEF Invoke
<1>3. r \in Request /\ r # Nothing
  BY ClusterAssumption, NothingAssumption
<1>4. Lasting
  BY <1>1, <1>2 DEF Invoke, Lasting, masterVars, storeVars, HomesSoFar
<1>5. Truthful(ClientCommand(r, c))'
  BY <1>1, <1>2, <1>3, RequestFields
     DEF Truthful, ClientCommand, ParseNewNode, ParseNewQuery, ParseNewUpdate,
         ParseNewDelete
<1>6. \A p \in Procs : sending'[p] # Nothing =>
        sending'[p] = sending[p] \/ Truthful(sending[p])'
  BY <1>1, <1>2, <1>5
<1> QED
  BY <1>4, <1>6, ConfirmedKept DEF Invoke, socketVars

\* A client prints what is true, and its own.
LEMMA ConfirmedWaitResponse ==
  ASSUME Confirmed, Owned', NEW c \in Clients, WaitResponse(c)
  PROVE  Confirmed'
<1>1. /\ Owned /\ c \in Procs /\ Taken(c, "M") /\ Typed
      /\ answer \in [Clients -> Text \cup {Nothing}]
  BY Separate DEF Confirmed, Owned, Typed, TypeOK, ClientOK, WaitResponse
<1>2. Lasting /\ UNCHANGED job
  BY SameLasts DEF WaitResponse, masterVars
<1>3. Msg(c).to = c /\ Msg(c).type = "M" /\ Msg(c).cli = c
  BY <1>1, TakenMessage DEF Good
<1>4. Truthful(Msg(c))
  BY <1>1 DEF Confirmed, Taken
<1>5. ASSUME Stored(c)' PROVE Written(c)'
  <2>1. Confirms(Msg(c).text.kind)
    BY <1>1, <1>5 DEF Stored, WaitResponse, Confirms
  <2>2. Written(c)
    BY <1>3, <1>4, <2>1 DEF Truthful
  <2> QED
    BY <1>1, <1>2, <2>2, WrittenLasts
<1>6. \A d \in Clients : answer'[d] = answer[d] \/ (Stored(d) => Written(d))'
  BY <1>1, <1>5 DEF WaitResponse
<1>7. /\ \A p \in Procs : taken'[p] # Nothing => taken'[p] = taken[p]
      /\ \A p \in Procs : sending'[p] # Nothing => sending'[p] = sending[p]
  BY <1>1, NoLongerReadsTyped
     DEF WaitResponse, Exit, Reply, Typed, TypeOK, SocketOK
<1> QED
  BY <1>2, <1>6, <1>7, ConfirmedKept

\* A repository starts.
LEMMA ConfirmedSetRepository ==
  ASSUME Confirmed, Owned', NEW r \in Repos, SetRepository(r)
  PROVE  Confirmed'
<1>1. /\ sending \in [Procs -> Message \cup {Nothing}] /\ Lasting
  BY SameLasts
     DEF Confirmed, Owned, Typed, TypeOK, SocketOK, SetRepository, masterVars,
         clientVars
<1>2. Truthful(RegisterRepository)'
  BY DEF Truthful, RegisterRepository
<1>3. \A p \in Procs : sending'[p] # Nothing =>
        sending'[p] = sending[p] \/ Truthful(sending[p])'
  BY <1>1, <1>2 DEF SetRepository
<1> QED
  BY <1>1, <1>3, ConfirmedKept DEF SetRepository, clientVars, socketVars

-----------------------------------------------------------------------------
\* What can be said whatever the files hold.
Harmless(m) ==
  \/ m.type \in {"R", "U", "D", "I"}
  \/ m.type = "M" /\ ~Confirms(m.text.kind)

LEMMA HarmlessIsTrue ==
  ASSUME NEW m, Harmless(m) PROVE Truthful(m) /\ Truthful(m)'
BY DEF Harmless, Truthful

\* A handler of the main server that says such a thing, or nothing.
LEMMA ConfirmedHarmless ==
  ASSUME Confirmed, Owned',
         UNCHANGED <<storeVars, repositories, clientVars, job>>,
         NEW reply, Reply(Master, reply), reply = Nothing \/ Harmless(reply)
  PROVE  Confirmed'
BY Separate, SameLasts, HarmlessIsTrue, ConfirmedReply DEF clientVars

\* The main server passes a create on as it was asked, to a home of its name.
LEMMA ConfirmedMasterCreate ==
  ASSUME Confirmed, Owned', MasterCreate
  PROVE  Confirmed'
<1> DEFINE m == Msg(Master)
<1>1. /\ Owned /\ Master \in Procs /\ Taken(Master, "C")
      /\ repositories \in Seq(Repos) /\ current_request # 0
      /\ UNCHANGED <<storeVars, repositories, clientVars, job>>
  BY Separate
     DEF Confirmed, Owned, Typed, TypeOK, MasterOK, MasterCreate, MasterWrite,
         Refuse, Accept
<1>2. m \in Message /\ m.type = "C" /\ m.to = Master /\ Truthful(m)
  BY <1>1, TakenMessage DEF Confirmed, Taken
<1>3. request[m.cli] # Nothing /\ m.body = request[m.cli] /\ m.body.name \in Names
  BY <1>2, CommandFields, RequestFields DEF Truthful
<1>4. ASSUME NEW kind \in {"busy", "detached"}, Refuse(kind) PROVE Confirmed'
  <2> DEFINE text == ParseNewMessageResponse(From(Master), Say(kind), 0, m.cli)
  <2>1. Harmless(text)
    BY DEF Harmless, ParseNewMessageResponse, Say, Confirms
  <2> HIDE DEF text
  <2>2. Reply(Master, text)
    BY <1>4 DEF Refuse, text
  <2> QED
    BY <1>1, <2>1, <2>2, ConfirmedHarmless
<1>5. ASSUME repositories # <<>>, NEW passed, Reply(Master, passed),
             passed = ParseNewNode(Home, m.body, current_request, repositories,
                                   m.cli)
      PROVE  Confirmed'
  <2>1. Len(repositories) \in 1..Len(repositories)
    BY <1>1, <1>5
  <2>2. Home \in HomesSoFar(m.body.name)
    BY <2>1 DEF Home, Route, HomesSoFar
  <2>3. /\ passed.type = "C" /\ passed.body = m.body /\ passed.cli = m.cli
        /\ passed.to = Home
    BY <1>5 DEF ParseNewNode
  <2>4. Truthful(passed)'
    BY <1>1, <1>3, <2>2, <2>3 DEF Truthful, clientVars, HomesSoFar
  <2>5. Lasting
    BY <1>1, SameLasts DEF clientVars
  <2> QED
    BY <1>1, <1>5, <2>4, <2>5, ConfirmedReply DEF clientVars
<1> QED
  BY <1>4, <1>5 DEF MasterCreate, MasterWrite, Accept

\* The other commands write nothing a client is told.
LEMMA ConfirmedMasterOther ==
  ASSUME Confirmed, Owned', MasterUpdate \/ MasterDelete \/ MasterQuery
  PROVE  Confirmed'
<1>1. UNCHANGED <<storeVars, repositories, clientVars, job>>
  BY DEF MasterUpdate, MasterDelete, MasterQuery, MasterWrite, Refuse, Accept
<1>2. ASSUME NEW kind \in {"busy", "detached"}, Refuse(kind) PROVE Confirmed'
  <2> DEFINE text == ParseNewMessageResponse(From(Master), Say(kind), 0,
                                             Msg(Master).cli)
  <2>1. Harmless(text)
    BY DEF Harmless, ParseNewMessageResponse, Say, Confirms
  <2> HIDE DEF text
  <2>2. Reply(Master, text)
    BY <1>2 DEF Refuse, text
  <2> QED
    BY <1>1, <2>1, <2>2, ConfirmedHarmless
<1>3. ASSUME NEW state, NEW command, Accept(state, command),
             command.type \in {"R", "U", "D"}
      PROVE  Confirmed'
  BY <1>1, <1>3, ConfirmedHarmless DEF Accept, Harmless
<1>4. CASE MasterUpdate
  <2> DEFINE command == ParseNewUpdate(Home, Msg(Master).body, current_request,
                                       Msg(Master).cli)
  <2>1. command.type = "U"
    BY DEF ParseNewUpdate
  <2>2. \/ \E kind \in {"busy", "detached"} : Refuse(kind)
        \/ Accept(Nothing, command)
    BY <1>4 DEF MasterUpdate, MasterWrite
  <2> HIDE DEF command
  <2> QED
    BY <1>2, <1>3, <2>1, <2>2
<1>5. CASE MasterDelete
  <2> DEFINE command == ParseNewDelete(Home, Msg(Master).body, current_request,
                                       repositories, Msg(Master).cli)
  <2>1. command.type = "D"
    BY DEF ParseNewDelete
  <2>2. \/ \E kind \in {"busy", "detached"} : Refuse(kind)
        \/ Accept(Nothing, command)
    BY <1>5 DEF MasterDelete, MasterWrite
  <2> HIDE DEF command
  <2> QED
    BY <1>2, <1>3, <2>1, <2>2
<1>6. CASE MasterQuery
  <2> DEFINE b == Msg(Master).body
             command == ParseNewQuery(Home, b, current_request, Msg(Master).cli)
             state == NewState(b.name, b.depth, b.leaf, b.cond)
  <2>1. command.type = "R"
    BY DEF ParseNewQuery
  <2>2. Refuse("detached") \/ Accept(state, command)
    BY <1>6 DEF MasterQuery
  <2> HIDE DEF command, state
  <2> QED
    BY <1>2, <1>3, <2>1, <2>2
<1> QED
  BY <1>4, <1>5, <1>6

\* The text of a repository is passed on, for the same client.
LEMMA ConfirmedMasterMessage ==
  ASSUME Confirmed, Owned', MasterMessage
  PROVE  Confirmed'
<1>1. /\ Owned /\ Typed /\ Master \in Procs /\ Taken(Master, "M")
      /\ UNCHANGED <<storeVars, repositories, clientVars, job>>
  BY Separate DEF Confirmed, Owned, MasterMessage
<1>2. PICK m : m = Msg(Master)
  OBVIOUS
<1>3. m \in Message /\ m.type = "M" /\ Truthful(m) /\ Lasting
  BY <1>1, <1>2, TakenMessage, SameLasts DEF Confirmed, Taken, clientVars
<1>4. Truthful(m)'
  BY <1>1, <1>3, TruthLasts
<1>5. CASE Reply(Master, Nothing)
  BY <1>1, <1>5, ConfirmedHarmless
<1>6. ASSUME NEW passed, Reply(Master, passed),
             passed = ParseNewMessageResponse(pending[m.id].client, m.text, m.id,
                                              m.cli)
      PROVE  Confirmed'
  <2>1. /\ passed.type = "M" /\ passed.text = m.text /\ passed.cli = m.cli
    BY <1>6 DEF ParseNewMessageResponse
  <2>2. Truthful(passed)'
    BY <1>3, <1>4, <2>1 DEF Truthful
  <2> QED
    BY <1>1, <1>3, <1>6, <2>2, ConfirmedReply DEF clientVars
<1> QED
  BY <1>2, <1>5, <1>6 DEF MasterMessage, Exit

\* A query ends, goes on, or ends the main server.
LEMMA ConfirmedMasterInfo ==
  ASSUME Confirmed, Owned', MasterInfo
  PROVE  Confirmed'
<1>1. UNCHANGED <<storeVars, repositories, clientVars, job>>
  BY DEF MasterInfo
<1>2. ASSUME NEW text, ~Confirms(text.kind), Complete(text) PROVE Confirmed'
  <2>1. PICK passed : /\ Reply(Master, passed)
                      /\ passed.type = "M" /\ passed.text = text
    BY <1>2 DEF Complete, ParseNewMessageResponse
  <2> QED
    BY <1>1, <1>2, <2>1, ConfirmedHarmless DEF Harmless
<1>3. ASSUME NEW q, Continue(q) PROVE Confirmed'
  <2>1. PICK passed : Reply(Master, passed) /\ passed.type = "R"
    BY <1>3 DEF Continue, ParseNewQuery
  <2> QED
    BY <1>1, <2>1, ConfirmedHarmless DEF Harmless
<1>4. ASSUME Exit(Master) PROVE Confirmed'
  BY <1>1, <1>4, ConfirmedHarmless DEF Exit
<1>5. \/ \E text : ~Confirms(text.kind) /\ Complete(text)
      \/ \E q : Continue(q)
      \/ Exit(Master)
  <2>1. CASE \E found : Complete([kind |-> "query", found |-> found])
    BY <2>1 DEF Confirms
  <2>2. CASE Complete(Say("internal"))
    <3>1. ~Confirms(Say("internal").kind)
      BY DEF Say, Confirms
    <3> QED
      BY <2>2, <3>1
  <2>3. CASE \E q : Continue(q)
    BY <2>3
  <2>4. CASE Exit(Master)
    BY <2>4
  <2> QED
    BY <2>1, <2>2, <2>3, <2>4 DEF MasterInfo
<1> QED
  BY <1>2, <1>3, <1>4, <1>5

\* A repository registers: no home is lost.
LEMMA ConfirmedMasterEnrol ==
  ASSUME Confirmed, Owned', MasterEnrol
  PROVE  Confirmed'
<1>1. /\ Typed /\ Master \in Procs /\ Taken(Master, "E") /\ Reply(Master, Nothing)
      /\ UNCHANGED <<storeVars, clientVars, job>>
  BY Separate DEF Confirmed, Owned, MasterEnrol
<1>2. PICK k \in 1..MaxCopies :
        repositories' = repositories \o [i \in 1..k |-> From(Master)]
  BY DEF MasterEnrol
<1>3. From(Master) \in Repos
  BY <1>1 DEF Typed, OnlyReposEnrol, Taken, Msg
<1>4. [i \in 1..k |-> From(Master)] \in Seq(Repos)
  BY <1>2, <1>3, ClusterAssumption
<1>5. \A n \in Names : HomesSoFar(n) \subseteq HomesSoFar(n)'
  BY <1>1, <1>2, <1>4, HomesLast
<1>6. Lasting
  BY <1>1, <1>5 DEF Lasting, storeVars, clientVars
<1> QED
  BY <1>1, <1>6, ConfirmedReply DEF clientVars

-----------------------------------------------------------------------------
\* Where no storage operation throws.
LEMMA NoFailure == ASSUME MaxFailures = 0, Typed PROVE ~Fail(failures)
BY DEF Typed, TypeOK, Fail

\* A create that has a number puts its relations on the handler's list.
LEMMA ConfirmedRepoCreateDone ==
  ASSUME Confirmed, Owned', NEW r \in Repos, Taken(r, "C"),
         UNCHANGED <<masterVars, relations, clientVars>>,
         NEW m, NEW b, m = Msg(r), b = m.body,
         StoreNode(r, b.name), Reply(r, Nothing),
         attributes' = [attributes EXCEPT
                          ![r] = IF b.attr THEN @ \cup {b.name} ELSE @],
         job' = [job EXCEPT ![r] =
                   [name |-> b.name, todo |-> b.rels, id |-> m.id,
                    table |-> m.table, from |-> From(r), cli |-> m.cli,
                    kind |-> IF b.name \in nodes[r] THEN "exists"
                                                     ELSE "stored"]]
  PROVE  Confirmed'
<1>1. Owned /\ Typed /\ r \in Procs
  BY Separate DEF Confirmed, Owned
<1>2. /\ nodes \in [Repos -> SUBSET Names]
      /\ attributes \in [Repos -> SUBSET Names]
      /\ job \in [Repos -> Job \cup {Nothing}]
  BY <1>1 DEF Typed, TypeOK, StoreOK
<1>3. m \in Message /\ m.type = "C" /\ m.to = r /\ Truthful(m)
  BY <1>1, TakenMessage DEF Confirmed, Taken
<1>5. Lasting
  BY <1>1, <1>2 DEF Lasting, StoreNode, masterVars, clientVars, HomesSoFar
<1>6. Writes(r)'
  <2> SUFFICES ASSUME job'[r].id # 0 PROVE Writes(r)'
    BY DEF Writes
  <2>1. /\ job'[r].name = b.name /\ job'[r].todo = b.rels /\ job'[r].cli = m.cli
        /\ job'[r].id = m.id
    BY <1>2
  <2>2. /\ request'[m.cli] = b /\ b # Nothing /\ r \in HomesSoFar(b.name)
    BY <1>1, <1>3, <2>1 DEF Truthful, clientVars
  <2>3. r \in HomesSoFar(b.name)'
    BY <1>1, <2>2 DEF HomesSoFar, masterVars
  <2>4. b.op = "C"
    BY <1>3, CommandFields
  <2>5. b.name \in nodes'[r] /\ (b.attr => b.name \in attributes'[r])
    BY <1>2 DEF StoreNode
  <2> QED
    BY <2>1, <2>2, <2>3, <2>4, <2>5 DEF Writes
<1>7. \A x \in Repos : job'[x] = job[x] \/ Writes(x)'
  BY <1>2, <1>6
<1> QED
  BY <1>1, <1>5, <1>7, ConfirmedReply DEF clientVars

\* A create that fails on its node says so, one that fails on an attribute
\* says nothing.
LEMMA ConfirmedRepoCreate ==
  ASSUME Confirmed, Owned', NEW r \in Repos, RepoCreate(r)
  PROVE  Confirmed'
<1>0. PICK m, b : m = Msg(r) /\ b = m.body
  OBVIOUS
<1>1. /\ Typed /\ r \in Procs /\ Taken(r, "C")
      /\ nodes \in [Repos -> SUBSET Names]
      /\ UNCHANGED <<masterVars, relations, clientVars>>
  BY Separate DEF Confirmed, Owned, Typed, TypeOK, StoreOK, RepoCreate
<1>2. \/ /\ StoreNode(r, b.name) /\ Reply(r, Nothing)
         /\ attributes' = [attributes EXCEPT
                             ![r] = IF b.attr THEN @ \cup {b.name} ELSE @]
         /\ job' = [job EXCEPT ![r] =
                      [name |-> b.name, todo |-> b.rels, id |-> m.id,
                       table |-> m.table, from |-> From(r), cli |-> m.cli,
                       kind |-> IF b.name \in nodes[r] THEN "exists"
                                                        ELSE "stored"]]
      \/ /\ Reply(r, ParseNewMessageResponse(From(r), Say("failed"), m.id, m.cli))
         /\ UNCHANGED <<job, nodes, attributes>>
      \/ /\ StoreNode(r, b.name) /\ Reply(r, Nothing)
         /\ UNCHANGED <<job, attributes>>
  BY <1>0 DEF RepoCreate, Exit
<1>3. ASSUME NEW reply, Reply(r, reply), reply = Nothing \/ Harmless(reply),
             nodes' = nodes \/ StoreNode(r, b.name), UNCHANGED <<job, attributes>>
      PROVE  Confirmed'
  <2>1. Lasting
    BY <1>1, <1>3
       DEF Lasting, StoreNode, masterVars, clientVars, HomesSoFar
  <2>2. reply # Nothing => Truthful(reply)'
    BY <1>3, HarmlessIsTrue
  <2> QED
    BY <1>1, <1>3, <2>1, <2>2, ConfirmedReply DEF clientVars
<1>4. Harmless(ParseNewMessageResponse(From(r), Say("failed"), m.id, m.cli))
  BY DEF Harmless, ParseNewMessageResponse, Say, Confirms
<1> QED
  BY <1>0, <1>1, <1>2, <1>3, <1>4, ConfirmedRepoCreateDone

LEMMA RestOfList ==
  ASSUME NEW s \in Seq(Names), s # <<>>
  PROVE  ToSet(s) \subseteq {Head(s)} \cup ToSet(Tail(s))
<1>1. s[1] = Head(s) /\ ToSet(s) = {s[i] : i \in 1..Len(s)}
  BY DEF ToSet
<1> SUFFICES ASSUME NEW i \in 1..Len(s), i # 1
             PROVE  s[i] \in ToSet(Tail(s))
  BY <1>1
<1>2. i - 1 \in DOMAIN Tail(s) /\ Tail(s)[i - 1] = s[i]
  OBVIOUS
<1> QED
  BY <1>2 DEF ToSet

\* One turn writes what is first on the list.
LEMMA ConfirmedRepoRelationDone ==
  ASSUME Confirmed, Owned', NEW r \in Repos, NEW j, NEW b,
         j = job[r], b = Head(j.todo), j # Nothing, j.todo # <<>>,
         UNCHANGED <<socketVars, masterVars, attributes, clientVars>>,
         StoreNode(r, b),
         relations' = [relations EXCEPT ![r] = @ \cup {<<j.name, b>>}],
         job' = [job EXCEPT ![r].todo = Tail(@)],
         sending' = [sending EXCEPT ![r] =
           IF j.table = <<>> THEN Nothing
           ELSE ParseNewNode(Route(j.table, b),
                             [op |-> "C", name |-> b, attr |-> FALSE,
                              rels |-> <<j.name>>],
                             0, <<>>, j.cli)]
  PROVE  Confirmed'
<1>1. Owned /\ Typed /\ r \in Procs
  BY Separate DEF Confirmed, Owned
<1>2. /\ nodes \in [Repos -> SUBSET Names]
      /\ relations \in [Repos -> SUBSET (Names \X Names)]
      /\ job \in [Repos -> Job \cup {Nothing}]
      /\ sending \in [Procs -> Message \cup {Nothing}]
  BY <1>1 DEF Typed, TypeOK, StoreOK, SocketOK
<1>3. j \in Job /\ j.todo \in Seq(Names) /\ j.table \in Seq(Repos) /\ b \in Names
  BY <1>1, <1>2 DEF Job
<1>5. Lasting
  BY <1>1, <1>2
     DEF Lasting, StoreNode, masterVars, clientVars, HomesSoFar
<1>6. /\ job'[r].name = j.name /\ job'[r].todo = Tail(j.todo)
      /\ job'[r].id = j.id /\ job'[r].cli = j.cli /\ job'[r].kind = j.kind
      /\ \A x \in Repos \ {r} : job'[x] = job[x]
  BY <1>2, <1>3 DEF Job
<1>7. ToSet(j.todo) \subseteq {b} \cup ToSet(Tail(j.todo))
  BY <1>3, RestOfList
<1>8. Writes(r)'
  <2> SUFFICES ASSUME j.id # 0, Confirms(j.kind)
               PROVE  Writes(r)'
    BY <1>6 DEF Writes
  <2>1. PICK q : q = request[j.cli]
    OBVIOUS
  <2>2. /\ q # Nothing /\ q.op = "C" /\ q.name = j.name /\ r \in HomesSoFar(q.name)
        /\ q.name \in nodes[r] /\ (q.attr => q.name \in attributes[r])
        /\ \A n \in ToSet(q.rels) : n \in ToSet(j.todo) \/ <<q.name, n>> \in relations[r]
    BY <1>1, <2>1 DEF Confirmed, Writes
  <2>3. request'[j.cli] = q /\ r \in HomesSoFar(q.name)'
    BY <1>1, <2>1, <2>2 DEF clientVars, masterVars, HomesSoFar
  <2>4. q.name \in nodes'[r] /\ (q.attr => q.name \in attributes'[r])
    BY <1>1, <1>5, <2>2 DEF Lasting
  <2>5. \A n \in ToSet(q.rels) :
          n \in ToSet(Tail(j.todo)) \/ <<q.name, n>> \in relations'[r]
    BY <1>2, <1>7, <2>2
  <2> QED
    BY <1>6, <2>2, <2>3, <2>4, <2>5 DEF Writes
<1>9. ASSUME sending'[r] # Nothing PROVE Truthful(sending[r])'
  <2>1. /\ sending'[r].type = "C" /\ sending'[r].id = 0
        /\ sending'[r].to = Route(j.table, b) /\ j.table # <<>>
    BY <1>1, <1>2, <1>9 DEF ParseNewNode
  <2>2. sending'[r].to # Master
    BY <1>3, <2>1, RouteType, Separate
  <2> QED
    BY <2>1, <2>2 DEF Truthful
<1>10. \A p \in Procs : sending'[p] # Nothing =>
         sending'[p] = sending[p] \/ Truthful(sending[p])'
  BY <1>2, <1>9
<1>11. \A x \in Repos : job'[x] = job[x] \/ Writes(x)'
  BY <1>6, <1>8
<1> QED
  BY <1>1, <1>5, <1>10, <1>11, ConfirmedKept DEF socketVars, clientVars

\* A turn that fails leaves no list that a confirmation would follow: the
\* handler ends with an error, or the process does.
LEMMA ConfirmedRepoRelation ==
  ASSUME Confirmed, Owned', NEW r \in Repos, RepoRelation(r)
  PROVE  Confirmed'
<1>0. PICK j, b : j = job[r] /\ b = Head(j.todo)
  OBVIOUS
<1>1. /\ Typed /\ r \in Procs /\ j # Nothing /\ j.todo # <<>>
      /\ job \in [Repos -> Job \cup {Nothing}]
      /\ nodes \in [Repos -> SUBSET Names]
      /\ sending \in [Procs -> Message \cup {Nothing}]
      /\ UNCHANGED <<socketVars, masterVars, attributes, clientVars>>
  BY <1>0, Separate
     DEF Confirmed, Owned, Typed, TypeOK, StoreOK, SocketOK, RepoRelation
<1>2. \/ /\ StoreNode(r, b)
         /\ relations' = [relations EXCEPT ![r] = @ \cup {<<j.name, b>>}]
         /\ job' = [job EXCEPT ![r].todo = Tail(@)]
         /\ sending' = [sending EXCEPT ![r] =
              IF j.table = <<>> THEN Nothing
              ELSE ParseNewNode(Route(j.table, b),
                                [op |-> "C", name |-> b, attr |-> FALSE,
                                 rels |-> <<j.name>>],
                                0, <<>>, j.cli)]
      \/ /\ sending' = [sending EXCEPT ![r] =
              ParseNewMessageResponse(j.from, Say("failed"), j.id, j.cli)]
         /\ job' = [job EXCEPT ![r].todo = Tail(@), ![r].kind = "failed"]
         /\ UNCHANGED <<nodes, relations>>
      \/ /\ StoreNode(r, b)
         /\ job' = [job EXCEPT ![r] = Nothing]
         /\ UNCHANGED <<sending, relations>>
  BY <1>0 DEF RepoRelation
<1>3. ASSUME sending' = [sending EXCEPT ![r] =
               ParseNewMessageResponse(j.from, Say("failed"), j.id, j.cli)],
             job' = [job EXCEPT ![r].todo = Tail(@), ![r].kind = "failed"],
             UNCHANGED <<nodes, relations>>
      PROVE  Confirmed'
  <2>1. Lasting
    BY <1>1, <1>3, SameLasts DEF storeVars, masterVars, clientVars
  <2>2. Truthful(ParseNewMessageResponse(j.from, Say("failed"), j.id, j.cli))'
    BY HarmlessIsTrue DEF Harmless, ParseNewMessageResponse, Say, Confirms
  <2>3. \A p \in Procs : sending'[p] # Nothing =>
          sending'[p] = sending[p] \/ Truthful(sending[p])'
    BY <1>1, <1>3, <2>2
  <2>4. job'[r].kind = "failed" /\ \A x \in Repos \ {r} : job'[x] = job[x]
    <3>1. job[r] \in Job
      BY <1>0, <1>1
    <3> QED
      BY <1>1, <1>3, <3>1 DEF Job
  <2>5. Writes(r)'
    BY <2>4 DEF Writes, Confirms
  <2> QED
    BY <1>1, <2>1, <2>3, <2>4, <2>5, ConfirmedKept DEF socketVars, clientVars
<1>4. ASSUME StoreNode(r, b), job' = [job EXCEPT ![r] = Nothing],
             UNCHANGED <<sending, relations>>
      PROVE  Confirmed'
  <2>1. Lasting
    BY <1>1, <1>4
       DEF Lasting, StoreNode, masterVars, clientVars, HomesSoFar
  <2>2. \A x \in Repos : job'[x] = job[x] \/ Writes(x)'
    BY <1>1, <1>4 DEF Writes
  <2> QED
    BY <1>1, <1>4, <2>1, <2>2, ConfirmedKept DEF socketVars, clientVars
<1> QED
  BY <1>0, <1>1, <1>2, <1>3, <1>4, ConfirmedRepoRelationDone

\* The handler answers when nothing is left to write.
LEMMA ConfirmedRepoFinish ==
  ASSUME Confirmed, Owned', NEW r \in Repos, RepoFinish(r)
  PROVE  Confirmed'
<1>0. PICK j : j = job[r]
  OBVIOUS
<1>1. /\ Typed /\ r \in Procs /\ j # Nothing /\ j.todo = <<>>
      /\ UNCHANGED <<socketVars, masterVars, storeVars, clientVars>>
      /\ job' = [job EXCEPT ![r] = Nothing]
      /\ sending' = [sending EXCEPT ![r] =
           IF j.id = 0 THEN Nothing
           ELSE ParseNewMessageResponse(Master, Say(j.kind), j.id, j.cli)]
  BY <1>0, Separate DEF Confirmed, Owned, RepoFinish
<1>2. /\ job \in [Repos -> Job \cup {Nothing}]
      /\ sending \in [Procs -> Message \cup {Nothing}]
      /\ Lasting /\ j.cli \in Clients
  BY <1>0, <1>1, SameLasts
     DEF Typed, TypeOK, SocketOK, Job, masterVars, clientVars
<1>3. ASSUME j.id # 0, Confirms(j.kind) PROVE Written(j.cli)
  <2>1. ToSet(j.todo) = {}
    BY <1>1 DEF ToSet
  <2> QED
    BY <1>0, <1>1, <1>3, <2>1 DEF Confirmed, Writes, Written, Holds
<1>4. ASSUME sending'[r] # Nothing PROVE Truthful(sending[r])'
  <2>1. /\ j.id # 0
        /\ sending'[r] = ParseNewMessageResponse(Master, Say(j.kind), j.id, j.cli)
    BY <1>1, <1>2, <1>4
  <2>2. /\ sending'[r].type = "M" /\ sending'[r].text.kind = j.kind
        /\ sending'[r].cli = j.cli
    BY <2>1 DEF ParseNewMessageResponse, Say
  <2>3. Confirms(j.kind) => Written(j.cli)'
    BY <1>1, <1>2, <1>3, <2>1, WrittenLasts
  <2> QED
    BY <2>2, <2>3 DEF Truthful
<1>5. \A p \in Procs : sending'[p] # Nothing =>
        sending'[p] = sending[p] \/ Truthful(sending[p])'
  BY <1>1, <1>2, <1>4
<1>6. \A x \in Repos : job'[x] = job[x] \/ Writes(x)'
  BY <1>1, <1>2 DEF Writes
<1> QED
  BY <1>1, <1>2, <1>5, <1>6, ConfirmedKept DEF socketVars, clientVars

\* Every other handler of a repository tells a client nothing of a create.
LEMMA ConfirmedRepoOther ==
  ASSUME Confirmed, Owned', NEW r \in Repos,
         RepoQuery(r) \/ RepoUpdate(r) \/ RepoDelete(r) \/ RepoMessage(r)
  PROVE  Confirmed'
<1>1. /\ Typed /\ r \in Procs /\ job \in [Repos -> Job \cup {Nothing}]
  BY Separate DEF Confirmed, Owned, Typed, TypeOK
<1>2. /\ UNCHANGED <<storeVars, repositories, clientVars>>
      /\ Lasting
  BY SameLasts
     DEF RepoQuery, RepoUpdate, RepoDelete, RepoMessage, masterVars, clientVars
<1>3. \A x \in Repos : job'[x] = job[x] \/ Writes(x)'
  <2>1. CASE UNCHANGED job
    BY <2>1
  <2>2. CASE RepoDelete(r)
    <3>1. job'[r].kind \in {"deleted", "cleared"} /\ \A x \in Repos \ {r} : job'[x] = job[x]
      BY <1>1, <2>2 DEF RepoDelete
    <3> QED
      BY <3>1 DEF Writes, Confirms
  <2> QED
    BY <2>1, <2>2 DEF RepoQuery, RepoUpdate, RepoMessage
<1>4. \E reply : Reply(r, reply) /\ (reply = Nothing \/ Harmless(reply))
  <2>1. CASE RepoQuery(r)
    BY <2>1 DEF RepoQuery, ParseNewInfoResponse, Harmless
  <2>2. CASE RepoUpdate(r)
    <3>1. PICK reply : /\ Reply(r, reply)
                       /\ reply.type = "M" /\ reply.text.kind = "updated"
      BY <2>2 DEF RepoUpdate, ParseNewMessageResponse, Say
    <3> QED
      BY <3>1 DEF Harmless, Confirms
  <2>3. CASE RepoDelete(r)
    BY <2>3 DEF RepoDelete, ParseNewDelete, Harmless
  <2>4. CASE RepoMessage(r)
    BY <2>4 DEF RepoMessage, Exit
  <2> QED
    BY <2>1, <2>2, <2>3, <2>4
<1> QED
  BY <1>1, <1>2, <1>3, <1>4, HarmlessIsTrue, ConfirmedReply DEF clientVars

-----------------------------------------------------------------------------
\* Nobody has been told anything.
LEMMA ConfirmedInit == Init => Confirmed
BY OwnedInit
   DEF Init, Confirmed, CreateWritten, Stored, Writes

\* Confirmed is inductive.
LEMMA ConfirmedStep ==
  ASSUME Master \notin Mortal, Confirmed, [Next]_vars
  PROVE  Confirmed'
<1>1. Owned'
  BY OwnedStep DEF Confirmed
<1>2. CASE MasterStep
  BY <1>1, <1>2, ConfirmedMasterCreate, ConfirmedMasterOther,
     ConfirmedMasterMessage, ConfirmedMasterInfo, ConfirmedMasterEnrol
     DEF MasterStep
<1>3. ASSUME NEW r \in Repos, RepoStep(r) PROVE Confirmed'
  BY <1>1, <1>3, ConfirmedRepoCreate, ConfirmedRepoRelation,
     ConfirmedRepoFinish, ConfirmedRepoOther DEF RepoStep
<1>4. CASE Work
  BY <1>1, <1>2, <1>3, <1>4, ConfirmedTransport, ConfirmedWaitResponse DEF Work
<1>5. CASE \/ \E c \in Clients : Invoke(c)
           \/ \E r \in Repos : SetRepository(r)
           \/ \E p \in Procs : Crash(p)
  BY <1>1, <1>5, ConfirmedInvoke, ConfirmedSetRepository, ConfirmedTransport
<1>6. CASE SetServer
  BY <1>6 DEF SetServer
<1>7. CASE UNCHANGED vars
  <2>1. /\ UNCHANGED <<storeVars, repositories, request, answer>>
        /\ UNCHANGED <<sending, taken, job>>
    BY <1>7 DEF vars, procVars, masterVars, clientVars, socketVars
  <2> QED
    BY <1>1, <2>1, ConfirmedDrops
<1> QED
  BY <1>4, <1>5, <1>6, <1>7 DEF Next

(***************************************************************************)
(* A client that is told "Node stored successfully" has its node, its      *)
(* attributes and its side of all relations in a file, whatever else goes  *)
(* on, fails, dies or is lost, and however often the transport releases a  *)
(* sender too early (action 'C', 251-342).  The main server is not started *)
(* again: its table of the homes would be a new one.                       *)
(***************************************************************************)
THEOREM StoredIsWritten ==
  ASSUME Master \notin Mortal
  PROVE  Spec => []CreateWritten
<1>1. Init => Confirmed
  BY ConfirmedInit
<1>2. Confirmed /\ [Next]_vars => Confirmed'
  BY ConfirmedStep
<1>3. Confirmed => CreateWritten
  BY DEF Confirmed
<1> QED
  BY <1>1, <1>2, <1>3, PTL DEF Spec

=============================================================================
