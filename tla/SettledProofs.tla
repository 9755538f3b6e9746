---------------------------- MODULE SettledProofs ----------------------------
(***************************************************************************)
(* The cluster once it is set up: every repository is registered from the  *)
(* start, nothing but clients is killed and no storage operation throws,   *)
(* for any number of clients that run at the same time.  What a message or *)
(* a handler does for a client is what that client asked, at the home of   *)
(* the names; a request that is refused has left nothing behind.           *)
(***************************************************************************)
EXTENDS FilesProofs

Settled ==
  /\ Attached # <<>>
  /\ ToSet(Attached) = Repos
  /\ Mortal \subseteq Clients
  /\ MaxFailures = 0

LEMMA SettledCluster ==
  ASSUME Settled
  PROVE  Master \notin Mortal /\ MaxFailures = 0
BY Separate DEF Settled

-----------------------------------------------------------------------------
\* A request as its client sent it; a text that is the answer; a refusal.
Raw(m)     == m.type \in Commands /\ m.to = Master
Final(m)   == m.type = "M" /\ m.to # Master
Refusal(m) == m.type = "M" /\ m.text.kind = "busy"
Lonely(m)  == Raw(m) \/ Refusal(m)

\* What there is of a client: the messages and handlers on its behalf.
Carries(p, c) == Held(p) # Nothing /\ Held(p).cli = c
Does(p, c)    == p \in Repos /\ job[p] # Nothing /\ job[p].cli = c
Trace(p, c)   == Carries(p, c) \/ Does(p, c)

\* The message p has is all there is of its client.
Alone(p) ==
  LET c == Held(p).cli IN
  /\ request[c] # Nothing /\ answer[c] = Nothing
  /\ ~Does(p, c)
  /\ \A q \in Procs : Trace(q, c) => q = p

(***************************************************************************)
(* There is nothing of a client that has not asked, nothing else while its *)
(* request or a refusal is on its way, nothing after a refusal.            *)
(***************************************************************************)
Traces ==
  /\ \A c \in Clients : request[c] = Nothing =>
       answer[c] = Nothing /\ \A p \in Procs : ~Trace(p, c)
  /\ \A p \in Procs : Held(p) # Nothing /\ Lonely(Held(p)) => Alone(p)
  /\ \A c \in Clients : answer[c] # Nothing =>
       /\ c \notin up
       /\ answer[c].kind = "busy" => \A p \in Procs : ~Trace(p, c)

\* A pending request is the only one of a client that waits.
TableInUse ==
  \A i \in DOMAIN pending :
    LET c == pending[i].client IN
    /\ c \in Clients /\ request[c] # Nothing /\ answer[c] = Nothing
    /\ pending[i].state # Nothing => request[c].op = "R"
    /\ \A j \in DOMAIN pending : pending[j].client = c => j = i

Waits(c) == \E i \in DOMAIN pending : pending[i].client = c

KeptAtHome(c) ==
  /\ request[c].op = "C"
  /\ Holds(HomeOf(request[c].name), request[c])

FaithfulText(m) ==
  LET op == request[m.cli].op IN
  \/ Confirms(m.text.kind) /\ KeptAtHome(m.cli)
  \/ m.text.kind = "updated" /\ op = "U"
  \/ m.text.kind \in {"deleted", "cleared"} /\ op = "D"
  \/ m.text.kind = "query" /\ op = "R"
  \/ m.text.kind = "busy" /\ op # "R"

FaithfulCommand(m) ==
  LET q == request[m.cli] IN
  /\ m.to = Master \/ m.type = "U" \/ (m.type \in {"C", "D"} /\ m.id # 0)
       => m.body = q
  /\ m.type = "R" => q.op = "R"
  /\ m.type = "C" /\ m.to # Master =>
       IF m.id # 0
         THEN m.to = HomeOf(q.name) /\ m.table = Attached
         ELSE /\ q.op = "C" /\ m.table = <<>>
              /\ m.body.name \in ToSet(q.rels) /\ m.to = HomeOf(m.body.name)
              /\ m.body.rels = <<q.name>> /\ m.body.attr = FALSE

(***************************************************************************)
(* What a message says is what its client asked, and its answer is not on  *)
(* its way while it is pending.                                            *)
(***************************************************************************)
Sound(m) ==
  /\ m.type # "E"
  /\ m.type = "M" => m.to \notin Repos /\ FaithfulText(m)
  /\ m.type = "I" => request[m.cli].op = "R"
  /\ m.type \in Commands => FaithfulCommand(m)
  /\ Raw(m) \/ Final(m) => ~Waits(m.cli)

\* A handler writes what is asked, or the other half of a relation asked.
SoundJob(r) ==
  LET j == job[r]
      q == request[j.cli]
  IN
  \/ /\ j.kind \in {"deleted", "cleared"} /\ j.todo = <<>>
     /\ j.id # 0 => q.op = "D"
  \/ /\ Confirms(j.kind) /\ q.op = "C" /\ r = HomeOf(j.name)
     /\ j.id = 0 => /\ j.table = <<>>
                    /\ j.name \in ToSet(q.rels)
                    /\ ToSet(j.todo) \subseteq {q.name}
     /\ j.id # 0 => /\ j.table = Attached
                    /\ j.name = q.name
                    /\ ToSet(j.todo) \subseteq ToSet(q.rels)
                    /\ q.name \in nodes[r]
                    /\ q.attr => q.name \in attributes[r]
                    /\ \A n \in ToSet(q.rels) :
                         \/ n \in ToSet(j.todo)
                         \/ <<q.name, n>> \in relations[r]

Orderly ==
  /\ QueryInv
  /\ repositories = Attached /\ Repos \subseteq up
  /\ Traces
  /\ TableInUse
  /\ \A p \in Procs : Held(p) # Nothing => Sound(Held(p))
  /\ \A r \in Repos : job[r] # Nothing => SoundJob(r)

-----------------------------------------------------------------------------
\* What a process has in hand is a message.
LEMMA HeldMessage ==
  ASSUME Typed, NEW p \in Procs, Held(p) # Nothing
  PROVE  Held(p) \in Message
BY DEF Held, Typed, TypeOK, SocketOK

\* A message that is no registration has a client.
LEMMA HeldClient ==
  ASSUME Orderly, NEW p \in Procs, Held(p) # Nothing
  PROVE  /\ Held(p) \in Message /\ Held(p).cli \in Clients
         /\ Held(p).id \in Nat
         /\ request[Held(p).cli] # Nothing
<1>1. Held(p) \in Message /\ Held(p).type # "E"
  BY HeldMessage DEF Orderly, QueryInv, Owned, Sound
<1>2. Held(p).cli \in Clients /\ Held(p).id \in Nat
  BY <1>1, MessageId
<1> QED
  BY <1>1, <1>2 DEF Orderly, Traces, Trace, Carries

\* So has a handler.
LEMMA JobClient ==
  ASSUME Orderly, NEW r \in Repos, job[r] # Nothing
  PROVE  /\ job[r] \in Job /\ job[r].cli \in Clients
         /\ request[job[r].cli] # Nothing
<1>1. job[r] \in Job
  BY DEF Orderly, QueryInv, Owned, Typed, TypeOK
<1>2. job[r].cli \in Clients /\ Does(r, job[r].cli)
  BY <1>1 DEF Job, Does
<1> QED
  BY <1>1, <1>2, Separate DEF Orderly, Traces, Trace

\* What no step undoes: rows and requests.
Onward ==
  /\ \A r \in Repos : /\ nodes[r] \subseteq nodes'[r]
                      /\ relations[r] \subseteq relations'[r]
                      /\ attributes[r] \subseteq attributes'[r]
  /\ \A c \in Clients : request[c] # Nothing => request'[c] = request[c]

\* The homes are repositories.
LEMMA HomeOfRepo ==
  ASSUME Settled, NEW n \in Names
  PROVE  HomeOf(n) \in Repos
BY RouteType, ClusterAssumption DEF Settled, HomeOf

LEMMA KeptStays ==
  ASSUME Settled, Typed, Onward, NEW c \in Clients, request[c] # Nothing,
         KeptAtHome(c)
  PROVE  KeptAtHome(c)'
<1>1. request[c] \in Request /\ request'[c] = request[c]
  BY DEF Typed, TypeOK, ClientOK, Onward
<1>2. HomeOf(request[c].name) \in Repos
  BY <1>1, RequestFields, HomeOfRepo
<1>3. PICK r \in Repos : r = HomeOf(request[c].name)
  BY <1>2
<1>4. Holds(r, request[c])'
  BY <1>1, <1>3 DEF KeptAtHome, Holds, Onward
<1> QED
  BY <1>1, <1>3, <1>4 DEF KeptAtHome

\* A sound message stays sound while its client's answer does not begin.
LEMMA SoundStays ==
  ASSUME Settled, Typed, Onward, NEW m \in Message, m.cli \in Clients,
         request[m.cli] # Nothing, Waits(m.cli)' => Waits(m.cli), Sound(m)
  PROVE  Sound(m)'
<1>1. request'[m.cli] = request[m.cli]
  BY DEF Onward
<1>2. m.type = "M" => FaithfulText(m)'
  BY <1>1, KeptStays DEF Sound, FaithfulText
<1>3. m.type \in Commands => FaithfulCommand(m)'
  BY <1>1 DEF Sound, FaithfulCommand
<1> QED
  BY <1>1, <1>2, <1>3 DEF Sound

LEMMA JobStays ==
  ASSUME Onward, NEW r \in Repos, job[r] # Nothing, job[r].cli \in Clients,
         request[job[r].cli] # Nothing, SoundJob(r), job'[r] = job[r]
  PROVE  SoundJob(r)'
<1>1. request'[job[r].cli] = request[job[r].cli]
  BY DEF Onward
<1> QED
  BY <1>1 DEF SoundJob, Onward

(***************************************************************************)
(* The transport: what a process has afterwards is what it had, or what it *)
(* was sent; a message is in one hand only.                                *)
(***************************************************************************)
Carried(s, d) ==
  \A p \in Procs : Held(p)' # Nothing =>
    /\ Held(p)' = Held(IF p = d THEN s ELSE p)
    /\ p = s => p = d

LEMMA TracesCarried ==
  ASSUME Orderly, NEW s \in Procs, NEW d \in Procs, Carried(s, d),
         UNCHANGED <<job, clientVars>>,
         \A c \in Clients : c \in up' => c \in up
  PROVE  Traces'
<1> DEFINE of(p) == IF p = d THEN s ELSE p
<1>1. ASSUME NEW p \in Procs, NEW c, Carries(p, c)'
      PROVE  of(p) \in Procs /\ Carries(of(p), c) /\ Held(p)' = Held(of(p))
  BY <1>1 DEF Carried, Carries
<1>2. ASSUME NEW p \in Procs, NEW q \in Procs, Held(p)' # Nothing,
             Held(q)' # Nothing, of(p) = of(q)
      PROVE  p = q
  BY <1>2 DEF Carried
<1>3. ASSUME NEW p \in Procs, NEW c PROVE Does(p, c)' <=> Does(p, c)
  BY DEF Does
<1>4. ASSUME NEW c \in Clients, \A p \in Procs : ~Trace(p, c)
      PROVE  \A p \in Procs : ~Trace(p, c)'
  BY <1>1, <1>3, <1>4 DEF Trace
<1>5. ASSUME NEW p \in Procs, Held(p)' # Nothing, Lonely(Held(p))'
      PROVE  Alone(p)'
  <2>1. PICK x \in Procs : x = of(p)
    OBVIOUS
  <2>2. PICK c : c = Held(x).cli
    OBVIOUS
  <2>3. Held(p)' = Held(x) /\ Held(x) # Nothing
    BY <1>5, <2>1 DEF Carried
  <2>4. Lonely(Held(x))
    BY <1>5, <2>3 DEF Lonely, Raw, Refusal
  <2>5. Alone(x)
    BY <2>3, <2>4 DEF Orderly, Traces
  <2>6. /\ request[c] # Nothing /\ answer[c] = Nothing /\ ~Does(x, c)
        /\ \A q \in Procs : Trace(q, c) => q = x
    BY <2>2, <2>5 DEF Alone
  <2>7. \A q \in Procs : ~Does(q, c)
    BY <2>6 DEF Trace
  <2>8. ASSUME NEW q \in Procs, Trace(q, c)' PROVE q = p
    <3>1. Carries(q, c)'
      BY <1>3, <2>7, <2>8 DEF Trace
    <3>2. of(q) \in Procs /\ Carries(of(q), c) /\ Held(q)' # Nothing
      BY <1>1, <3>1 DEF Carries
    <3>3. of(q) = x
      BY <2>6, <3>2 DEF Trace
    <3> QED
      BY <1>2, <1>5, <2>1, <3>2, <3>3
  <2>9. Held(p).cli' = c
    BY <2>2, <2>3
  <2> QED
    BY <1>3, <2>6, <2>7, <2>8, <2>9 DEF Alone, clientVars
<1> QED
  BY <1>4, <1>5 DEF Orderly, Traces, clientVars

LEMMA TransportOrderly ==
  ASSUME Settled, Orderly, QueryInv', NEW s \in Procs, NEW d \in Procs,
         Carried(s, d), UNCHANGED <<job, masterVars, storeVars, clientVars>>,
         Repos \subseteq up', \A c \in Clients : c \in up' => c \in up
  PROVE  Orderly'
<1>1. Typed /\ Onward
  BY DEF Orderly, QueryInv, Owned, Onward, storeVars, clientVars
<1>2. ASSUME NEW p \in Procs, Held(p)' # Nothing PROVE Sound(Held(p))'
  <2>1. PICK x \in Procs : Held(p)' = Held(x)
    BY <1>2 DEF Carried
  <2>2. PICK m : m = Held(x)
    OBVIOUS
  <2>3. m \in Message /\ m.cli \in Clients /\ request[m.cli] # Nothing /\ Sound(m)
    BY <1>2, <2>1, <2>2, HeldClient DEF Orderly
  <2>4. Waits(m.cli)' => Waits(m.cli)
    BY DEF Waits, masterVars
  <2>5. Sound(m)'
    BY <1>1, <2>3, <2>4, SoundStays
  <2> QED
    BY <2>1, <2>2, <2>5
<1>3. ASSUME NEW r \in Repos, job'[r] # Nothing PROVE SoundJob(r)'
  BY <1>1, <1>3, JobClient, JobStays DEF Orderly
<1>4. TableInUse'
  BY DEF Orderly, TableInUse, masterVars, clientVars
<1>5. Traces'
  BY TracesCarried
<1> QED
  BY <1>2, <1>3, <1>4, <1>5 DEF Orderly, masterVars

(***************************************************************************)
(* A handler: d has m in hand afterwards, and a new piece of work, on      *)
(* behalf of a client it worked for.                                       *)
(***************************************************************************)
Acts(d, m) ==
  /\ Held(d)' = m
  /\ \A p \in Procs \ {d} : Held(p)' = Held(p)
  /\ \A r \in Repos \ {d} : job'[r] = job[r]
  /\ m # Nothing => Trace(d, m.cli)
  /\ m # Nothing /\ Lonely(m) =>
       /\ d \notin Repos /\ Held(d) # Nothing
       /\ Lonely(Held(d)) /\ Held(d).cli = m.cli
  /\ d \in Repos /\ job'[d] # Nothing => Trace(d, job'[d].cli)

LEMMA TracesAct ==
  ASSUME Orderly, NEW d \in Procs, NEW m, Acts(d, m), UNCHANGED clientVars,
         \A c \in Clients : c \in up' => c \in up
  PROVE  Traces'
<1>1. ASSUME NEW p \in Procs, NEW c, Trace(p, c)' PROVE Trace(p, c)
  BY <1>1 DEF Acts, Trace, Carries, Does
<1>2. ASSUME NEW p \in Procs, Held(p)' # Nothing, Lonely(Held(p))'
      PROVE  Alone(p)'
  <2>1. /\ Held(p) # Nothing /\ Lonely(Held(p)) /\ Held(p).cli = Held(p).cli'
        /\ ~Does(p, Held(p).cli)'
    <3>1. CASE p = d
      <4>1. m # Nothing /\ Lonely(m)
        BY <1>2, <3>1 DEF Acts, Lonely, Raw, Refusal
      <4> QED
        BY <3>1, <4>1 DEF Acts, Does
    <3>2. CASE p # d
      <4>1. Held(p)' = Held(p) /\ Held(p) # Nothing /\ Lonely(Held(p))
        BY <1>2, <3>2 DEF Acts, Lonely, Raw, Refusal
      <4>2. ~Does(p, Held(p).cli)
        BY <4>1 DEF Orderly, Traces, Alone
      <4> QED
        BY <3>2, <4>1, <4>2 DEF Acts, Does
    <3> QED
      BY <3>1, <3>2
  <2>2. Alone(p)
    BY <2>1 DEF Orderly, Traces
  <2> QED
    BY <1>1, <2>1, <2>2 DEF Alone, clientVars
<1> QED
  BY <1>1, <1>2 DEF Orderly, Traces, clientVars

LEMMA ActOrderly ==
  ASSUME Settled, Orderly, QueryInv', Onward, NEW d \in Procs, NEW m, Acts(d, m),
         m # Nothing => Sound(m)',
         d \in Repos /\ job'[d] # Nothing => SoundJob(d)',
         UNCHANGED <<repositories, clientVars>>,
         Repos \subseteq up', \A c \in Clients : c \in up' => c \in up,
         TableInUse',
         \A c \in Clients : Waits(c)' /\ ~Waits(c) =>
           \A p \in Procs \ {d} : ~Carries(p, c)
  PROVE  Orderly'
<1>1. Typed
  BY DEF Orderly, QueryInv, Owned
<1>2. ASSUME NEW p \in Procs, Held(p)' # Nothing PROVE Sound(Held(p))'
  <2>1. CASE p = d
    BY <1>2, <2>1 DEF Acts
  <2>2. CASE p # d
    <3>1. PICK h : h = Held(p)
      OBVIOUS
    <3>2. Held(p)' = h /\ h # Nothing
      BY <1>2, <2>2, <3>1 DEF Acts
    <3>3. /\ h \in Message /\ h.cli \in Clients /\ request[h.cli] # Nothing
          /\ Sound(h)
      BY <3>1, <3>2, HeldClient DEF Orderly
    <3>4. Waits(h.cli)' => Waits(h.cli)
      BY <2>2, <3>1, <3>2, <3>3 DEF Carries
    <3>5. Sound(h)'
      BY <1>1, <3>3, <3>4, SoundStays
    <3> QED
      BY <3>2, <3>5
  <2> QED
    BY <2>1, <2>2
<1>3. ASSUME NEW r \in Repos, job'[r] # Nothing PROVE SoundJob(r)'
  <2>1. CASE r = d
    BY <1>3, <2>1
  <2>2. CASE r # d
    BY <1>1, <1>3, <2>2, JobClient, JobStays DEF Orderly, Acts
  <2> QED
    BY <2>1, <2>2
<1>4. Traces'
  BY TracesAct
<1> QED
  BY <1>2, <1>3, <1>4 DEF Orderly

-----------------------------------------------------------------------------
\* What the transport, a death or nothing at all does to the messages.
Moves(s, d) ==
  /\ Carried(s, d)
  /\ UNCHANGED <<job, masterVars, storeVars, clientVars>>
  /\ Repos \subseteq up' /\ \A c \in Clients : c \in up' => c \in up

LEMMA TransportMoves ==
  ASSUME Settled, Orderly,
         \/ \E s, d \in Procs : Receive(s, d) \/ Overrun(s, d)
         \/ \E S \in SUBSET up : FalseAcks(S)
         \/ \E p \in Procs : Crash(p)
         \/ UNCHANGED vars
  PROVE  \E s, d \in Procs : Moves(s, d)
<1>1. /\ sending \in [Procs -> Message \cup {Nothing}]
      /\ taken \in [Procs -> [from : Procs, msg : Message] \cup {Nothing}]
      /\ job \in [Repos -> Job \cup {Nothing}]
      /\ Owned /\ Solo /\ Repos \subseteq up
  BY DEF Orderly, QueryInv, Owned, Typed, TypeOK, SocketOK
<1>2. ASSUME NEW s \in Procs, NEW d \in Procs, Receive(s, d) PROVE Moves(s, d)
  <2>1. /\ sending' = [sending EXCEPT ![s] = Nothing]
        /\ taken' = [taken EXCEPT ![d] = [from |-> s, msg |-> sending[s]]]
        /\ UNCHANGED up /\ UNCHANGED job /\ UNCHANGED masterVars
        /\ UNCHANGED storeVars /\ UNCHANGED clientVars
        /\ sending[d] = Nothing /\ taken[d] = Nothing /\ sending[s] # Nothing
    BY <1>2 DEF Receive, Listening
  <2>2. taken[s] = Nothing /\ s # d /\ Held(s) = sending[s]
    BY <1>1, <2>1 DEF Solo, Held
  <2>3. Held(d)' = Held(s) \/ Held(d)' = Nothing
    BY <1>1, <2>1, <2>2 DEF Held
  <2>4. Held(s)' = Nothing
    BY <1>1, <2>1, <2>2 DEF Held
  <2>5. \A p \in Procs \ {s, d} : Held(p)' = Held(p)
    BY <1>1, <2>1 DEF Held
  <2>6. Carried(s, d)
    BY <2>3, <2>4, <2>5 DEF Carried
  <2> QED
    BY <1>1, <2>1, <2>6 DEF Moves
\* Messages that are only lost.
<1>3. ASSUME \A p \in Procs : Held(p)' = Held(p) \/ Held(p)' = Nothing,
             UNCHANGED <<job, masterVars, storeVars, clientVars>>,
             Repos \subseteq up', \A c \in Clients : c \in up' => c \in up
      PROVE  Moves(Master, Master)
  BY <1>3 DEF Moves, Carried
<1>4. ASSUME UNCHANGED taken, \A p \in Procs : sending'[p] \in {sending[p], Nothing}
      PROVE  \A p \in Procs : Held(p)' = Held(p) \/ Held(p)' = Nothing
  BY <1>4 DEF Held
<1>5. ASSUME NEW s \in Procs, NEW d \in Procs, Overrun(s, d)
      PROVE  Moves(Master, Master)
  BY <1>1, <1>3, <1>4, <1>5 DEF Overrun, StopsLingering
<1>6. ASSUME NEW S \in SUBSET up, FalseAcks(S) PROVE Moves(Master, Master)
  BY <1>1, <1>3, <1>4, <1>6 DEF FalseAcks, socketVars
<1>7. ASSUME NEW p \in Procs, Crash(p) PROVE Moves(Master, Master)
  <2>1. /\ Reply(p, Nothing) /\ up' = up \ {p} /\ p \in Clients
        /\ UNCHANGED <<masterVars, storeVars, clientVars>>
        /\ job' = [r \in Repos |-> IF r = p THEN Nothing ELSE job[r]]
    BY <1>7 DEF Crash, Reply, Settled
  <2>2. Repos \subseteq up' /\ UNCHANGED job
    BY <1>1, <2>1, Separate
  <2>3. \A q \in Procs : Held(q)' = Held(q) \/ Held(q)' = Nothing
    BY <1>1, <2>1, HeldAfterReply
  <2> QED
    BY <1>3, <2>1, <2>2, <2>3
<1>8. ASSUME UNCHANGED vars PROVE Moves(Master, Master)
  <2>1. /\ UNCHANGED taken /\ UNCHANGED sending /\ UNCHANGED up /\ UNCHANGED job
        /\ UNCHANGED <<masterVars, storeVars, clientVars>>
    BY <1>8 DEF vars, procVars, socketVars
  <2> QED
    BY <1>1, <1>3, <1>4, <2>1
<1> QED
  BY <1>2, <1>5, <1>6, <1>7, <1>8, Separate

LEMMA OrderlyTransport ==
  ASSUME Settled, Orderly, QueryInv', \E s, d \in Procs : Moves(s, d)
  PROVE  Orderly'
BY TransportOrderly DEF Moves

-----------------------------------------------------------------------------
\* What a handler works on is what its process has in hand.
LEMMA TakenHeld ==
  ASSUME Orderly, NEW d \in Procs, NEW t, Taken(d, t)
  PROVE  /\ Held(d) = Msg(d) /\ Held(d) # Nothing
         /\ Msg(d) \in Message /\ Msg(d).type = t /\ Msg(d).to = d
         /\ Msg(d).cli \in Clients /\ Msg(d).id \in Nat
         /\ request[Msg(d).cli] # Nothing
         /\ Sound(Msg(d)) /\ Trace(d, Msg(d).cli)
         /\ From(d) \in Procs /\ d \in up
         /\ Good(From(d), Msg(d), pending, current_request)
<1>1. /\ Msg(d) \in Message /\ Msg(d).type = t /\ Msg(d).to = d
      /\ From(d) \in Procs
      /\ Good(From(d), Msg(d), pending, current_request)
  BY TakenMessage DEF Orderly, QueryInv
<1>2. Held(d) = Msg(d) /\ Held(d) # Nothing /\ d \in up
  BY <1>1, NothingAssumption DEF Taken, Held, Msg
<1>3. /\ Msg(d).cli \in Clients /\ Msg(d).id \in Nat
      /\ request[Msg(d).cli] # Nothing /\ Sound(Msg(d))
  BY <1>2, HeldClient DEF Orderly
<1> QED
  BY <1>1, <1>2, <1>3 DEF Trace, Carries

\* The main server answers, or passes on, what it has read.
LEMMA MasterActs ==
  ASSUME Orderly, NEW t, Taken(Master, t), NEW m, Reply(Master, m),
         m # Nothing => m.cli = Msg(Master).cli,
         m # Nothing /\ Lonely(m) => Lonely(Msg(Master)),
         UNCHANGED job
  PROVE  Acts(Master, m)
<1>1. /\ Held(Master) = Msg(Master) /\ Held(Master) # Nothing
      /\ Trace(Master, Msg(Master).cli)
  BY TakenHeld, Separate
<1>2. Held(Master)' = m /\ \A p \in Procs \ {Master} : Held(p)' = Held(p)
  BY Separate, HeldAfterReply DEF Orderly, QueryInv
<1> QED
  BY <1>1, <1>2, Separate DEF Acts

LEMMA MasterOrderly ==
  ASSUME Settled, Orderly, QueryInv', NEW t, Taken(Master, t),
         NEW m, Reply(Master, m),
         m # Nothing => m.cli = Msg(Master).cli,
         m # Nothing /\ Lonely(m) => Lonely(Msg(Master)),
         m # Nothing => Sound(m)',
         UNCHANGED <<job, repositories, storeVars, clientVars>>,
         up' = up \/ up' = up \ {Master},
         TableInUse',
         \A c \in Clients : Waits(c)' /\ ~Waits(c) =>
           \A p \in Procs \ {Master} : ~Carries(p, c)
  PROVE  Orderly'
<1>1. Acts(Master, m)
  BY MasterActs
<1>2. Onward
  BY DEF Onward, storeVars, clientVars
<1>3. Repos \subseteq up' /\ \A c \in Clients : c \in up' => c \in up
  BY Separate DEF Orderly
<1> QED
  BY <1>1, <1>2, <1>3, Separate, ActOrderly

\* The client of a request the main server reads is the one that sent it.
LEMMA RawClient ==
  ASSUME Orderly, NEW t \in Commands, Taken(Master, t)
  PROVE  LET m == Msg(Master) IN
         /\ From(Master) \in Clients /\ From(Master) = m.cli
         /\ Raw(m) /\ m.body = request[m.cli] /\ m.body.op = t
         /\ m.body \in Request /\ m.body.name \in Names
         /\ answer[m.cli] = Nothing /\ ~Waits(m.cli)
         /\ \A p \in Procs \ {Master} : Held(p) # Nothing => Held(p).cli # m.cli
<1> DEFINE m == Msg(Master)
<1>1. /\ m \in Message /\ m.type = t /\ m.to = Master /\ Sound(m)
      /\ Held(Master) = m /\ Held(Master) # Nothing
      /\ Good(From(Master), m, pending, current_request)
  BY TakenHeld, Separate
<1>2. Raw(m) /\ Lonely(m)
  BY <1>1 DEF Raw, Lonely
<1>3. From(Master) \in Clients /\ From(Master) = m.cli
  BY <1>1 DEF Good
<1>4. m.body = request[m.cli] /\ ~Waits(m.cli)
  BY <1>1, <1>2 DEF Sound, FaithfulCommand, Raw
<1>5. m.body \in Request /\ m.body.op = t /\ m.body.name \in Names
  BY <1>1, CommandFields, RequestFields DEF Commands
<1>6. Alone(Master)
  BY <1>1, <1>2, Separate DEF Orderly, Traces
<1> QED
  BY <1>1, <1>2, <1>3, <1>4, <1>5, <1>6 DEF Alone, Trace, Carries

\* A refusal leaves nothing behind.
LEMMA OrderlyRefuse ==
  ASSUME Settled, Orderly, QueryInv', NEW t \in Commands \ {"R"},
         Taken(Master, t), Refuse("busy"),
         UNCHANGED <<up, job, storeVars, clientVars>>
  PROVE  Orderly'
<1>0. PICK m : m = Msg(Master)
  OBVIOUS
<1>1. PICK text : /\ Reply(Master, text)
                  /\ text.type = "M" /\ text.to = From(Master)
                  /\ text.cli = m.cli /\ text.text.kind = "busy"
  BY <1>0 DEF Refuse, ParseNewMessageResponse, Say
<1>2. UNCHANGED pending /\ UNCHANGED repositories
  BY DEF Refuse
<1>3. /\ From(Master) \in Clients /\ Raw(m) /\ request[m.cli].op = t
      /\ ~Waits(m.cli)
  BY <1>0, RawClient
<1>4. text.to \notin Repos /\ text.type \notin Commands
  BY <1>1, <1>3, Separate DEF Commands
<1>5. FaithfulText(text)' /\ ~Waits(m.cli)'
  BY <1>1, <1>2, <1>3 DEF FaithfulText, clientVars, Waits
<1>6. TableInUse' /\ \A c : Waits(c)' => Waits(c)
  BY <1>2 DEF Orderly, TableInUse, Waits, clientVars
<1>7. Sound(text)'
  BY <1>1, <1>4, <1>5 DEF Sound
<1> QED
  BY <1>0, <1>1, <1>2, <1>3, <1>6, <1>7, MasterOrderly DEF Lonely

\* A request that is accepted goes to the home of its name as it was asked.
LEMMA OrderlyAccept ==
  ASSUME Settled, Orderly, QueryInv', NEW t \in Commands, Taken(Master, t),
         NEW state, NEW command, Accept(state, command),
         state # Nothing => t = "R",
         command.type = t, command.id = current_request,
         command.to = Home, command.body = Msg(Master).body,
         command.cli = Msg(Master).cli, t = "C" => command.table = repositories,
         UNCHANGED <<up, job, storeVars, clientVars>>
  PROVE  Orderly'
<1> DEFINE m == Msg(Master)
<1>1. /\ Reply(Master, command) /\ UNCHANGED repositories
      /\ pending' = [i \in DOMAIN pending \cup {current_request} |->
                       IF i = current_request
                         THEN [client |-> From(Master), state |-> state]
                         ELSE pending[i]]
  BY DEF Accept, Enter
<1>2. /\ From(Master) \in Clients /\ From(Master) = m.cli
      /\ m.body = request[m.cli] /\ m.body.op = t /\ m.body.name \in Names
      /\ answer[m.cli] = Nothing /\ ~Waits(m.cli)
      /\ \A p \in Procs \ {Master} : Held(p) # Nothing => Held(p).cli # m.cli
  BY RawClient
<1>3. /\ current_request \in Nat \ {0} /\ current_request \notin DOMAIN pending
      /\ repositories = Attached
  BY DEF Orderly, QueryInv, Owned, Typed, TypeOK, MasterOK
<1>4. /\ DOMAIN pending' = DOMAIN pending \cup {current_request}
      /\ \A i \in DOMAIN pending : pending'[i] = pending[i]
      /\ pending'[current_request].client = m.cli
      /\ pending'[current_request].state = state
  BY <1>1, <1>2, <1>3
<1>5. Home = HomeOf(m.body.name) /\ Home \in Repos
  BY <1>2, <1>3, HomeOfRepo DEF Home, HomeOf
<1>6. request[m.cli] # Nothing /\ m.cli \in Clients
  BY TakenHeld, Separate
<1>7. TableInUse'
  <2> SUFFICES ASSUME NEW i \in DOMAIN pending'
               PROVE  LET c == pending'[i].client IN
                      /\ c \in Clients /\ request[c] # Nothing /\ answer[c] = Nothing
                      /\ pending'[i].state # Nothing => request[c].op = "R"
                      /\ \A j \in DOMAIN pending' : pending'[j].client = c => j = i
    BY DEF TableInUse, clientVars
  <2>1. CASE i = current_request
    BY <1>2, <1>4, <1>6, <2>1 DEF Waits
  <2>2. CASE i \in DOMAIN pending
    BY <1>2, <1>4, <2>2 DEF Waits, Orderly, TableInUse
  <2> QED
    BY <1>4, <2>1, <2>2
<1>8. \A c \in Clients : Waits(c)' /\ ~Waits(c) =>
        \A p \in Procs \ {Master} : ~Carries(p, c)
  BY <1>2, <1>4 DEF Waits, Carries
<1>9. command.to # Master /\ command.to \in Repos /\ t \notin {"E", "M", "I"}
  BY <1>5, Separate DEF Commands
<1>10. FaithfulCommand(command)'
  BY <1>2, <1>3, <1>5, <1>9 DEF FaithfulCommand, clientVars
<1>11. Sound(command)' /\ ~Lonely(command)
  BY <1>9, <1>10 DEF Sound, Raw, Final, Lonely, Refusal
<1> QED
  BY <1>1, <1>7, <1>8, <1>11, MasterOrderly

LEMMA OrderlyMasterWrite ==
  ASSUME Settled, Orderly, QueryInv', NEW t \in Commands \ {"R"},
         Taken(Master, t), NEW command, MasterWrite(command),
         command.type = t, command.id = current_request,
         command.to = Home, command.body = Msg(Master).body,
         command.cli = Msg(Master).cli, t = "C" => command.table = repositories
  PROVE  Orderly'
<1>1. UNCHANGED <<up, job, storeVars, clientVars>>
  BY DEF MasterWrite
<1>2. repositories # <<>>
  BY DEF Orderly, Settled
<1>3. CASE Refuse("busy")
  BY <1>1, <1>3, OrderlyRefuse
<1>4. CASE Accept(Nothing, command)
  BY <1>1, <1>4, OrderlyAccept
<1> QED
  BY <1>2, <1>3, <1>4 DEF MasterWrite

LEMMA OrderlyMasterCommands ==
  ASSUME Settled, Orderly, QueryInv',
         MasterCreate \/ MasterUpdate \/ MasterDelete \/ MasterQuery
  PROVE  Orderly'
<1>1. CASE MasterCreate
  <2>1. PICK command :
          command = ParseNewNode(Home, Msg(Master).body, current_request,
                                 repositories, Msg(Master).cli)
    OBVIOUS
  <2>2. Taken(Master, "C") /\ MasterWrite(command)
    BY <1>1, <2>1 DEF MasterCreate
  <2> QED
    BY <2>1, <2>2, OrderlyMasterWrite DEF ParseNewNode, Commands
<1>2. CASE MasterUpdate
  <2>1. PICK command :
          command = ParseNewUpdate(Home, Msg(Master).body, current_request,
                                   Msg(Master).cli)
    OBVIOUS
  <2>2. Taken(Master, "U") /\ MasterWrite(command)
    BY <1>2, <2>1 DEF MasterUpdate
  <2> QED
    BY <2>1, <2>2, OrderlyMasterWrite DEF ParseNewUpdate, Commands
<1>3. CASE MasterDelete
  <2>1. PICK command :
          command = ParseNewDelete(Home, Msg(Master).body, current_request,
                                   repositories, Msg(Master).cli)
    OBVIOUS
  <2>2. Taken(Master, "D") /\ MasterWrite(command)
    BY <1>3, <2>1 DEF MasterDelete
  <2> QED
    BY <2>1, <2>2, OrderlyMasterWrite DEF ParseNewDelete, Commands
<1>4. CASE MasterQuery
  <2>1. repositories # <<>>
    BY DEF Orderly, Settled
  <2>2. PICK state, command :
          /\ Accept(state, command)
          /\ command = ParseNewQuery(Home, Msg(Master).body, current_request,
                                     Msg(Master).cli)
    BY <1>4, <2>1 DEF MasterQuery
  <2>3. Taken(Master, "R") /\ UNCHANGED <<up, job, storeVars, clientVars>>
    BY <1>4 DEF MasterQuery
  <2> QED
    BY <2>2, <2>3, OrderlyAccept DEF ParseNewQuery, Commands
<1> QED
  BY <1>1, <1>2, <1>3, <1>4

\* The entry of a number that is answered is the one of the message's client.
LEMMA EntryOf ==
  ASSUME Orderly, NEW t \in {"M", "I"}, Taken(Master, t),
         Msg(Master).id \in DOMAIN pending
  PROVE  LET m == Msg(Master) IN
         /\ pending[m.id].client = m.cli /\ m.cli \in Clients
         /\ \A i \in DOMAIN pending : pending[i].client = m.cli => i = m.id
         /\ m.id # 0
         /\ t = "I" => /\ pending[m.id].state # Nothing
                       /\ Head(pending[m.id].state.queue).name = m.name
         /\ t = "M" => pending[m.id].state = Nothing
<1> DEFINE m == Msg(Master)
<1>1. /\ m.type = t /\ m.cli \in Clients
      /\ Good(From(Master), m, pending, current_request)
      /\ Held(Master) = m /\ m # Nothing
  BY TakenHeld, Separate
<1>2. m.id # 0
  BY DEF Orderly, QueryInv, Owned, Typed, TypeOK, MasterOK
<1>3. /\ pending[m.id].client = m.cli
      /\ t = "I" <=> pending[m.id].state # Nothing
  BY <1>1, <1>2 DEF Good, Fit
<1>4. ASSUME t = "I" PROVE Head(pending[m.id].state.queue).name = m.name
  <2>1. Asks(Held(Master)) /\ Held(Master).type # "R"
    BY <1>1, <1>2, <1>4 DEF Asks
  <2> QED
    BY <1>1, <2>1, Separate DEF Orderly, QueryInv, InStep, AboutFront, About
<1> QED
  BY <1>1, <1>2, <1>3, <1>4 DEF Orderly, TableInUse

\* The answer leaves when the request is forgotten.
LEMMA OrderlyAnswer ==
  ASSUME Settled, Orderly, QueryInv', NEW t \in {"M", "I"}, Taken(Master, t),
         Msg(Master).id \in DOMAIN pending, Erase(Msg(Master).id),
         NEW text, t = "M" => text = Msg(Master).text,
         t = "I" => text.kind = "query",
         Reply(Master, ParseNewMessageResponse(pending[Msg(Master).id].client,
                                               text, Msg(Master).id,
                                               Msg(Master).cli)),
         UNCHANGED <<up, job, repositories, storeVars, clientVars>>
  PROVE  Orderly'
<1>0. PICK m : m = Msg(Master)
  OBVIOUS
<1>1. PICK passed : /\ Reply(Master, passed)
                    /\ passed.type = "M" /\ passed.to = pending[m.id].client
                    /\ passed.cli = m.cli /\ passed.text = text
  BY <1>0 DEF ParseNewMessageResponse
<1>2. /\ m.type = t /\ Sound(m)
  BY <1>0, TakenHeld, Separate
<1>3. /\ passed.to \in Clients
      /\ \A i \in DOMAIN pending : pending[i].client = m.cli => i = m.id
  BY <1>0, <1>1, EntryOf
<1>4. /\ DOMAIN pending' = DOMAIN pending \ {m.id}
      /\ \A i \in DOMAIN pending' : pending'[i] = pending[i]
  BY <1>0 DEF Erase, Restrict
<1>5. TableInUse' /\ ~Waits(m.cli)' /\ \A c : Waits(c)' => Waits(c)
  BY <1>3, <1>4 DEF Orderly, TableInUse, Waits, clientVars
<1>6. FaithfulText(passed)'
  <2>1. CASE t = "M"
    <3>1. passed.text = m.text
      BY <1>0, <1>1, <2>1
    <3>2. FaithfulText(m)
      BY <1>2, <2>1 DEF Sound
    <3> QED
      BY <1>1, <3>1, <3>2
         DEF FaithfulText, KeptAtHome, Holds, clientVars, storeVars
  <2>2. CASE t = "I"
    BY <1>1, <1>2, <2>2 DEF Sound, FaithfulText, clientVars
  <2> QED
    BY <2>1, <2>2
<1>7. Sound(passed)'
  BY <1>1, <1>3, <1>5, <1>6, Separate DEF Sound, Commands
<1>8. Lonely(passed) => Lonely(m)
  BY <1>0, <1>1, <1>2 DEF Lonely, Raw, Refusal, Commands
<1> QED
  BY <1>0, <1>1, <1>5, <1>7, <1>8, MasterOrderly

LEMMA OrderlyMasterMessage ==
  ASSUME Settled, Orderly, QueryInv', MasterMessage
  PROVE  Orderly'
<1>1. /\ Taken(Master, "M")
      /\ UNCHANGED <<job, repositories, storeVars, clientVars>>
  BY DEF MasterMessage
<1>2. CASE Msg(Master).id \in DOMAIN pending
  <2>1. /\ Erase(Msg(Master).id)
        /\ Reply(Master,
                 ParseNewMessageResponse(pending[Msg(Master).id].client,
                                         Msg(Master).text, Msg(Master).id,
                                         Msg(Master).cli))
        /\ UNCHANGED up
    BY <1>2 DEF MasterMessage
  <2> QED
    BY <1>1, <1>2, <2>1, OrderlyAnswer
<1>3. CASE Msg(Master).id \notin DOMAIN pending
  <2>1. Exit(Master) /\ UNCHANGED pending
    BY <1>3 DEF MasterMessage
  <2>2. Reply(Master, Nothing) /\ up' = up \ {Master}
    BY <2>1 DEF Exit
  <2>3. TableInUse' /\ \A c : Waits(c)' => Waits(c)
    BY <1>1, <2>1 DEF Orderly, TableInUse, Waits, clientVars
  <2> QED
    BY <1>1, <2>2, <2>3, MasterOrderly
<1> QED
  BY <1>2, <1>3

\* The next look-up of a query that goes on.
LEMMA OrderlyContinue ==
  ASSUME Settled, Orderly, QueryInv', Taken(Master, "I"),
         Msg(Master).id \in DOMAIN pending,
         NEW q, q # Nothing, q.queue # <<>>, q \in QueryState(Names), Continue(q),
         UNCHANGED <<up, job, repositories, storeVars, clientVars>>
  PROVE  Orderly'
<1>0. PICK m : m = Msg(Master)
  OBVIOUS
<1>1. PICK lookup : /\ Reply(Master, lookup) /\ lookup.type = "R"
                    /\ lookup.to = Route(repositories, Head(q.queue).name)
                    /\ lookup.cli = m.cli /\ lookup.id = m.id
  BY <1>0 DEF Continue, ParseNewQuery
<1>2. m.type = "I" /\ request[m.cli].op = "R" /\ m.cli \in Clients
  BY <1>0, TakenHeld, Separate DEF Sound
<1>3. Head(q.queue) \in Entry(Names)
  BY DEF QueryState
<1>4. lookup.to = HomeOf(Head(q.queue).name) /\ lookup.to \in Repos
  <2>1. repositories = Attached /\ Head(q.queue).name \in Names
    BY <1>3 DEF Orderly, Entry
  <2> QED
    BY <1>1, <2>1, HomeOfRepo DEF HomeOf
<1>5. pending[m.id].client = m.cli /\ pending[m.id].state # Nothing
  BY <1>0, EntryOf
<1>6. pending' = [pending EXCEPT ![m.id].state = q] /\ m.id \in DOMAIN pending
  BY <1>0 DEF Continue
<1>7. m.id \in DOMAIN pending /\ pending[m.id] \in PendingEntry
  BY <1>6 DEF Orderly, QueryInv, Owned, Typed, TypeOK, MasterOK
<1>8. /\ DOMAIN pending' = DOMAIN pending
      /\ \A i \in DOMAIN pending : /\ pending'[i].client = pending[i].client
                                   /\ i # m.id => pending'[i] = pending[i]
  BY <1>6, <1>7 DEF PendingEntry
<1>9. TableInUse' /\ \A c : Waits(c)' => Waits(c)
  BY <1>2, <1>5, <1>8 DEF Orderly, TableInUse, Waits, clientVars
<1>10. FaithfulCommand(lookup)' /\ lookup.to # Master
  BY <1>1, <1>2, <1>4, Separate DEF FaithfulCommand, clientVars
<1>11. Sound(lookup)' /\ ~Lonely(lookup)
  BY <1>1, <1>10 DEF Sound, Lonely, Raw, Final, Refusal
<1> QED
  BY <1>0, <1>1, <1>9, <1>11, MasterOrderly

LEMMA OrderlyMasterInfo ==
  ASSUME Settled, Orderly, QueryInv', MasterInfo
  PROVE  Orderly'
<1> DEFINE m == Msg(Master)
           q == pending[m.id].state
<1>1. /\ Taken(Master, "I")
      /\ UNCHANGED <<job, repositories, storeVars, clientVars>>
  BY DEF MasterInfo
<1>2. CASE ~IsQuery(m.id)
  <2>1. Exit(Master) /\ UNCHANGED pending
    BY <1>2 DEF MasterInfo
  <2>2. Reply(Master, Nothing) /\ up' = up \ {Master}
    BY <2>1 DEF Exit
  <2>3. TableInUse' /\ \A c : Waits(c)' => Waits(c)
    BY <1>1, <2>1 DEF Orderly, TableInUse, Waits, clientVars
  <2> QED
    BY <1>1, <2>2, <2>3, MasterOrderly
<1>3. CASE IsQuery(m.id)
  <2>1. m.id \in DOMAIN pending /\ Head(q.queue).name = m.name
    BY <1>1, <1>3, EntryOf DEF IsQuery
  <2>2. WellFormed(q)
    BY <1>3 DEF IsQuery, Orderly, QueryInv, Owned, Typed, QueriesGoOn
  <2>3. /\ UNCHANGED up
        /\ \E order \in SetToSeqs(Fresh(q, m.rels)) :
             LET next == Absorb(q, m.valid, order) IN
             \/ /\ next.queue = <<>>
                /\ Complete([kind |-> "query", found |-> next.response])
             \/ /\ next.queue # <<>>
                /\ Continue(next)
    BY <1>3, <2>1 DEF MasterInfo
  <2>4. PICK order \in SetToSeqs(Fresh(q, m.rels)) :
          LET next == Absorb(q, m.valid, order) IN
             \/ /\ next.queue = <<>>
                /\ Complete([kind |-> "query", found |-> next.response])
             \/ /\ next.queue # <<>>
                /\ Continue(next)
    BY <2>3
  <2>5. PICK next : next = Absorb(q, m.valid, order)
    OBVIOUS
  <2>6. CASE next.queue = <<>>
    <3>1. PICK text : /\ Complete(text) /\ text.kind = "query"
      BY <2>4, <2>5, <2>6
    <3> QED
      BY <1>1, <2>1, <2>3, <3>1, OrderlyAnswer DEF Complete
  <2>7. CASE next.queue # <<>>
    <3>1. next \in QueryState(Names)
      <4>1. m.rels \in SUBSET Names /\ m.valid \in BOOLEAN
        BY <1>1, TakenHeld, Separate, MessageFields DEF InfoMessage
      <4>2. order \in Seq(Names) /\ (order # <<>> => Head(q.queue).left > 0)
        BY <2>2, <4>1, OrderType DEF WellFormed
      <4> QED
        BY <2>2, <2>5, <4>1, <4>2, AbsorbType
    <3>2. next # Nothing
      BY <3>1, NothingAssumption
    <3>3. Continue(next)
      BY <2>4, <2>5, <2>7
    <3> QED
      BY <1>1, <2>1, <2>3, <2>7, <3>1, <3>2, <3>3, OrderlyContinue
  <2> QED
    BY <2>6, <2>7
<1> QED
  BY <1>2, <1>3

-----------------------------------------------------------------------------
\* A repository goes on with what it does for a client.
LEMMA RepoOrderly ==
  ASSUME Settled, Orderly, QueryInv', Onward, NEW r \in Repos, NEW m,
         Held(r)' = m, \A p \in Procs \ {r} : Held(p)' = Held(p),
         \A x \in Repos \ {r} : job'[x] = job[x],
         m # Nothing => Trace(r, m.cli) /\ ~Lonely(m) /\ Sound(m)',
         job'[r] # Nothing => Trace(r, job'[r].cli) /\ SoundJob(r)',
         UNCHANGED <<up, masterVars, clientVars>>
  PROVE  Orderly'
<1>1. Acts(r, m) /\ r \in Procs
  BY Separate DEF Acts
<1>2. TableInUse' /\ \A c : Waits(c)' <=> Waits(c)
  BY DEF Orderly, TableInUse, Waits, masterVars, clientVars
<1>3. Repos \subseteq up' /\ \A c \in Clients : c \in up' => c \in up
  BY DEF Orderly
<1> QED
  BY <1>1, <1>2, <1>3, ActOrderly DEF masterVars

\* The command a repository works on.
LEMMA RepoReads ==
  ASSUME Settled, Orderly, NEW r \in Repos, NEW t \in Commands, Taken(r, t)
  PROVE  LET m == Msg(r)
             q == request[m.cli]
         IN
         /\ m \in Message /\ m.type = t /\ m.cli \in Clients /\ m.id \in Nat
         /\ m.body \in Request /\ m.body.op = t
         /\ t \in {"C", "D"} /\ m.id # 0 => m.body = q
         /\ t = "U" => m.body = q
         /\ t = "R" => q.op = "R"
         /\ t = "C" =>
              /\ q.op = "C" /\ r = HomeOf(m.body.name)
              /\ m.id # 0 => m.table = Attached
              /\ m.id = 0 => /\ m.table = <<>>
                             /\ m.body.name \in ToSet(q.rels)
                             /\ m.body.rels = <<q.name>>
                             /\ m.body.attr = FALSE
         /\ Trace(r, m.cli)
         /\ taken[r] # Nothing /\ r \in Procs
<1> DEFINE m == Msg(r)
<1>1. /\ m \in Message /\ m.type = t /\ m.to = r /\ m.cli \in Clients
      /\ m.id \in Nat /\ Sound(m) /\ Trace(r, m.cli)
  BY TakenHeld, Separate
<1>2. m.body \in Request /\ m.body.op = t
  BY <1>1, CommandFields DEF Commands
<1>3. FaithfulCommand(m) /\ m.to # Master
  BY <1>1, Separate DEF Sound
<1> QED
  BY <1>1, <1>2, <1>3, Separate DEF FaithfulCommand, Taken

LEMMA OrderlyRepoCreate ==
  ASSUME Settled, Orderly, QueryInv', NEW r \in Repos, RepoCreate(r)
  PROVE  Orderly'
<1>0. PICK m, b : m = Msg(r) /\ b = m.body
  OBVIOUS
<1>1. /\ Owned /\ Typed /\ r \in Procs /\ Taken(r, "C") /\ ~Fail(failures)
      /\ UNCHANGED <<masterVars, relations, clientVars>>
  BY Separate, NoFailure, SettledCluster DEF Orderly, QueryInv, Owned, RepoCreate
<1>2. /\ nodes \in [Repos -> SUBSET Names]
      /\ attributes \in [Repos -> SUBSET Names]
      /\ job \in [Repos -> Job \cup {Nothing}]
  BY <1>1 DEF Typed, TypeOK, StoreOK
<1>3. /\ StoreNode(r, b.name) /\ Reply(r, Nothing) /\ UNCHANGED up
      /\ attributes' = [attributes EXCEPT
                          ![r] = IF b.attr THEN @ \cup {b.name} ELSE @]
      /\ job' = [job EXCEPT ![r] =
                   [name |-> b.name, todo |-> b.rels, id |-> m.id,
                    table |-> m.table, from |-> From(r), cli |-> m.cli,
                    kind |-> IF b.name \in nodes[r] THEN "exists"
                                                     ELSE "stored"]]
  BY <1>0, <1>1 DEF RepoCreate
<1>4. Onward
  BY <1>1, <1>2, <1>3 DEF Onward, StoreNode, clientVars
<1>5. PICK q : q = request[m.cli]
  OBVIOUS
<1>6. /\ q.op = "C" /\ r = HomeOf(b.name) /\ Trace(r, m.cli)
      /\ m.id # 0 => b = q /\ m.table = Attached
      /\ m.id = 0 => /\ m.table = <<>> /\ b.name \in ToSet(q.rels)
                     /\ b.rels = <<q.name>>
  BY <1>0, <1>1, <1>5, RepoReads DEF Commands
<1>7. /\ job'[r].name = b.name /\ job'[r].todo = b.rels /\ job'[r].cli = m.cli
      /\ job'[r].id = m.id /\ job'[r].table = m.table
      /\ Confirms(job'[r].kind)
      /\ \A x \in Repos \ {r} : job'[x] = job[x]
  BY <1>2, <1>3 DEF Confirms
<1>8. b.name \in nodes'[r] /\ (b.attr => b.name \in attributes'[r])
  BY <1>2, <1>3 DEF StoreNode
<1>9. m.id = 0 => ToSet(b.rels) \subseteq {q.name}
  BY <1>6 DEF ToSet
<1>10. SoundJob(r)'
  BY <1>1, <1>5, <1>6, <1>7, <1>8, <1>9 DEF SoundJob, clientVars
<1>11. Held(r)' = Nothing /\ \A p \in Procs \ {r} : Held(p)' = Held(p)
  BY <1>1, <1>3, HeldAfterReply
<1> QED
  BY <1>1, <1>3, <1>4, <1>6, <1>7, <1>10, <1>11, RepoOrderly

\* The first of a list, and the others.
LEMMA FirstAndRest ==
  ASSUME NEW s \in Seq(Names), s # <<>>
  PROVE  /\ Head(s) \in Names /\ Tail(s) \in Seq(Names)
         /\ ToSet(s) = {Head(s)} \cup ToSet(Tail(s))
<1>1. /\ s[1] = Head(s) /\ ToSet(s) = {s[i] : i \in 1..Len(s)}
      /\ Head(s) \in Names /\ Tail(s) \in Seq(Names)
  BY DEF ToSet
<1>2. ASSUME NEW i \in 1..Len(s), i # 1 PROVE s[i] \in ToSet(Tail(s))
  <2>1. i - 1 \in DOMAIN Tail(s) /\ Tail(s)[i - 1] = s[i]
    BY <1>2
  <2> QED
    BY <2>1 DEF ToSet
<1>3. ASSUME NEW i \in DOMAIN Tail(s) PROVE Tail(s)[i] \in ToSet(s)
  <2>1. i + 1 \in 1..Len(s) /\ Tail(s)[i] = s[i + 1]
    BY <1>3
  <2> QED
    BY <1>1, <2>1
<1>4. Head(s) \in ToSet(s)
  <2>1. 1 \in 1..Len(s)
    OBVIOUS
  <2> QED
    BY <1>1, <2>1
<1>5. ToSet(Tail(s)) \subseteq ToSet(s)
  BY <1>3 DEF ToSet
<1> QED
  BY <1>1, <1>2, <1>4, <1>5

\* The handler of a create that has relations left.
LEMMA RepoWrites ==
  ASSUME Settled, Orderly, NEW r \in Repos, RepoRelation(r)
  PROVE  LET j == job[r]
             b == Head(j.todo)
             q == request[j.cli]
         IN
         /\ j \in Job /\ j # Nothing /\ j.todo \in Seq(Names) /\ j.todo # <<>>
         /\ j.cli \in Clients /\ b \in Names /\ Trace(r, j.cli)
         /\ Confirms(j.kind) /\ q.op = "C" /\ r = HomeOf(j.name)
         /\ q \in Request /\ b \in ToSet(j.todo)
         /\ IF j.id = 0 THEN /\ j.table = <<>> /\ j.name \in ToSet(q.rels)
                             /\ b = q.name
                        ELSE /\ j.table = Attached /\ j.name = q.name
                             /\ b \in ToSet(q.rels)
         /\ StoreNode(r, b)
         /\ relations' = [relations EXCEPT ![r] = @ \cup {<<j.name, b>>}]
         /\ job' = [job EXCEPT ![r].todo = Tail(@)]
         /\ sending' = [sending EXCEPT ![r] =
              IF j.table = <<>> THEN Nothing
              ELSE ParseNewNode(Route(j.table, b),
                                [op |-> "C", name |-> b, attr |-> FALSE,
                                 rels |-> <<j.name>>],
                                0, <<>>, j.cli)]
         /\ taken[r] = Nothing
         /\ UNCHANGED <<up, socketVars, masterVars, attributes, clientVars>>
<1>0. PICK j, b, q : j = job[r] /\ b = Head(j.todo) /\ q = request[j.cli]
  OBVIOUS
<1>1. /\ Typed /\ ~Fail(failures) /\ Solo
      /\ j # Nothing /\ j.todo # <<>>
      /\ UNCHANGED <<socketVars, masterVars, attributes, clientVars>>
  BY <1>0, NoFailure, SettledCluster DEF Orderly, QueryInv, Owned, RepoRelation
<1>2. /\ j \in Job /\ j.todo \in Seq(Names) /\ j.cli \in Clients
      /\ q # Nothing
  BY <1>0, <1>1, JobClient DEF Job
<1>3. b \in Names /\ b \in ToSet(j.todo)
  BY <1>0, <1>1, <1>2, FirstAndRest
<1>4. SoundJob(r) /\ q \in Request
  BY <1>0, <1>1, <1>2 DEF Orderly, Typed, TypeOK, ClientOK
<1>5. /\ Confirms(j.kind) /\ q.op = "C" /\ r = HomeOf(j.name)
      /\ IF j.id = 0 THEN /\ j.table = <<>> /\ j.name \in ToSet(q.rels)
                          /\ b = q.name
                     ELSE /\ j.table = Attached /\ j.name = q.name
                          /\ b \in ToSet(q.rels)
  BY <1>0, <1>1, <1>3, <1>4 DEF SoundJob
<1>6. /\ StoreNode(r, b) /\ UNCHANGED up
      /\ relations' = [relations EXCEPT ![r] = @ \cup {<<j.name, b>>}]
      /\ job' = [job EXCEPT ![r].todo = Tail(@)]
      /\ sending' = [sending EXCEPT ![r] =
           IF j.table = <<>> THEN Nothing
           ELSE ParseNewNode(Route(j.table, b),
                             [op |-> "C", name |-> b, attr |-> FALSE,
                              rels |-> <<j.name>>],
                             0, <<>>, j.cli)]
  BY <1>0, <1>1 DEF RepoRelation
<1>7. taken[r] = Nothing /\ Trace(r, j.cli)
  BY <1>0, <1>1 DEF Solo, Trace, Does
<1> QED
  BY <1>0, <1>1, <1>2, <1>3, <1>4, <1>5, <1>6, <1>7

LEMMA OrderlyRepoRelation ==
  ASSUME Settled, Orderly, QueryInv', NEW r \in Repos, RepoRelation(r)
  PROVE  Orderly'
<1>0. PICK j, b, q, m :
        /\ j = job[r] /\ b = Head(j.todo) /\ q = request[j.cli]
        /\ m = IF j.table = <<>> THEN Nothing
               ELSE ParseNewNode(Route(j.table, b),
                                 [op |-> "C", name |-> b, attr |-> FALSE,
                                  rels |-> <<j.name>>],
                                 0, <<>>, j.cli)
  OBVIOUS
<1>1. /\ j \in Job /\ j # Nothing /\ j.todo \in Seq(Names) /\ j.todo # <<>>
      /\ j.cli \in Clients /\ b \in Names /\ Trace(r, j.cli)
      /\ Confirms(j.kind) /\ q.op = "C" /\ r = HomeOf(j.name)
      /\ IF j.id = 0 THEN /\ j.table = <<>> /\ j.name \in ToSet(q.rels)
                          /\ b = q.name
                     ELSE /\ j.table = Attached /\ j.name = q.name
                          /\ b \in ToSet(q.rels)
      /\ taken[r] = Nothing
      /\ UNCHANGED <<up, socketVars, masterVars, attributes, clientVars>>
  BY <1>0, RepoWrites
<1>2. /\ StoreNode(r, b)
      /\ relations' = [relations EXCEPT ![r] = @ \cup {<<j.name, b>>}]
      /\ job' = [job EXCEPT ![r].todo = Tail(@)]
      /\ sending' = [sending EXCEPT ![r] = m]
  BY <1>0, RepoWrites
<1>3. /\ nodes \in [Repos -> SUBSET Names] /\ Owned
      /\ relations \in [Repos -> SUBSET (Names \X Names)]
      /\ job \in [Repos -> Job \cup {Nothing}]
  BY DEF Orderly, QueryInv, Owned, Typed, TypeOK, StoreOK
<1>4. Onward
  BY <1>1, <1>2, <1>3 DEF Onward, StoreNode, clientVars
<1>5. /\ job'[r].name = j.name /\ job'[r].todo = Tail(j.todo)
      /\ job'[r].id = j.id /\ job'[r].cli = j.cli /\ job'[r].kind = j.kind
      /\ job'[r].table = j.table
      /\ \A x \in Repos \ {r} : job'[x] = job[x]
  BY <1>0, <1>1, <1>2, <1>3 DEF Job
<1>6. ToSet(j.todo) = {b} \cup ToSet(Tail(j.todo))
  BY <1>0, <1>1, FirstAndRest
<1>7. SoundJob(r)'
  <2>1. SoundJob(r)
    BY <1>0, <1>1 DEF Orderly
  <2>2. /\ request'[j.cli] = q
        /\ j.id = 0 => ToSet(j.todo) \subseteq {q.name}
        /\ j.id # 0 => /\ ToSet(j.todo) \subseteq ToSet(q.rels)
                       /\ q.name \in nodes[r]
                       /\ q.attr => q.name \in attributes[r]
                       /\ \A n \in ToSet(q.rels) :
                            \/ n \in ToSet(j.todo)
                            \/ <<q.name, n>> \in relations[r]
    BY <1>0, <1>1, <2>1 DEF SoundJob, clientVars
  <2>3. j.id # 0 => /\ q.name \in nodes'[r]
                    /\ q.attr => q.name \in attributes'[r]
    BY <1>4, <2>2 DEF Onward
  <2>4. j.id # 0 => \A n \in ToSet(q.rels) :
                      \/ n \in ToSet(Tail(j.todo))
                      \/ <<q.name, n>> \in relations'[r]
    BY <1>1, <1>2, <1>3, <1>6, <2>2
  <2> QED
    BY <1>1, <1>5, <1>6, <2>2, <2>3, <2>4 DEF SoundJob
<1>8. ASSUME m # Nothing
      PROVE  Sound(m)' /\ ~Lonely(m) /\ Trace(r, m.cli)
  <2>1. j.table = Attached /\ j.table # <<>> /\ j.id # 0
    BY <1>0, <1>1, <1>8
  <2>2. PICK x : x = m
    OBVIOUS
  <2>3. /\ x.type = "C" /\ x.to = Route(j.table, b) /\ x.id = 0 /\ x.cli = j.cli
        /\ x.body.name = b /\ x.body.attr = FALSE /\ x.body.rels = <<j.name>>
        /\ x.table = <<>>
    BY <1>0, <1>8, <2>2 DEF ParseNewNode
  <2>4. x.to = HomeOf(b) /\ x.to \in Repos /\ x.to # Master
    BY <1>1, <2>1, <2>3, HomeOfRepo, Separate DEF HomeOf
  <2>5. FaithfulCommand(x)'
    BY <1>0, <1>1, <2>1, <2>3, <2>4 DEF FaithfulCommand, clientVars
  <2>6. Sound(x)' /\ ~Lonely(x)
    BY <2>3, <2>4, <2>5 DEF Sound, Raw, Final, Lonely, Refusal
  <2> QED
    BY <1>1, <2>2, <2>3, <2>6
<1>9. Held(r)' = m /\ \A p \in Procs \ {r} : Held(p)' = Held(p)
  BY <1>1, <1>2, <1>3, Separate, HeldAfterSend DEF socketVars
<1> QED
  BY <1>1, <1>4, <1>5, <1>7, <1>8, <1>9, RepoOrderly

LEMMA OrderlyRepoFinish ==
  ASSUME Settled, Orderly, QueryInv', NEW r \in Repos, RepoFinish(r)
  PROVE  Orderly'
<1>0. PICK j, q, m :
        /\ j = job[r] /\ q = request[j.cli]
        /\ m = IF j.id = 0 THEN Nothing
               ELSE ParseNewMessageResponse(Master, Say(j.kind), j.id, j.cli)
  OBVIOUS
<1>1. /\ sending' = [sending EXCEPT ![r] = m]
      /\ job' = [job EXCEPT ![r] = Nothing]
      /\ j # Nothing /\ j.todo = <<>>
      /\ UNCHANGED <<up, socketVars, masterVars, storeVars, clientVars>>
  BY <1>0 DEF RepoFinish
<1>2. /\ Owned /\ job \in [Repos -> Job \cup {Nothing}] /\ taken[r] = Nothing
  BY <1>0, <1>1 DEF Orderly, QueryInv, Owned, Typed, TypeOK, Solo
<1>3. Onward
  BY <1>1 DEF Onward, storeVars, clientVars
<1>4. j \in Job /\ j.cli \in Clients /\ q # Nothing /\ SoundJob(r)
      /\ Trace(r, j.cli)
  BY <1>0, <1>1, JobClient DEF Orderly, Trace, Does
<1>5. ASSUME m # Nothing
      PROVE  Sound(m)' /\ ~Lonely(m) /\ Trace(r, m.cli)
  <2>1. PICK x : x = m
    OBVIOUS
  <2>2. /\ x.type = "M" /\ x.to = Master /\ x.cli = j.cli
        /\ x.text.kind = j.kind /\ j.id # 0
    BY <1>0, <1>5, <2>1 DEF ParseNewMessageResponse, Say
  <2>3. \/ j.kind \in {"deleted", "cleared"} /\ q.op = "D"
        \/ /\ Confirms(j.kind) /\ q.op = "C" /\ r = HomeOf(q.name)
           /\ Holds(r, q)
    <3>1. ToSet(j.todo) = {}
      BY <1>1 DEF ToSet
    <3> QED
      BY <1>0, <1>4, <2>2, <3>1 DEF SoundJob, Holds
  <2>4. FaithfulText(x)'
    BY <1>0, <1>1, <2>2, <2>3
       DEF FaithfulText, KeptAtHome, Holds, storeVars, clientVars
  <2>5. Sound(x)'
    BY <2>2, <2>4, Separate DEF Sound, Raw, Final, Commands
  <2>6. ~Lonely(x)
    BY <2>2, <2>3 DEF Lonely, Raw, Refusal, Commands, Confirms
  <2> QED
    BY <1>4, <2>1, <2>2, <2>5, <2>6
<1>6. Held(r)' = m /\ \A p \in Procs \ {r} : Held(p)' = Held(p)
  BY <1>1, <1>2, Separate, HeldAfterSend DEF socketVars
<1>7. job'[r] = Nothing /\ \A x \in Repos \ {r} : job'[x] = job[x]
  BY <1>1, <1>2
<1> QED
  BY <1>1, <1>3, <1>5, <1>6, <1>7, RepoOrderly

\* A repository answers what it has read, or passes it on.
LEMMA OrderlyRepoReply ==
  ASSUME Settled, Orderly, QueryInv', NEW r \in Repos, NEW t, Taken(r, t),
         NEW m, Reply(r, m),
         m # Nothing => /\ Sound(m)' /\ m.cli = Msg(r).cli
                        /\ ~Raw(m) /\ ~Refusal(m),
         \A x \in Repos \ {r} : job'[x] = job[x],
         job'[r] # Nothing => job'[r].cli = Msg(r).cli /\ SoundJob(r)',
         UNCHANGED <<up, masterVars, storeVars, clientVars>>
  PROVE  Orderly'
<1>1. Trace(r, Msg(r).cli)
  BY TakenHeld, Separate
<1>2. Held(r)' = m /\ \A p \in Procs \ {r} : Held(p)' = Held(p)
  BY Separate, HeldAfterReply DEF Orderly, QueryInv
<1>3. Onward
  BY DEF Onward, storeVars, clientVars
<1> QED
  BY <1>1, <1>2, <1>3, RepoOrderly DEF Lonely

LEMMA OrderlyRepoQuery ==
  ASSUME Settled, Orderly, QueryInv', NEW r \in Repos, RepoQuery(r)
  PROVE  Orderly'
<1>1. PICK report : /\ Reply(r, report) /\ report.type = "I"
                    /\ report.cli = Msg(r).cli
  BY DEF RepoQuery, ParseNewInfoResponse
<1>2. /\ Taken(r, "R")
      /\ UNCHANGED <<up, job, masterVars, storeVars, clientVars>>
  BY DEF RepoQuery
<1>3. PICK c : c = Msg(r).cli
  OBVIOUS
<1>4. request'[c].op = "R"
  BY <1>2, <1>3, RepoReads DEF Commands, clientVars
<1>5. Sound(report)' /\ ~Raw(report) /\ ~Refusal(report)
  BY <1>1, <1>3, <1>4 DEF Sound, Raw, Final, Refusal, Commands
<1>6. Orderly /\ job'[r] = job[r] /\ taken[r] # Nothing
  BY <1>2 DEF Taken
<1>7. job'[r] = Nothing
  BY <1>6 DEF Orderly, QueryInv, Solo
<1> QED
  BY <1>1, <1>2, <1>5, <1>7, OrderlyRepoReply

LEMMA OrderlyRepoUpdate ==
  ASSUME Settled, Orderly, QueryInv', NEW r \in Repos, RepoUpdate(r)
  PROVE  Orderly'
<1>1. PICK text : /\ Reply(r, text) /\ text.type = "M" /\ text.to = Master
                  /\ text.cli = Msg(r).cli /\ text.text.kind = "updated"
  BY DEF RepoUpdate, ParseNewMessageResponse, Say
<1>2. /\ Taken(r, "U")
      /\ UNCHANGED <<up, job, masterVars, storeVars, clientVars>>
  BY DEF RepoUpdate
<1>3. PICK c : c = Msg(r).cli
  OBVIOUS
<1>4. request'[c].op = "U"
  BY <1>2, <1>3, RepoReads DEF Commands, clientVars
<1>5. FaithfulText(text)'
  BY <1>1, <1>3, <1>4 DEF FaithfulText
<1>6. Sound(text)' /\ ~Raw(text) /\ ~Refusal(text)
  BY <1>1, <1>5, Separate DEF Sound, Raw, Final, Refusal, Commands
<1>7. job'[r] = Nothing
  BY <1>2 DEF Orderly, QueryInv, Solo, Taken
<1> QED
  BY <1>1, <1>2, <1>6, <1>7, OrderlyRepoReply

LEMMA OrderlyRepoDelete ==
  ASSUME Settled, Orderly, QueryInv', NEW r \in Repos, RepoDelete(r)
  PROVE  Orderly'
<1>0. PICK m, b, q : m = Msg(r) /\ b = m.body /\ q = request[m.cli]
  OBVIOUS
<1>1. /\ Taken(r, "D")
      /\ UNCHANGED <<up, masterVars, storeVars, clientVars>>
      /\ job \in [Repos -> Job \cup {Nothing}]
  BY DEF RepoDelete, Orderly, QueryInv, Owned, Typed, TypeOK
<1>2. /\ m \in Message /\ m.type = "D" /\ b \in Request /\ b.op = "D"
      /\ m.id # 0 => b = q
  BY <1>0, <1>1, RepoReads DEF Commands
<1>3. m.table \in Seq(Repos) /\ b.rel \in Names
  BY <1>0, <1>2, CommandFields, RequestFields DEF DeleteRequest
<1>4. PICK passed :
        /\ Reply(r, passed)
        /\ passed # Nothing =>
             /\ passed.type = "D" /\ passed.id = 0 /\ passed.cli = m.cli
             /\ m.table # <<>> /\ passed.to = Route(m.table, b.rel)
  BY <1>0 DEF RepoDelete, ParseNewDelete
<1>5. ASSUME passed # Nothing
      PROVE  Sound(passed)' /\ ~Raw(passed) /\ ~Refusal(passed)
  <2>1. passed.to # Master
    BY <1>3, <1>4, <1>5, RouteType, Separate
  <2> QED
    BY <1>4, <1>5, <2>1
       DEF Sound, FaithfulCommand, Raw, Final, Refusal
<1>6. /\ job'[r].todo = <<>> /\ job'[r].id = m.id /\ job'[r].cli = m.cli
      /\ job'[r].kind \in {"deleted", "cleared"}
      /\ \A x \in Repos \ {r} : job'[x] = job[x]
  BY <1>0, <1>1 DEF RepoDelete
<1>7. SoundJob(r)'
  BY <1>0, <1>1, <1>2, <1>6 DEF SoundJob, clientVars
<1> QED
  BY <1>0, <1>1, <1>4, <1>5, <1>6, <1>7, OrderlyRepoReply

LEMMA OrderlyRepo ==
  ASSUME Settled, Orderly, QueryInv', NEW r \in Repos, RepoStep(r)
  PROVE  Orderly'
<1>1. ~RepoMessage(r)
  <2> SUFFICES ASSUME Taken(r, "M") PROVE FALSE
    BY DEF RepoMessage
  <2> QED
    BY TakenHeld, Separate DEF Sound
<1> QED
  BY <1>1, OrderlyRepoCreate, OrderlyRepoRelation, OrderlyRepoFinish,
     OrderlyRepoQuery, OrderlyRepoUpdate, OrderlyRepoDelete DEF RepoStep

-----------------------------------------------------------------------------
\* A client starts: there is nothing of it but its request.
LEMMA InvokeActs ==
  ASSUME Orderly, NEW c \in Clients, Invoke(c)
  PROVE  \E r \in Request :
           /\ request' = [request EXCEPT ![c] = r]
           /\ Held(c)' = ClientCommand(r, c)
           /\ \A p \in Procs \ {c} : Held(p)' = Held(p)
           /\ request[c] = Nothing /\ answer[c] = Nothing
           /\ \A p \in Procs : ~Trace(p, c)
           /\ up' = up \cup {c}
           /\ UNCHANGED <<job, masterVars, storeVars, answer>>
<1>1. PICK r \in Requests :
        /\ request' = [request EXCEPT ![c] = r]
        /\ sending' = [sending EXCEPT ![c] = ClientCommand(r, c)]
  BY DEF Invoke
<1>2. r \in Request /\ request[c] = Nothing
  BY ClusterAssumption DEF Invoke
<1>3. answer[c] = Nothing /\ \A p \in Procs : ~Trace(p, c)
  BY <1>2 DEF Orderly, Traces
<1>4. taken[c] = Nothing /\ c \in Procs /\ UNCHANGED taken
  BY <1>2, Separate DEF Orderly, QueryInv, Solo, Invoke, socketVars
<1>5. /\ Held(c)' = ClientCommand(r, c)
      /\ \A p \in Procs \ {c} : Held(p)' = Held(p)
  BY <1>1, <1>4, HeldAfterSend DEF Orderly, QueryInv
<1> QED
  BY <1>1, <1>2, <1>3, <1>5 DEF Invoke

\* What a client sends.
LEMMA CommandOf ==
  ASSUME NEW r \in Request, NEW c
  PROVE  LET m == ClientCommand(r, c) IN
         /\ m.type = r.op /\ m.to = Master /\ m.cli = c /\ m.body = r
         /\ m.type \in Commands
<1>1. r.op \in {"C", "R", "U", "D"}
  BY RequestFields
<1> QED
  BY <1>1 DEF ClientCommand, ParseNewNode, ParseNewQuery, ParseNewUpdate,
              ParseNewDelete, Commands

LEMMA OrderlyInvoke ==
  ASSUME Settled, Orderly, QueryInv', NEW c \in Clients, Invoke(c)
  PROVE  Orderly'
<1>1. PICK r \in Request :
        /\ request' = [request EXCEPT ![c] = r]
        /\ Held(c)' = ClientCommand(r, c)
        /\ \A p \in Procs \ {c} : Held(p)' = Held(p)
        /\ request[c] = Nothing /\ answer[c] = Nothing
        /\ \A p \in Procs : ~Trace(p, c)
        /\ up' = up \cup {c}
        /\ UNCHANGED <<job, masterVars, storeVars, answer>>
  BY InvokeActs
<1>2. PICK m : m = ClientCommand(r, c)
  OBVIOUS
<1>3. /\ m.type = r.op /\ m.to = Master /\ m.cli = c /\ m.body = r
      /\ m.type \in Commands
  BY <1>2, CommandOf
<1>4. /\ request'[c] = r /\ r # Nothing /\ c \in Procs /\ c \notin Repos
      /\ \A d \in Clients \ {c} : request'[d] = request[d]
      /\ Typed
  BY <1>1, Separate, NothingAssumption
     DEF Orderly, QueryInv, Owned, Typed, TypeOK, ClientOK
<1>5. Onward
  BY <1>1, <1>4 DEF Onward, storeVars
<1>6. ASSUME NEW p \in Procs, NEW d PROVE Does(p, d)' <=> Does(p, d)
  BY <1>1 DEF Does
<1>7. ASSUME NEW p \in Procs, NEW d, d # c PROVE Trace(p, d)' <=> Trace(p, d)
  <2>1. CASE p = c
    <3>1. ~Carries(c, d)'
      BY <1>1, <1>2, <1>3, <1>7 DEF Carries
    <3>2. ~Carries(c, d)
      <4>1. taken[c] = Nothing /\ sending[c] = Nothing
        BY <1>1, <1>4 DEF Orderly, QueryInv, Solo
      <4> QED
        BY <4>1 DEF Carries, Held
    <3> QED
      BY <1>6, <2>1, <3>1, <3>2 DEF Trace
  <2>2. CASE p # c
    BY <1>1, <1>6, <2>2 DEF Trace, Carries
  <2> QED
    BY <2>1, <2>2
<1>8. ASSUME NEW p \in Procs, Trace(p, c)' PROVE p = c
  BY <1>1, <1>6, <1>8 DEF Trace, Carries
<1>9. ASSUME NEW p \in Procs, Held(p)' # Nothing, Lonely(Held(p))'
      PROVE  Alone(p)'
  <2>1. CASE p = c
    <3>1. Held(p).cli' = c
      BY <1>1, <1>2, <1>3, <2>1
    <3>2. ~Does(p, c)'
      BY <1>4, <2>1 DEF Does
    <3> QED
      BY <1>1, <1>4, <1>8, <2>1, <3>1, <3>2 DEF Alone
  <2>2. CASE p # c
    <3>1. PICK h : h = Held(p)
      OBVIOUS
    <3>2. Held(p)' = h /\ h # Nothing /\ Lonely(h)
      BY <1>1, <1>9, <2>2, <3>1 DEF Lonely, Raw, Refusal
    <3>3. h.cli \in Clients /\ h.cli # c /\ Alone(p)
      <4>1. h.cli \in Clients
        BY <3>1, <3>2, HeldClient
      <4>2. Trace(p, h.cli)
        BY <3>1, <3>2 DEF Trace, Carries
      <4> QED
        BY <1>1, <3>1, <3>2, <4>1, <4>2 DEF Orderly, Traces
    <3> QED
      BY <1>1, <1>4, <1>6, <1>7, <3>1, <3>2, <3>3 DEF Alone
  <2> QED
    BY <2>1, <2>2
<1>10. Traces'
  <2>1. ASSUME NEW d \in Clients, request'[d] = Nothing
        PROVE  answer'[d] = Nothing /\ \A p \in Procs : ~Trace(p, d)'
    <3>1. d # c /\ request[d] = Nothing
      BY <1>4, <2>1
    <3> QED
      BY <1>1, <1>7, <3>1 DEF Orderly, Traces
  <2>2. ASSUME NEW d \in Clients, answer'[d] # Nothing
        PROVE  /\ d \notin up'
               /\ answer'[d].kind = "busy" => \A p \in Procs : ~Trace(p, d)'
    <3>1. d # c /\ answer[d] # Nothing
      BY <1>1, <2>2
    <3> QED
      BY <1>1, <1>7, <3>1 DEF Orderly, Traces
  <2> QED
    BY <1>9, <2>1, <2>2 DEF Traces
<1>11. TableInUse' /\ ~Waits(c)' /\ \A d : Waits(d)' => Waits(d)
  BY <1>1, <1>4 DEF Orderly, TableInUse, Waits, masterVars
<1>12. ASSUME NEW p \in Procs, Held(p)' # Nothing PROVE Sound(Held(p))'
  <2>1. CASE p = c
    <3>1. FaithfulCommand(m)'
      BY <1>3, <1>4 DEF FaithfulCommand
    <3>2. Sound(m)'
      BY <1>3, <1>11, <3>1 DEF Sound, Commands
    <3> QED
      BY <1>1, <1>2, <2>1, <3>2
  <2>2. CASE p # c
    <3>1. PICK h : h = Held(p)
      OBVIOUS
    <3>2. Held(p)' = h /\ h # Nothing
      BY <1>1, <1>12, <2>2, <3>1
    <3>3. /\ h \in Message /\ h.cli \in Clients /\ request[h.cli] # Nothing
          /\ Sound(h)
      BY <3>1, <3>2, HeldClient DEF Orderly
    <3>4. Sound(h)'
      BY <1>4, <1>5, <1>11, <3>3, SoundStays
    <3> QED
      BY <3>2, <3>4
  <2> QED
    BY <2>1, <2>2
<1>13. ASSUME NEW r2 \in Repos, job'[r2] # Nothing PROVE SoundJob(r2)'
  BY <1>1, <1>5, <1>13, JobClient, JobStays DEF Orderly
<1> QED
  BY <1>1, <1>10, <1>11, <1>12, <1>13 DEF Orderly, masterVars

\* A client that prints its answer ends, and nothing else changes.
LEMMA WaitResponseActs ==
  ASSUME Orderly, NEW c \in Clients, WaitResponse(c)
  PROVE  LET m == Msg(c) IN
         /\ Held(c) = m /\ m \in Message /\ m.type = "M" /\ m.cli = c
         /\ Sound(m) /\ Final(m) /\ ~Waits(c)
         /\ request[c] # Nothing
         /\ answer' = [answer EXCEPT ![c] = m.text]
         /\ Held(c)' = Nothing
         /\ \A p \in Procs \ {c} : Held(p)' = Held(p)
         /\ up' = up \ {c}
         /\ UNCHANGED <<job, masterVars, storeVars, request>>
<1>1. /\ Taken(c, "M") /\ c \in Procs /\ c # Master
      /\ answer' = [answer EXCEPT ![c] = Msg(c).text]
      /\ Reply(c, Nothing) /\ up' = up \ {c}
      /\ UNCHANGED <<job, masterVars, storeVars, request>>
  BY Separate DEF WaitResponse, Exit
<1>2. PICK m : m = Msg(c)
  OBVIOUS
<1>3. /\ Held(c) = m /\ m \in Message /\ m.type = "M" /\ m.to = c /\ Sound(m)
      /\ request[m.cli] # Nothing
      /\ Good(From(c), m, pending, current_request)
  BY <1>1, <1>2, TakenHeld
<1>4. m.cli = c /\ Final(m)
  BY <1>1, <1>3 DEF Good, Final
<1>5. ~Waits(c)
  BY <1>3, <1>4 DEF Sound
<1>6. Held(c)' = Nothing /\ \A p \in Procs \ {c} : Held(p)' = Held(p)
  BY <1>1, HeldAfterReply DEF Orderly, QueryInv
<1> QED
  BY <1>1, <1>2, <1>3, <1>4, <1>5, <1>6

LEMMA OrderlyWaitResponse ==
  ASSUME Settled, Orderly, QueryInv', NEW c \in Clients, WaitResponse(c)
  PROVE  Orderly'
<1>1. PICK m : m = Msg(c)
  OBVIOUS
<1>2. /\ Held(c) = m /\ m \in Message /\ m.type = "M" /\ m.cli = c
      /\ Sound(m) /\ Final(m) /\ ~Waits(c)
      /\ request[c] # Nothing
      /\ answer' = [answer EXCEPT ![c] = m.text]
      /\ Held(c)' = Nothing
      /\ \A p \in Procs \ {c} : Held(p)' = Held(p)
      /\ up' = up \ {c}
      /\ UNCHANGED <<job, masterVars, storeVars, request>>
  BY <1>1, WaitResponseActs
<1>3. /\ m # Nothing /\ c \in Procs /\ c \notin Repos /\ Typed
      /\ answer'[c] = m.text
      /\ \A d \in Clients \ {c} : answer'[d] = answer[d]
  BY <1>2, Separate, NothingAssumption
     DEF Orderly, QueryInv, Owned, Typed, TypeOK, ClientOK
<1>4. Onward
  BY <1>2 DEF Onward, storeVars
<1>5. ASSUME NEW p \in Procs, NEW d, Trace(p, d)'
      PROVE  Trace(p, d) /\ (p = c => Does(p, d))
  BY <1>2, <1>5 DEF Trace, Carries, Does
<1>6. Trace(c, c) /\ \A d : ~Does(c, d)
  BY <1>2, <1>3 DEF Trace, Carries, Does
<1>7. ASSUME NEW p \in Procs, Held(p)' # Nothing, Lonely(Held(p))'
      PROVE  Alone(p)'
  <2>1. PICK h : h = Held(p)
    OBVIOUS
  <2>2. p # c /\ Held(p)' = h /\ h # Nothing /\ Lonely(h)
    BY <1>2, <1>7, <2>1 DEF Lonely, Raw, Refusal
  <2>3. Alone(p) /\ h.cli \in Clients
    BY <2>1, <2>2, HeldClient DEF Orderly, Traces
  <2>4. h.cli # c
    BY <1>3, <1>6, <2>1, <2>2, <2>3 DEF Alone
  <2> QED
    BY <1>2, <1>3, <1>5, <2>1, <2>2, <2>3, <2>4 DEF Alone, Does
<1>8. ASSUME NEW d \in Clients, answer'[d] # Nothing
      PROVE  /\ d \notin up'
             /\ answer'[d].kind = "busy" => \A p \in Procs : ~Trace(p, d)'
  <2>1. CASE d = c
    <3>1. ASSUME m.text.kind = "busy", NEW p \in Procs, Trace(p, c)'
          PROVE  FALSE
      <4>1. Lonely(m)
        BY <1>2, <3>1 DEF Lonely, Refusal
      <4>2. Alone(c)
        BY <1>2, <1>3, <4>1 DEF Orderly, Traces
      <4>3. Trace(p, c) /\ (p = c => Does(c, c))
        BY <1>5, <3>1
      <4> QED
        BY <1>2, <1>6, <4>2, <4>3 DEF Alone
    <3> QED
      BY <1>2, <1>3, <2>1, <3>1
  <2>2. CASE d # c
    BY <1>2, <1>3, <1>5, <1>8, <2>2 DEF Orderly, Traces
  <2> QED
    BY <2>1, <2>2
<1>9. Traces'
  <2>1. ASSUME NEW d \in Clients, request'[d] = Nothing
        PROVE  answer'[d] = Nothing /\ \A p \in Procs : ~Trace(p, d)'
    <3>1. d # c /\ request[d] = Nothing
      BY <1>2, <2>1
    <3> QED
      BY <1>3, <1>5, <3>1 DEF Orderly, Traces
  <2> QED
    BY <1>7, <1>8, <2>1 DEF Traces
<1>10. TableInUse' /\ \A d : Waits(d)' => Waits(d)
  BY <1>2, <1>3 DEF Orderly, TableInUse, Waits, masterVars
<1>11. ASSUME NEW p \in Procs, Held(p)' # Nothing PROVE Sound(Held(p))'
  <2>1. PICK h : h = Held(p)
    OBVIOUS
  <2>2. Held(p)' = h /\ h # Nothing
    BY <1>2, <1>11, <2>1
  <2>3. /\ h \in Message /\ h.cli \in Clients /\ request[h.cli] # Nothing
        /\ Sound(h)
    BY <2>1, <2>2, HeldClient DEF Orderly
  <2>4. Sound(h)'
    BY <1>3, <1>4, <1>10, <2>3, SoundStays
  <2> QED
    BY <2>2, <2>4
<1>12. ASSUME NEW r \in Repos, job'[r] # Nothing PROVE SoundJob(r)'
  BY <1>2, <1>4, <1>12, JobClient, JobStays DEF Orderly
<1>13. repositories' = Attached /\ Repos \subseteq up'
  BY <1>2, <1>3 DEF Orderly, masterVars
<1> QED
  BY <1>9, <1>10, <1>11, <1>12, <1>13 DEF Orderly

LEMMA OrderlyInit == ASSUME Settled, Init PROVE Orderly
<1>1. /\ sending = [p \in Procs |-> Nothing] /\ taken = [p \in Procs |-> Nothing]
      /\ job = [r \in Repos |-> Nothing] /\ up = {Master} \cup ToSet(Attached)
      /\ repositories = Attached /\ pending = NoPending
      /\ answer = [c \in Clients |-> Nothing]
  BY DEF Init
<1>2. QueryInv
  BY QueryInvInit
<1>3. /\ \A p \in Procs : Held(p) = Nothing
      /\ \A r \in Repos : job[r] = Nothing
  BY <1>1 DEF Held
<1>4. \A p \in Procs : \A c : ~Trace(p, c)
  BY <1>3 DEF Trace, Carries, Does
<1>5. Traces
  BY <1>1, <1>3, <1>4 DEF Traces
<1>6. TableInUse
  BY <1>1 DEF TableInUse, NoPending
<1> QED
  BY <1>1, <1>2, <1>3, <1>5, <1>6 DEF Orderly, Settled

LEMMA OrderlyStep ==
  ASSUME Settled, Orderly, [Next]_vars
  PROVE  Orderly'
<1>1. QueryInv'
  BY SettledCluster, QueryInvStep DEF Orderly
<1>2. \A r \in Repos : ~SetRepository(r)
  BY DEF Orderly, SetRepository
<1>3. ~SetServer
  BY SettledCluster DEF SetServer
<1>4. ~MasterEnrol
  <2> SUFFICES ASSUME Taken(Master, "E") PROVE FALSE
    BY DEF MasterEnrol
  <2> QED
    BY TakenHeld, Separate DEF Sound
<1>5. MasterStep => Orderly'
  BY <1>1, <1>4, OrderlyMasterCommands, OrderlyMasterMessage, OrderlyMasterInfo
     DEF MasterStep
<1>6. \A r \in Repos : RepoStep(r) => Orderly'
  BY <1>1, OrderlyRepo
<1>7. \A c \in Clients : Invoke(c) \/ WaitResponse(c) => Orderly'
  BY <1>1, OrderlyInvoke, OrderlyWaitResponse
<1>8. (\E s, d \in Procs : Moves(s, d)) => Orderly'
  BY <1>1, OrderlyTransport
<1> QED
  BY <1>1, <1>2, <1>3, <1>5, <1>6, <1>7, <1>8, TransportMoves DEF Next, Work

(***************************************************************************)
(* OrderlyAlways: once the cluster is set up, every message and handler    *)
(* does what its client asked, at the home of the names, until the client  *)
(* is answered or refused.                                                 *)
(***************************************************************************)
THEOREM OrderlyAlways ==
  ASSUME Settled
  PROVE  Spec => []Orderly
<1>1. Init => Orderly
  BY OrderlyInit
<1>2. Orderly /\ [Next]_vars => Orderly'
  BY OrderlyStep
<1> QED
  BY <1>1, <1>2, PTL DEF Spec

=============================================================================
