------------------------------- MODULE Cluster -------------------------------
(***************************************************************************)
(* The graph database at the level of its messages: one main server, the   *)
(* repositories that hold the graph, and the command-line clients.  Every  *)
(* process runs one thread: it reads one message in RecvFrom, runs the     *)
(* handler of that message to its end in runConnection, and reads the next *)
(* one.  A handler blocks in SendTo until the destination, itself back in  *)
(* RecvFrom, has acknowledged the message; so the message a process is     *)
(* blocked on is all there is under way from it.                           *)
(*                                                                         *)
(* Three habits of the transport show at this level and are modelled:      *)
(*   - RecvFrom ends at once only after a packet of fewer than ten bytes;  *)
(*     after any other last packet it lingers until nothing has come for a *)
(*     second or such a packet has, and acknowledges without delivering it *)
(*     whatever another SendTo sends meanwhile (Overrun);                  *)
(*   - a sender takes any datagram that reaches its socket for the         *)
(*     acknowledgement, so processes that send to each other in a circle - *)
(*     a process that sends to itself is the smallest circle - release     *)
(*     each other and their messages are never read (FalseAcks);           *)
(*   - a message of one packet of fewer than ten bytes, as registrations   *)
(*     are, is read once for every copy that was sent (MasterEnrol).       *)
(* Left out are messages cut or mixed on the way (RDT shows when), the     *)
(* release of a sender by a stray acknowledgement, and the fixed widths of *)
(* the fields.  Operators named Faulty... are plausible bugs; nothing uses *)
(* them here, the runs are shown to find them when they stand in for the   *)
(* operator that follows them.                                             *)
(***************************************************************************)
EXTENDS Integers, Sequences, FiniteSets, Traversal

CONSTANTS
  Master,        \* the main server
  Repos,         \* the repositories
  Clients,       \* command-line invocations, each with one request
  Names,         \* node names
  Hash,          \* Hash[n]: the first character of the name n
  Requests,      \* the requests a client may make
  Attached,      \* the repositories registered at the start, in order
  Short,         \* the types of messages whose last packet may have fewer
                 \*   than ten bytes, where it is not fixed by the text
  Stores,        \* the contents the repositories' files may start with
  MaxActive,     \* bound: clients running at the same time
  Mortal,        \* the processes that may be killed; the main server is
                 \*   started again only if it is one of them
  MaxCrashes,    \* bound: deaths of processes
  MaxCopies,     \* bound: copies of a registration that are read
  MaxFailures,   \* bound: storage operations that throw
  Nothing        \* no message, no job, no query state, no request, no answer

Procs == {Master} \cup Repos \cup Clients

-----------------------------------------------------------------------------
(***************************************************************************)
(* Requests, as setNode, setQuery, setUpdate and setDelete build them from *)
(* the command line.  The attributes of a create are one flag (it carries  *)
(* a row the query conditions look for, or not), the conditions of a query *)
(* are one flag (it asks for that row, or for nothing).                    *)
(***************************************************************************)
CreateRequest == [op : {"C"}, name : Names, rels : Seq(Names), attr : BOOLEAN]
QueryRequest  == [op : {"R"}, name : Names, depth : Nat, leaf : BOOLEAN,
                  cond : BOOLEAN]
UpdateRequest == [op : {"U"}, name : Names]
DeleteRequest == [op : {"D"}, name : Names, object : 0..2, rel : Names]
Request == CreateRequest \cup QueryRequest \cup UpdateRequest \cup DeleteRequest

\* What the initial files hold: per repository, the three tables.
Tables == [nodes      : [Repos -> SUBSET Names],
           relations  : [Repos -> SUBSET (Names \X Names)],
           attributes : [Repos -> SUBSET Names]]

ASSUME ClusterAssumption ==
  /\ Master \notin Repos \cup Clients
  /\ Repos \cap Clients = {}
  /\ IsFiniteSet(Names)
  /\ Hash \in [Names -> Nat]
  /\ Requests \subseteq Request
  /\ Attached \in Seq(Repos)
  /\ Stores \subseteq Tables
  /\ Mortal \subseteq Procs
  /\ MaxActive \in Nat /\ MaxCrashes \in Nat /\ MaxFailures \in Nat
  /\ MaxCopies \in Nat

-----------------------------------------------------------------------------
VARIABLES
  up,              \* the processes that run
  sending,         \* the message each process is blocked on in SendTo
  taken,           \* the message each process has read, and its sender
  lingering,       \* the processes that have a message and still read
  ahead,           \* those whose last second ends before that of a process
  job,             \* what is left of a repository's current handler
  repositories,    \* master: the registered repositories, from index 1 on
  current_request, \* master: the next request number
  pending,         \* master: request number -> client and query state
  cud_blocking,    \* master: creates, updates and deletes are refused
  nodes,           \* repository files: the tables Nodes,
  relations,       \*   Relations
  attributes,      \*   and Attributes
  request,         \* the request of each client
  answer,          \* the text each client printed
  crashes,         \* deaths of processes so far
  failures         \* storage operations that threw so far

socketVars == <<taken, lingering, ahead>>
procVars   == <<up, sending, socketVars, job>>
masterVars == <<repositories, current_request, pending, cud_blocking>>
storeVars  == <<nodes, relations, attributes>>
clientVars == <<request, answer>>
faultVars  == <<crashes, failures>>
vars == <<procVars, masterVars, storeVars, clientVars, faultVars>>

-----------------------------------------------------------------------------
(***************************************************************************)
(* Messages.  The field cli is a history field: the client on whose behalf *)
(* the message is sent.  No action reads it except to copy it.             *)
(*                                                                         *)
(* Most texts are constants.  With the seven bytes around them, some have  *)
(* ten bytes and more in their last packet, some fewer (that of a deleted  *)
(* attribute, 41 bytes, has one); a list and what an exception says may    *)
(* have any length.                                                        *)
(***************************************************************************)
LongTexts  == {"stored", "exists", "updated", "deleted"}
BriefTexts == {"cleared", "busy", "detached", "internal"}
Kinds == LongTexts \cup BriefTexts \cup {"query", "failed"}
Text  == [kind : Kinds, found : Seq(Listed(Names))]

CommandMessage ==
  {msg \in [type : {"C", "R", "U", "D"}, to : Procs, id : Nat, cli : Clients,
            body : Request, table : Seq(Repos)] : msg.type = msg.body.op}
InfoMessage ==
  [type : {"I"}, to : Procs, id : Nat, cli : Clients,
   name : Names, rels : SUBSET Names, valid : BOOLEAN]
TextMessage ==
  [type : {"M"}, to : Procs, id : Nat, cli : Clients, text : Text]
EnrolMessage == [type : {"E"}, to : Procs]
Message == CommandMessage \cup InfoMessage \cup TextMessage \cup EnrolMessage

\* What is left of a repository's handler that has more than one message to
\* send.
Job == [name : Names, todo : Seq(Names), id : Nat, table : Seq(Repos),
        from : Procs, kind : Kinds, cli : Clients]

\* A query state is told from the null pointer of a create, a client that
\* was started from one that was not, a message, one that was read or a
\* handler from none.
ASSUME NothingAssumption ==
  Nothing \notin QueryState(Names) \cup Request \cup Message \cup Job
                   \cup [from : Procs, msg : Message]

ParseNewNode(host, body, id, table, cli) ==
  [type |-> "C", to |-> host, id |-> id, cli |-> cli, body |-> body,
   table |-> table]

ParseNewQuery(host, body, id, cli) ==
  [type |-> "R", to |-> host, id |-> id, cli |-> cli, body |-> body,
   table |-> <<>>]

ParseNewUpdate(host, body, id, cli) ==
  [type |-> "U", to |-> host, id |-> id, cli |-> cli, body |-> body,
   table |-> <<>>]

ParseNewDelete(host, body, id, table, cli) ==
  [type |-> "D", to |-> host, id |-> id, cli |-> cli, body |-> body,
   table |-> table]

ParseNewInfoResponse(name, host, rels, id, valid, cli) ==
  [type |-> "I", to |-> host, id |-> id, cli |-> cli, name |-> name,
   rels |-> rels, valid |-> valid]

ParseNewMessageResponse(host, text, id, cli) ==
  [type |-> "M", to |-> host, id |-> id, cli |-> cli, text |-> text]

RegisterRepository == [type |-> "E", to |-> Master]

Say(kind) == [kind |-> kind, found |-> <<>>]

\* The repository a name belongs to, in a table of registered repositories.
Route(table, name) == table[(Hash[name] % Len(table)) + 1]

-----------------------------------------------------------------------------
NoPending == [i \in {} |-> Nothing]

Init ==
  /\ up = {Master} \cup ToSet(Attached)
  /\ sending = [p \in Procs |-> Nothing]
  /\ taken = [p \in Procs |-> Nothing]
  /\ lingering = {}
  /\ ahead = [p \in Procs |-> {}]
  /\ job = [r \in Repos |-> Nothing]
  /\ repositories = Attached
  /\ current_request = 1
  /\ pending = NoPending
  /\ cud_blocking = FALSE
  /\ \E s \in Stores : /\ nodes = s.nodes
                       /\ relations = s.relations
                       /\ attributes = s.attributes
  /\ request = [c \in Clients |-> Nothing]
  /\ answer = [c \in Clients |-> Nothing]
  /\ crashes = 0
  /\ failures = 0

-----------------------------------------------------------------------------
(***************************************************************************)
(* The transport.                                                          *)
(***************************************************************************)

\* Process p is in RecvFrom and has read nothing yet.
Listening(p) ==
  /\ p \in up
  /\ sending[p] = Nothing
  /\ taken[p] = Nothing
  /\ p \in Repos => job[p] = Nothing

\* Whether RecvFrom lingers after the message m, or goes on lingering when
\* the packets of m come.
Lingers(m) ==
  LET Says(kinds) == m.type = "M" /\ m.text.kind \in kinds IN
  IF m.type = "E" \/ Says(BriefTexts) THEN {FALSE}
  ELSE IF m.type \in Short /\ ~Says(LongTexts) THEN BOOLEAN
  ELSE {TRUE}

\* d has read the message s is blocked on; s is released.
Receive(s, d) ==
  /\ s \in up
  /\ sending[s] # Nothing
  /\ sending[s].to = d
  /\ Listening(d)
  /\ sending' = [sending EXCEPT ![s] = Nothing]
  /\ taken' = [taken EXCEPT ![d] = [from |-> s, msg |-> sending[s]]]
  /\ \/ /\ TRUE \in Lingers(sending[s])
        /\ lingering' = lingering \cup {d}
        /\ ahead' = [ahead EXCEPT ![d] = lingering]
     \/ /\ FALSE \in Lingers(sending[s])
        /\ UNCHANGED <<lingering, ahead>>
  /\ UNCHANGED <<up, job, masterVars, storeVars, clientVars, faultVars>>

\* d stops lingering.
StopsLingering(d) ==
  /\ lingering' = lingering \ {d}
  /\ ahead' = [p \in Procs |-> IF p = d THEN {} ELSE ahead[p] \ {d}]

(***************************************************************************)
(* d lingers and s sends to it: the packets are acknowledged, and appended *)
(* behind the message d has, or dropped.  The message of s is lost.  The   *)
(* second d waits for begins again, or a last packet of fewer than ten     *)
(* bytes ends it.                                                          *)
(***************************************************************************)
Overrun(s, d) ==
  /\ s \in up
  /\ sending[s] # Nothing
  /\ sending[s].to = d
  /\ d \in lingering
  /\ sending' = [sending EXCEPT ![s] = Nothing]
  /\ \/ /\ TRUE \in Lingers(sending[s])
        /\ ahead' = [p \in Procs |-> IF p = d THEN lingering \ {d}
                                              ELSE ahead[p] \ {d}]
        /\ UNCHANGED lingering
     \/ /\ FALSE \in Lingers(sending[s])
        /\ StopsLingering(d)
  /\ UNCHANGED <<up, taken, job, masterVars, storeVars, clientVars, faultVars>>

\* RecvFrom of d returns a message of type t.  All lingering takes the same
\* second, so it ends in the order it began.
Taken(d, t) ==
  /\ d \in up
  /\ taken[d] # Nothing
  /\ taken[d].msg.type = t
  /\ ahead[d] = {}

Msg(d)  == taken[d].msg
From(d) == taken[d].from

NoLongerReads(d) ==
  /\ taken' = [taken EXCEPT ![d] = Nothing]
  /\ StopsLingering(d)

\* The handler of what d has read goes on to send reply.
Reply(d, reply) ==
  /\ NoLongerReads(d)
  /\ sending' = [sending EXCEPT ![d] = reply]

\* Faulty: a process drops what it reads from its own address, and sends on.
FaultyFalseAcks(S) ==
  /\ Cardinality(S) > 1
  /\ \A p \in S : sending[p] # Nothing
  /\ S = {sending[p].to : p \in S}
  /\ sending' = [p \in Procs |-> IF p \in S THEN Nothing ELSE sending[p]]
  /\ UNCHANGED <<up, socketVars, job, masterVars, storeVars, clientVars,
                 faultVars>>

(***************************************************************************)
(* The processes of S send to each other in a circle.  Each of them reads  *)
(* the other's packet as the acknowledgement it waits for: all SendTo      *)
(* calls return and no message of the circle is read.                      *)
(***************************************************************************)
FalseAcks(S) ==
  /\ S # {}
  /\ \A p \in S : sending[p] # Nothing
  /\ S = {sending[p].to : p \in S}
  /\ sending' = [p \in Procs |-> IF p \in S THEN Nothing ELSE sending[p]]
  /\ UNCHANGED <<up, socketVars, job, masterVars, storeVars, clientVars,
                 faultVars>>

-----------------------------------------------------------------------------
(***************************************************************************)
(* Processes end: by a kill from outside, or by themselves on an error.    *)
(* The files of a repository stay; what the main server knows is in its    *)
(* memory only.                                                            *)
(***************************************************************************)
Crash(p) ==
  /\ p \in up \cap Mortal
  /\ crashes < MaxCrashes
  /\ crashes' = crashes + 1
  /\ up' = up \ {p}
  /\ sending' = [sending EXCEPT ![p] = Nothing]
  /\ NoLongerReads(p)
  /\ job' = [r \in Repos |-> IF r = p THEN Nothing ELSE job[r]]
  /\ UNCHANGED <<masterVars, storeVars, clientVars, failures>>

\* p ends while it handles what it has read.
Exit(p) ==
  /\ up' = up \ {p}
  /\ Reply(p, Nothing)

-----------------------------------------------------------------------------
(***************************************************************************)
(* Clients.                                                                *)
(***************************************************************************)
Running == {c \in Clients : request[c] # Nothing /\ answer[c] = Nothing}

ClientCommand(r, c) ==
  CASE r.op = "C" -> ParseNewNode(Master, r, 0, <<>>, c)
    [] r.op = "R" -> ParseNewQuery(Master, r, 0, c)
    [] r.op = "U" -> ParseNewUpdate(Master, r, 0, c)
    [] r.op = "D" -> ParseNewDelete(Master, r, 0, <<>>, c)

\* A client process starts and sends its request to the main server.
Invoke(c) ==
  /\ request[c] = Nothing
  /\ Cardinality(Running) < MaxActive
  /\ \E r \in Requests :
       /\ request' = [request EXCEPT ![c] = r]
       /\ sending' = [sending EXCEPT ![c] = ClientCommand(r, c)]
  /\ up' = up \cup {c}
  /\ UNCHANGED <<socketVars, job, masterVars, storeVars, answer, faultVars>>

\* The client prints the message it waited for and exits.
WaitResponse(c) ==
  /\ Taken(c, "M")
  /\ answer' = [answer EXCEPT ![c] = Msg(c).text]
  /\ Exit(c)
  /\ UNCHANGED <<job, masterVars, storeVars, request, faultVars>>

-----------------------------------------------------------------------------
(***************************************************************************)
(* The main server.                                                        *)
(***************************************************************************)

Enter(id, entry) ==
  pending' = [i \in DOMAIN pending \cup {id} |->
                IF i = id THEN entry ELSE pending[i]]
Erase(id) ==
  pending' = Restrict(pending, DOMAIN pending \ {id})

\* Answer the sender of a command at once; nothing is recorded.
Refuse(kind) ==
  /\ Reply(Master,
           ParseNewMessageResponse(From(Master), Say(kind), 0, Msg(Master).cli))
  /\ UNCHANGED <<repositories, current_request, pending>>

\* Faulty: the number is given out again.
FaultyAcceptSameNumber(state, command) ==
  /\ Enter(current_request, [client |-> From(Master), state |-> state])
  /\ Reply(Master, command)
  /\ UNCHANGED <<repositories, current_request>>

\* Faulty: the entry goes under the number after the next.
FaultyAcceptLate(state, command) ==
  /\ Enter(current_request + 1, [client |-> From(Master), state |-> state])
  /\ current_request' = current_request + 1
  /\ Reply(Master, command)
  /\ UNCHANGED repositories

\* Record the client under the next number and pass its command on.
Accept(state, command) ==
  /\ Enter(current_request, [client |-> From(Master), state |-> state])
  /\ current_request' = current_request + 1
  /\ Reply(Master, command)
  /\ UNCHANGED repositories

\* What the handlers of create, update and delete share.
MasterWrite(command) ==
  /\ \/ /\ cud_blocking
        /\ Refuse("busy")
     \/ /\ ~cud_blocking
        /\ repositories = <<>>
        /\ Refuse("detached")
     \/ /\ ~cud_blocking
        /\ repositories # <<>>
        /\ Accept(Nothing, command)
  /\ UNCHANGED <<up, job, cud_blocking, storeVars, clientVars, faultVars>>

Home == Route(repositories, Msg(Master).body.name)

MasterCreate ==
  /\ Taken(Master, "C")
  /\ MasterWrite(ParseNewNode(Home, Msg(Master).body, current_request,
                              repositories, Msg(Master).cli))

MasterUpdate ==
  /\ Taken(Master, "U")
  /\ MasterWrite(ParseNewUpdate(Home, Msg(Master).body, current_request,
                                Msg(Master).cli))

MasterDelete ==
  /\ Taken(Master, "D")
  /\ MasterWrite(ParseNewDelete(Home, Msg(Master).body, current_request,
                                repositories, Msg(Master).cli))

\* Queries are never refused for being concurrent with anything.
MasterQuery ==
  /\ Taken(Master, "R")
  /\ LET b == Msg(Master).body IN
     \/ /\ repositories = <<>>
        /\ cud_blocking' = FALSE
        /\ Refuse("detached")
     \/ /\ repositories # <<>>
        /\ cud_blocking' = TRUE
        /\ Accept(NewState(b.name, b.depth, b.leaf, b.cond),
                  ParseNewQuery(Home, b, current_request, Msg(Master).cli))
  /\ UNCHANGED <<up, job, storeVars, clientVars, faultVars>>

(***************************************************************************)
(* The final text of a repository goes to the client that waits for it.    *)
(* A request number that is not in the table gets a zero address from      *)
(* operator[] of the map; sending there fails, and UDPSocket::SendTo ends  *)
(* the process when it fails.                                              *)
(***************************************************************************)
MasterMessage ==
  /\ Taken(Master, "M")
  /\ LET m == Msg(Master) IN
     \/ /\ m.id \in DOMAIN pending
        /\ Erase(m.id)
        /\ Reply(Master,
                 ParseNewMessageResponse(pending[m.id].client, m.text, m.id,
                                         m.cli))
        /\ UNCHANGED up
     \/ /\ m.id \notin DOMAIN pending
        /\ Exit(Master)
        /\ UNCHANGED pending
  /\ UNCHANGED <<job, repositories, current_request, cud_blocking, storeVars,
                 clientVars, faultVars>>

\* Faulty: writes stay refused.
FaultyComplete(text) ==
  LET m == Msg(Master) IN
  /\ Reply(Master,
           ParseNewMessageResponse(pending[m.id].client, text, m.id, m.cli))
  /\ Erase(m.id)
  /\ UNCHANGED cud_blocking

\* The query is over: tell the client, forget it, let writes in again.
Complete(text) ==
  LET m == Msg(Master) IN
  /\ Reply(Master,
           ParseNewMessageResponse(pending[m.id].client, text, m.id, m.cli))
  /\ Erase(m.id)
  /\ cud_blocking' = FALSE

\* Faulty: the state the look-up was made from is not kept.
FaultyContinue(q) ==
  LET m    == Msg(Master)
      next == Head(q.queue)
  IN
  /\ Reply(Master,
           ParseNewQuery(Route(repositories, next.name),
                         [op |-> "R", name |-> next.name, depth |-> next.left,
                          leaf |-> q.leaf, cond |-> q.cond],
                         m.id, m.cli))
  /\ UNCHANGED <<pending, cud_blocking>>

\* The next node of the queue is looked up at its own repository.
Continue(q) ==
  LET m    == Msg(Master)
      next == Head(q.queue)
  IN
  /\ Reply(Master,
           ParseNewQuery(Route(repositories, next.name),
                         [op |-> "R", name |-> next.name, depth |-> next.left,
                          leaf |-> q.leaf, cond |-> q.cond],
                         m.id, m.cli))
  /\ pending' = [pending EXCEPT ![m.id].state = q]
  /\ UNCHANGED cud_blocking

\* The number belongs to a query: only then is there a state to go through.
IsQuery(id) == id \in DOMAIN pending /\ pending[id].state # Nothing

\* A repository reports the relations of the node at the front of the queue.
MasterInfo ==
  /\ Taken(Master, "I")
  /\ LET m == Msg(Master)
         q == pending[m.id].state
     IN
     \/ /\ IsQuery(m.id)
        /\ Head(q.queue).name = m.name
        /\ \E order \in SetToSeqs(Fresh(q, m.rels)) :
             LET next == Absorb(q, m.valid, order) IN
             \/ /\ next.queue = <<>>
                /\ Complete([kind |-> "query", found |-> next.response])
             \/ /\ next.queue # <<>>
                /\ Continue(next)
        /\ UNCHANGED up
     \/ /\ IsQuery(m.id)
        /\ Head(q.queue).name # m.name
        /\ Complete(Say("internal"))
        /\ UNCHANGED up
     \/ /\ ~IsQuery(m.id)
        /\ Exit(Master)
        /\ UNCHANGED <<pending, cud_blocking>>
  /\ UNCHANGED <<job, repositories, current_request, storeVars, clientVars,
                 faultVars>>

\* The main server starts again, with nothing of what it knew.
SetServer ==
  /\ Master \in Mortal \ up
  /\ up' = up \cup {Master}
  /\ repositories' = <<>>
  /\ current_request' = 1
  /\ pending' = NoPending
  /\ cud_blocking' = FALSE
  /\ UNCHANGED <<sending, socketVars, job, storeVars, clientVars, faultVars>>

\* A repository registers, as often as it had to send its one packet before
\* the main server read; the table may hold the same repository twice.
MasterEnrol ==
  /\ Taken(Master, "E")
  /\ \E k \in 1..MaxCopies :
       repositories' = repositories \o [i \in 1..k |-> From(Master)]
  /\ Reply(Master, Nothing)
  /\ UNCHANGED <<up, job, current_request, pending, cud_blocking, storeVars,
                 clientVars, faultVars>>

-----------------------------------------------------------------------------
(***************************************************************************)
(* The repositories.                                                       *)
(***************************************************************************)

\* The process starts: it binds its port and announces itself.
SetRepository(r) ==
  /\ r \notin up
  /\ up' = up \cup {r}
  /\ sending' = [sending EXCEPT ![r] = RegisterRepository]
  /\ UNCHANGED <<socketVars, job, masterVars, storeVars, clientVars, faultVars>>

Fail(f) == f < MaxFailures

\* Faulty: the test for a row that is there already is inverted.
FaultyStoreNode(r, n) ==
  nodes' = [nodes EXCEPT ![r] = @ \cap {n}]

\* A node gets a row unless it has one.
StoreNode(r, n) ==
  nodes' = [nodes EXCEPT ![r] = @ \cup {n}]

(***************************************************************************)
(* The node and its attributes are written; the relations are left to do.  *)
(* A storage error on the node is caught and reported, one on an attribute *)
(* is not caught and ends the process.                                     *)
(***************************************************************************)
RepoCreate(r) ==
  /\ Taken(r, "C")
  /\ LET m == Msg(r)
         b == m.body
         seen == b.name \in nodes[r]
     IN
     \/ /\ StoreNode(r, b.name)
        /\ attributes' = [attributes EXCEPT
                            ![r] = IF b.attr THEN @ \cup {b.name} ELSE @]
        /\ job' = [job EXCEPT ![r] =
                     [name |-> b.name, todo |-> b.rels, id |-> m.id,
                      table |-> m.table, from |-> From(r), cli |-> m.cli,
                      kind |-> IF seen THEN "exists" ELSE "stored"]]
        /\ Reply(r, Nothing)
        /\ UNCHANGED <<up, failures>>
     \/ /\ Fail(failures)
        /\ failures' = failures + 1
        /\ Reply(r, ParseNewMessageResponse(From(r), Say("failed"), m.id, m.cli))
        /\ UNCHANGED <<up, job, nodes, attributes>>
     \/ /\ Fail(failures)
        /\ b.attr
        /\ failures' = failures + 1
        /\ StoreNode(r, b.name)
        /\ Exit(r)
        /\ UNCHANGED <<job, attributes>>
  /\ UNCHANGED <<masterVars, relations, clientVars, crashes>>

\* Faulty: the error is forgotten once it was reported.
FaultyRepoRelation(r) ==
  /\ r \in up
  /\ sending[r] = Nothing
  /\ job[r] # Nothing
  /\ job[r].todo # <<>>
  /\ LET j == job[r]
         b == Head(j.todo)
     IN
     /\ \/ /\ StoreNode(r, b)
           /\ relations' = [relations EXCEPT ![r] = @ \cup {<<j.name, b>>}]
           /\ sending' = [sending EXCEPT ![r] =
                IF j.table = <<>> THEN Nothing
                ELSE ParseNewNode(Route(j.table, b),
                                  [op |-> "C", name |-> b, attr |-> FALSE,
                                   rels |-> <<j.name>>],
                                  0, <<>>, j.cli)]
           /\ job' = [job EXCEPT ![r].todo = Tail(@)]
           /\ UNCHANGED <<up, failures>>
        \/ /\ Fail(failures)
           /\ failures' = failures + 1
           /\ sending' = [sending EXCEPT ![r] =
                ParseNewMessageResponse(j.from, Say("failed"), j.id, j.cli)]
           /\ job' = [job EXCEPT ![r].todo = Tail(@)]
           /\ UNCHANGED <<up, nodes, relations>>
        \/ /\ Fail(failures)
           /\ failures' = failures + 1
           /\ StoreNode(r, b)
           /\ up' = up \ {r}
           /\ job' = [job EXCEPT ![r] = Nothing]
           /\ UNCHANGED <<sending, relations>>
  /\ UNCHANGED <<socketVars, masterVars, attributes, clientVars, crashes>>

(***************************************************************************)
(* One turn of the loop over the relations of a create.  A storage error   *)
(* on the related node is reported and the turn is skipped, one on the     *)
(* relation itself ends the process.  What was thrown stays in the text    *)
(* the handler ends with.                                                  *)
(***************************************************************************)
RepoRelation(r) ==
  /\ r \in up
  /\ sending[r] = Nothing
  /\ job[r] # Nothing
  /\ job[r].todo # <<>>
  /\ LET j == job[r]
         b == Head(j.todo)
     IN
     /\ \/ /\ StoreNode(r, b)
           /\ relations' = [relations EXCEPT ![r] = @ \cup {<<j.name, b>>}]
           /\ sending' = [sending EXCEPT ![r] =
                IF j.table = <<>> THEN Nothing
                ELSE ParseNewNode(Route(j.table, b),
                                  [op |-> "C", name |-> b, attr |-> FALSE,
                                   rels |-> <<j.name>>],
                                  0, <<>>, j.cli)]
           /\ job' = [job EXCEPT ![r].todo = Tail(@)]
           /\ UNCHANGED <<up, failures>>
        \/ /\ Fail(failures)
           /\ failures' = failures + 1
           /\ sending' = [sending EXCEPT ![r] =
                ParseNewMessageResponse(j.from, Say("failed"), j.id, j.cli)]
           /\ job' = [job EXCEPT ![r].todo = Tail(@), ![r].kind = "failed"]
           /\ UNCHANGED <<up, nodes, relations>>
        \/ /\ Fail(failures)
           /\ failures' = failures + 1
           /\ StoreNode(r, b)
           /\ up' = up \ {r}
           /\ job' = [job EXCEPT ![r] = Nothing]
           /\ UNCHANGED <<sending, relations>>
  /\ UNCHANGED <<socketVars, masterVars, attributes, clientVars, crashes>>

\* Faulty: the answer does not wait for the relations.
FaultyRepoFinishEarly(r) ==
  /\ r \in up
  /\ sending[r] = Nothing
  /\ job[r] # Nothing
  /\ sending' = [sending EXCEPT ![r] =
       IF job[r].id = 0 THEN Nothing
       ELSE ParseNewMessageResponse(Master, Say(job[r].kind), job[r].id,
                                    job[r].cli)]
  /\ job' = [job EXCEPT ![r] = Nothing]
  /\ UNCHANGED <<up, socketVars, masterVars, storeVars, clientVars, faultVars>>

\* Faulty: a create of a node that is there is skipped, the answer with it.
FaultyRepoFinishSilent(r) ==
  /\ r \in up
  /\ sending[r] = Nothing
  /\ job[r] # Nothing
  /\ job[r].todo = <<>>
  /\ sending' = [sending EXCEPT ![r] =
       IF job[r].id = 0 \/ job[r].kind = "exists" THEN Nothing
       ELSE ParseNewMessageResponse(Master, Say(job[r].kind), job[r].id,
                                    job[r].cli)]
  /\ job' = [job EXCEPT ![r] = Nothing]
  /\ UNCHANGED <<up, socketVars, masterVars, storeVars, clientVars, faultVars>>

\* The handler ends: a request that has a number is answered.
RepoFinish(r) ==
  /\ r \in up
  /\ sending[r] = Nothing
  /\ job[r] # Nothing
  /\ job[r].todo = <<>>
  /\ sending' = [sending EXCEPT ![r] =
       IF job[r].id = 0 THEN Nothing
       ELSE ParseNewMessageResponse(Master, Say(job[r].kind), job[r].id,
                                    job[r].cli)]
  /\ job' = [job EXCEPT ![r] = Nothing]
  /\ UNCHANGED <<up, socketVars, masterVars, storeVars, clientVars, faultVars>>

\* Faulty: --leaf is not looked at.
FaultyValidNode(r, b) == b.cond => b.name \in attributes[r]

\* With --leaf only nodes at the requested depth count; the condition asks
\* for an attribute row of the node.
ValidNode(r, b) ==
  /\ b.depth = 0 \/ ~b.leaf
  /\ b.cond => b.name \in attributes[r]

RelatedTo(r, name) == {b \in Names : <<name, b>> \in relations[r]}

RepoQuery(r) ==
  /\ Taken(r, "R")
  /\ LET m == Msg(r) IN
     Reply(r, ParseNewInfoResponse(m.body.name, Master,
                                   RelatedTo(r, m.body.name), m.id,
                                   ValidNode(r, m.body), m.cli))
  /\ UNCHANGED <<up, job, masterVars, storeVars, clientVars, faultVars>>

\* An update writes nothing (the statements are to-do comments).
RepoUpdate(r) ==
  /\ Taken(r, "U")
  /\ Reply(r, ParseNewMessageResponse(Master, Say("updated"), Msg(r).id,
                                      Msg(r).cli))
  /\ UNCHANGED <<up, job, masterVars, storeVars, clientVars, faultVars>>

\* A delete writes nothing either; of a relation, it tells the other end.
RepoDelete(r) ==
  /\ Taken(r, "D")
  /\ LET m == Msg(r)
         b == m.body
     IN
     /\ Reply(r,
          IF b.object = 2 /\ m.table # <<>>
            THEN ParseNewDelete(Route(m.table, b.rel),
                                [op |-> "D", name |-> b.rel, object |-> 2,
                                 rel |-> b.name], 0, <<>>, m.cli)
            ELSE Nothing)
     /\ job' = [job EXCEPT ![r] =
                  [name |-> b.name, todo |-> <<>>, id |-> m.id,
                   table |-> m.table, from |-> From(r), cli |-> m.cli,
                   kind |-> IF b.object = 1 THEN "cleared" ELSE "deleted"]]
  /\ UNCHANGED <<up, masterVars, storeVars, clientVars, faultVars>>

\* A repository has no pending request: any text sent to it ends it.
RepoMessage(r) ==
  /\ Taken(r, "M")
  /\ Exit(r)
  /\ UNCHANGED <<job, masterVars, storeVars, clientVars, faultVars>>

-----------------------------------------------------------------------------
MasterStep ==
  \/ MasterCreate \/ MasterUpdate \/ MasterDelete
  \/ MasterQuery \/ MasterMessage \/ MasterInfo \/ MasterEnrol

RepoStep(r) ==
  \/ RepoCreate(r) \/ RepoRelation(r) \/ RepoFinish(r)
  \/ RepoQuery(r) \/ RepoUpdate(r) \/ RepoDelete(r) \/ RepoMessage(r)

\* What the running processes do by themselves.
Work ==
  \/ \E s, d \in Procs : Receive(s, d) \/ Overrun(s, d)
  \/ \E S \in SUBSET up : FalseAcks(S)
  \/ MasterStep
  \/ \E r \in Repos : RepoStep(r)
  \/ \E c \in Clients : WaitResponse(c)

Next ==
  \/ Work
  \/ \E c \in Clients : Invoke(c)
  \/ \E r \in Repos : SetRepository(r)
  \/ SetServer
  \/ \E p \in Procs : Crash(p)

Spec == Init /\ [][Next]_vars

(***************************************************************************)
(* Fairness: no process stops by itself between two calls, and a blocked   *)
(* sender retransmits until its destination reads, so while some process   *)
(* can go on, one does.  Clients need not start and nothing need crash.    *)
(***************************************************************************)
FairSpec == Spec /\ WF_vars(Work)

-----------------------------------------------------------------------------
SocketOK ==
  /\ sending \in [Procs -> Message \cup {Nothing}]
  /\ taken \in [Procs -> [from : Procs, msg : Message] \cup {Nothing}]
  /\ lingering \subseteq Procs
  /\ ahead \in [Procs -> SUBSET Procs]

PendingEntry == [client : Procs, state : QueryState(Names) \cup {Nothing}]

MasterOK ==
  /\ repositories \in Seq(Repos)
  /\ current_request \in Nat \ {0}
  /\ \A i \in DOMAIN pending :
       i \in 1..(current_request - 1) /\ pending[i] \in PendingEntry
  /\ cud_blocking \in BOOLEAN

StoreOK ==
  /\ nodes \in [Repos -> SUBSET Names]
  /\ relations \in [Repos -> SUBSET (Names \X Names)]
  /\ attributes \in [Repos -> SUBSET Names]

ClientOK ==
  /\ request \in [Clients -> Request \cup {Nothing}]
  /\ answer \in [Clients -> Text \cup {Nothing}]

\* The type invariant.
TypeOK ==
  /\ up \subseteq Procs
  /\ SocketOK
  /\ job \in [Repos -> Job \cup {Nothing}]
  /\ MasterOK
  /\ StoreOK
  /\ ClientOK
  /\ crashes \in Nat /\ failures \in Nat

=============================================================================
