-------------------------- MODULE ClusterProperties --------------------------
(***************************************************************************)
(* What the message level of the graph database must get right.  A request *)
(* number travels with every message a request causes; the main server     *)
(* matches replies to clients by nothing else.                             *)
(***************************************************************************)
EXTENDS Cluster

\* The message a process sends, or has read and not handled yet.
Held(p) == IF taken[p] # Nothing THEN taken[p].msg ELSE sending[p]

InFlight == {p \in Procs : Held(p) # Nothing}

\* The processes that hold a message about a given request.
Carriers(types, id) ==
  {p \in InFlight : Held(p).type \in types /\ Held(p).id = id}

Numbered == {p \in InFlight : Held(p).type # "E" /\ Held(p).id # 0}
Working  == {r \in Repos : job[r] # Nothing}

-----------------------------------------------------------------------------
(***************************************************************************)
(* AnswersOwn: a text on its way to a client is the answer to the request  *)
(* of that client.  The main server finds the client by the request number *)
(* of the reply (action 'M' and the end of action 'I').                    *)
(***************************************************************************)
AnswersOwn ==
  \A p \in InFlight :
    Held(p).type = "M" /\ Held(p).to \in Clients => Held(p).to = Held(p).cli

(***************************************************************************)
(* BlockingHasQuery: writes are refused only while a query is pending.     *)
(* The flag is cleared where queries end; if a query could leave the table *)
(* any other way, every later write would be told "Bussy Server".          *)
(***************************************************************************)
BlockingHasQuery ==
  cud_blocking => \E i \in DOMAIN pending : pending[i].state # Nothing

(***************************************************************************)
(* Matching: a number in a message or a handler was given out, and while   *)
(* it is pending it belongs to the client the work is done for, and to a   *)
(* query exactly when the message is one of a query's.                     *)
(***************************************************************************)
Commands == {"C", "R", "U", "D"}

Fit(id, cli, type, table, next) ==
  /\ id < next
  /\ id \in DOMAIN table =>
       /\ table[id].client = cli
       /\ type \in {"R", "I"} <=> table[id].state # Nothing

MatchingMessages ==
  \A p \in Numbered :
    Fit(Held(p).id, Held(p).cli, Held(p).type, pending, current_request)

MatchingJobs ==
  \A r \in Working :
    Fit(job[r].id, job[r].cli, "C", pending, current_request)

Matching == MatchingMessages /\ MatchingJobs

(***************************************************************************)
(* QueryInStep: a pending query has at most one message under way, a look- *)
(* up or its report, and that message is about the node at the front of    *)
(* the queue.  Action 'I' answers "[ERROR] Internal Error" otherwise.      *)
(***************************************************************************)
QueryInStep ==
  \A p \in Numbered :
    Held(p).type \in {"R", "I"} =>
      LET m == Held(p)
          name == IF m.type = "R" THEN m.body.name ELSE m.name
      IN
      /\ Carriers({"R", "I"}, m.id) = {p}
      /\ IsQuery(m.id)
      /\ name = Head(pending[m.id].state.queue).name

(***************************************************************************)
(* Frontier: the queue of a query is what a breadth-first search keeps.    *)
(* Every visited node is in the queue or was taken from it, once; the      *)
(* depth left falls along the queue by at most one; a node is listed at    *)
(* most once, in the order of the depths.                                  *)
(***************************************************************************)
NamesOf(s) == {s[i].name : i \in DOMAIN s}

Layered(q) ==
  /\ \A i, j \in DOMAIN q.queue :
       i < j => /\ q.queue[i].name # q.queue[j].name
                /\ q.queue[j].left \in
                     {q.queue[i].left, q.queue[i].left - 1}
  /\ \A i, j \in DOMAIN q.response :
       i < j => /\ q.response[i].name # q.response[j].name
                /\ q.response[i].depth <= q.response[j].depth
  /\ NamesOf(q.queue) \cap NamesOf(q.response) = {}
  /\ NamesOf(q.queue) \cup NamesOf(q.response) \subseteq q.visited
  /\ \A i \in DOMAIN q.queue, j \in DOMAIN q.response :
       q.response[j].depth + q.queue[i].left <= q.depth

Frontier ==
  \A i \in DOMAIN pending :
    pending[i].state # Nothing =>
      /\ pending[i].state.queue # <<>>
      /\ Layered(pending[i].state)

(***************************************************************************)
(* NoDangling: both ends of a stored relation, and the owner of a stored   *)
(* attribute, have a node row in the same file, whatever fails or dies in  *)
(* the middle of a create; nothing repairs the files afterwards.           *)
(***************************************************************************)
NoDangling ==
  \A r \in Repos :
    /\ relations[r] \subseteq nodes[r] \X nodes[r]
    /\ attributes[r] \subseteq nodes[r]

(***************************************************************************)
(* StuckBehindTheDead: when nothing can go on, every process that runs is  *)
(* back in RecvFrom, or is blocked in SendTo and so, in turn, is the       *)
(* process it sends to, up to one that has ended.  SendTo has no limit of  *)
(* retries (RDT_UDP.cpp 25-45) and holds no resource: no circle of living  *)
(* processes may wait on itself, and no handler stop half-way.             *)
(***************************************************************************)
BehindTheDead ==
  LET behind[k \in 0..Cardinality(Procs)] ==
        {p \in up : /\ sending[p] # Nothing
                    /\ \/ sending[p].to \notin up
                       \/ k > 0 /\ sending[p].to \in behind[k - 1]}
  IN behind[Cardinality(Procs)]

StuckBehindTheDead ==
  ~ENABLED Work =>
    \A p \in up : Listening(p) \/ p \in BehindTheDead

-----------------------------------------------------------------------------
(***************************************************************************)
(* The graph the repositories of Attached hold: the rows of a node are     *)
(* those of its own repository.                                            *)
(***************************************************************************)
HomeOf(n) == Route(Attached, n)
Neighbours(n) == RelatedTo(HomeOf(n), n)

\* The nodes at most k relations away from `name`.
Ball(name, k) ==
  LET reach[i \in 0..k] ==
        IF i = 0 THEN {name}
        ELSE reach[i - 1] \cup UNION {Neighbours(n) : n \in reach[i - 1]}
  IN reach[k]

Sphere(name, k) ==
  Ball(name, k) \ (IF k = 0 THEN {} ELSE Ball(name, k - 1))

\* What the query b asks for, as a set of listed nodes.
Asked(b) ==
  {l \in [name : Names, depth : 0..b.depth] :
     /\ l.name \in Sphere(b.name, l.depth)
     /\ b.leaf => l.depth = b.depth
     /\ b.cond => l.name \in attributes[HomeOf(l.name)]}

Answering(c) == answer[c] = Nothing /\ answer'[c] # Nothing

(***************************************************************************)
(* QueryExact: the text a query prints lists the nodes within the depth    *)
(* asked for, each once, with its distance, nearest first, and no other.   *)
(***************************************************************************)
QueryExact ==
  [][\A c \in Clients :
       Answering(c) /\ answer'[c].kind = "query" =>
         LET found == answer'[c].found IN
         /\ ToSet(found) = Asked(request[c])
         /\ Len(found) = Cardinality(Asked(request[c]))
         /\ \A i, j \in DOMAIN found :
              i < j => found[i].depth <= found[j].depth]_vars

(***************************************************************************)
(* CreateVisible: when a client is told that its node is stored, both ends *)
(* of each relation are written: at the home of the node, and at the home  *)
(* of the related node, which at least has read it - so no later query can *)
(* pass before it.  Left out are the halves that are lost: a repository    *)
(* that sends to itself, and one that sends to the same other repository   *)
(* again while that still lingers (HalvesWritten).                         *)
(***************************************************************************)
Half(a, b) ==
  LET r == HomeOf(a) IN
  \/ <<a, b>> \in relations[r]
  \/ job[r] # Nothing /\ job[r].name = a /\ b \in ToSet(job[r].todo)
  \/ /\ taken[r] # Nothing
     /\ taken[r].msg.type = "C"
     /\ taken[r].msg.body.name = a
     /\ b \in ToSet(taken[r].msg.body.rels)

\* The first relation of the request to a repository that is not the node's.
FirstAway(req, i) ==
  /\ HomeOf(req.rels[i]) # HomeOf(req.name)
  /\ \A k \in 1..(i - 1) : HomeOf(req.rels[k]) # HomeOf(req.rels[i])

Stored(c) == answer[c] # Nothing /\ answer[c].kind \in {"stored", "exists"}

CreateVisible ==
  \A c \in Clients :
    Stored(c) =>
      LET req == request[c] IN
      /\ req.name \in nodes[HomeOf(req.name)]
      /\ \A i \in DOMAIN req.rels :
           /\ <<req.name, req.rels[i]>> \in relations[HomeOf(req.name)]
           /\ FirstAway(req, i) => Half(req.rels[i], req.name)

(***************************************************************************)
(* CreateWritten: when a client is told that its node is stored, all its   *)
(* request says of the node is in the file of one repository, the home of  *)
(* the name in one of the tables the main server has had: the handler does *)
(* not answer before its loop over the relations has ended (281-342), no   *)
(* other handler answers for it, and an error on one of the relations      *)
(* stays in the last answer when the one that reports it is lost (320-335).*)
(***************************************************************************)
HomesSoFar(n) ==
  {repositories[(Hash[n] % k) + 1] : k \in 1..Len(repositories)}

Holds(r, b) ==
  /\ b.name \in nodes[r]
  /\ b.attr => b.name \in attributes[r]
  /\ \A n \in ToSet(b.rels) : <<b.name, n>> \in relations[r]

Written(c) ==
  /\ request[c] # Nothing
  /\ request[c].op = "C"
  /\ \E r \in HomesSoFar(request[c].name) : Holds(r, request[c])

CreateWritten == \A c \in Clients : Stored(c) => Written(c)

(***************************************************************************)
(* Answered: every client that asks is answered.  Each step of the way is  *)
(* one handler that blocks until the next process reads.                   *)
(***************************************************************************)
Answered == \A c \in Clients : request[c] # Nothing ~> answer[c] # Nothing

-----------------------------------------------------------------------------
(***************************************************************************)
(* What the program says, and does not do.                                 *)
(***************************************************************************)

\* "[ERROR] Bussy Server. Try again later": while a query is pending no
\* create, update or delete is accepted.
WritesWaitForQueries ==
  [][\A i \in DOMAIN pending' \ DOMAIN pending :
       pending'[i].state = Nothing
         => \A j \in DOMAIN pending : pending[j].state = Nothing]_vars

\* "OK! Node stored successfully": the node is also a relation of each node
\* it was created with, wherever that one is at home.
HalvesWritten ==
  \A c \in Clients :
    Stored(c) =>
      \A n \in ToSet(request[c].rels) : Half(n, request[c].name)

=============================================================================
