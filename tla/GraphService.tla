---------------------------- MODULE GraphService ----------------------------
(***************************************************************************)
(* What the graph database promises its clients, whatever its processes do *)
(* to keep it: a graph that only grows, by nothing but what clients asked  *)
(* to create, and one answer per request.  A query that runs while others  *)
(* write sees each write or not; what was there when it was asked it must  *)
(* see, and what it lists must be there when it answers.                   *)
(*                                                                         *)
(* A graph is the set of its facts.                                        *)
(***************************************************************************)
EXTENDS Integers, Sequences, FiniteSets, SequencesExt

CONSTANTS Names, Clients, Requests, Nothing

VARIABLES
  graph,    \* the facts that are stored
  request,  \* what each client asked
  answer,   \* the text each client was given
  before    \* the graph, and the clients answered, when each client asked

vars == <<graph, request, answer, before>>

Node(n)        == <<"node", n>>
Relation(a, b) == <<"relation", a, b>>
Attribute(n)   == <<"attribute", n>>

Fact == {Node(n) : n \in Names} \cup {Attribute(n) : n \in Names}
          \cup {Relation(a, b) : a \in Names, b \in Names}

\* What a create states at the home of its node, and at its neighbours'.
Own(r) == {Node(r.name)} \cup {Relation(r.name, b) : b \in ToSet(r.rels)}
            \cup (IF r.attr THEN {Attribute(r.name)} ELSE {})
Mirror(r) == UNION {{Node(b), Relation(b, r.name)} : b \in ToSet(r.rels)}

\* The nodes at most k relations away from `name` in the graph g.
Within(g, name, k) ==
  LET reach[i \in 0..k] ==
        IF i = 0 THEN {name}
        ELSE reach[i - 1] \cup
               {b \in Names : \E a \in reach[i - 1] : Relation(a, b) \in g}
  IN reach[k]

AtMost(g, name, k) == IF k < 0 THEN {} ELSE Within(g, name, k)

-----------------------------------------------------------------------------
Init ==
  /\ graph \subseteq Fact
  /\ request = [c \in Clients |-> Nothing]
  /\ answer = [c \in Clients |-> Nothing]
  /\ before = [c \in Clients |-> Nothing]

Ask(c) ==
  /\ request[c] = Nothing
  /\ \E r \in Requests : request' = [request EXCEPT ![c] = r]
  /\ before' = [before EXCEPT ![c] =
                  [graph |-> graph, done |-> {d \in Clients : answer[d] # Nothing}]]
  /\ UNCHANGED <<graph, answer>>

Asking(op) == {c \in Clients : request[c] # Nothing /\ request[c].op = op}

\* Creates that were not refused.
Accepted ==
  {c \in Asking("C") : answer[c] # Nothing => answer[c].kind # "busy"}

\* Facts are added, each of them because somebody asked for it.
Write ==
  /\ graph \subseteq graph'
  /\ graph' \subseteq graph \cup
       UNION {Own(request[c]) \cup Mirror(request[c]) : c \in Accepted}
  /\ UNCHANGED <<request, answer, before>>

\* A write is refused only for a query that ran beside it.
Busy(c) ==
  \E d \in Asking("R") : d \notin before[c].done

(***************************************************************************)
(* The nodes a query lists: at a depth no smaller than their distance now  *)
(* and no larger than it was when the query was asked; all that were near  *)
(* enough then; each once, nearest first.                                  *)
(***************************************************************************)
Lists(found, r, old) ==
  /\ \A i \in DOMAIN found :
       LET n == found[i].name
           d == found[i].depth
       IN
       /\ d \in 0..r.depth
       /\ n \in AtMost(graph, r.name, d)
       /\ n \notin AtMost(old, r.name, d - 1)
       /\ r.leaf => d = r.depth
       /\ r.cond => Attribute(n) \in graph
  /\ \A n \in AtMost(old, r.name, r.depth) :
       /\ r.leaf => n \notin AtMost(graph, r.name, r.depth - 1)
       /\ r.cond => Attribute(n) \in old
       => \E i \in DOMAIN found : found[i].name = n
  /\ \A i, j \in DOMAIN found :
       i < j => /\ found[i].name # found[j].name
                /\ found[i].depth <= found[j].depth

Answer(c, text) ==
  /\ request[c] # Nothing
  /\ answer[c] = Nothing
  /\ LET r == request[c]
         old == before[c].graph
     IN
     \/ /\ r.op \in {"C", "U", "D"}
        /\ text.kind = "busy"
        /\ Busy(c)
     \/ /\ r.op = "C"
        /\ text.kind \in {"stored", "exists"}
        /\ text.kind = "stored" => Node(r.name) \notin old
        /\ Own(r) \subseteq graph
     \/ r.op = "U" /\ text.kind = "updated"
     \/ r.op = "D" /\ text.kind \in {"deleted", "cleared"}
     \/ /\ r.op = "R"
        /\ text.kind = "query"
        /\ Lists(text.found, r, old)
  /\ answer' = [answer EXCEPT ![c] = text]
  /\ UNCHANGED <<graph, request, before>>

Next ==
  \/ Write
  \/ \E c \in Clients : Ask(c)
  \/ \E c \in Clients : answer'[c] # Nothing /\ Answer(c, answer'[c])

Spec == Init /\ [][Next]_vars

=============================================================================
