------------------------------ MODULE Traversal ------------------------------
(***************************************************************************)
(* The breadth-first traversal a query performs: the QueryState record of  *)
(* the main server (DGDB.h) and the two functions that change it, applied  *)
(* when the query is accepted and each time a repository reports the       *)
(* relations of the node at the front of the queue (DGDB.cpp, action 'I'). *)
(*                                                                         *)
(* The response is text in the code; here it is the sequence of the nodes  *)
(* it lists, each with the depth printed beside it.                        *)
(***************************************************************************)
EXTENDS Integers, Sequences, FiniteSets, SequencesExt

Entry(names)   == [name : names, left : Nat]
Listed(names)  == [name : names, depth : Nat]

QueryState(names) ==
  [leaf     : BOOLEAN,
   cond     : BOOLEAN,
   depth    : Nat,
   queue    : Seq(Entry(names)),
   visited  : SUBSET names,
   response : Seq(Listed(names))]

\* Faulty: the first node is not marked.
FaultyNewState(name, depth, leaf, cond) ==
  [leaf     |-> leaf,
   cond     |-> cond,
   depth    |-> depth,
   queue    |-> <<[name |-> name, left |-> depth]>>,
   visited  |-> {},
   response |-> <<>>]

\* A query for the node `name`: it is the only queue entry, already visited.
NewState(name, depth, leaf, cond) ==
  [leaf     |-> leaf,
   cond     |-> cond,
   depth    |-> depth,
   queue    |-> <<[name |-> name, left |-> depth]>>,
   visited  |-> {name},
   response |-> <<>>]

\* Faulty: the traversal goes one step too far.
FaultyFreshFar(q, related) ==
  IF Head(q.queue).left >= 0 THEN related \ q.visited ELSE {}

\* Related nodes that enter the queue: none below the requested depth.
Fresh(q, related) ==
  IF Head(q.queue).left > 0 THEN related \ q.visited ELSE {}

(***************************************************************************)
(* The repository of the front node answered: `valid` says whether the     *)
(* node is listed, `order` is the order in which the fresh related nodes   *)
(* enter the queue (the row order of the table, which nothing fixes).      *)
(***************************************************************************)
Absorb(q, valid, order) ==
  LET top == Head(q.queue) IN
  [q EXCEPT
     !.queue    = Tail(@) \o [i \in DOMAIN order |->
                                [name |-> order[i], left |-> top.left - 1]],
     !.visited  = @ \cup ToSet(order),
     !.response = IF valid
                    THEN Append(@, [name  |-> top.name,
                                    depth |-> q.depth - top.left])
                    ELSE @]

=============================================================================
