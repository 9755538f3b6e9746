------------------------------ MODULE MCCluster ------------------------------
(***************************************************************************)
(* Small clusters for TLC: one main server, two repositories, three node   *)
(* names of which ann and dan have the same home when both are registered. *)
(***************************************************************************)
EXTENDS ClusterProperties

CONSTANTS srv, r1, r2, c1, c2, c3, ann, bob, dan

TwoClients   == {c1, c2}
ThreeClients == {c1, c2, c3}
ClientSymmetry == Permutations(Clients)

Letters == (ann :> 2) @@ (bob :> 1) @@ (dan :> 4)

BothAttached  == <<r1, r2>>
FirstAttached == <<r1>>

Create(n, rels, attr) == [op |-> "C", name |-> n, rels |-> rels, attr |-> attr]
Query(n, depth, leaf, cond) ==
  [op |-> "R", name |-> n, depth |-> depth, leaf |-> leaf, cond |-> cond]
Update(n)             == [op |-> "U", name |-> n]
Delete(n, object, rel) ==
  [op |-> "D", name |-> n, object |-> object, rel |-> rel]

-----------------------------------------------------------------------------
(* Stores. *)

EmptyStore ==
  [nodes      |-> [r \in Repos |-> {}],
   relations  |-> [r \in Repos |-> {}],
   attributes |-> [r \in Repos |-> {}]]
JustEmpty == {EmptyStore}

\* A graph on the three names, rows at the home of their first node; the
\* nodes marked carry the attribute the conditions ask for.
StoreOf(edges, marked) ==
  [nodes      |-> [r \in Repos |-> {n \in Names : HomeOf(n) = r}],
   relations  |-> [r \in Repos |-> {e \in edges : HomeOf(e[1]) = r}],
   attributes |-> [r \in Repos |-> {n \in marked : HomeOf(n) = r}]]

\* A circle of three nodes; dan's side of its relation to ann is missing, as
\* creates leave it between nodes of the same repository.
Circle ==
  {StoreOf({<<ann, bob>>, <<bob, ann>>, <<bob, dan>>, <<dan, bob>>,
            <<ann, dan>>}, {bob})}

-----------------------------------------------------------------------------
(* Requests. *)

EveryKind ==
  {Create(ann, <<bob>>, TRUE), Create(bob, <<ann, dan>>, FALSE),
   Create(dan, <<ann>>, FALSE),
   Query(ann, 2, FALSE, FALSE), Query(bob, 1, TRUE, FALSE),
   Query(ann, 1, FALSE, TRUE),
   Update(ann), Delete(ann, 0, ann), Delete(ann, 1, ann), Delete(bob, 2, ann)}

FewOfEach ==
  {Create(ann, <<bob>>, TRUE), Create(bob, <<ann>>, FALSE),
   Query(ann, 2, FALSE, FALSE), Delete(ann, 2, bob)}

WritesAndQuery ==
  {Create(dan, <<>>, FALSE), Update(bob), Delete(ann, 1, ann),
   Query(ann, 0, FALSE, FALSE), Query(ann, 1, FALSE, FALSE),
   Query(bob, 1, FALSE, FALSE)}
=============================================================================
