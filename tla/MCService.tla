------------------------------ MODULE MCService ------------------------------
(***************************************************************************)
(* The clusters of MCCluster, with what their clients remember.            *)
(***************************************************************************)
EXTENDS MCCluster, ClusterService

\* A path in one direction only, which a create may complete, and the same
\* in both directions.
BothWays(edges) == edges \cup {<<e[2], e[1]>> : e \in edges}
SomeGraphs ==
  {StoreOf(edges, {bob}) :
     edges \in {{<<ann, bob>>, <<bob, dan>>},
                BothWays({<<ann, bob>>, <<bob, dan>>})}}

\* Queries next to a create that brings dan nearer to ann, and one that asks
\* for what is there.
QueriesAndCreates ==
  {Query(ann, 2, FALSE, FALSE), Query(ann, 2, TRUE, FALSE),
   Query(ann, 1, FALSE, TRUE), Create(dan, <<bob, ann>>, TRUE)}
=============================================================================
