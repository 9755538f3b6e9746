--------------------------- MODULE ClusterService ---------------------------
(***************************************************************************)
(* The cluster as its clients see it, compared with GraphService.  The     *)
(* variable `before` remembers what the graph was when a client asked; no  *)
(* action of the cluster reads it.  The graph is what the repositories     *)
(* hold of the names that are at home with them, so the comparison is made *)
(* where all of them are registered from the start and none ends.          *)
(***************************************************************************)
EXTENDS ClusterProperties

VARIABLE before

Facts ==
  UNION {{<<"node", n>> : n \in {n \in Names : n \in nodes[HomeOf(n)]}},
         {<<"attribute", n>> :
            n \in {n \in Names : n \in attributes[HomeOf(n)]}},
         {<<"relation", e[1], e[2]>> :
            e \in {e \in Names \X Names : e \in relations[HomeOf(e[1])]}}}

ServiceInit ==
  /\ Init
  /\ before = [c \in Clients |-> Nothing]

Remember ==
  before' = [c \in Clients |->
    IF request[c] = Nothing /\ request'[c] # Nothing
      THEN [graph |-> Facts, done |-> {d \in Clients : answer[d] # Nothing}]
      ELSE before[c]]

ServiceNext == Next /\ Remember

ServiceSpec == ServiceInit /\ [][ServiceNext]_<<vars, before>>

Service == INSTANCE GraphService WITH graph <- Facts

(***************************************************************************)
(* ImplementsService: with queries and writes at the same time, what every *)
(* client reads is what GraphService allows.  A query takes a message to   *)
(* and from a repository per node, and writes go on meanwhile wherever a   *)
(* second query has let them in (DGDB.cpp, actions 'I' and 'C').           *)
(***************************************************************************)
ImplementsService == Service!Spec

=============================================================================
