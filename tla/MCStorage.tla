------------------------------ MODULE MCStorage ------------------------------
(***************************************************************************)
(* Two processes in one directory, with every file they may find there.    *)
(***************************************************************************)
EXTENDS Storage

CONSTANTS here, there, ann, bob, key

Create(name, relations) ==
  [type |-> "C", name |-> name, attributes |-> <<key>>, relations |-> relations]

SomeRequests ==
  {Create(ann, <<bob>>), Create(bob, <<ann>>),
   [type |-> "R", name |-> ann]}

\* Made by this program up to any table, by another version, or in use.
FileOf(forms, nodes) ==
  [t \in DOMAIN forms |->
     [form |-> forms[t], rows |-> IF t = "Nodes" THEN nodes ELSE <<>>]]

SomeFiles ==
  {FileOf(forms, <<>>) : forms \in [TableNames -> Forms]}
  \cup {FileOf([t \in TableNames |-> "current"], <<NodeRow(bob)>>)}
=============================================================================
