-------------------------------- MODULE MCRDT --------------------------------
(***************************************************************************)
(* Small instances of RDT for TLC: two processes p1 and p2 that talk in    *)
(* turns, over a bad network, both at once, or with a target that is busy. *)
(***************************************************************************)
EXTENDS RDT, TLC

CONSTANTS p1, p2, m1, m2, m3, m4, m5

\* p1 asks, p2 replies, with messages of one packet, which are sent once,
\* and longer ones, whose packets are sent again.
BothWaysOrigin == (m1 :> p1) @@ (m2 :> p2) @@ (m3 :> p1) @@ (m4 :> p1) @@ (m5 :> p2)
BothWaysTarget == (m1 :> p2) @@ (m2 :> p1) @@ (m3 :> p2) @@ (m4 :> p2) @@ (m5 :> p1)
OddAndEven     == (m1 :> 3) @@ (m2 :> 2) @@ (m3 :> 4) @@ (m4 :> 1) @@ (m5 :> 1)
OneOrMore      == (m1 :> 3) @@ (m2 :> 3) @@ (m3 :> 3) @@ (m4 :> 1) @@ (m5 :> 1)

\* p1 sends one message.
OneOrigin == m1 :> p1
OneTarget == m1 :> p2
Five      == m1 :> 5
Twice     == m1 :> 2

\* p1 and p2 send to each other.
CrossedOrigin == (m1 :> p1) @@ (m2 :> p2)
CrossedTarget == (m1 :> p2) @@ (m2 :> p1)
TwoEach       == (m1 :> 2) @@ (m2 :> 2)
OnceEach      == (m1 :> 1) @@ (m2 :> 1)
=============================================================================
