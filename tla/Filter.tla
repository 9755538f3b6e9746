------------------------------- MODULE Filter -------------------------------
(***************************************************************************)
(* How a repository decides whether a query lists a node: the depth, the   *)
(* flag --leaf, and the conditions on the attributes of the node, combined *)
(* from left to right (DGDB.cpp, action 'R').  Texts are sequences of      *)
(* characters, characters are the numbers -128..127.                       *)
(***************************************************************************)
EXTENDS Integers, Sequences, TLC

\* The operators of a condition, as Condition::Operator numbers them.
EQUAL   == 0
LESS    == 1
GREATER == 2
LIKE    == 3

\* What stands for any letters in the value of a LIKE.
Star == 42

\* '=', '<', '>', '%': the characters the command line has for them.
OperatorOf == (61 :> EQUAL) @@ (60 :> LESS) @@ (62 :> GREATER) @@ (37 :> LIKE)

\* The constructor leaves op as it is for any other character.
Operators(char, rubbish) ==
  IF char \in DOMAIN OperatorOf THEN {OperatorOf[char]} ELSE rubbish

\* std::string compares characters as unsigned.
Less(a, b) ==
  \/ Len(a) < Len(b) /\ \A i \in DOMAIN a : a[i] = b[i]
  \/ \E i \in DOMAIN a \cap DOMAIN b :
       /\ a[i] % 256 < b[i] % 256
       /\ \A j \in 1..(i - 1) : a[j] = b[j]

\* value.find(part)
Found(part, value) ==
  \E at \in 0..(Len(value) - Len(part)) :
    SubSeq(value, at + 1, at + Len(part)) = part

Compares(op, stored, value) ==
  CASE op = EQUAL   -> stored = value
    [] op = LESS    -> Less(stored, value)
    [] op = GREATER -> Less(value, stored)
    [] op = LIKE    -> Found(stored, value)
    [] OTHER        -> TRUE

\* The first attribute with the key decides; without one, no.
Satisfies(attributes, c) ==
  \E i \in DOMAIN attributes :
    /\ attributes[i][1] = c.key
    /\ \A j \in 1..(i - 1) : attributes[j][1] # c.key
    /\ Compares(c.op, attributes[i][2], c.value)

AtLeaf(depth, leaf) == depth = 0 \/ ~leaf

\* Faulty: a condition is combined by its own operator, not by the one before.
FaultyValidNode(depth, leaf, conditions, attributes) ==
  LET valid[i \in 0..Len(conditions)] ==
        IF i = 0 THEN AtLeaf(depth, leaf)
        ELSE IF conditions[i].is_or
          THEN valid[i - 1] \/ Satisfies(attributes, conditions[i])
        ELSE valid[i - 1] /\ Satisfies(attributes, conditions[i])
  IN valid[Len(conditions)]

\* Each condition is combined with what came before it by the operator that
\* is written behind the condition before it, the first one by "&".
ValidNode(depth, leaf, conditions, attributes) ==
  LET valid[i \in 0..Len(conditions)] ==
        IF i = 0 THEN AtLeaf(depth, leaf)
        ELSE IF i > 1 /\ conditions[i - 1].is_or
          THEN valid[i - 1] \/ Satisfies(attributes, conditions[i])
        ELSE valid[i - 1] /\ Satisfies(attributes, conditions[i])
  IN valid[Len(conditions)]

-----------------------------------------------------------------------------
(* What the options of a query say, without the code's own comparisons. *)

\* The byte at a place of a text, and -1 behind its end.
Byte(text, i) == IF i <= Len(text) THEN text[i] % 256 ELSE -1

\* In a dictionary of bytes a stands before b.
Precedes(a, b) ==
  \E i \in DOMAIN b :
    Byte(a, i) < Byte(b, i) /\ \A j \in 1..(i - 1) : Byte(a, j) = Byte(b, j)

\* What '=', '<' and '>' say of the value a node has and the one asked for.
Says(op, stored, value) ==
  CASE op = EQUAL   -> stored = value
    [] op = LESS    -> Precedes(stored, value)
    [] op = GREATER -> Precedes(value, stored)

\* The node has the attribute, and its first value is as the condition says.
Meets(attributes, c) ==
  LET places == {i \in DOMAIN attributes : attributes[i][1] = c.key}
  IN \E i \in places :
       /\ \A j \in places : i <= j
       /\ Says(c.op, attributes[i][2], c.value)

\* The conditions from the k-th on that are joined by "&".
AllFrom(k, conditions, attributes) ==
  \A i \in k..Len(conditions) :
    (i > 1 => ~conditions[i - 1].is_or) => Meets(attributes, conditions[i])

\* There is a "|" from which on it is never undone, or there is none needed.
Listable(depth, leaf, conditions, attributes) ==
  \/ AtLeaf(depth, leaf) /\ AllFrom(1, conditions, attributes)
  \/ \E k \in 2..Len(conditions) :
       /\ conditions[k - 1].is_or
       /\ Meets(attributes, conditions[k])
       /\ AllFrom(k + 1, conditions, attributes)

\* '=', '<' and '>' only: of LIKE LikeMatches says more.
Plain(conditions) ==
  \A i \in DOMAIN conditions : conditions[i].op \in {EQUAL, LESS, GREATER}

=============================================================================
