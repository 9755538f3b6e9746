------------------------------- MODULE MCWire -------------------------------
(***************************************************************************)
(* Requests, tables and rows at and beyond every limit of the texts.       *)
(***************************************************************************)
EXTENDS Wire

\* n times the letter a, and names that begin with an accented letter.
As(n) == [i \in 1..n |-> 97]
Bob == <<98, 111>>
Accented == {<<-61, -111>>, <<-60, 97>>}
Broken == {<<97, NewLine, 98>>, <<97, NewLine, -10>>}
Escaped == <<97, Backslash, 110>>

Names == {As(1), As(999), As(1000), Escaped} \cup Accented \cup Broken

Create(name, rels, attrs) ==
  [type |-> "C", name |-> name, rels |-> rels, attrs |-> attrs, id |-> 0,
   hosts |-> <<>>]
Query(name, depth, leaf, conds) ==
  [type |-> "R", name |-> name, depth |-> depth, leaf |-> leaf,
   attr |-> TRUE, conds |-> conds, id |-> 0]
Update(is_node, key, value) ==
  [type |-> "U", is_node |-> is_node, name |-> As(2), key |-> key,
   value |-> value, id |-> 0]
Delete(object, other) ==
  [type |-> "D", object |-> object, name |-> As(2), other |-> other, id |-> 0,
   hosts |-> <<>>]

Many(n) == [i \in 1..n |-> Bob]
AttributesOf(n) == [i \in 1..n |-> <<As(1), Bob>>]

Creates ==
  {Create(name, <<Bob>>, <<>>) : name \in Names}
  \cup {Create(Bob, <<name>>, <<<<As(1), As(1)>>>>) : name \in Names}
  \cup {Create(Bob, Many(n), AttributesOf(m)) :
          n \in {0, 9, 10}, m \in {0, 9, 10}}
  \cup {Create(Bob, Many(n), <<>>) : n \in {207, 209, 256, 257}}

Cond(key, value, op, is_or) ==
  [key |-> key, value |-> value, op |-> op, is_or |-> is_or]

\* Operators as the command line's characters make them, '!' unknown.
Ops == UNION {Operators(char, {7, 32}) : char \in {61, 60, 62, 37, 33}}

Conditions ==
  {<<>>} \cup {<<Cond(As(1), Bob, op, FALSE)>> : op \in Ops}
  \cup {<<Cond(As(1), value, op, FALSE)>> :
          value \in {As(1), <<-61, -111>>}, op \in {LESS, GREATER}}
  \cup {<<Cond(As(1), Bob, a, first), Cond(Bob, Bob, b, second),
          Cond(As(1), As(1), EQUAL, FALSE)>> :
          a, b \in {EQUAL, LESS, LIKE}, first, second \in BOOLEAN}
  \cup {[i \in 1..n |-> Cond(Bob, Bob, GREATER, TRUE)] : n \in {99, 100}}

Queries ==
  {Query(As(1), depth, leaf, conds) :
     depth \in {0, 1}, leaf \in BOOLEAN, conds \in Conditions}
  \cup {Query(As(1), depth, TRUE, <<>>) : depth \in {9, 10, 12, -1}}
  \cup {Query(name, 0, FALSE, <<>>) : name \in Names}

Others ==
  {Update(TRUE, <<>>, value) : value \in Names}
  \cup {Update(FALSE, key, Bob) : key \in Names}
  \cup {Delete(object, IF object = 0 THEN <<>> ELSE As(3)) : object \in 0..2}
  \cup {Delete(2, <<-60, 97>>)}

AllRequests == Creates \cup Queries \cup Others

Local == <<49, 50, 55, 46, 48, 46, 48, 46, 49>>
Table(n) == [i \in 1..n |-> [ip |-> Local, port |-> 49999 + i]]
SomeTables == {Table(n) : n \in {2, 3, 4, 9, 10}}

SomeRows ==
  {[rels |-> Many(n), attrs |-> <<>>] : n \in {0, 9, 10}}
  \cup {[rels |-> <<>>, attrs |-> attrs] :
          attrs \in {<<<<As(1), Bob>>>>, <<<<As(1), As(1)>>, <<Bob, Bob>>>>,
                     <<<<Bob, As(1)>>, <<As(1), Bob>>, <<Bob, Bob>>>>,
                     <<<<As(1), As(990)>>>>}}

\* "MS*", and no star.
Likes ==
  {Query(As(1), 0, FALSE, <<Cond(As(1), value, LIKE, FALSE)>>) :
     value \in {<<77, 83, Star>>, <<77, 83>>}}
Degrees == {[rels |-> <<>>, attrs |-> <<<<As(1), value>>>>] :
              value \in {<<77, 83>>, <<77, 83, 99>>, Bob}}
=============================================================================
