---------------------------- MODULE ServiceProofs ----------------------------
(***************************************************************************)
(* A cluster that is set up keeps what GraphService promises: for any      *)
(* graph, any clients and any requests at the same time.                   *)
(***************************************************************************)
EXTENDS SettledProofs, ClusterService

(***************************************************************************)
(* Distances in a graph.  What a recursive function computes is shown by   *)
(* the least number at which it would not.                                 *)
(***************************************************************************)
LEMMA Least ==
  ASSUME NEW T, T \subseteq Nat, T # {}
  PROVE  \E x \in T : \A y \in T : x <= y
<1>1. PICK x \in T : \A y \in T : ~(<<y, x>> \in OpToRel(<, Nat))
  BY NatLessThanWellFounded, WFMin
<1>2. \A y \in T : ~(y < x)
  BY <1>1 DEF OpToRel
<1> QED
  BY <1>2

LEMMA Induct ==
  ASSUME NEW S, 0 \in S, \A n \in Nat : n \in S => n + 1 \in S
  PROVE  Nat \subseteq S
<1> SUFFICES ASSUME Nat \ S # {} PROVE FALSE
  OBVIOUS
<1>1. PICK x \in Nat \ S : \A y \in Nat \ S : x <= y
  BY Least
<1>2. x # 0 /\ x - 1 \in Nat
  BY <1>1
<1>3. x - 1 \in S
  BY <1>1, <1>2
<1>4. (x - 1) + 1 \in S
  BY <1>2, <1>3
<1> QED
  BY <1>1, <1>4

\* One step further in the graph g.
Further(g, S) ==
  S \cup {b \in Names : \E a \in S : Service!Relation(a, b) \in g}

Reaches(f, g, name, k) ==
  /\ f[0] = {name}
  /\ \A i \in 0..(k - 1) : f[i + 1] = Further(g, f[i])

LEMMA ReachesExists ==
  ASSUME NEW g, NEW name, NEW k \in Nat
  PROVE  \E f : Reaches(f, g, name, k)
<1> DEFINE S == {n \in Nat : \E f : Reaches(f, g, name, n)}
<1>1. 0 \in S
  <2>1. PICK f : f = [i \in {0} |-> {name}]
    OBVIOUS
  <2>2. Reaches(f, g, name, 0)
    BY <2>1 DEF Reaches
  <2> QED
    BY <2>2
<1>2. ASSUME NEW n \in Nat, n \in S PROVE n + 1 \in S
  <2>1. PICK f : Reaches(f, g, name, n)
    BY <1>2
  <2>2. PICK h : h = [i \in 0..(n + 1) |->
                        IF i = n + 1 THEN Further(g, f[n]) ELSE f[i]]
    OBVIOUS
  <2>3. h[0] = f[0] /\ f[0] = {name}
    BY <2>1, <2>2 DEF Reaches
  <2>4. ASSUME NEW i \in 0..((n + 1) - 1) PROVE h[i + 1] = Further(g, h[i])
    <3>1. CASE i = n
      <4>1. n + 1 \in 0..(n + 1) /\ n \in 0..(n + 1) /\ n # n + 1
        OBVIOUS
      <4> QED
        BY <2>2, <3>1, <4>1
    <3>2. CASE i # n
      <4>1. /\ i \in 0..(n - 1) /\ i \in 0..(n + 1) /\ i + 1 \in 0..(n + 1)
            /\ i # n + 1 /\ i + 1 # n + 1
        BY <3>2
      <4>2. h[i] = f[i] /\ h[i + 1] = f[i + 1]
        BY <2>2, <4>1
      <4>3. f[i + 1] = Further(g, f[i])
        BY <2>1, <4>1 DEF Reaches
      <4> QED
        BY <4>2, <4>3
    <3> QED
      BY <3>1, <3>2
  <2>5. Reaches(h, g, name, n + 1)
    BY <2>3, <2>4 DEF Reaches
  <2> QED
    BY <2>5
<1> HIDE DEF S
<1>3. Nat \subseteq S
  BY <1>1, <1>2, Induct
<1> QED
  BY <1>3 DEF S

LEMMA WithinReaches ==
  ASSUME NEW g, NEW name, NEW k \in Nat
  PROVE  \E f : Reaches(f, g, name, k) /\ Service!Within(g, name, k) = f[k]
<1>1. PICK f : Reaches(f, g, name, k)
  BY ReachesExists
<1> DEFINE Is(h) == h = [i \in 0..k |->
                          IF i = 0 THEN {name}
                          ELSE h[i - 1] \cup
                                 {b \in Names : \E a \in h[i - 1] :
                                                Service!Relation(a, b) \in g}]
           reach == CHOOSE h : Is(h)
<1>2. \E h : Is(h)
  <2>1. PICK h : h = [i \in 0..k |-> f[i]]
    OBVIOUS
  <2>2. ASSUME NEW i \in 0..k
        PROVE  h[i] = IF i = 0 THEN {name} ELSE Further(g, h[i - 1])
    <3>1. CASE i = 0
      BY <1>1, <2>1, <3>1 DEF Reaches
    <3>2. CASE i # 0
      <4>1. i - 1 \in 0..(k - 1) /\ i - 1 \in 0..k /\ (i - 1) + 1 = i
        BY <3>2
      <4>2. f[(i - 1) + 1] = Further(g, f[i - 1])
        BY <1>1, <4>1 DEF Reaches
      <4> QED
        BY <2>1, <3>2, <4>1, <4>2
    <3> QED
      BY <3>1, <3>2
  <2>3. Is(h)
    BY <2>1, <2>2 DEF Further
  <2> QED
    BY <2>3
<1>3. Is(reach)
  BY <1>2
<1>4. Reaches(reach, g, name, k)
  <2> HIDE DEF reach
  <2>1. reach[0] = {name}
    BY <1>3
  <2>2. ASSUME NEW i \in 0..(k - 1) PROVE reach[i + 1] = Further(g, reach[i])
    <3>1. i + 1 \in 0..k /\ i + 1 # 0 /\ (i + 1) - 1 = i
      OBVIOUS
    <3>2. reach[i + 1] = Further(g, reach[(i + 1) - 1])
      BY <1>3, <3>1 DEF Further
    <3> QED
      BY <3>1, <3>2
  <2> QED
    BY <2>1, <2>2 DEF Reaches
<1>5. Service!Within(g, name, k) = reach[k]
  BY DEF Service!Within
<1> QED
  BY <1>4, <1>5

LEMMA ReachesOnce ==
  ASSUME NEW g, NEW name, NEW k \in Nat, NEW m \in Nat, k <= m,
         NEW f, Reaches(f, g, name, k), NEW h, Reaches(h, g, name, m)
  PROVE  f[k] = h[k]
<1> DEFINE S == {i \in Nat : i <= k => f[i] = h[i]}
<1>1. 0 \in S
  BY DEF Reaches
<1>2. ASSUME NEW n \in Nat, n \in S PROVE n + 1 \in S
  <2> SUFFICES ASSUME n + 1 <= k PROVE f[n + 1] = h[n + 1]
    OBVIOUS
  <2>1. n \in 0..(k - 1) /\ n \in 0..(m - 1) /\ f[n] = h[n]
    BY <1>2
  <2>2. f[n + 1] = Further(g, f[n]) /\ h[n + 1] = Further(g, h[n])
    BY <2>1 DEF Reaches
  <2> QED
    BY <2>1, <2>2
<1> HIDE DEF S
<1>3. Nat \subseteq S
  BY <1>1, <1>2, Induct
<1> QED
  BY <1>3 DEF S

\* The nodes at most k + 1 relations away are one step from those at most k.
LEMMA WithinZero ==
  ASSUME NEW g, NEW name PROVE Service!Within(g, name, 0) = {name}
<1>1. PICK f : Reaches(f, g, name, 0) /\ Service!Within(g, name, 0) = f[0]
  BY WithinReaches
<1> QED
  BY <1>1 DEF Reaches

LEMMA WithinNext ==
  ASSUME NEW g, NEW name, NEW k \in Nat
  PROVE  Service!Within(g, name, k + 1) =
           Further(g, Service!Within(g, name, k))
<1>1. PICK f : /\ Reaches(f, g, name, k + 1)
               /\ Service!Within(g, name, k + 1) = f[k + 1]
  BY WithinReaches
<1>2. PICK h : Reaches(h, g, name, k) /\ Service!Within(g, name, k) = h[k]
  BY WithinReaches
<1>3. h[k] = f[k]
  BY <1>1, <1>2, ReachesOnce
<1>4. f[k + 1] = Further(g, f[k])
  <2>1. k \in 0..((k + 1) - 1)
    OBVIOUS
  <2> QED
    BY <1>1, <2>1 DEF Reaches
<1> QED
  BY <1>1, <1>2, <1>3, <1>4

LEMMA WithinGrows ==
  ASSUME NEW g, NEW name, NEW j \in Nat, NEW k \in Nat, j <= k
  PROVE  Service!Within(g, name, j) \subseteq Service!Within(g, name, k)
<1> DEFINE S == {i \in Nat : Service!Within(g, name, j)
                               \subseteq Service!Within(g, name, j + i)}
<1>1. 0 \in S
  OBVIOUS
<1>2. ASSUME NEW n \in Nat, n \in S PROVE n + 1 \in S
  <2>1. Service!Within(g, name, (j + n) + 1) =
          Further(g, Service!Within(g, name, j + n))
    BY WithinNext
  <2>2. j + (n + 1) = (j + n) + 1
    OBVIOUS
  <2> QED
    BY <1>2, <2>1, <2>2 DEF Further
<1> HIDE DEF S
<1>3. Nat \subseteq S
  BY <1>1, <1>2, Induct
<1>4. k - j \in S /\ j + (k - j) = k
  BY <1>3
<1> QED
  BY <1>4 DEF S

LEMMA WithinMore ==
  ASSUME NEW g, NEW h, g \subseteq h, NEW name, NEW k \in Nat
  PROVE  Service!Within(g, name, k) \subseteq Service!Within(h, name, k)
<1> DEFINE S == {i \in Nat : Service!Within(g, name, i)
                               \subseteq Service!Within(h, name, i)}
<1>1. 0 \in S
  BY WithinZero
<1>2. ASSUME NEW n \in Nat, n \in S PROVE n + 1 \in S
  BY <1>2, WithinNext DEF Further
<1> HIDE DEF S
<1>3. Nat \subseteq S
  BY <1>1, <1>2, Induct
<1> QED
  BY <1>3 DEF S

\* A set that is left by no relation holds whatever it reaches.
LEMMA WithinClosed ==
  ASSUME NEW g, NEW V, NEW name \in V, NEW k \in Nat,
         \A a \in V, b \in Names : Service!Relation(a, b) \in g => b \in V
  PROVE  Service!Within(g, name, k) \subseteq V
<1> DEFINE S == {i \in Nat : Service!Within(g, name, i) \subseteq V}
<1>1. 0 \in S
  BY WithinZero
<1>2. ASSUME NEW n \in Nat, n \in S PROVE n + 1 \in S
  BY <1>2, WithinNext DEF Further
<1> HIDE DEF S
<1>3. Nat \subseteq S
  BY <1>1, <1>2, Induct
<1> QED
  BY <1>3 DEF S

LEMMA AtMostMore ==
  ASSUME NEW g, NEW h, g \subseteq h, NEW name, NEW k \in Int
  PROVE  Service!AtMost(g, name, k) \subseteq Service!AtMost(h, name, k)
BY WithinMore DEF Service!AtMost

-----------------------------------------------------------------------------
\* The nodes that enter the queue are all fresh ones.
LEMMA OrderAll ==
  ASSUME NEW S, IsFiniteSet(S), NEW order \in SetToSeqs(S)
  PROVE  ToSet(order) = S
<1> DEFINE D == 1..Cardinality(S)
<1>1. Cardinality(S) \in Nat
  BY FS_CardinalityType
<1>2. /\ order \in [D -> S]
      /\ \A i, j \in D : i # j => order[i] # order[j]
  BY DEF SetToSeqs
<1>3. order \in Injection(D, S)
  BY <1>2 DEF Injection, IsInjective
<1>4. Cardinality(D) = Cardinality(S)
  BY <1>1, FS_Interval
<1>5. order \in Surjection(D, S)
  BY <1>3, <1>4, FS_Injection
<1> QED
  BY <1>2, <1>5 DEF Surjection, ToSet

-----------------------------------------------------------------------------
(***************************************************************************)
(* A search in a graph g that grows, by a query for r that was asked when  *)
(* the graph was old.                                                      *)
(***************************************************************************)
Linked(g, a, b) == Service!Relation(a, b) \in g

\* No nearer now than d, and no farther than d when the query was asked.
Near(g, old, root, n, d) ==
  /\ n \in Service!AtMost(g, root, d)
  /\ n \notin Service!AtMost(old, root, d - 1)

\* What may be listed, and which nodes must be.
MayList(g, old, r, l) ==
  /\ l.depth \in 0..r.depth
  /\ Near(g, old, r.name, l.name, l.depth)
  /\ r.leaf => l.depth = r.depth
  /\ r.cond => Service!Attribute(l.name) \in g

MustList(g, old, r, n) ==
  /\ r.leaf => n \notin Service!AtMost(g, r.name, r.depth - 1)
  /\ r.cond => Service!Attribute(n) \in old

\* The nodes whose repositories have answered, and the depth that is done.
Passed(q) == q.visited \ NamesOf(q.queue)
Level(q)  == IF q.queue = <<>> THEN q.depth ELSE q.depth - q.queue[1].left

Search(g, old, r, q) ==
  /\ r.op = "R" /\ q.depth = r.depth /\ q.leaf = r.leaf /\ q.cond = r.cond
  /\ r.name \in q.visited
  /\ \A i \in DOMAIN q.queue :
       Near(g, old, r.name, q.queue[i].name, q.depth - q.queue[i].left)
  /\ \A i \in DOMAIN q.response : MayList(g, old, r, q.response[i])
  /\ \A n \in Passed(q) : MustList(g, old, r, n) => n \in NamesOf(q.response)
  /\ Service!Within(old, r.name, Level(q)) \subseteq q.visited
  /\ q.queue # <<>> /\ q.queue[1].left > 0 =>
       \A a \in Passed(q), b \in Names : Linked(old, a, b) => b \in q.visited

\* What a repository says of the node top is true of it now or was true.
Reports(g, old, q, rels, valid) ==
  LET top == q.queue[1] IN
  /\ \A b \in Names : /\ Linked(old, top.name, b) => b \in rels
                      /\ b \in rels => Linked(g, top.name, b)
  /\ valid => /\ q.leaf => top.left = 0
              /\ q.cond => Service!Attribute(top.name) \in g
  /\ ~valid => \/ q.leaf /\ top.left # 0
               \/ q.cond /\ Service!Attribute(top.name) \notin old

LEMMA NearMore ==
  ASSUME NEW g, NEW h, g \subseteq h, NEW old, NEW root, NEW n, NEW d \in Int,
         Near(g, old, root, n, d)
  PROVE  Near(h, old, root, n, d)
BY AtMostMore DEF Near

LEMMA MayListMore ==
  ASSUME NEW g, NEW h, g \subseteq h, NEW old, NEW r, NEW l, r.depth \in Nat,
         MayList(g, old, r, l)
  PROVE  MayList(h, old, r, l)
<1>1. l.depth \in Int
  BY DEF MayList
<1> QED
  BY <1>1, NearMore DEF MayList

LEMMA MustListLess ==
  ASSUME NEW g, NEW h, g \subseteq h, NEW old, NEW r, NEW n, r.depth \in Nat,
         MustList(h, old, r, n)
  PROVE  MustList(g, old, r, n)
<1>1. Service!AtMost(g, r.name, r.depth - 1)
        \subseteq Service!AtMost(h, r.name, r.depth - 1)
  BY AtMostMore
<1> QED
  BY <1>1 DEF MustList

LEMMA SearchMore ==
  ASSUME NEW g, NEW h, g \subseteq h, NEW old, NEW r, NEW q, WellFormed(q),
         Search(g, old, r, q)
  PROVE  Search(h, old, r, q)
<1>1. q.depth = r.depth /\ r.depth \in Nat
  BY DEF Search, WellFormed, QueryState
<1>2. ASSUME NEW i \in DOMAIN q.queue
      PROVE  Near(h, old, r.name, q.queue[i].name, q.depth - q.queue[i].left)
  <2>1. q.depth - q.queue[i].left \in Int
    BY Depths
  <2>2. Near(g, old, r.name, q.queue[i].name, q.depth - q.queue[i].left)
    BY DEF Search
  <2> QED
    BY <2>1, <2>2, NearMore
<1>3. \A i \in DOMAIN q.response : MayList(h, old, r, q.response[i])
  BY <1>1, MayListMore DEF Search
<1>4. \A n \in Passed(q) : MustList(h, old, r, n) => n \in NamesOf(q.response)
  BY <1>1, MustListLess DEF Search
<1> QED
  BY <1>2, <1>3, <1>4 DEF Search

LEMMA ReportsMore ==
  ASSUME NEW g, NEW h, g \subseteq h, NEW old, NEW q, NEW rels, NEW valid,
         Reports(g, old, q, rels, valid)
  PROVE  Reports(h, old, q, rels, valid)
BY DEF Reports, Linked

\* A search begins at the node asked for.
LEMMA SearchBegins ==
  ASSUME NEW g, NEW old, NEW r \in QueryRequest, NEW q,
         q = NewState(r.name, r.depth, r.leaf, r.cond)
  PROVE  Search(g, old, r, q)
<1>1. /\ r.op = "R" /\ r.depth \in Nat /\ q.depth = r.depth /\ q.leaf = r.leaf
      /\ q.cond = r.cond /\ q.visited = {r.name}
      /\ q.queue = <<[name |-> r.name, left |-> r.depth]>>
      /\ q.response = <<>>
  BY DEF NewState, QueryRequest
<1>2. /\ DOMAIN q.queue = {1} /\ q.queue[1].name = r.name
      /\ q.queue[1].left = r.depth /\ q.queue # <<>> /\ DOMAIN q.response = {}
  BY <1>1
<1>3. Passed(q) = {}
  BY <1>1, <1>2 DEF Passed, NamesOf
<1>4. Level(q) = 0
  BY <1>1, <1>2 DEF Level
<1>5. Service!Within(old, r.name, Level(q)) = {r.name}
  BY <1>4, WithinZero
<1>6. Near(g, old, r.name, r.name, r.depth - r.depth)
  <2>1. r.depth - r.depth = 0 /\ 0 - 1 = -1 /\ -1 < 0 /\ ~(0 < 0)
    BY <1>1
  <2>2. Service!AtMost(g, r.name, 0) = {r.name}
    BY <2>1, WithinZero DEF Service!AtMost
  <2>3. Service!AtMost(old, r.name, 0 - 1) = {}
    BY <2>1 DEF Service!AtMost
  <2> QED
    BY <2>1, <2>2, <2>3 DEF Near
<1> QED
  BY <1>1, <1>2, <1>3, <1>5, <1>6 DEF Search

\* The front of a query's queue.
LEMMA FrontEntry ==
  ASSUME NEW q, WellFormed(q), Layered(q)
  PROVE  LET top == q.queue[1] IN
         /\ q.queue # <<>> /\ 1 \in DOMAIN q.queue /\ top = Head(q.queue)
         /\ top.left \in Nat /\ q.depth \in Nat /\ top.left <= q.depth
         /\ top.name \in q.visited /\ q.visited \subseteq Names
<1>1. /\ q.queue \in Seq(Entry(Names)) /\ q.queue # <<>> /\ q.depth \in Nat
      /\ q.visited \subseteq Names
  BY DEF WellFormed, QueryState
<1>2. 1 \in DOMAIN q.queue /\ q.queue[1] = Head(q.queue)
  BY <1>1
<1>3. q.queue[1].left \in Nat /\ q.queue[1].left <= q.depth
  BY <1>2, Depths DEF WellFormed
<1>4. q.queue[1].name \in q.visited
  BY <1>2 DEF Layered, NamesOf
<1>5. q.queue # <<>> /\ 1 \in DOMAIN q.queue /\ q.queue[1] = Head(q.queue)
  BY <1>1, <1>2
<1>6. /\ q.queue[1].left \in Nat /\ q.depth \in Nat /\ q.queue[1].left <= q.depth
  BY <1>1, <1>3
<1>7. q.queue[1].name \in q.visited /\ q.visited \subseteq Names
  BY <1>1, <1>4
<1> QED
  BY <1>5, <1>6, <1>7, Zenon

\* What a report makes of the queue and of the visited nodes.
LEMMA AbsorbQueue ==
  ASSUME NEW q, WellFormed(q), Layered(q), NEW related \in SUBSET Names,
         NEW order \in SetToSeqs(Fresh(q, related)), NEW valid \in BOOLEAN
  PROVE  LET top  == q.queue[1]
             next == Absorb(q, valid, order)
         IN
         /\ next.depth = q.depth
         /\ next.visited = q.visited \cup Fresh(q, related)
         /\ \A i \in DOMAIN next.queue :
              \/ \E j \in DOMAIN q.queue :
                   /\ next.queue[i] = q.queue[j]
                   /\ q.queue[j].left \in {top.left, top.left - 1}
              \/ /\ next.queue[i].left = top.left - 1
                 /\ next.queue[i].name \in Fresh(q, related)
         /\ Passed(next) \subseteq Passed(q) \cup {top.name}
         /\ next.queue # <<>> => 1 \in DOMAIN next.queue
<1>1. PICK n, k, next, top :
        /\ n = Len(q.queue) /\ k = Len(order) /\ next = Absorb(q, valid, order)
        /\ top = q.queue[1]
  OBVIOUS
<1>2. order \in Seq(Names)
  BY OrderType DEF WellFormed
<1>3. /\ n \in Nat \ {0} /\ k \in Nat
      /\ DOMAIN q.queue = 1..n /\ DOMAIN order = 1..k
      /\ DOMAIN next.queue = 1..(n - 1 + k)
      /\ \A i \in 1..(n - 1) : next.queue[i] = q.queue[i + 1]
      /\ \A i \in n..(n - 1 + k) :
           next.queue[i] = [name |-> order[i - n + 1], left |-> top.left - 1]
      /\ next.visited = q.visited \cup ToSet(order)
      /\ next.depth = q.depth
  <2>1. LET N == Len(q.queue)
            K == Len(order)
            T == q.queue[1]
            X == Absorb(q, valid, order)
        IN
        /\ N \in Nat \ {0} /\ K \in Nat
        /\ DOMAIN q.queue = 1..N /\ DOMAIN order = 1..K
        /\ DOMAIN X.queue = 1..(N - 1 + K)
        /\ \A i \in 1..(N - 1) : X.queue[i] = q.queue[i + 1]
        /\ \A i \in N..(N - 1 + K) :
             X.queue[i] = [name |-> order[i - N + 1], left |-> T.left - 1]
        /\ X.visited = q.visited \cup ToSet(order)
        /\ X.depth = q.depth
    BY <1>2, AbsorbFields, Zenon
  <2> QED
    BY <2>1, <1>1
<1>4. ToSet(order) = Fresh(q, related)
  <2>1. Fresh(q, related) \subseteq Names
    BY DEF Fresh
  <2>2. IsFiniteSet(Fresh(q, related))
    BY <2>1, ClusterAssumption, FS_Subset
  <2> QED
    BY <2>2, OrderAll
<1>5. ToSet(order) = {order[i] : i \in 1..k}
  BY <1>3 DEF ToSet
<1>6. ASSUME NEW i \in 1..(n - 1)
      PROVE  /\ i + 1 \in DOMAIN q.queue /\ next.queue[i] = q.queue[i + 1]
             /\ q.queue[i + 1].left \in {top.left, top.left - 1}
  <2>1. i + 1 \in 1..n /\ 1 \in 1..n /\ 1 < i + 1
    BY <1>3
  <2>2. q.queue[i + 1].left \in {q.queue[1].left, q.queue[1].left - 1}
    BY <1>3, <2>1 DEF Layered
  <2> QED
    BY <1>1, <1>3, <2>1, <2>2
<1>7. ASSUME NEW i \in n..(n - 1 + k)
      PROVE  /\ next.queue[i].left = top.left - 1
             /\ next.queue[i].name \in Fresh(q, related)
  <2>1. i - n + 1 \in 1..k
    BY <1>3
  <2>2. next.queue[i] = [name |-> order[i - n + 1], left |-> top.left - 1]
    BY <1>3
  <2>3. order[i - n + 1] \in Fresh(q, related)
    BY <1>4, <1>5, <2>1
  <2> QED
    BY <2>2, <2>3
<1>8. ASSUME NEW i \in DOMAIN next.queue
      PROVE  i \in 1..(n - 1) \/ i \in n..(n - 1 + k)
  BY <1>3
<1>9. ASSUME NEW a \in Passed(next) PROVE a \in Passed(q) \cup {top.name}
  <2>1. a \in next.visited /\ \A i \in DOMAIN next.queue : next.queue[i].name # a
    BY <1>9 DEF Passed, NamesOf
  <2>2. \A i \in 1..k : order[i] # a
    <3> SUFFICES ASSUME NEW i \in 1..k PROVE order[i] # a
      OBVIOUS
    <3>1. /\ i + n - 1 \in n..(n - 1 + k) /\ i + n - 1 \in 1..(n - 1 + k)
          /\ (i + n - 1) - n + 1 = i
      BY <1>3
    <3>2. next.queue[i + n - 1] = [name |-> order[(i + n - 1) - n + 1],
                                   left |-> top.left - 1]
      BY <1>3, <3>1
    <3> QED
      BY <1>3, <2>1, <3>1, <3>2
  <2>3. a \in q.visited
    BY <1>3, <1>5, <2>1, <2>2
  <2>4. ASSUME NEW j \in 2..n PROVE q.queue[j].name # a
    <3>1. j - 1 \in 1..(n - 1) /\ j - 1 \in 1..(n - 1 + k) /\ (j - 1) + 1 = j
      BY <1>3
    <3>2. next.queue[j - 1] = q.queue[(j - 1) + 1]
      BY <1>3, <3>1
    <3> QED
      BY <1>3, <2>1, <3>1, <3>2
  <2>5. \A j \in 1..n : j = 1 \/ j \in 2..n
    BY <1>3
  <2> QED
    BY <1>1, <1>3, <2>3, <2>4, <2>5 DEF Passed, NamesOf
<1>10. next.queue # <<>> => 1 \in DOMAIN next.queue
  <2>1. next.queue \in Seq(Entry(Names))
    BY <1>1, <1>2, OrderType, AbsorbType DEF WellFormed, QueryState
  <2> QED
    BY <2>1
<1> QED
  BY <1>1, <1>3, <1>4, <1>6, <1>7, <1>8, <1>9, <1>10

\* What it makes of the list.
LEMMA AbsorbList ==
  ASSUME NEW q, WellFormed(q), Layered(q), NEW order, NEW valid \in BOOLEAN
  PROVE  LET top  == q.queue[1]
             next == Absorb(q, valid, order)
         IN
         /\ next.leaf = q.leaf /\ next.cond = q.cond
         /\ \A i \in DOMAIN next.response :
              \/ \E j \in DOMAIN q.response : next.response[i] = q.response[j]
              \/ /\ valid /\ next.response[i].name = top.name
                 /\ next.response[i].depth = q.depth - top.left
         /\ NamesOf(q.response) \subseteq NamesOf(next.response)
         /\ valid => top.name \in NamesOf(next.response)
<1>1. PICK next, top, l :
        /\ next = Absorb(q, valid, order) /\ top = q.queue[1]
        /\ l = [name |-> top.name, depth |-> q.depth - top.left]
  OBVIOUS
<1>2. top = Head(q.queue) /\ q.response \in Seq(Listed(Names))
  BY <1>1, FrontEntry DEF WellFormed, QueryState
<1>3. /\ next.response = IF valid THEN Append(q.response, l) ELSE q.response
      /\ next.leaf = q.leaf /\ next.cond = q.cond
  BY <1>1, <1>2 DEF Absorb, WellFormed, QueryState
<1>4. CASE valid
  <2>1. /\ DOMAIN next.response = 1..(Len(q.response) + 1)
        /\ DOMAIN q.response = 1..Len(q.response) /\ Len(q.response) \in Nat
        /\ \A i \in 1..Len(q.response) : next.response[i] = q.response[i]
        /\ next.response[Len(q.response) + 1] = l
    BY <1>2, <1>3, <1>4
  <2>2. \A i \in DOMAIN next.response :
          i \in DOMAIN q.response \/ i = Len(q.response) + 1
    BY <2>1
  <2>3. /\ DOMAIN q.response \subseteq DOMAIN next.response
        /\ Len(q.response) + 1 \in DOMAIN next.response
    BY <2>1
  <2>4. NamesOf(q.response) \subseteq NamesOf(next.response)
    BY <2>1, <2>3 DEF NamesOf
  <2>5. top.name \in NamesOf(next.response)
    BY <1>1, <2>1, <2>3 DEF NamesOf
  <2> QED
    BY <1>1, <1>3, <1>4, <2>1, <2>2, <2>4, <2>5
<1>5. CASE ~valid
  BY <1>1, <1>3, <1>5
<1> QED
  BY <1>4, <1>5

\* A relation leads one step further.
LEMMA OneStep ==
  ASSUME NEW g, NEW root, NEW k \in Nat, NEW a \in Service!Within(g, root, k),
         NEW b \in Names, Linked(g, a, b)
  PROVE  b \in Service!Within(g, root, k + 1)
BY WithinNext DEF Further, Linked

LEMMA LevelIs ==
  ASSUME NEW q, WellFormed(q), Layered(q)
  PROVE  Level(q) = q.depth - q.queue[1].left /\ Level(q) \in Nat
BY FrontEntry DEF Level

(***************************************************************************)
(* The front node is reported: the nodes that enter the queue are as deep  *)
(* as they should be,                                                      *)
(***************************************************************************)
LEMMA SearchQueue ==
  ASSUME NEW g, NEW old, NEW r, NEW q, WellFormed(q), Layered(q),
         Search(g, old, r, q), NEW related \in SUBSET Names,
         NEW order \in SetToSeqs(Fresh(q, related)), NEW valid \in BOOLEAN,
         Reports(g, old, q, related, valid)
  PROVE  LET next == Absorb(q, valid, order) IN
         \A i \in DOMAIN next.queue :
           Near(g, old, r.name, next.queue[i].name,
                next.depth - next.queue[i].left)
<1>1. PICK next, top, d : /\ next = Absorb(q, valid, order)
                          /\ top = q.queue[1] /\ d = q.depth - top.left
  OBVIOUS
<1>2. /\ 1 \in DOMAIN q.queue /\ top = Head(q.queue)
      /\ top.left \in Nat /\ q.depth \in Nat /\ top.left <= q.depth
  BY <1>1, FrontEntry
<1>3. d \in Nat /\ Level(q) = d
  BY <1>1, <1>2, LevelIs
<1>4. next.depth = q.depth
  BY <1>1, AbsorbQueue
<1> SUFFICES ASSUME NEW i \in DOMAIN next.queue
             PROVE  Near(g, old, r.name, next.queue[i].name,
                         q.depth - next.queue[i].left)
  BY <1>1, <1>4
<1>5. CASE \E j \in DOMAIN q.queue : next.queue[i] = q.queue[j]
  BY <1>5 DEF Search
<1>6. CASE /\ next.queue[i].left = top.left - 1
           /\ next.queue[i].name \in Fresh(q, related)
  <2>1. PICK b : b = next.queue[i].name
    OBVIOUS
  <2>2. b \in related /\ b \notin q.visited /\ b \in Names
    BY <1>6, <2>1 DEF Fresh
  <2>3. Near(g, old, r.name, top.name, d)
    BY <1>1, <1>2 DEF Search
  <2>4. top.name \in Service!Within(g, r.name, d)
    BY <1>3, <2>3 DEF Near, Service!AtMost
  <2>5. b \in Service!Within(g, r.name, d + 1)
    BY <1>1, <1>3, <2>2, <2>4, OneStep DEF Reports
  <2>6. b \notin Service!Within(old, r.name, d)
    BY <1>3, <2>2 DEF Search
  <2>7. /\ q.depth - next.queue[i].left = d + 1 /\ (d + 1) - 1 = d
        /\ ~(d + 1 < 0) /\ ~(d < 0)
    BY <1>1, <1>2, <1>3, <1>6
  <2> QED
    BY <2>1, <2>5, <2>6, <2>7 DEF Near, Service!AtMost
<1>7. \/ \E j \in DOMAIN q.queue : next.queue[i] = q.queue[j]
      \/ /\ next.queue[i].left = top.left - 1
         /\ next.queue[i].name \in Fresh(q, related)
  BY <1>1, AbsorbQueue
<1> QED
  BY <1>5, <1>6, <1>7

\* what is listed may be, and what must be is,
LEMMA SearchList ==
  ASSUME NEW g, NEW old, NEW r, NEW q, WellFormed(q), Layered(q),
         Search(g, old, r, q), NEW related \in SUBSET Names,
         NEW order \in SetToSeqs(Fresh(q, related)), NEW valid \in BOOLEAN,
         Reports(g, old, q, related, valid)
  PROVE  LET next == Absorb(q, valid, order) IN
         /\ \A i \in DOMAIN next.response : MayList(g, old, r, next.response[i])
         /\ \A n \in Passed(next) :
              MustList(g, old, r, n) => n \in NamesOf(next.response)
<1>1. PICK next, top, d : /\ next = Absorb(q, valid, order)
                          /\ top = q.queue[1] /\ d = q.depth - top.left
  OBVIOUS
<1>2. /\ 1 \in DOMAIN q.queue
      /\ top.left \in Nat /\ q.depth \in Nat /\ top.left <= q.depth
  BY <1>1, FrontEntry
<1>3. d \in Nat /\ d <= q.depth
  BY <1>1, <1>2
<1>4. Near(g, old, r.name, top.name, d)
  BY <1>1, <1>2 DEF Search
<1>5. /\ r.depth = q.depth /\ (r.leaf <=> q.leaf) /\ (r.cond <=> q.cond)
  BY DEF Search
<1>6. ASSUME NEW i \in DOMAIN next.response
      PROVE  MayList(g, old, r, next.response[i])
  <2>1. PICK l : l = next.response[i]
    OBVIOUS
  <2>2. CASE \E j \in DOMAIN q.response : l = q.response[j]
    BY <2>1, <2>2 DEF Search
  <2>3. CASE valid /\ l.name = top.name /\ l.depth = d
    <3>1. q.leaf => d = q.depth
      BY <1>1, <1>2, <2>3 DEF Reports
    <3>2. q.cond => Service!Attribute(top.name) \in g
      BY <1>1, <2>3 DEF Reports
    <3> QED
      BY <1>3, <1>4, <1>5, <2>1, <2>3, <3>1, <3>2 DEF MayList
  <2> QED
    BY <1>1, <2>1, <2>2, <2>3, AbsorbList
<1>7. ASSUME NEW n \in Passed(next), MustList(g, old, r, n)
      PROVE  n \in NamesOf(next.response)
  <2>1. /\ NamesOf(q.response) \subseteq NamesOf(next.response)
        /\ valid => top.name \in NamesOf(next.response)
    BY <1>1, AbsorbList
  <2>2. CASE n \in Passed(q)
    BY <1>7, <2>1, <2>2 DEF Search
  <2>3. CASE n = top.name
    <3>1. SUFFICES ASSUME ~valid PROVE FALSE
      BY <2>1, <2>3
    <3>2. CASE q.leaf /\ top.left # 0
      <4>1. d <= q.depth - 1 /\ q.depth - 1 \in Nat
        BY <1>1, <1>2, <3>2
      <4>2. Service!Within(g, r.name, d)
              \subseteq Service!Within(g, r.name, q.depth - 1)
        BY <1>3, <4>1, WithinGrows
      <4>3. top.name \in Service!AtMost(g, r.name, q.depth - 1)
        BY <1>3, <1>4, <4>1, <4>2 DEF Near, Service!AtMost
      <4> QED
        BY <1>5, <1>7, <2>3, <3>2, <4>3 DEF MustList
    <3>3. CASE q.cond /\ Service!Attribute(top.name) \notin old
      BY <1>5, <1>7, <2>3, <3>3 DEF MustList
    <3> QED
      BY <1>1, <3>1, <3>2, <3>3 DEF Reports
  <2> QED
    BY <1>1, <2>2, <2>3, AbsorbQueue
<1> QED
  BY <1>1, <1>6, <1>7

\* the nodes that have been passed lead nowhere new,
LEMMA PassedClosed ==
  ASSUME NEW g, NEW old, NEW r, NEW q, WellFormed(q), Layered(q),
         Search(g, old, r, q), NEW related \in SUBSET Names,
         NEW order \in SetToSeqs(Fresh(q, related)), NEW valid \in BOOLEAN,
         Reports(g, old, q, related, valid), q.queue[1].left > 0
  PROVE  LET next == Absorb(q, valid, order) IN
         \A a \in Passed(next), b \in Names :
           Linked(old, a, b) => b \in next.visited
<1>1. PICK next, top : next = Absorb(q, valid, order) /\ top = q.queue[1]
  OBVIOUS
<1>2. q.queue # <<>> /\ top = Head(q.queue)
  BY <1>1, FrontEntry
<1>3. Fresh(q, related) = related \ q.visited
  BY <1>1, <1>2 DEF Fresh
<1>4. /\ next.visited = q.visited \cup Fresh(q, related)
      /\ Passed(next) \subseteq Passed(q) \cup {top.name}
  BY <1>1, AbsorbQueue
<1> SUFFICES ASSUME NEW a \in Passed(next), NEW b \in Names, Linked(old, a, b)
             PROVE  b \in next.visited
  BY <1>1
<1>5. CASE a \in Passed(q)
  BY <1>1, <1>2, <1>4, <1>5 DEF Search
<1>6. CASE a = top.name
  BY <1>1, <1>3, <1>4, <1>6 DEF Reports
<1> QED
  BY <1>4, <1>5, <1>6

\* the front of the queue goes down by one at most,
LEMMA FrontAfter ==
  ASSUME NEW q, WellFormed(q), Layered(q), NEW related \in SUBSET Names,
         NEW order \in SetToSeqs(Fresh(q, related)), NEW valid \in BOOLEAN
  PROVE  LET top  == q.queue[1]
             next == Absorb(q, valid, order)
         IN
         /\ next \in QueryState(Names) /\ next.depth = q.depth
         /\ Layered(next)
         /\ next.queue # <<>> =>
              /\ WellFormed(next)
              /\ next.queue[1].left \in {top.left, top.left - 1}
              /\ \A i \in DOMAIN next.queue :
                   /\ next.queue[i].left \in Nat
                   /\ next.queue[i].left <= next.queue[1].left
<1>1. PICK next, top : next = Absorb(q, valid, order) /\ top = q.queue[1]
  OBVIOUS
<1>2. q.queue # <<>> /\ top = Head(q.queue)
  BY <1>1, FrontEntry
<1>3. order \in Seq(Names) /\ (order # <<>> => Head(q.queue).left > 0)
  BY <1>2, OrderType DEF WellFormed
<1>4. /\ next \in QueryState(Names) /\ next.depth = q.depth
      /\ \A k \in DOMAIN next.queue : next.queue[k].left <= q.depth
  BY <1>1, <1>3, AbsorbType
<1>5. Layered(next)
  BY <1>1, AbsorbLayered
<1>6. ASSUME next.queue # <<>>
      PROVE  /\ WellFormed(next)
             /\ next.queue[1].left \in {top.left, top.left - 1}
             /\ \A i \in DOMAIN next.queue :
                  /\ next.queue[i].left \in Nat
                  /\ next.queue[i].left <= next.queue[1].left
  <2>1. WellFormed(next)
    BY <1>4, <1>6 DEF WellFormed
  <2>2. 1 \in DOMAIN next.queue
    BY <1>1, <1>6, AbsorbQueue
  <2>3. next.queue[1].left \in {top.left, top.left - 1}
    BY <1>1, <2>2, AbsorbQueue
  <2>4. ASSUME NEW i \in DOMAIN next.queue
        PROVE  /\ next.queue[i].left \in Nat
               /\ next.queue[i].left <= next.queue[1].left
    <3>1. next.queue[i].left \in Nat /\ next.queue[1].left \in Nat
      BY <2>1, <2>2, Depths
    <3>2. i = 1 \/ 1 < i
      <4>1. next.queue \in Seq(Entry(Names))
        BY <1>4 DEF QueryState
      <4> QED
        BY <4>1
    <3>3. 1 < i => next.queue[i].left \in
                     {next.queue[1].left, next.queue[1].left - 1}
      BY <1>5, <2>2 DEF Layered
    <3> QED
      BY <3>1, <3>2, <3>3
  <2> QED
    BY <2>1, <2>3, <2>4
<1> QED
  BY <1>1, <1>4, <1>5, <1>6

\* the nodes that were near enough are visited,
LEMMA SearchVisited ==
  ASSUME NEW g, NEW old, NEW r, NEW q, WellFormed(q), Layered(q),
         Search(g, old, r, q), NEW related \in SUBSET Names,
         NEW order \in SetToSeqs(Fresh(q, related)), NEW valid \in BOOLEAN,
         Reports(g, old, q, related, valid)
  PROVE  LET next == Absorb(q, valid, order) IN
         Service!Within(old, r.name, Level(next)) \subseteq next.visited
<1>1. PICK next, top, d : /\ next = Absorb(q, valid, order)
                          /\ top = q.queue[1] /\ d = q.depth - top.left
  OBVIOUS
<1>2. /\ top.left \in Nat /\ q.depth \in Nat /\ top.left <= q.depth
      /\ d \in Nat /\ Level(q) = d
  BY <1>1, FrontEntry, LevelIs
<1>3. /\ next.visited = q.visited \cup Fresh(q, related)
      /\ next.depth = q.depth
      /\ q.visited \subseteq next.visited
  BY <1>1, AbsorbQueue
<1>4. r.name \in q.visited /\ Service!Within(old, r.name, d) \subseteq q.visited
  BY <1>2 DEF Search
<1>5. ASSUME top.left > 0, NEW a \in Passed(next), NEW b \in Names,
             Linked(old, a, b)
      PROVE  b \in next.visited
  BY <1>1, <1>5, PassedClosed
<1>6. CASE next.queue = <<>>
  <2>1. Level(next) = q.depth
    BY <1>3, <1>6 DEF Level
  <2>2. CASE top.left = 0
    <3>1. d = q.depth
      BY <1>1, <1>2, <2>2
    <3> QED
      BY <1>1, <1>3, <1>4, <2>1, <3>1
  <2>3. CASE top.left > 0
    <3>1. Passed(next) = next.visited
      BY <1>6 DEF Passed, NamesOf
    <3>2. \A a \in next.visited, b \in Names :
            Service!Relation(a, b) \in old => b \in next.visited
      BY <1>5, <2>3, <3>1 DEF Linked
    <3>3. Service!Within(old, r.name, q.depth) \subseteq next.visited
      BY <1>2, <1>3, <1>4, <3>2, WithinClosed
    <3> QED
      BY <1>1, <2>1, <3>3
  <2> QED
    BY <1>2, <2>2, <2>3
<1>7. CASE next.queue # <<>>
  <2>1. PICK h : h = next.queue[1].left
    OBVIOUS
  <2>2. /\ h \in {top.left, top.left - 1} /\ Layered(next)
        /\ \A i \in DOMAIN next.queue : /\ next.queue[i].left \in Nat
                                        /\ next.queue[i].left <= h
        /\ 1 \in DOMAIN next.queue
    BY <1>1, <1>7, <2>1, FrontAfter, AbsorbQueue
  <2>3. h \in Nat /\ Level(next) = q.depth - h
    BY <1>3, <1>7, <2>1, <2>2 DEF Level
  <2>4. CASE h = top.left
    <3>1. Level(next) = d
      BY <1>1, <2>3, <2>4
    <3> QED
      BY <1>1, <1>3, <1>4, <3>1
  <2>5. CASE h = top.left - 1
    <3>1. top.left > 0 /\ Level(next) = d + 1
      BY <1>1, <1>2, <2>3, <2>5
    <3>2. Service!Within(old, r.name, d + 1) =
            Further(old, Service!Within(old, r.name, d))
      BY <1>2, WithinNext
    <3>3. ASSUME NEW a \in Service!Within(old, r.name, d)
          PROVE  a \in Passed(next)
      <4>1. a \in next.visited
        BY <1>3, <1>4
      <4>2. ASSUME NEW i \in DOMAIN next.queue, next.queue[i].name = a
            PROVE  FALSE
        <5>1. PICK k : k = q.depth - next.queue[i].left
          OBVIOUS
        <5>2. Near(g, old, r.name, a, k)
          BY <1>1, <1>3, <4>2, <5>1, SearchQueue
        <5>3. k - 1 \in Nat /\ d <= k - 1 /\ ~(k - 1 < 0)
          BY <1>1, <1>2, <2>2, <2>5, <5>1
        <5>4. Service!Within(old, r.name, d)
                \subseteq Service!Within(old, r.name, k - 1)
          BY <1>2, <5>3, WithinGrows
        <5> QED
          BY <5>2, <5>3, <5>4 DEF Near, Service!AtMost
      <4> QED
        BY <4>1, <4>2 DEF Passed, NamesOf
    <3>4. ASSUME NEW b \in Service!Within(old, r.name, d + 1)
          PROVE  b \in next.visited
      <4>1. CASE b \in Service!Within(old, r.name, d)
        BY <1>3, <1>4, <4>1
      <4>2. CASE /\ b \in Names
                 /\ \E a \in Service!Within(old, r.name, d) : Linked(old, a, b)
        BY <1>5, <3>1, <3>3, <4>2
      <4> QED
        BY <3>2, <4>1, <4>2 DEF Further, Linked
    <3> QED
      BY <1>1, <3>1, <3>4
  <2> QED
    BY <2>2, <2>4, <2>5
<1> QED
  BY <1>6, <1>7

\* so that the search goes on,
LEMMA SearchGoesOn ==
  ASSUME NEW g, NEW old, NEW r, NEW q, WellFormed(q), Layered(q),
         Search(g, old, r, q), NEW related \in SUBSET Names,
         NEW order \in SetToSeqs(Fresh(q, related)), NEW valid \in BOOLEAN,
         Reports(g, old, q, related, valid)
  PROVE  Search(g, old, r, Absorb(q, valid, order))
<1>1. PICK next, top : next = Absorb(q, valid, order) /\ top = q.queue[1]
  OBVIOUS
<1>2. /\ next.depth = q.depth /\ next.leaf = q.leaf /\ next.cond = q.cond
      /\ q.visited \subseteq next.visited
  BY <1>1, AbsorbQueue, AbsorbList
<1>3. /\ r.op = "R" /\ next.depth = r.depth /\ next.leaf = r.leaf
      /\ next.cond = r.cond /\ r.name \in next.visited
  BY <1>2 DEF Search
<1>4. \A i \in DOMAIN next.queue :
        Near(g, old, r.name, next.queue[i].name,
             next.depth - next.queue[i].left)
  BY <1>1, SearchQueue
<1>5. /\ \A i \in DOMAIN next.response : MayList(g, old, r, next.response[i])
      /\ \A n \in Passed(next) :
           MustList(g, old, r, n) => n \in NamesOf(next.response)
  BY <1>1, SearchList
<1>6. Service!Within(old, r.name, Level(next)) \subseteq next.visited
  BY <1>1, SearchVisited
<1>7. ASSUME next.queue # <<>>, next.queue[1].left > 0
      PROVE  \A a \in Passed(next), b \in Names :
               Linked(old, a, b) => b \in next.visited
  <2>1. next.queue[1].left \in {top.left, top.left - 1} /\ top.left \in Nat
    BY <1>1, <1>7, FrontAfter, FrontEntry
  <2>2. top.left > 0
    BY <1>7, <2>1
  <2> QED
    BY <1>1, <2>2, PassedClosed
<1>8. Search(g, old, r, next)
  BY <1>3, <1>4, <1>5, <1>6, <1>7 DEF Search
<1> QED
  BY <1>1, <1>8

\* and when nothing is left to look up, the list is what was promised.
LEMMA SearchEnds ==
  ASSUME NEW old, NEW r, r.depth \in Nat, r.leaf \in BOOLEAN, r.cond \in BOOLEAN,
         NEW q \in QueryState(Names), Layered(q),
         Search(Facts, old, r, q), q.queue = <<>>
  PROVE  Service!Lists(q.response, r, old)
<1>1. /\ q.depth = r.depth /\ DOMAIN q.queue = {} /\ Passed(q) = q.visited
      /\ Level(q) = r.depth
  BY DEF Search, Passed, Level, NamesOf
<1>2. ASSUME NEW i \in DOMAIN q.response
      PROVE  LET n == q.response[i].name
                 d == q.response[i].depth
             IN
             /\ d \in 0..r.depth
             /\ n \in Service!AtMost(Facts, r.name, d)
             /\ n \notin Service!AtMost(old, r.name, d - 1)
             /\ r.leaf => d = r.depth
             /\ r.cond => Service!Attribute(n) \in Facts
  BY DEF Search, MayList, Near
<1>3. ASSUME NEW n \in Service!AtMost(old, r.name, r.depth),
             r.leaf => n \notin Service!AtMost(Facts, r.name, r.depth - 1),
             r.cond => Service!Attribute(n) \in old
      PROVE  \E i \in DOMAIN q.response : q.response[i].name = n
  <2>1. n \in Passed(q)
    BY <1>1, <1>3 DEF Search, Service!AtMost
  <2>2. MustList(Facts, old, r, n)
    BY <1>3 DEF MustList
  <2>3. n \in NamesOf(q.response)
    BY <2>1, <2>2 DEF Search
  <2> QED
    BY <2>3 DEF NamesOf
<1>4. \A i, j \in DOMAIN q.response :
        i < j => /\ q.response[i].name # q.response[j].name
                 /\ q.response[i].depth <= q.response[j].depth
  BY DEF Layered
<1> QED
  BY <1>2, <1>3, <1>4 DEF Service!Lists

-----------------------------------------------------------------------------
(***************************************************************************)
(* The facts of the graph, as the repositories hold them.                  *)
(***************************************************************************)
FactsMean ==
  /\ \A n \in Names : Service!Node(n) \in Facts <=> n \in nodes[HomeOf(n)]
  /\ \A n \in Names :
       Service!Attribute(n) \in Facts <=> n \in attributes[HomeOf(n)]
  /\ \A a, b \in Names : Linked(Facts, a, b) <=> <<a, b>> \in relations[HomeOf(a)]
  /\ \A x \in Facts : \/ \E n \in Names : x = Service!Node(n)
                      \/ \E n \in Names : x = Service!Attribute(n)
                      \/ \E a, b \in Names : x = Service!Relation(a, b)

LEMMA FactsHeld == FactsMean
<1>1. \A x : x \in Facts <=>
        \/ \E n \in Names : x = <<"node", n>> /\ n \in nodes[HomeOf(n)]
        \/ \E n \in Names : x = <<"attribute", n>> /\ n \in attributes[HomeOf(n)]
        \/ \E e \in Names \X Names : /\ x = <<"relation", e[1], e[2]>>
                                     /\ e \in relations[HomeOf(e[1])]
  BY DEF Facts
<1>2. \A n, k : <<"node", n>> = <<"node", k>> => n = k
  OBVIOUS
<1>3. \A n, k : <<"attribute", n>> = <<"attribute", k>> => n = k
  OBVIOUS
<1>4. \A n, k : <<"attribute", n>> # <<"node", k>>
  OBVIOUS
<1>5. \A a, b, k : /\ <<"relation", a, b>> # <<"node", k>>
                   /\ <<"relation", a, b>> # <<"attribute", k>>
  OBVIOUS
<1>6. \A a, b, x, y : <<"relation", a, b>> = <<"relation", x, y>>
                        => a = x /\ b = y
  OBVIOUS
<1>7. \A e \in Names \X Names : e[1] \in Names /\ e[2] \in Names /\ e = <<e[1], e[2]>>
  OBVIOUS
<1>8. \A a, b \in Names : <<a, b>> \in Names \X Names /\ <<a, b>>[1] = a
                            /\ <<a, b>>[2] = b
  OBVIOUS
<1>9. \A n \in Names : Service!Node(n) \in Facts <=> n \in nodes[HomeOf(n)]
  BY <1>1, <1>2, <1>4, <1>5 DEF Service!Node
<1>10. \A n \in Names :
         Service!Attribute(n) \in Facts <=> n \in attributes[HomeOf(n)]
  BY <1>1, <1>3, <1>4, <1>5 DEF Service!Attribute
<1>11. \A a, b \in Names :
         Linked(Facts, a, b) <=> <<a, b>> \in relations[HomeOf(a)]
  <2> TAKE a, b \in Names
  <2>1. Linked(Facts, a, b) <=> <<"relation", a, b>> \in Facts
    BY DEF Service!Relation, Linked
  <2>2. ASSUME <<"relation", a, b>> \in Facts
        PROVE  <<a, b>> \in relations[HomeOf(a)]
    <3>1. PICK e \in Names \X Names :
            /\ <<"relation", a, b>> = <<"relation", e[1], e[2]>>
            /\ e \in relations[HomeOf(e[1])]
      BY <1>1, <1>5, <2>2
    <3>2. e[1] = a /\ e[2] = b /\ e = <<e[1], e[2]>>
      BY <1>6, <1>7, <3>1
    <3> QED
      BY <3>1, <3>2
  <2>3. ASSUME <<a, b>> \in relations[HomeOf(a)]
        PROVE  <<"relation", a, b>> \in Facts
    <3>1. /\ <<a, b>> \in Names \X Names
          /\ <<a, b>>[1] = a /\ <<a, b>>[2] = b
      OBVIOUS
    <3>2. PICK e : e = <<a, b>>
      OBVIOUS
    <3>3. /\ e \in Names \X Names /\ e[1] = a /\ e[2] = b
          /\ e \in relations[HomeOf(e[1])]
      BY <2>3, <3>1, <3>2
    <3>4. <<"relation", a, b>> = <<"relation", e[1], e[2]>>
      BY <3>3
    <3> QED
      BY <1>1, <3>3, <3>4
  <2> QED
    BY <2>1, <2>2, <2>3
<1>12. \A x \in Facts : \/ \E n \in Names : x = Service!Node(n)
                        \/ \E n \in Names : x = Service!Attribute(n)
                        \/ \E a, b \in Names : x = Service!Relation(a, b)
  BY <1>1, <1>7 DEF Service!Node, Service!Attribute, Service!Relation
<1> QED
  BY <1>9, <1>10, <1>11, <1>12 DEF FactsMean

\* So it is after a step.
LEMMA FactsHeldNext == FactsMean'
BY FactsHeld, PTL

\* What no step undoes, for a request that was asked.
Later ==
  /\ Onward
  /\ Facts \subseteq Facts'
  /\ \A c \in Clients : /\ answer[c] # Nothing => answer'[c] = answer[c]
                        /\ request[c] # Nothing => before'[c] = before[c]

LEMMA FactsGrow ==
  ASSUME Settled, Onward
  PROVE  Facts \subseteq Facts'
<1>1. \A n \in Names : HomeOf(n) \in Repos
  BY HomeOfRepo
<1>2. FactsMean /\ FactsMean'
  BY FactsHeld, FactsHeldNext
<1>3. ASSUME NEW n \in Names, Service!Node(n) \in Facts
      PROVE  Service!Node(n) \in Facts'
  BY <1>1, <1>2, <1>3 DEF FactsMean, Onward
<1>4. ASSUME NEW n \in Names, Service!Attribute(n) \in Facts
      PROVE  Service!Attribute(n) \in Facts'
  BY <1>1, <1>2, <1>4 DEF FactsMean, Onward
<1>5. ASSUME NEW a \in Names, NEW b \in Names, Service!Relation(a, b) \in Facts
      PROVE  Service!Relation(a, b) \in Facts'
  BY <1>1, <1>2, <1>5 DEF FactsMean, Onward, Linked
<1> QED
  BY <1>2, <1>3, <1>4, <1>5 DEF FactsMean

\* Only the two writing handlers change the files, and only by adding.
LEMMA StoreStep ==
  ASSUME Settled, Orderly, [Next]_vars
  PROVE  \/ UNCHANGED storeVars
         \/ \E r \in Repos : RepoCreate(r) \/ RepoRelation(r)
<1>1. MasterStep => UNCHANGED storeVars
  BY DEF MasterStep, MasterCreate, MasterUpdate, MasterDelete, MasterWrite,
         MasterQuery, MasterMessage, MasterInfo, MasterEnrol
<1>2. \A r \in Repos : RepoStep(r) =>
        UNCHANGED storeVars \/ RepoCreate(r) \/ RepoRelation(r)
  BY DEF RepoStep, RepoFinish, RepoQuery, RepoUpdate, RepoDelete, RepoMessage
<1>3. \A s, d \in Procs : Receive(s, d) \/ Overrun(s, d) => UNCHANGED storeVars
  BY DEF Receive, Overrun, StopsLingering
<1>4. \A S \in SUBSET up : FalseAcks(S) => UNCHANGED storeVars
  BY DEF FalseAcks
<1>5. \A c \in Clients : Invoke(c) \/ WaitResponse(c) => UNCHANGED storeVars
  BY DEF Invoke, WaitResponse
<1>6. (\E r \in Repos : SetRepository(r)) \/ SetServer => UNCHANGED storeVars
  BY DEF SetRepository, SetServer
<1>7. \A p \in Procs : Crash(p) => UNCHANGED storeVars
  BY DEF Crash
<1>8. UNCHANGED vars => UNCHANGED storeVars
  BY DEF vars
<1> QED
  BY <1>1, <1>2, <1>3, <1>4, <1>5, <1>6, <1>7, <1>8 DEF Next, Work

\* Only clients that start or end change what is asked and answered.
LEMMA ClientStep ==
  ASSUME Settled, Orderly, [Next]_vars
  PROVE  \/ UNCHANGED clientVars
         \/ \E c \in Clients : Invoke(c) \/ WaitResponse(c)
<1>1. MasterStep => UNCHANGED clientVars
  BY DEF MasterStep, MasterCreate, MasterUpdate, MasterDelete, MasterWrite,
         MasterQuery, MasterMessage, MasterInfo, MasterEnrol
<1>2. \A r \in Repos : RepoStep(r) => UNCHANGED clientVars
  BY DEF RepoStep, RepoCreate, RepoRelation, RepoFinish, RepoQuery, RepoUpdate,
         RepoDelete, RepoMessage
<1>3. \A s, d \in Procs : Receive(s, d) \/ Overrun(s, d) => UNCHANGED clientVars
  BY DEF Receive, Overrun, StopsLingering
<1>4. \A S \in SUBSET up : FalseAcks(S) => UNCHANGED clientVars
  BY DEF FalseAcks
<1>5. (\E r \in Repos : SetRepository(r)) \/ SetServer => UNCHANGED clientVars
  BY DEF SetRepository, SetServer
<1>6. \A p \in Procs : Crash(p) => UNCHANGED clientVars
  BY DEF Crash
<1>7. UNCHANGED vars => UNCHANGED clientVars
  BY DEF vars
<1> QED
  BY <1>1, <1>2, <1>3, <1>4, <1>5, <1>6, <1>7 DEF Next, Work

LEMMA OnwardStep ==
  ASSUME Settled, Orderly, [Next]_vars
  PROVE  Onward
<1>0. Typed /\ StoreOK /\ request \in [Clients -> Request \cup {Nothing}]
  BY DEF Orderly, QueryInv, Owned, Typed, TypeOK, ClientOK
<1>1. ASSUME NEW r \in Repos, RepoCreate(r)
      PROVE  /\ StoreNode(r, Msg(r).body.name) /\ UNCHANGED relations
             /\ attributes' = [attributes EXCEPT
                  ![r] = IF Msg(r).body.attr THEN @ \cup {Msg(r).body.name}
                                             ELSE @]
  <2>1. ~Fail(failures)
    BY <1>0, NoFailure, SettledCluster
  <2> QED
    BY <1>1, <2>1 DEF RepoCreate
<1>2. \A r \in Repos : /\ nodes[r] \subseteq nodes'[r]
                       /\ relations[r] \subseteq relations'[r]
                       /\ attributes[r] \subseteq attributes'[r]
  <2>1. CASE UNCHANGED storeVars
    BY <2>1 DEF storeVars
  <2>2. CASE \E r \in Repos : RepoCreate(r)
    BY <1>0, <1>1, <2>2 DEF StoreOK, StoreNode
  <2>3. CASE \E r \in Repos : RepoRelation(r)
    <3>1. PICK r \in Repos : RepoRelation(r)
      BY <2>3
    <3>2. /\ StoreNode(r, Head(job[r].todo)) /\ UNCHANGED attributes
          /\ \E e : relations' = [relations EXCEPT ![r] = @ \cup {e}]
      BY <3>1, RepoWrites
    <3> QED
      BY <1>0, <3>2 DEF StoreOK, StoreNode
  <2> QED
    BY <2>1, <2>2, <2>3, StoreStep
<1>3. \A c \in Clients : request[c] # Nothing => request'[c] = request[c]
  <2>1. CASE UNCHANGED clientVars
    BY <2>1 DEF clientVars
  <2>2. CASE \E c \in Clients : Invoke(c)
    BY <1>0, <2>2 DEF Invoke
  <2>3. CASE \E c \in Clients : WaitResponse(c)
    BY <2>3 DEF WaitResponse
  <2> QED
    BY <2>1, <2>2, <2>3, ClientStep
<1> QED
  BY <1>2, <1>3 DEF Onward

-----------------------------------------------------------------------------
(***************************************************************************)
(* What the cluster has promised so far.                                   *)
(***************************************************************************)
Old(c) == before[c].graph

\* What is remembered of a client that asked is behind the cluster.
Remembered ==
  /\ before = [c \in Clients |-> before[c]]
  /\ \A c \in Clients : request[c] # Nothing =>
       /\ Old(c) \subseteq Facts
       /\ \A d \in before[c].done : d \in Clients /\ answer[d] # Nothing

\* A text is one its client may be given.
Promise(m) ==
  LET c == m.cli IN
  m.type = "M" =>
    /\ m.text.kind = "busy" => Service!Busy(c)
    /\ m.text.kind = "stored" => Service!Node(request[c].name) \notin Old(c)
    /\ m.text.kind = "query" => Service!Lists(m.text.found, request[c], Old(c))

\* A look-up asks what the query q needs to know, a report says it.
Inquiry(m, q) ==
  /\ m.type = "R" => /\ m.to = HomeOf(q.queue[1].name)
                     /\ m.body.depth = q.queue[1].left
                     /\ m.body.leaf = q.leaf /\ m.body.cond = q.cond
  /\ m.type = "I" => Reports(Facts, Old(m.cli), q, m.rels, m.valid)

\* A handler that says it stored a node did.
Intent(j) ==
  j.id # 0 /\ j.kind = "stored" =>
    Service!Node(request[j.cli].name) \notin Old(j.cli)

\* A pending query is on its way.
Underway(entry) ==
  entry.state # Nothing =>
    Search(Facts, Old(entry.client), request[entry.client], entry.state)

Promises ==
  /\ \A p \in Procs : \A m \in {Held(p)} \ {Nothing} :
       /\ Promise(m)
       /\ Asks(m) => \A q \in {pending[m.id].state} : Inquiry(m, q)
  /\ \A r \in Repos : \A j \in {job[r]} \ {Nothing} : Intent(j)
  /\ \A i \in DOMAIN pending : \A entry \in {pending[i]} : Underway(entry)

ServiceInv == Orderly /\ Frontier /\ Remembered /\ Promises

-----------------------------------------------------------------------------
\* A list that was right stays right while the graph grows.
LEMMA ListsMore ==
  ASSUME Facts \subseteq Facts', NEW found, NEW r, NEW old, r.depth \in Nat,
         Service!Lists(found, r, old)
  PROVE  Service!Lists(found, r, old)'
<1>1. \A k \in Int : Service!AtMost(Facts, r.name, k)
                       \subseteq Service!AtMost(Facts', r.name, k)
  BY AtMostMore
<1>2. ASSUME NEW i \in DOMAIN found
      PROVE  LET n == found[i].name
                 d == found[i].depth
             IN
             /\ d \in 0..r.depth
             /\ n \in Service!AtMost(Facts', r.name, d)
             /\ n \notin Service!AtMost(old, r.name, d - 1)
             /\ r.leaf => d = r.depth
             /\ r.cond => Service!Attribute(n) \in Facts'
  <2>1. /\ found[i].depth \in 0..r.depth /\ found[i].depth \in Int
        /\ found[i].name \in Service!AtMost(Facts, r.name, found[i].depth)
        /\ found[i].name \notin Service!AtMost(old, r.name, found[i].depth - 1)
        /\ r.leaf => found[i].depth = r.depth
        /\ r.cond => Service!Attribute(found[i].name) \in Facts
    BY DEF Service!Lists
  <2> QED
    BY <1>1, <2>1
<1>3. r.depth - 1 \in Int
  OBVIOUS
<1>4. \A n \in Service!AtMost(old, r.name, r.depth) :
        /\ r.leaf => n \notin Service!AtMost(Facts', r.name, r.depth - 1)
        /\ r.cond => Service!Attribute(n) \in old
        => \E i \in DOMAIN found : found[i].name = n
  BY <1>1, <1>3 DEF Service!Lists
<1>5. \A i, j \in DOMAIN found :
        i < j => /\ found[i].name # found[j].name
                 /\ found[i].depth <= found[j].depth
  BY DEF Service!Lists
<1> QED
  BY <1>2, <1>4, <1>5 DEF Service!Lists, Service!AtMost, Service!Attribute

LEMMA BusyMore ==
  ASSUME Later, NEW c \in Clients, request[c] # Nothing, Service!Busy(c)
  PROVE  Service!Busy(c)'
BY DEF Later, Onward, Service!Busy, Service!Asking

LEMMA PromiseStays ==
  ASSUME Later, Typed, NEW m \in Message, m.cli \in Clients,
         request[m.cli] # Nothing, Sound(m), Promise(m)
  PROVE  Promise(m)'
<1>1. PICK c, r, old : c = m.cli /\ r = request[c] /\ old = Old(c)
  OBVIOUS
<1>2. request'[c] = r /\ Old(c)' = old /\ Facts \subseteq Facts'
  BY <1>1 DEF Later, Onward, Old
<1>3. ASSUME m.type = "M", m.text.kind = "query"
      PROVE  Service!Lists(m.text.found, r, old)'
  <2>1. r.op = "R" /\ r \in Request
    BY <1>1, <1>3 DEF Sound, FaithfulText, Confirms, Typed, TypeOK, ClientOK
  <2>2. r.depth \in Nat
    BY <2>1, RequestFields DEF QueryRequest
  <2>3. Service!Lists(m.text.found, r, old)
    BY <1>1, <1>3 DEF Promise
  <2> QED
    BY <1>2, <2>2, <2>3, ListsMore
<1>4. m.type = "M" /\ m.text.kind = "busy" => Service!Busy(c)'
  BY <1>1, BusyMore DEF Promise
<1>5. m.type = "M" /\ m.text.kind = "stored" => Service!Node(r.name) \notin old
  BY <1>1 DEF Promise
<1> QED
  BY <1>1, <1>2, <1>3, <1>4, <1>5 DEF Promise, Service!Lists, Service!Node

LEMMA InquiryStays ==
  ASSUME Later, NEW m, m.cli \in Clients, request[m.cli] # Nothing, NEW q,
         Inquiry(m, q)
  PROVE  Inquiry(m, q)'
<1>1. PICK old : old = Old(m.cli)
  OBVIOUS
<1>2. Old(m.cli)' = old /\ Facts \subseteq Facts'
  BY <1>1 DEF Later, Old
<1>3. m.type = "I" => Reports(Facts, old, q, m.rels, m.valid)
  BY <1>1 DEF Inquiry
<1>4. m.type = "I" => Reports(Facts', old, q, m.rels, m.valid)
  BY <1>2, <1>3, ReportsMore
<1>5. Old(m.cli)' = before'[m.cli].graph
  BY DEF Old
<1> QED
  BY <1>2, <1>4, <1>5 DEF Inquiry

LEMMA IntentStays ==
  ASSUME Later, NEW j, j.cli \in Clients, request[j.cli] # Nothing, Intent(j)
  PROVE  Intent(j)'
BY DEF Later, Onward, Old, Intent, Service!Node

LEMMA UnderwayStays ==
  ASSUME Later, NEW entry, entry.client \in Clients,
         request[entry.client] # Nothing,
         entry.state # Nothing => WellFormed(entry.state), Underway(entry)
  PROVE  Underway(entry)'
<1>1. PICK old, r, q : /\ old = Old(entry.client) /\ r = request[entry.client]
                       /\ q = entry.state
  OBVIOUS
<1>2. /\ Old(entry.client)' = old /\ request'[entry.client] = r
      /\ Facts \subseteq Facts'
  BY <1>1 DEF Later, Onward, Old
<1>3. q # Nothing => Search(Facts', old, r, q)
  BY <1>1, <1>2, SearchMore DEF Underway
<1> QED
  BY <1>1, <1>2, <1>3 DEF Underway

-----------------------------------------------------------------------------
(***************************************************************************)
(* Every step goes on from what was asked, answered and remembered.        *)
(***************************************************************************)
LEMMA AnswersStay ==
  ASSUME Settled, Orderly, [Next]_vars, NEW d \in Clients, answer[d] # Nothing
  PROVE  answer'[d] = answer[d]
<1>1. CASE UNCHANGED clientVars
  BY <1>1 DEF clientVars
<1>2. CASE \E c \in Clients : Invoke(c)
  BY <1>2 DEF Invoke
<1>3. ASSUME NEW c \in Clients, WaitResponse(c) PROVE answer'[d] = answer[d]
  <2>1. c \in up /\ \E t : answer' = [answer EXCEPT ![c] = t]
    BY <1>3 DEF WaitResponse, Taken
  <2>2. c # d
    BY <2>1 DEF Orderly, Traces
  <2>3. answer \in [Clients -> Text \cup {Nothing}]
    BY DEF Orderly, QueryInv, Owned, Typed, TypeOK, ClientOK
  <2> QED
    BY <2>1, <2>2, <2>3
<1> QED
  BY <1>1, <1>2, <1>3, ClientStep

\* What is remembered of a client stays, or is remembered now.
LEMMA RememberStep ==
  ASSUME Remembered, Remember \/ UNCHANGED <<vars, before>>
  PROVE  /\ before' = [c \in Clients |-> before'[c]]
         /\ \A c \in Clients :
              IF request[c] = Nothing /\ request'[c] # Nothing
                THEN before'[c] = [graph |-> Facts,
                                   done |-> {d \in Clients : answer[d] # Nothing}]
                ELSE before'[c] = before[c]
<1>1. CASE Remember
  BY <1>1 DEF Remember
<1>2. CASE UNCHANGED <<vars, before>>
  <2>1. UNCHANGED before /\ UNCHANGED request
    BY <1>2 DEF vars, clientVars
  <2> QED
    BY <2>1 DEF Remembered
<1> QED
  BY <1>1, <1>2

LEMMA LaterStep ==
  ASSUME Settled, Orderly, Remembered, [ServiceNext]_<<vars, before>>
  PROVE  /\ [Next]_vars /\ Later /\ Remembered'
         /\ Remember \/ UNCHANGED <<vars, before>>
<1>1. [Next]_vars /\ (Remember \/ UNCHANGED <<vars, before>>)
  BY DEF ServiceNext
<1>2. Onward /\ Facts \subseteq Facts'
  BY <1>1, OnwardStep, FactsGrow
<1>3. \A c \in Clients : answer[c] # Nothing => answer'[c] = answer[c]
  BY <1>1, AnswersStay
<1>4. /\ before' = [c \in Clients |-> before'[c]]
      /\ \A c \in Clients :
           IF request[c] = Nothing /\ request'[c] # Nothing
             THEN before'[c] = [graph |-> Facts,
                                done |-> {d \in Clients : answer[d] # Nothing}]
             ELSE before'[c] = before[c]
  BY <1>1, RememberStep
<1>5. Later
  BY <1>2, <1>3, <1>4 DEF Later
<1>6. ASSUME NEW c \in Clients, request'[c] # Nothing
      PROVE  /\ Old(c)' \subseteq Facts'
             /\ \A d \in before'[c].done : d \in Clients /\ answer'[d] # Nothing
  <2>1. CASE request[c] = Nothing
    BY <1>2, <1>3, <1>4, <1>6, <2>1 DEF Old
  <2>2. CASE request[c] # Nothing
    <3>1. before'[c] = before[c] /\ Old(c)' = Old(c)
      BY <1>4, <2>2 DEF Old
    <3>2. /\ Old(c) \subseteq Facts
          /\ \A d \in before[c].done : d \in Clients /\ answer[d] # Nothing
      BY <2>2 DEF Remembered
    <3> QED
      BY <1>2, <1>3, <3>1, <3>2
  <2> QED
    BY <2>1, <2>2
<1>7. Remembered'
  BY <1>4, <1>6 DEF Remembered, Old
<1> QED
  BY <1>1, <1>5, <1>7

-----------------------------------------------------------------------------
(***************************************************************************)
(* What a step leaves is still promised: it is left to see to the message  *)
(* m the process d has afterwards, unless it is one that only changed      *)
(* hands, and to the handlers and pending requests that changed.           *)
(***************************************************************************)
LEMMA PromisesKept ==
  ASSUME Settled, Orderly, Promises, Later,
         NEW d \in Procs, NEW x \in Procs, NEW m,
         Held(d)' = m, \A p \in Procs \ {d} : Held(p)' \in {Nothing, Held(p)},
         m # Nothing =>
           \/ m = Held(x) /\ UNCHANGED pending
           \/ /\ Promise(m)'
              /\ Asks(m) => \A q \in {pending'[m.id].state} : Inquiry(m, q)',
         \A r \in Repos : \/ job'[r] \in {Nothing, job[r]}
                          \/ \A j \in {job'[r]} : Intent(j)',
         \A i \in DOMAIN pending' :
           \/ i \in DOMAIN pending /\ pending'[i] = pending[i]
           \/ \A entry \in {pending'[i]} : Underway(entry)',
         \A p \in Procs \ {d} : Asks(Held(p)) =>
           \/ UNCHANGED pending
           \/ pending'[Held(p).id].state = pending[Held(p).id].state
  PROVE  Promises'
<1>1. Typed /\ TableInUse
  BY DEF Orderly, QueryInv, Owned
<1>2. ASSUME NEW y \in Procs, NEW h, h = Held(y), h # Nothing
      PROVE  /\ Promise(h)'
             /\ \A q : Asks(h) /\ q = pending[h.id].state => Inquiry(h, q)'
  <2>1. /\ h \in Message /\ h.cli \in Clients /\ request[h.cli] # Nothing
        /\ Sound(h)
    BY <1>2, HeldClient DEF Orderly
  <2>2. Promise(h) /\ \A q : Asks(h) /\ q = pending[h.id].state => Inquiry(h, q)
    BY <1>2 DEF Promises
  <2>3. Promise(h)'
    BY <1>1, <2>1, <2>2, PromiseStays
  <2>4. ASSUME NEW q, Asks(h), q = pending[h.id].state PROVE Inquiry(h, q)'
    <3>1. Inquiry(h, q)
      BY <2>2, <2>4
    <3> QED
      BY <2>1, <3>1, InquiryStays
  <2> QED
    BY <2>3, <2>4
<1>3. ASSUME NEW p \in Procs, NEW h, h = Held(p)', h # Nothing
      PROVE  /\ Promise(h)'
             /\ Asks(h) => \A q \in {pending'[h.id].state} : Inquiry(h, q)'
  <2>1. CASE p # d
    <3>1. h = Held(p)
      BY <1>3, <2>1
    <3>2. Asks(h) => pending'[h.id].state = pending[h.id].state
      BY <2>1, <3>1
    <3> QED
      BY <1>2, <1>3, <3>1, <3>2
  <2>2. CASE p = d /\ m = Held(x) /\ UNCHANGED pending
    BY <1>2, <1>3, <2>2
  <2>3. CASE p = d /\ ~(m = Held(x) /\ UNCHANGED pending)
    BY <1>3, <2>3
  <2> QED
    BY <2>1, <2>2, <2>3
<1>4. ASSUME NEW r \in Repos, NEW j, j = job'[r], j # Nothing PROVE Intent(j)'
  <2>1. CASE j = job[r]
    <3>1. j.cli \in Clients /\ request[j.cli] # Nothing
      BY <1>4, <2>1, JobClient
    <3>2. Intent(j)
      BY <1>4, <2>1 DEF Promises
    <3> QED
      BY <3>1, <3>2, IntentStays
  <2>2. CASE j # job[r]
    BY <1>4, <2>2
  <2> QED
    BY <2>1, <2>2
<1>5. ASSUME NEW i \in DOMAIN pending', NEW entry, entry = pending'[i]
      PROVE  Underway(entry)'
  <2>1. CASE i \in DOMAIN pending /\ entry = pending[i]
    <3>1. entry.client \in Clients /\ request[entry.client] # Nothing
      BY <1>1, <2>1 DEF TableInUse
    <3>2. entry.state # Nothing => WellFormed(entry.state)
      BY <1>1, <2>1 DEF Typed, QueriesGoOn
    <3>3. Underway(entry)
      BY <2>1 DEF Promises
    <3> QED
      BY <3>1, <3>2, <3>3, UnderwayStays
  <2>2. CASE ~(i \in DOMAIN pending /\ entry = pending[i])
    BY <1>5, <2>2
  <2> QED
    BY <2>1, <2>2
<1> QED
  BY <1>3, <1>4, <1>5 DEF Promises

LEMMA PromisesCarried ==
  ASSUME Settled, Orderly, Promises, Later, NEW s \in Procs, NEW d \in Procs,
         Moves(s, d)
  PROVE  Promises'
<1>1. UNCHANGED job /\ UNCHANGED pending
  BY DEF Moves, masterVars
<1>2. PICK m : m = Held(d)'
  OBVIOUS
<1>3. \A p \in Procs \ {d} : Held(p)' \in {Nothing, Held(p)}
  BY DEF Moves, Carried
<1>4. m # Nothing => m = Held(s)
  BY <1>2 DEF Moves, Carried
<1>5. \A r \in Repos : job'[r] \in {Nothing, job[r]}
  BY <1>1
<1> QED
  BY <1>1, <1>2, <1>3, <1>4, <1>5, PromisesKept

\* A message of a query belongs to its entry, and no other does.
LEMMA AskedEntry ==
  ASSUME Orderly, NEW p \in Procs, Asks(Held(p))
  PROVE  /\ Held(p).id \in DOMAIN pending
         /\ pending[Held(p).id].state # Nothing
         /\ Head(pending[Held(p).id].state.queue).name = About(Held(p))
         /\ \A q \in Procs : Asks(Held(q)) /\ Held(q).id = Held(p).id => q = p
BY DEF Orderly, QueryInv, InStep, AboutFront

-----------------------------------------------------------------------------
\* The main server goes on to send m, and other queries keep their entries.
LEMMA PromisesMaster ==
  ASSUME Settled, Orderly, Promises, Later, NEW m, Reply(Master, m), UNCHANGED job,
         m # Nothing =>
           /\ Promise(m)'
           /\ Asks(m) => \A q \in {pending'[m.id].state} : Inquiry(m, q)',
         \A i \in DOMAIN pending' :
           \/ i \in DOMAIN pending /\ pending'[i] = pending[i]
           \/ \A entry \in {pending'[i]} : Underway(entry)',
         \A p \in Procs \ {Master} : Asks(Held(p)) =>
           pending'[Held(p).id].state = pending[Held(p).id].state
  PROVE  Promises'
<1>1. Held(Master)' = m /\ \A p \in Procs \ {Master} : Held(p)' = Held(p)
  BY Separate, HeldAfterReply DEF Orderly, QueryInv
<1>2. \A r \in Repos : job'[r] \in {Nothing, job[r]}
  OBVIOUS
<1> QED
  BY <1>1, <1>2, Separate, PromisesKept

\* Writes are refused while a query is pending, and so not answered.
LEMMA BusyWhileBlocking ==
  ASSUME Orderly, Remembered, cud_blocking, NEW c \in Clients,
         request[c] # Nothing
  PROVE  Service!Busy(c)
<1>1. PICK i \in DOMAIN pending : pending[i].state # Nothing
  BY DEF Orderly, QueryInv, Owned, BlockingHasQuery
<1>2. PICK d : d = pending[i].client
  OBVIOUS
<1>3. /\ d \in Clients /\ request[d] # Nothing /\ request[d].op = "R"
      /\ answer[d] = Nothing
  BY <1>1, <1>2 DEF Orderly, TableInUse
<1>4. d \notin before[c].done
  BY <1>3 DEF Remembered
<1> QED
  BY <1>3, <1>4 DEF Service!Busy, Service!Asking

LEMMA PromisesMasterWrite ==
  ASSUME Settled, Orderly, Promises, Remembered, Later,
         NEW t \in Commands \ {"R"}, Taken(Master, t),
         NEW command, MasterWrite(command), command.type = t
  PROVE  Promises'
<1>1. repositories # <<>> /\ UNCHANGED job
  BY DEF Orderly, Settled, MasterWrite
<1>2. PICK c : c = Msg(Master).cli
  OBVIOUS
<1>3. c \in Clients /\ request[c] # Nothing
  BY <1>2, TakenHeld, Separate
<1>4. CASE cud_blocking /\ Refuse("busy")
  <2>1. PICK text : /\ Reply(Master, text) /\ text.type = "M" /\ text.cli = c
                    /\ text.text.kind = "busy"
    BY <1>2, <1>4 DEF Refuse, ParseNewMessageResponse, Say
  <2>2. UNCHANGED pending
    BY <1>4 DEF Refuse
  <2>3. Service!Busy(c)'
    BY <1>3, <1>4, BusyWhileBlocking, BusyMore
  <2>4. Promise(text)' /\ ~Asks(text)
    BY <2>1, <2>3 DEF Promise, Asks
  <2> QED
    BY <1>1, <2>1, <2>2, <2>4, PromisesMaster
<1>5. CASE Accept(Nothing, command)
  <2>1. Reply(Master, command)
    BY <1>5 DEF Accept
  <2>2. Promise(command)' /\ ~Asks(command)
    BY DEF Promise, Asks, Commands
  <2>3. /\ current_request \notin DOMAIN pending
        /\ \A i \in DOMAIN pending' : i = current_request \/ i \in DOMAIN pending
        /\ \A i \in DOMAIN pending : pending'[i] = pending[i]
        /\ pending'[current_request].state = Nothing
    BY <1>5 DEF Accept, Enter, Orderly, QueryInv, Owned, Typed, TypeOK, MasterOK
  <2>4. \A entry : entry.state = Nothing => Underway(entry)'
    BY DEF Underway
  <2>5. \A p \in Procs : Asks(Held(p)) =>
          pending'[Held(p).id].state = pending[Held(p).id].state
    BY <2>3, AskedEntry
  <2> QED
    BY <1>1, <2>1, <2>2, <2>3, <2>4, <2>5, PromisesMaster
<1> QED
  BY <1>1, <1>4, <1>5 DEF MasterWrite

LEMMA PromisesMasterQuery ==
  ASSUME Settled, Orderly, Promises, Later, MasterQuery
  PROVE  Promises'
<1>1. repositories = Attached /\ repositories # <<>> /\ Taken(Master, "R")
  BY DEF Orderly, Settled, MasterQuery
<1>2. PICK b, c, q, m :
        /\ b = Msg(Master).body /\ c = Msg(Master).cli
        /\ q = NewState(b.name, b.depth, b.leaf, b.cond)
        /\ m = ParseNewQuery(Home, b, current_request, c)
  OBVIOUS
<1>3. Accept(q, m) /\ UNCHANGED job
  BY <1>1, <1>2 DEF MasterQuery
<1>4. /\ From(Master) = c /\ c \in Clients /\ b = request[c] /\ b \in QueryRequest
      /\ b.name \in Names /\ request[c] # Nothing
  BY <1>1, <1>2, RawClient, RequestFields, TakenHeld, Separate DEF Commands
<1>5. /\ Reply(Master, m)
      /\ current_request \notin DOMAIN pending
      /\ \A i \in DOMAIN pending' : i = current_request \/ i \in DOMAIN pending
      /\ \A i \in DOMAIN pending : pending'[i] = pending[i]
      /\ pending'[current_request] = [client |-> c, state |-> q]
  BY <1>3, <1>4 DEF Accept, Enter, Orderly, QueryInv, Owned, Typed, TypeOK, MasterOK
<1>6. request'[c] = b
  BY <1>4 DEF Later, Onward
<1>7. \A g, old : Search(g, old, b, q)
  BY <1>2, <1>4, SearchBegins
<1>8. PICK entry : entry = [client |-> c, state |-> q]
  OBVIOUS
<1>9. Underway(entry)'
  BY <1>6, <1>7, <1>8 DEF Underway
<1>10. /\ m.type = "R" /\ m.to = HomeOf(b.name) /\ m.body = b
       /\ m.id = current_request
  BY <1>1, <1>2 DEF ParseNewQuery, Home, HomeOf
<1>11. /\ q.queue[1].name = b.name /\ q.queue[1].left = b.depth
       /\ q.leaf = b.leaf /\ q.cond = b.cond
  BY <1>2 DEF NewState
<1>12. Inquiry(m, q)' /\ Promise(m)'
  BY <1>10, <1>11 DEF Inquiry, Promise
<1>13. \A p \in Procs : Asks(Held(p)) =>
         pending'[Held(p).id].state = pending[Held(p).id].state
  BY <1>5, AskedEntry
<1>14. pending'[m.id].state = q
  BY <1>5, <1>10
<1> QED
  BY <1>3, <1>5, <1>8, <1>9, <1>12, <1>13, <1>14, PromisesMaster


\* The main server tells a client what it was told, or found.
LEMMA PromisesAnswer ==
  ASSUME Settled, Orderly, Promises, Later, NEW t \in {"M", "I"}, Taken(Master, t),
         Msg(Master).id \in DOMAIN pending, Erase(Msg(Master).id), UNCHANGED job,
         NEW passed, Reply(Master, passed), passed.type = "M", Promise(passed)'
  PROVE  Promises'
<1>0. PICK m : m = Msg(Master)
  OBVIOUS
<1>1. /\ m.type = t /\ m.id # 0 /\ Held(Master) = m /\ m # Nothing
      /\ t = "M" => pending[m.id].state = Nothing
  BY <1>0, TakenHeld, EntryOf, Separate
<1>2. /\ DOMAIN pending' = DOMAIN pending \ {m.id}
      /\ \A i \in DOMAIN pending' : pending'[i] = pending[i]
  BY <1>0 DEF Erase, Restrict
<1>3. ASSUME NEW p \in Procs \ {Master}, Asks(Held(p))
      PROVE  pending'[Held(p).id].state = pending[Held(p).id].state
  <2>1. /\ Held(p).id \in DOMAIN pending /\ pending[Held(p).id].state # Nothing
        /\ \A q \in Procs : Asks(Held(q)) /\ Held(q).id = Held(p).id => q = p
    BY <1>3, AskedEntry
  <2>2. t = "I" => Asks(Held(Master))
    BY <1>1 DEF Asks
  <2>3. Held(p).id # m.id
    BY <1>1, <2>1, <2>2, Separate
  <2> QED
    BY <1>2, <2>1, <2>3
<1>4. ~Asks(passed)
  BY DEF Asks
<1> QED
  BY <1>2, <1>3, <1>4, PromisesMaster

LEMMA PromisesMasterMessage ==
  ASSUME Settled, Orderly, Promises, Later, MasterMessage
  PROVE  Promises'
<1>1. Taken(Master, "M") /\ UNCHANGED job
  BY DEF MasterMessage
<1>2. PICK m : m = Msg(Master)
  OBVIOUS
<1>3. /\ Held(Master) = m /\ m # Nothing /\ m \in Message /\ m.type = "M"
      /\ m.cli \in Clients /\ request[m.cli] # Nothing /\ Sound(m)
  BY <1>1, <1>2, TakenHeld, Separate
<1>4. Promise(m)'
  <2>1. Promise(m)
    BY <1>3, Separate DEF Promises
  <2>2. Typed
    BY DEF Orderly, QueryInv, Owned
  <2> QED
    BY <1>3, <2>1, <2>2, PromiseStays
<1>5. CASE m.id \in DOMAIN pending
  <2>1. PICK passed :
          /\ Erase(m.id) /\ Reply(Master, passed)
          /\ passed.type = "M" /\ passed.text = m.text /\ passed.cli = m.cli
    BY <1>2, <1>5 DEF MasterMessage, ParseNewMessageResponse
  <2>2. Promise(passed)'
    BY <1>3, <1>4, <2>1 DEF Promise
  <2> QED
    BY <1>1, <1>2, <1>5, <2>1, <2>2, PromisesAnswer
<1>6. CASE m.id \notin DOMAIN pending
  <2>1. Reply(Master, Nothing) /\ UNCHANGED pending
    BY <1>2, <1>6 DEF MasterMessage, Exit
  <2> QED
    BY <1>1, <2>1, PromisesMaster
<1> QED
  BY <1>5, <1>6

LEMMA PromisesMasterInfo ==
  ASSUME Settled, Orderly, Frontier, Promises, Later, MasterInfo
  PROVE  Promises'
<1>1. Taken(Master, "I") /\ UNCHANGED job /\ repositories = Attached
  BY DEF MasterInfo, Orderly
<1>2. PICK m, q, c, r, old :
        /\ m = Msg(Master) /\ q = pending[m.id].state /\ c = m.cli
        /\ r = request[c] /\ old = Old(c)
  OBVIOUS
<1>3. /\ Held(Master) = m /\ m # Nothing /\ m \in Message /\ m.type = "I"
      /\ c \in Clients /\ r # Nothing /\ r.op = "R" /\ m.id \in Nat
  BY <1>1, <1>2, TakenHeld, Separate DEF Sound
<1>4. CASE ~IsQuery(m.id)
  <2>1. Reply(Master, Nothing) /\ UNCHANGED pending
    BY <1>2, <1>4 DEF MasterInfo, Exit
  <2> QED
    BY <1>1, <2>1, PromisesMaster
<1>5. CASE IsQuery(m.id)
  <2>1. /\ m.id \in DOMAIN pending /\ m.id # 0 /\ pending[m.id].client = c
        /\ q # Nothing /\ Head(q.queue).name = m.name
    BY <1>1, <1>2, <1>5, EntryOf DEF IsQuery
  <2>2. WellFormed(q) /\ Layered(q)
    BY <1>2, <2>1
       DEF Frontier, Orderly, QueryInv, Owned, Typed, QueriesGoOn
  <2>3. Search(Facts, old, r, q)
    BY <1>2, <2>1 DEF Promises, Underway
  <2>4. Asks(m) /\ Inquiry(m, q)
    BY <1>2, <1>3, <2>1, Separate DEF Promises, Asks
  <2>5. Reports(Facts, old, q, m.rels, m.valid)
    BY <1>2, <1>3, <2>4 DEF Inquiry
  <2>6. m.rels \in SUBSET Names /\ m.valid \in BOOLEAN
    BY <1>3, MessageFields DEF InfoMessage
  <2>7. PICK order \in SetToSeqs(Fresh(q, m.rels)) :
          LET next == Absorb(q, m.valid, order) IN
             \/ /\ next.queue = <<>>
                /\ Complete([kind |-> "query", found |-> next.response])
             \/ /\ next.queue # <<>>
                /\ Continue(next)
    BY <1>2, <1>5, <2>1 DEF MasterInfo
  <2>8. PICK next : next = Absorb(q, m.valid, order)
    OBVIOUS
  <2>9. Search(Facts, old, r, next)
    BY <2>2, <2>3, <2>5, <2>6, <2>8, SearchGoesOn
  <2>10. /\ next \in QueryState(Names) /\ Layered(next)
         /\ next.queue # <<>> => WellFormed(next)
    <3>1. order \in Seq(Names) /\ (order # <<>> => Head(q.queue).left > 0)
      BY <2>2, <2>6, OrderType DEF WellFormed
    <3>2. /\ next \in QueryState(Names) /\ next.depth = q.depth
          /\ \A k \in DOMAIN next.queue : next.queue[k].left <= q.depth
      BY <2>2, <2>6, <2>8, <3>1, AbsorbType
    <3>3. Layered(next)
      BY <2>2, <2>6, <2>8, AbsorbLayered
    <3> QED
      BY <3>2, <3>3 DEF WellFormed
  <2>11. r \in QueryRequest /\ request'[c] = r
    BY <1>2, <1>3, RequestFields
       DEF Later, Onward, Orderly, QueryInv, Owned, Typed, TypeOK, ClientOK
  <2>12. CASE next.queue = <<>>
    <3>1. PICK passed :
            /\ Erase(m.id) /\ Reply(Master, passed)
            /\ passed.type = "M" /\ passed.cli = c
            /\ passed.text = [kind |-> "query", found |-> next.response]
      BY <1>2, <2>7, <2>8, <2>12 DEF Complete, ParseNewMessageResponse
    <3>2. r.depth \in Nat /\ r.leaf \in BOOLEAN /\ r.cond \in BOOLEAN
      BY <2>11 DEF QueryRequest
    <3>3. Service!Lists(next.response, r, old)
      BY <2>9, <2>10, <2>12, <3>2, SearchEnds
    <3>4. Service!Lists(next.response, r, old)'
      BY <3>2, <3>3, ListsMore DEF Later
    <3>5. Old(c)' = old
      BY <1>2, <1>3 DEF Later, Old
    <3>6. Promise(passed)'
      BY <2>11, <3>1, <3>4, <3>5 DEF Promise, Service!Lists
    <3> QED
      BY <1>1, <1>2, <2>1, <3>1, <3>6, PromisesAnswer
  <2>13. CASE next.queue # <<>>
    <3>1. PICK lookup :
            /\ Reply(Master, lookup) /\ lookup.type = "R" /\ lookup.id = m.id
            /\ lookup.to = Route(repositories, Head(next.queue).name)
            /\ lookup.body = [op |-> "R", name |-> Head(next.queue).name,
                              depth |-> Head(next.queue).left,
                              leaf |-> next.leaf, cond |-> next.cond]
            /\ pending' = [pending EXCEPT ![m.id].state = next]
      BY <1>2, <2>7, <2>8, <2>13 DEF Continue, ParseNewQuery
    <3>2. Head(next.queue) = next.queue[1]
      BY <2>10, <2>13 DEF QueryState
    <3>3. Inquiry(lookup, next)' /\ Promise(lookup)'
      BY <1>1, <3>1, <3>2 DEF Inquiry, Promise, HomeOf
    <3>4. /\ DOMAIN pending' = DOMAIN pending
          /\ \A i \in DOMAIN pending : i # m.id => pending'[i] = pending[i]
          /\ pending'[m.id].state = next /\ pending'[m.id].client = c
      <4>1. pending[m.id] \in PendingEntry
        BY <2>1 DEF Orderly, QueryInv, Owned, Typed, TypeOK, MasterOK
      <4> QED
        BY <2>1, <3>1, <4>1 DEF PendingEntry
    <3>5. PICK entry : entry = pending'[m.id]
      OBVIOUS
    <3>6. Underway(entry)'
      <4>1. Facts \subseteq Facts' /\ Old(c)' = old
        BY <1>2, <1>3 DEF Later, Old
      <4>2. Search(Facts', old, r, next)
        BY <2>9, <2>10, <2>13, <4>1, SearchMore
      <4> QED
        BY <2>11, <3>4, <3>5, <4>1, <4>2 DEF Underway
    <3>7. \A p \in Procs \ {Master} : Asks(Held(p)) =>
            pending'[Held(p).id].state = pending[Held(p).id].state
      BY <1>3, <2>4, <3>4, AskedEntry, Separate
    <3> QED
      BY <1>1, <3>1, <3>3, <3>4, <3>5, <3>6, <3>7, PromisesMaster
  <2> QED
    BY <2>12, <2>13
<1> QED
  BY <1>4, <1>5


-----------------------------------------------------------------------------
\* A repository goes on to send m, and with its handler.
LEMMA PromisesRepo ==
  ASSUME Settled, Orderly, Promises, Later, NEW r \in Repos, NEW m,
         Held(r)' = m, \A p \in Procs \ {r} : Held(p)' = Held(p),
         \A x \in Repos \ {r} : job'[x] = job[x],
         m # Nothing =>
           /\ Promise(m)'
           /\ Asks(m) => \A q \in {pending'[m.id].state} : Inquiry(m, q)',
         job'[r] # Nothing => \A j \in {job'[r]} : Intent(j)',
         UNCHANGED pending
  PROVE  Promises'
<1>1. \A x \in Repos : \/ job'[x] \in {Nothing, job[x]}
                       \/ \A j \in {job'[x]} : Intent(j)'
  OBVIOUS
<1>2. r \in Procs
  BY Separate
<1> QED
  BY <1>1, <1>2, PromisesKept

LEMMA PromisesRepoQuery ==
  ASSUME Settled, Orderly, Remembered, Promises, Later, NEW r \in Repos,
         RepoQuery(r)
  PROVE  Promises'
<1>1. PICK m, b, c, old, rels, valid :
        /\ m = Msg(r) /\ b = m.body /\ c = m.cli /\ old = Old(c)
        /\ rels = RelatedTo(r, b.name) /\ valid = ValidNode(r, b)
  OBVIOUS
<1>2. PICK report :
        /\ report = ParseNewInfoResponse(b.name, Master, rels, m.id, valid, c)
        /\ Reply(r, report)
  BY <1>1 DEF RepoQuery
<1>3. /\ report.type = "I" /\ report.id = m.id /\ report.cli = c
      /\ report.rels = rels /\ report.valid = valid
  BY <1>2 DEF ParseNewInfoResponse
<1>4. Taken(r, "R") /\ UNCHANGED job /\ UNCHANGED pending
  BY DEF RepoQuery, masterVars
<1>5. /\ Held(r) = m /\ m # Nothing /\ m.type = "R" /\ m.to = r /\ r \in Procs
      /\ c \in Clients /\ request[c] # Nothing /\ job[r] = Nothing
  BY <1>1, <1>4, TakenHeld, Separate DEF Orderly, QueryInv, Solo, Taken
<1>6. ASSUME Asks(report), NEW q, q = pending[m.id].state
      PROVE  Inquiry(report, q)'
  <2>1. Asks(m)
    BY <1>3, <1>5, <1>6 DEF Asks
  <2>2. Head(q.queue).name = b.name /\ m.id \in DOMAIN pending /\ q # Nothing
    BY <1>1, <1>5, <1>6, <2>1, AskedEntry DEF About
  <2>3. q.queue # <<>> /\ q \in QueryState(Names)
    BY <1>6, <2>2
       DEF Orderly, QueryInv, Owned, Typed, QueriesGoOn, WellFormed
  <2>4. PICK top : top = q.queue[1] /\ top = Head(q.queue) /\ top.name \in Names
    <3>1. q.queue \in Seq(Entry(Names))
      BY <2>3 DEF QueryState
    <3>2. Head(q.queue) \in Entry(Names) /\ q.queue[1] = Head(q.queue)
      BY <2>3, <3>1
    <3> QED
      BY <3>2 DEF Entry
  <2>5. r = HomeOf(top.name) /\ b.depth = top.left
        /\ b.leaf = q.leaf /\ b.cond = q.cond
    BY <1>1, <1>5, <1>6, <2>1, <2>4 DEF Promises, Inquiry
  <2>6. old \subseteq Facts
    BY <1>1, <1>5 DEF Remembered
  <2>7. /\ \A n \in Names : Linked(Facts, top.name, n) <=> n \in rels
        /\ Service!Attribute(top.name) \in Facts <=> b.name \in attributes[r]
    BY <1>1, <2>2, <2>4, <2>5, FactsHeld DEF FactsMean, RelatedTo
  <2>8. \A n \in Names : Linked(old, top.name, n) => n \in rels
    BY <2>6, <2>7 DEF Linked
  <2>9. /\ valid => /\ q.leaf => top.left = 0
                    /\ q.cond => Service!Attribute(top.name) \in Facts
        /\ ~valid => \/ q.leaf /\ top.left # 0
                     \/ q.cond /\ Service!Attribute(top.name) \notin old
    BY <1>1, <2>5, <2>6, <2>7 DEF ValidNode
  <2>10. Reports(Facts, old, q, rels, valid)
    BY <2>4, <2>7, <2>8, <2>9 DEF Reports
  <2>11. Inquiry(report, q)
    BY <1>1, <1>3, <2>10 DEF Inquiry
  <2> QED
    BY <1>3, <1>5, <2>11, InquiryStays
<1>7. Promise(report)'
  BY <1>3 DEF Promise
<1>8. Held(r)' = report /\ \A p \in Procs \ {r} : Held(p)' = Held(p)
  BY <1>2, <1>5, HeldAfterReply DEF Orderly, QueryInv
<1> QED
  BY <1>3, <1>4, <1>5, <1>6, <1>7, <1>8, PromisesRepo

LEMMA PromisesRepoCreate ==
  ASSUME Settled, Orderly, Remembered, Promises, Later, NEW r \in Repos,
         RepoCreate(r)
  PROVE  Promises'
<1>1. PICK m, b : m = Msg(r) /\ b = m.body
  OBVIOUS
<1>2. /\ Taken(r, "C") /\ ~Fail(failures) /\ UNCHANGED pending
      /\ job \in [Repos -> Job \cup {Nothing}]
  BY NoFailure, SettledCluster
     DEF RepoCreate, Orderly, QueryInv, Owned, Typed, TypeOK, masterVars
<1>3. /\ Reply(r, Nothing)
      /\ job' = [job EXCEPT ![r] =
                   [name |-> b.name, todo |-> b.rels, id |-> m.id,
                    table |-> m.table, from |-> From(r), cli |-> m.cli,
                    kind |-> IF b.name \in nodes[r] THEN "exists"
                                                     ELSE "stored"]]
  BY <1>1, <1>2 DEF RepoCreate
<1>4. /\ m.cli \in Clients /\ r = HomeOf(b.name) /\ b.name \in Names
      /\ m.id # 0 => b = request[m.cli]
      /\ request[m.cli] # Nothing
  BY <1>1, <1>2, RepoReads, TakenHeld, RequestFields, Separate DEF Commands
<1>5. PICK j : j = job'[r]
  OBVIOUS
<1>6. /\ j.id = m.id /\ j.cli = m.cli
      /\ j.kind = IF b.name \in nodes[r] THEN "exists" ELSE "stored"
      /\ \A x \in Repos \ {r} : job'[x] = job[x]
  BY <1>2, <1>3, <1>5
<1>7. ASSUME j.id # 0, j.kind = "stored"
      PROVE  Service!Node(request[j.cli].name) \notin Old(j.cli)
  <2>1. b.name \notin nodes[r] /\ b = request[j.cli]
    BY <1>4, <1>6, <1>7
  <2>2. Service!Node(b.name) \notin Facts
    BY <1>4, <2>1, FactsHeld DEF FactsMean
  <2>3. Old(j.cli) \subseteq Facts
    BY <1>4, <1>6 DEF Remembered
  <2> QED
    BY <2>1, <2>2, <2>3
<1>8. Intent(j)'
  BY <1>4, <1>6, <1>7, IntentStays DEF Intent
<1>9. Held(r)' = Nothing /\ \A p \in Procs \ {r} : Held(p)' = Held(p)
  BY <1>3, Separate, HeldAfterReply DEF Orderly, QueryInv
<1> QED
  BY <1>2, <1>5, <1>6, <1>8, <1>9, PromisesRepo

LEMMA PromisesRepoRelation ==
  ASSUME Settled, Orderly, Promises, Later, NEW r \in Repos, RepoRelation(r)
  PROVE  Promises'
<1>1. PICK j, b : j = job[r] /\ b = Head(j.todo)
  OBVIOUS
<1>2. /\ j \in Job /\ j # Nothing /\ j.cli \in Clients /\ r \in Procs
      /\ request[j.cli] # Nothing
      /\ job \in [Repos -> Job \cup {Nothing}]
  BY <1>1, RepoWrites, JobClient, Separate
     DEF Orderly, QueryInv, Owned, Typed, TypeOK
<1>3. PICK m : /\ sending' = [sending EXCEPT ![r] = m]
               /\ m # Nothing => m.type = "C"
  <2>1. sending' = [sending EXCEPT ![r] =
              IF j.table = <<>> THEN Nothing
              ELSE ParseNewNode(Route(j.table, b),
                                [op |-> "C", name |-> b, attr |-> FALSE,
                                 rels |-> <<j.name>>],
                                0, <<>>, j.cli)]
    BY <1>1, RepoWrites
  <2>2. PICK m :
          m = IF j.table = <<>> THEN Nothing
              ELSE ParseNewNode(Route(j.table, b),
                                [op |-> "C", name |-> b, attr |-> FALSE,
                                 rels |-> <<j.name>>],
                                0, <<>>, j.cli)
    OBVIOUS
  <2>3. m # Nothing => m.type = "C"
    BY <2>2 DEF ParseNewNode
  <2> QED
    BY <2>1, <2>2, <2>3
<1>4. /\ job' = [job EXCEPT ![r].todo = Tail(@)] /\ taken[r] = Nothing
      /\ UNCHANGED taken /\ UNCHANGED pending
  BY RepoWrites DEF socketVars, masterVars
<1>5. PICK k : k = job'[r]
  OBVIOUS
<1>6. /\ k.id = j.id /\ k.cli = j.cli /\ k.kind = j.kind
      /\ \A x \in Repos \ {r} : job'[x] = job[x]
  BY <1>1, <1>2, <1>4, <1>5 DEF Job
<1>7. Intent(j)'
  BY <1>1, <1>2, IntentStays DEF Promises
<1>8. Intent(k)'
  BY <1>6, <1>7 DEF Intent
<1>9. m # Nothing => Promise(m)' /\ ~Asks(m)
  BY <1>3 DEF Promise, Asks
<1>10. Held(r)' = m /\ \A p \in Procs \ {r} : Held(p)' = Held(p)
  BY <1>2, <1>3, <1>4, HeldAfterSend DEF Orderly, QueryInv
<1> QED
  BY <1>4, <1>5, <1>6, <1>8, <1>9, <1>10, PromisesRepo

LEMMA PromisesRepoFinish ==
  ASSUME Settled, Orderly, Promises, Later, NEW r \in Repos, RepoFinish(r)
  PROVE  Promises'
<1>1. PICK j, m :
        /\ j = job[r]
        /\ m = IF j.id = 0 THEN Nothing
               ELSE ParseNewMessageResponse(Master, Say(j.kind), j.id, j.cli)
  OBVIOUS
<1>2. /\ sending' = [sending EXCEPT ![r] = m]
      /\ job' = [job EXCEPT ![r] = Nothing] /\ j # Nothing
      /\ UNCHANGED taken /\ UNCHANGED pending
  BY <1>1 DEF RepoFinish, socketVars, masterVars
<1>3. /\ job \in [Repos -> Job \cup {Nothing}] /\ taken[r] = Nothing
      /\ r \in Procs
  BY <1>1, <1>2, Separate DEF Orderly, QueryInv, Owned, Typed, TypeOK, Solo
<1>4. j.cli \in Clients /\ request[j.cli] # Nothing /\ SoundJob(r)
  BY <1>1, <1>2, JobClient DEF Orderly
<1>5. Intent(j)'
  BY <1>1, <1>2, <1>4, IntentStays DEF Promises
<1>6. j.kind \notin {"busy", "query"}
  BY <1>1, <1>4 DEF SoundJob, Confirms
<1>7. ASSUME m # Nothing PROVE Promise(m)' /\ ~Asks(m)
  <2>1. /\ m.type = "M" /\ m.cli = j.cli /\ m.text.kind = j.kind /\ j.id # 0
    BY <1>1, <1>7 DEF ParseNewMessageResponse, Say
  <2> QED
    BY <1>5, <1>6, <2>1 DEF Promise, Intent, Asks
<1>8. Held(r)' = m /\ \A p \in Procs \ {r} : Held(p)' = Held(p)
  BY <1>2, <1>3, HeldAfterSend DEF Orderly, QueryInv
<1>9. job'[r] = Nothing /\ \A x \in Repos \ {r} : job'[x] = job[x]
  BY <1>2, <1>3
<1> QED
  BY <1>2, <1>7, <1>8, <1>9, PromisesRepo

LEMMA PromisesRepoReply ==
  ASSUME Settled, Orderly, Promises, Later, NEW r \in Repos,
         RepoUpdate(r) \/ RepoDelete(r)
  PROVE  Promises'
<1>1. PICK m :
        /\ Reply(r, m)
        /\ m # Nothing => \/ m.type = "M" /\ m.text.kind = "updated"
                          \/ m.type = "D"
  BY DEF RepoUpdate, RepoDelete, ParseNewMessageResponse, ParseNewDelete, Say
<1>2. m # Nothing => Promise(m)' /\ ~Asks(m)
  BY <1>1 DEF Promise, Asks
<1>3. job \in [Repos -> Job \cup {Nothing}] /\ r \in Procs /\ UNCHANGED pending
  BY Separate
     DEF RepoUpdate, RepoDelete, masterVars, Orderly, QueryInv, Owned, Typed, TypeOK
<1>4. taken[r] # Nothing /\ job[r] = Nothing
  BY <1>3 DEF RepoUpdate, RepoDelete, Taken, Orderly, QueryInv, Solo
<1>5. /\ \A x \in Repos \ {r} : job'[x] = job[x]
      /\ job'[r] # Nothing => job'[r].kind \in {"deleted", "cleared"}
  BY <1>3, <1>4 DEF RepoUpdate, RepoDelete
<1>6. \A j : j.kind \in {"deleted", "cleared"} => Intent(j)'
  BY DEF Intent
<1>7. Held(r)' = m /\ \A p \in Procs \ {r} : Held(p)' = Held(p)
  BY <1>1, <1>3, HeldAfterReply DEF Orderly, QueryInv
<1> QED
  BY <1>2, <1>3, <1>5, <1>6, <1>7, PromisesRepo

-----------------------------------------------------------------------------
LEMMA PromisesClient ==
  ASSUME Settled, Orderly, Promises, Later, NEW c \in Clients,
         Invoke(c) \/ WaitResponse(c)
  PROVE  Promises'
<1>1. PICK m : /\ Held(c)' = m
               /\ \A p \in Procs \ {c} : Held(p)' = Held(p)
               /\ UNCHANGED job /\ UNCHANGED pending
               /\ m # Nothing => m.type \in Commands /\ m.id = 0
  <2>1. CASE Invoke(c)
    <3>1. PICK r \in Request :
            /\ Held(c)' = ClientCommand(r, c)
            /\ \A p \in Procs \ {c} : Held(p)' = Held(p)
            /\ UNCHANGED <<job, masterVars>>
      BY <2>1, InvokeActs
    <3>2. ClientCommand(r, c).id = 0
      BY RequestFields
         DEF ClientCommand, ParseNewNode, ParseNewQuery, ParseNewUpdate,
             ParseNewDelete
    <3>3. PICK m : m = ClientCommand(r, c)
      OBVIOUS
    <3> QED
      BY <3>1, <3>2, <3>3, CommandOf DEF masterVars
  <2>2. CASE WaitResponse(c)
    BY <2>2, WaitResponseActs DEF masterVars
  <2> QED
    BY <2>1, <2>2
<1>2. m # Nothing => Promise(m)' /\ ~Asks(m)
  BY <1>1 DEF Promise, Asks, Commands
<1>3. \A r \in Repos : job'[r] \in {Nothing, job[r]}
  BY <1>1
<1> QED
  BY <1>1, <1>2, <1>3, Separate, PromisesKept


-----------------------------------------------------------------------------
LEMMA ServiceInvInit == ASSUME Settled, ServiceInit PROVE ServiceInv
<1>1. /\ Init /\ sending = [p \in Procs |-> Nothing]
      /\ taken = [p \in Procs |-> Nothing]
      /\ job = [r \in Repos |-> Nothing] /\ pending = NoPending
      /\ request = [c \in Clients |-> Nothing]
      /\ before = [c \in Clients |-> Nothing]
  BY DEF ServiceInit, Init
<1>2. \A p \in Procs : Held(p) = Nothing
  BY <1>1 DEF Held
<1>3. DOMAIN pending = {}
  BY <1>1 DEF NoPending
<1>4. Promises
  BY <1>1, <1>2, <1>3 DEF Promises
<1>5. Remembered
  BY <1>1 DEF Remembered
<1>6. Frontier
  BY <1>3 DEF Frontier
<1> QED
  BY <1>1, <1>4, <1>5, <1>6, OrderlyInit DEF ServiceInv

LEMMA ServiceInvStep ==
  ASSUME Settled, ServiceInv, [ServiceNext]_<<vars, before>>
  PROVE  ServiceInv'
<1>1. Orderly /\ Frontier /\ Remembered /\ Promises
  BY DEF ServiceInv
<1>2. [Next]_vars /\ Later /\ Remembered'
  BY <1>1, LaterStep
<1>3. Orderly'
  BY <1>1, <1>2, OrderlyStep
<1>4. Frontier'
  BY <1>1, <1>2, FrontierStep DEF Orderly, QueryInv, Owned
<1>5. ASSUME MasterStep PROVE Promises'
  <2>1. ~MasterEnrol
    <3> SUFFICES ASSUME Taken(Master, "E") PROVE FALSE
      BY DEF MasterEnrol
    <3> QED
      BY <1>1, TakenHeld, Separate DEF Sound
  <2>2. CASE MasterCreate \/ MasterUpdate \/ MasterDelete
    <3>1. \E t \in Commands \ {"R"} : \E command :
            Taken(Master, t) /\ MasterWrite(command) /\ command.type = t
      BY <2>2 DEF MasterCreate, MasterUpdate, MasterDelete, Commands,
                  ParseNewNode, ParseNewUpdate, ParseNewDelete
    <3> QED
      BY <1>1, <1>2, <3>1, PromisesMasterWrite
  <2> QED
    BY <1>1, <1>2, <1>5, <2>1, <2>2, PromisesMasterQuery, PromisesMasterMessage,
       PromisesMasterInfo DEF MasterStep
<1>6. ASSUME NEW r \in Repos, RepoStep(r) PROVE Promises'
  <2>1. ~RepoMessage(r)
    <3> SUFFICES ASSUME Taken(r, "M") PROVE FALSE
      BY DEF RepoMessage
    <3> QED
      BY <1>1, TakenHeld, Separate DEF Sound
  <2> QED
    BY <1>1, <1>2, <1>6, <2>1, PromisesRepoCreate, PromisesRepoRelation,
       PromisesRepoFinish, PromisesRepoQuery, PromisesRepoReply DEF RepoStep
<1>7. (\E s, d \in Procs : Moves(s, d)) => Promises'
  BY <1>1, <1>2, PromisesCarried
<1>8. \A c \in Clients : Invoke(c) \/ WaitResponse(c) => Promises'
  BY <1>1, <1>2, PromisesClient
<1>9. (\A r \in Repos : ~SetRepository(r)) /\ ~SetServer
  BY <1>1, SettledCluster DEF Orderly, SetRepository, SetServer
<1>10. Promises'
  BY <1>1, <1>2, <1>5, <1>6, <1>7, <1>8, <1>9, TransportMoves DEF Next, Work
<1> QED
  BY <1>2, <1>3, <1>4, <1>10 DEF ServiceInv

-----------------------------------------------------------------------------
(***************************************************************************)
(* The cluster does what GraphService allows.                              *)
(***************************************************************************)

\* The files hold facts.
LEMMA FactsAreFacts == Facts \subseteq Service!Fact
BY FactsHeld DEF FactsMean, Service!Fact

\* A handler writes for a client that was not refused.
LEMMA WriterAccepted ==
  ASSUME Orderly, NEW p \in Procs, NEW c \in Clients, Trace(p, c),
         request[c].op = "C"
  PROVE  c \in Service!Accepted
BY DEF Orderly, Traces, Service!Accepted, Service!Asking

\* What is new in the files of the repository r.
LEMMA FactsAdded ==
  ASSUME Settled, Typed, NEW r \in Repos, NEW n \in Names,
         StoreNode(r, n), NEW F,
         r = HomeOf(n) => Service!Node(n) \in F,
         \A x \in Repos : \A k \in attributes'[x] :
           k \in attributes[x] \/ (k \in Names /\ Service!Attribute(k) \in F),
         \A x \in Repos : \A e \in relations'[x] :
           e \in relations[x] \/ Service!Relation(e[1], e[2]) \in F
  PROVE  Facts' \subseteq Facts \cup F
<1>1. nodes \in [Repos -> SUBSET Names]
  BY DEF Typed, TypeOK, StoreOK
<1>2. \A k \in Names : HomeOf(k) \in Repos
  BY HomeOfRepo
<1>3. FactsMean /\ FactsMean'
  BY FactsHeld, FactsHeldNext
<1>4. ASSUME NEW k \in Names, Service!Node(k) \in Facts'
      PROVE  Service!Node(k) \in Facts \cup F
  <2>1. k \in nodes'[HomeOf(k)]
    BY <1>3, <1>4 DEF FactsMean
  <2>2. k \in nodes[HomeOf(k)] \/ (HomeOf(k) = r /\ k = n)
    BY <1>1, <1>2, <2>1 DEF StoreNode
  <2> QED
    BY <1>3, <2>2 DEF FactsMean
<1>5. ASSUME NEW k \in Names, Service!Attribute(k) \in Facts'
      PROVE  Service!Attribute(k) \in Facts \cup F
  BY <1>2, <1>3, <1>5 DEF FactsMean
<1>6. ASSUME NEW a \in Names, NEW b \in Names, Service!Relation(a, b) \in Facts'
      PROVE  Service!Relation(a, b) \in Facts \cup F
  <2>1. <<a, b>> \in relations'[HomeOf(a)]
    BY <1>3, <1>6 DEF FactsMean, Linked
  <2>2. <<a, b>> \in relations[HomeOf(a)] \/ Service!Relation(a, b) \in F
    BY <1>2, <2>1
  <2> QED
    BY <1>3, <2>2 DEF FactsMean, Linked
<1> QED
  BY <1>3, <1>4, <1>5, <1>6 DEF FactsMean


\* The library is the same in both modules.
LEMMA SameToSet == \A s : Service!ToSet(s) = ToSet(s)
BY DEF Service!ToSet, ToSet

\* What a create may add.
LEMMA AskedFacts ==
  ASSUME NEW q
  PROVE  /\ Service!Node(q.name) \in Service!Own(q)
         /\ q.attr => Service!Attribute(q.name) \in Service!Own(q)
         /\ \A b \in ToSet(q.rels) :
              /\ Service!Relation(q.name, b) \in Service!Own(q)
              /\ Service!Node(b) \in Service!Mirror(q)
              /\ Service!Relation(b, q.name) \in Service!Mirror(q)
<1>1. ASSUME NEW b \in ToSet(q.rels)
      PROVE  /\ Service!Node(b) \in Service!Mirror(q)
             /\ Service!Relation(b, q.name) \in Service!Mirror(q)
  <2>1. PICK S : /\ S = {Service!Node(b), Service!Relation(b, q.name)}
                 /\ S \in {{Service!Node(x), Service!Relation(x, q.name)} :
                           x \in ToSet(q.rels)}
    OBVIOUS
  <2>2. S \subseteq Service!Mirror(q)
    BY <2>1, SameToSet DEF Service!Mirror
  <2> QED
    BY <2>1, <2>2
<1>2. Service!Node(q.name) \in Service!Own(q)
  BY DEF Service!Own
<1>3. q.attr => Service!Attribute(q.name) \in Service!Own(q)
  BY Zenon DEF Service!Own
<1>4. ASSUME NEW b \in ToSet(q.rels)
      PROVE  Service!Relation(q.name, b) \in Service!Own(q)
  <2>1. Service!Relation(q.name, b) \in
          {Service!Relation(q.name, x) : x \in ToSet(q.rels)}
    OBVIOUS
  <2> QED
    BY <2>1, SameToSet DEF Service!Own
<1> QED
  BY <1>1, <1>2, <1>3, <1>4

LEMMA OwnWithin ==
  ASSUME NEW q, NEW F, Service!Node(q.name) \in F,
         q.attr => Service!Attribute(q.name) \in F,
         \A b \in ToSet(q.rels) : Service!Relation(q.name, b) \in F
  PROVE  Service!Own(q) \subseteq F
<1>1. {Service!Relation(q.name, b) : b \in ToSet(q.rels)} \subseteq F
  OBVIOUS
<1>2. (IF q.attr THEN {Service!Attribute(q.name)} ELSE {}) \subseteq F
  OBVIOUS
<1>3. {Service!Node(q.name)} \subseteq F
  OBVIOUS
<1> QED
  BY <1>1, <1>2, <1>3, SameToSet DEF Service!Own

LEMMA CreateAdds ==
  ASSUME Settled, Orderly, NEW r \in Repos, RepoCreate(r)
  PROVE  \E c \in Service!Accepted :
           Facts' \subseteq Facts \cup
             (Service!Own(request[c]) \cup Service!Mirror(request[c]))
<1>1. PICK m, b, c, q : /\ m = Msg(r) /\ b = m.body /\ c = m.cli /\ q = request[c]
  OBVIOUS
<1>2. /\ Typed /\ Taken(r, "C") /\ ~Fail(failures) /\ UNCHANGED relations
      /\ attributes \in [Repos -> SUBSET Names]
  BY NoFailure, SettledCluster
     DEF RepoCreate, Orderly, QueryInv, Owned, Typed, TypeOK, StoreOK
<1>3. /\ StoreNode(r, b.name)
      /\ attributes' = [attributes EXCEPT
                          ![r] = IF b.attr THEN @ \cup {b.name} ELSE @]
  BY <1>1, <1>2 DEF RepoCreate
<1>4. /\ c \in Clients /\ q.op = "C" /\ r = HomeOf(b.name) /\ Trace(r, c)
      /\ m.id # 0 => b = q
      /\ m.id = 0 => b.name \in ToSet(q.rels) /\ b.attr = FALSE
      /\ b.name \in Names /\ r \in Procs
  BY <1>1, <1>2, RepoReads, RequestFields, Separate DEF Commands
<1>5. c \in Service!Accepted
  BY <1>1, <1>4, WriterAccepted
<1>6. PICK F : F = Service!Own(q) \cup Service!Mirror(q)
  OBVIOUS
<1>7. Service!Node(b.name) \in F
  BY <1>4, <1>6, AskedFacts
<1>8. b.attr => Service!Attribute(b.name) \in F
  BY <1>4, <1>6, AskedFacts
<1>9. \A x \in Repos : \A k \in attributes'[x] :
        k \in attributes[x] \/ (k \in Names /\ Service!Attribute(k) \in F)
  BY <1>2, <1>3, <1>4, <1>8
<1>10. Facts' \subseteq Facts \cup F
  BY <1>2, <1>3, <1>4, <1>7, <1>9, FactsAdded
<1> QED
  BY <1>1, <1>5, <1>6, <1>10

LEMMA RelationAdds ==
  ASSUME Settled, Orderly, NEW r \in Repos, RepoRelation(r)
  PROVE  \E c \in Service!Accepted :
           Facts' \subseteq Facts \cup
             (Service!Own(request[c]) \cup Service!Mirror(request[c]))
<1>1. PICK j, b, c, q :
        /\ j = job[r] /\ b = Head(j.todo) /\ c = j.cli /\ q = request[c]
  OBVIOUS
<1>2. /\ Typed /\ relations \in [Repos -> SUBSET (Names \X Names)]
  BY DEF Orderly, QueryInv, Owned, Typed, TypeOK, StoreOK
<1>3. /\ c \in Clients /\ b \in Names /\ Trace(r, c) /\ q.op = "C" /\ r \in Procs
      /\ IF j.id = 0 THEN j.name \in ToSet(q.rels) /\ b = q.name
                     ELSE j.name = q.name /\ b \in ToSet(q.rels)
      /\ StoreNode(r, b) /\ UNCHANGED attributes
      /\ relations' = [relations EXCEPT ![r] = @ \cup {<<j.name, b>>}]
  BY <1>1, RepoWrites, Separate
<1>4. c \in Service!Accepted
  BY <1>1, <1>3, WriterAccepted
<1>5. PICK F : F = Service!Own(q) \cup Service!Mirror(q)
  OBVIOUS
<1>6. Service!Node(b) \in F
  BY <1>3, <1>5, AskedFacts
<1>7. Service!Relation(j.name, b) \in F
  BY <1>3, <1>5, AskedFacts
<1>8. \A x \in Repos : \A e \in relations'[x] :
        e \in relations[x] \/ Service!Relation(e[1], e[2]) \in F
  <2>1. <<j.name, b>>[1] = j.name /\ <<j.name, b>>[2] = b
    OBVIOUS
  <2> QED
    BY <1>2, <1>3, <1>7, <2>1
<1>9. Facts' \subseteq Facts \cup F
  BY <1>2, <1>3, <1>6, <1>8, FactsAdded
<1> QED
  BY <1>1, <1>4, <1>5, <1>9

\* Nothing is remembered anew while nobody asks.
LEMMA NotRemembered ==
  ASSUME Remembered, Remember \/ UNCHANGED <<vars, before>>, UNCHANGED request
  PROVE  UNCHANGED before
BY RememberStep DEF Remembered

\* The writes, and whatever the clients do not see.
LEMMA WriteOrStutter ==
  ASSUME Settled, ServiceInv, [ServiceNext]_<<vars, before>>,
         UNCHANGED clientVars
  PROVE  Service!Write \/ UNCHANGED Service!vars
<1>1. Orderly /\ Remembered
  BY DEF ServiceInv
<1>2. [Next]_vars /\ Later /\ (Remember \/ UNCHANGED <<vars, before>>)
  BY <1>1, LaterStep
<1>3. UNCHANGED request /\ UNCHANGED answer
  BY DEF clientVars
<1>4. UNCHANGED before
  BY <1>1, <1>2, <1>3, NotRemembered
<1>5. CASE UNCHANGED storeVars
  <2>1. Facts' = Facts
    BY <1>5 DEF Facts, storeVars
  <2> QED
    BY <1>3, <1>4, <2>1 DEF Service!vars
<1>6. CASE \E r \in Repos : RepoCreate(r) \/ RepoRelation(r)
  <2>1. PICK c \in Service!Accepted :
          Facts' \subseteq Facts \cup
            (Service!Own(request[c]) \cup Service!Mirror(request[c]))
    BY <1>1, <1>6, CreateAdds, RelationAdds
  <2>2. Facts \subseteq Facts'
    BY <1>2 DEF Later
  <2>3. Facts' \subseteq Facts \cup
          UNION {Service!Own(request[k]) \cup Service!Mirror(request[k]) :
                   k \in Service!Accepted}
    BY <2>1
  <2> QED
    BY <1>3, <1>4, <2>2, <2>3 DEF Service!Write
<1> QED
  BY <1>1, <1>2, <1>5, <1>6, StoreStep

\* A client that asks.
LEMMA AskStep ==
  ASSUME Settled, ServiceInv, [ServiceNext]_<<vars, before>>,
         NEW c \in Clients, Invoke(c)
  PROVE  Service!Ask(c)
<1>1. /\ Orderly /\ Remembered /\ (Remember \/ UNCHANGED <<vars, before>>)
      /\ request \in [Clients -> Request \cup {Nothing}]
  BY LaterStep DEF ServiceInv, Orderly, QueryInv, Owned, Typed, TypeOK, ClientOK
<1>2. PICK r \in Requests : request' = [request EXCEPT ![c] = r]
  BY DEF Invoke
<1>3. /\ r # Nothing /\ request[c] = Nothing
      /\ UNCHANGED answer /\ UNCHANGED storeVars
  BY ClusterAssumption, NothingAssumption DEF Invoke
<1>4. Facts' = Facts
  BY <1>3 DEF Facts, storeVars
<1>5. /\ before' = [d \in Clients |-> before'[d]]
      /\ before'[c] = [graph |-> Facts,
                       done |-> {d \in Clients : answer[d] # Nothing}]
      /\ \A d \in Clients \ {c} : before'[d] = before[d]
  BY <1>1, <1>2, <1>3, RememberStep
<1>6. before' = [before EXCEPT ![c] =
                   [graph |-> Facts, done |-> {d \in Clients : answer[d] # Nothing}]]
  BY <1>1, <1>5 DEF Remembered
<1> QED
  BY <1>2, <1>3, <1>4, <1>6 DEF Service!Ask

\* A client that is answered.
LEMMA AnswerStep ==
  ASSUME Settled, ServiceInv, [ServiceNext]_<<vars, before>>,
         NEW c \in Clients, WaitResponse(c)
  PROVE  \/ answer'[c] # Nothing /\ Service!Answer(c, answer'[c])
         \/ UNCHANGED Service!vars
<1>1. /\ Orderly /\ Remembered /\ Promises
      /\ (Remember \/ UNCHANGED <<vars, before>>)
      /\ answer \in [Clients -> Text \cup {Nothing}]
      /\ request \in [Clients -> Request \cup {Nothing}]
  BY LaterStep DEF ServiceInv, Orderly, QueryInv, Owned, Typed, TypeOK, ClientOK
<1>2. PICK m, r, old : m = Msg(c) /\ r = request[c] /\ old = before[c].graph
  OBVIOUS
<1>3. /\ Held(c) = m /\ m \in Message /\ m.type = "M" /\ m.cli = c /\ Sound(m)
      /\ r # Nothing /\ answer' = [answer EXCEPT ![c] = m.text]
      /\ UNCHANGED storeVars /\ UNCHANGED request
  BY <1>1, <1>2, WaitResponseActs
<1>4. c \in up /\ m # Nothing /\ c \in Procs
  BY <1>3, Separate, NothingAssumption DEF WaitResponse, Taken
<1>5. answer[c] = Nothing /\ answer'[c] = m.text
  BY <1>1, <1>3, <1>4 DEF Orderly, Traces
<1>6. UNCHANGED before /\ Facts' = Facts
  BY <1>1, <1>3, NotRemembered DEF Facts, storeVars
<1>7. CASE m.text = Nothing
  <2>1. answer' = answer
    BY <1>1, <1>3, <1>5, <1>7
  <2> QED
    BY <1>3, <1>6, <2>1 DEF Service!vars
<1>8. CASE m.text # Nothing
  <2>1. /\ m.text.kind = "busy" => Service!Busy(c)
        /\ m.text.kind = "stored" => Service!Node(r.name) \notin old
        /\ m.text.kind = "query" => Service!Lists(m.text.found, r, old)
    BY <1>1, <1>2, <1>3, <1>4 DEF Promises, Promise, Old
  <2>2. r \in Request /\ r.op \in {"C", "R", "U", "D"}
    BY <1>1, <1>2, <1>3, RequestFields
  <2>3. FaithfulText(m)
    BY <1>3 DEF Sound
  <2>4. KeptAtHome(c) => r.op = "C" /\ Service!Own(r) \subseteq Facts
    <3> SUFFICES ASSUME KeptAtHome(c)
                 PROVE  r.op = "C" /\ Service!Own(r) \subseteq Facts
      OBVIOUS
    <3>1. r.op = "C" /\ Holds(HomeOf(r.name), r)
      BY <1>2 DEF KeptAtHome
    <3>2. r.name \in Names /\ r.rels \in Seq(Names)
      BY <2>2, <3>1, RequestFields DEF CreateRequest
    <3>3. ToSet(r.rels) \subseteq Names
      BY <3>2 DEF ToSet
    <3>4. /\ Service!Node(r.name) \in Facts
          /\ r.attr => Service!Attribute(r.name) \in Facts
          /\ \A b \in ToSet(r.rels) : Service!Relation(r.name, b) \in Facts
      BY <3>1, <3>2, <3>3, FactsHeld DEF FactsMean, Holds, Linked
    <3> QED
      BY <3>1, <3>4, OwnWithin
  <2>5. \/ r.op = "C" /\ m.text.kind \in {"stored", "exists"}
           /\ Service!Own(r) \subseteq Facts
        \/ r.op = "U" /\ m.text.kind = "updated"
        \/ r.op = "D" /\ m.text.kind \in {"deleted", "cleared"}
        \/ r.op = "R" /\ m.text.kind = "query"
        \/ r.op \in {"C", "U", "D"} /\ m.text.kind = "busy"
    BY <1>2, <1>3, <2>2, <2>3, <2>4 DEF FaithfulText, Confirms
  <2>6. Service!Answer(c, m.text)
    BY <1>2, <1>3, <1>5, <1>6, <2>1, <2>5 DEF Service!Answer
  <2> QED
    BY <1>5, <1>8, <2>6
<1> QED
  BY <1>7, <1>8

(***************************************************************************)
(* ServiceImplemented: once the cluster is set up, for any number of       *)
(* clients that ask at the same time and in any order of the messages,     *)
(* what every client reads is what GraphService allows: a query lists what *)
(* was near enough when it was asked and nothing that is not stored when   *)
(* it answers, at a depth between the two distances; a create that is told *)
(* to be stored is in the files, and was not when it was asked; a write is *)
(* refused only beside a query; and the graph grows by nothing but what    *)
(* was asked and not refused.                                              *)
(***************************************************************************)
THEOREM ServiceImplemented ==
  ASSUME Settled
  PROVE  ServiceSpec => ImplementsService
<1>1. ServiceInit => ServiceInv
  BY ServiceInvInit
<1>2. ServiceInv /\ [ServiceNext]_<<vars, before>> => ServiceInv'
  BY ServiceInvStep
<1>3. ServiceInit => Service!Init
  BY FactsAreFacts DEF ServiceInit, Init, Service!Init
<1>4. ServiceInv /\ [ServiceNext]_<<vars, before>>
        => [Service!Next]_(Service!vars)
  <2> SUFFICES ASSUME ServiceInv, [ServiceNext]_<<vars, before>>
               PROVE  Service!Next \/ UNCHANGED Service!vars
    OBVIOUS
  <2>1. Orderly /\ [Next]_vars
    BY LaterStep DEF ServiceInv
  <2>2. CASE UNCHANGED clientVars
    BY <2>2, WriteOrStutter DEF Service!Next
  <2>3. ASSUME NEW c \in Clients, Invoke(c) PROVE Service!Next
    BY <2>3, AskStep DEF Service!Next
  <2>4. ASSUME NEW c \in Clients, WaitResponse(c)
        PROVE  Service!Next \/ UNCHANGED Service!vars
    BY <2>4, AnswerStep DEF Service!Next
  <2> QED
    BY <2>1, <2>2, <2>3, <2>4, ClientStep
<1> QED
  BY <1>1, <1>2, <1>3, <1>4, PTL DEF ServiceSpec, ImplementsService, Service!Spec

=============================================================================
