---------------------------- MODULE RoutingProofs ----------------------------
(***************************************************************************)
(* When the main server and the repositories agree on the home of a name,  *)
(* for every first character and every number of repositories.             *)
(***************************************************************************)
EXTENDS Routing, TLAPS

\* What a remainder is.
LEMMA Remainder ==
  ASSUME NEW n \in Int, NEW k \in Nat \ {0}
  PROVE  /\ n % k \in 0..(k - 1)
         /\ n = k * (n \div k) + (n % k)
         /\ n \div k \in Int
OBVIOUS

\* There is only one.
LEMMA OneRemainder ==
  ASSUME NEW k \in Nat \ {0}, NEW q \in Int, NEW r \in 0..(k - 1)
  PROVE  (k * q + r) % k = r
<1> DEFINE n == k * q + r
           s == n % k
           p == n \div k
<1>1. n \in Int /\ s \in 0..(k - 1) /\ p \in Int /\ n = k * p + s
  BY Remainder
<1> HIDE DEF s, p
<1>2. k * (q - p) = s - r
  BY <1>1
<1>3. CASE q - p >= 1
  <2>1. k * (q - p) >= k
    BY <1>1, <1>3
  <2> QED
    BY <1>1, <1>2, <2>1
<1>4. CASE q - p <= -1
  <2>1. k * (q - p) <= -k
    BY <1>1, <1>4
  <2> QED
    BY <1>1, <1>2, <2>1
<1>5. CASE q - p = 0
  <2>1. s = r
    BY <1>1, <1>2, <1>5
  <2> QED
    BY <2>1 DEF s
<1> QED
  BY <1>1, <1>3, <1>4, <1>5

\* A remainder can be taken before squaring as well.
LEMMA SquareRemainder ==
  ASSUME NEW a \in Nat, NEW k \in Nat \ {0}
  PROVE  ((a % k) * (a % k)) % k = (a * a) % k
<1> DEFINE r == a % k
           q == a \div k
           s == (r * r) % k
           p == (r * r) \div k
<1>1. r \in 0..(k - 1) /\ q \in Int /\ a = k * q + r
  BY Remainder
<1>2. s \in 0..(k - 1) /\ p \in Int /\ r * r = k * p + s
  <2>1. r * r \in Int
    BY <1>1
  <2> QED
    BY <2>1, Remainder
<1> HIDE DEF r, q, s, p
<1>3. a * a = k * (k * q * q + 2 * q * r + p) + s
  BY <1>1, <1>2
<1>4. k * q * q + 2 * q * r + p \in Int
  BY <1>1, <1>2
<1>5. (a * a) % k = s
  BY <1>2, <1>3, <1>4, OneRemainder
<1> QED
  BY <1>5 DEF s, r

\* The number that is added to a negative character when it becomes one
\* of 64 bits (147, 238).
Modulus == (TwoTo16 * TwoTo16) * (TwoTo16 * TwoTo16)

LEMMA ModulusIsNat == TwoTo16 \in Nat /\ TwoTo16 * TwoTo16 \in Nat /\ Modulus \in Nat
<1>1. TwoTo16 \in Nat
  BY SMT DEF TwoTo16
<1>2. \A n \in Nat : n * n \in Nat
  OBVIOUS
<1> QED
  BY <1>1, <1>2 DEF Modulus

\* What the model computes in steps is the remainder of that number.
LEMMA SquaredInSteps ==
  ASSUME NEW k \in Nat \ {0}
  PROVE  TwoTo64(k) = Modulus % k
<1> DEFINE to32 == ((TwoTo16 % k) * (TwoTo16 % k)) % k
<1>1. to32 = (TwoTo16 * TwoTo16) % k
  BY SquareRemainder, ModulusIsNat
<1>2. (to32 * to32) % k = Modulus % k
  BY <1>1, SquareRemainder, ModulusIsNat DEF Modulus
<1> QED
  BY <1>2 DEF TwoTo64

\* The remainder of a negative character as the main server takes it is the
\* one of the whole number of 64 bits.
LEMMA Unsigned ==
  ASSUME NEW char \in -128..-1, NEW k \in Nat \ {0}
  PROVE  MainIndex(char, k) = ((Modulus + char) % k) + 1
<1> DEFINE whole == Modulus
           t == whole % k
           d == (-char) % k
<1>1. t \in 0..(k - 1) /\ whole \div k \in Int /\ whole = k * (whole \div k) + t
  BY Remainder, ModulusIsNat
<1>2. d \in 0..(k - 1) /\ (-char) \div k \in Int
      /\ -char = k * ((-char) \div k) + d
  BY Remainder
<1> DEFINE e == (t + k - d) % k
           p == (t + k - d) \div k
<1>3. e \in 0..(k - 1) /\ p \in Int /\ t + k - d = k * p + e
  <2>1. t + k - d \in Int
    BY <1>1, <1>2
  <2> QED
    BY <2>1, Remainder
<1>4. MainIndex(char, k) = e + 1
  BY SquaredInSteps DEF MainIndex
<1> DEFINE a == whole \div k
           b == (-char) \div k
<1>5. whole + char = k * (a - b + p - 1) + e
  <2>1. a \in Int /\ b \in Int /\ whole \in Int
    BY <1>1, <1>2, ModulusIsNat
  <2>2. whole = k * a + t
    BY <1>1
  <2>3. -char = k * b + d
    BY <1>2
  <2> HIDE DEF whole, t, d, e, p, a, b
  <2> QED
    BY <1>1, <1>2, <1>3, <2>1, <2>2, <2>3
<1>6. (whole + char) % k = e
  <2>1. a - b + p - 1 \in Int
    BY <1>1, <1>2, <1>3
  <2> HIDE DEF whole, t, d, e, p, a, b
  <2> QED
    BY <1>3, <1>5, <2>1, OneRemainder
<1> QED
  BY <1>4, <1>6

-----------------------------------------------------------------------------
(***************************************************************************)
(* HomesAgreeExactly: for every first character of a name and every number *)
(* of repositories, the repositories send the half of a relation (330) to  *)
(* where the main server looks for its node (147, 238) if the character is *)
(* ASCII, and otherwise only when both remainders are 0.                   *)
(***************************************************************************)
THEOREM HomesAgreeExactly ==
  ASSUME NEW char \in -128..127, NEW k \in Nat \ {0}
  PROVE  RepoIndex(char, k) = MainIndex(char, k)
           <=> (char >= 0 \/ (TwoTo64(k) = 0 /\ (-char) % k = 0))
<1>1. CASE char >= 0
  BY <1>1 DEF RepoIndex, MainIndex
<1>2. CASE char < 0
  <2> DEFINE t == TwoTo64(k)
             d == (-char) % k
  <2>1. t \in 0..(k - 1)
    <3>1. t = Modulus % k
      BY SquaredInSteps
    <3>2. Modulus % k \in 0..(k - 1)
      BY Remainder, ModulusIsNat
    <3> QED
      BY <3>1, <3>2
  <2>2. d \in 0..(k - 1)
    BY Remainder
  <2>3. RepoIndex(char, k) = 1 - d /\ MainIndex(char, k) = ((t + k - d) % k) + 1
    BY <1>2, <2>2 DEF RepoIndex, MainIndex
  <2> HIDE DEF t, d
  <2>4. (t + k - d) % k \in 0..(k - 1)
    <3>1. t + k - d \in Int
      BY <2>1, <2>2
    <3> QED
      BY <3>1, Remainder
  <2>5. CASE d = 0
    <3>1. (t + k - d) % k = t
      <4>1. t + k - d = k * 1 + t
        BY <2>1, <2>5
      <4> QED
        BY <2>1, <4>1, OneRemainder
    <3> QED
      BY <1>2, <2>1, <2>3, <2>5, <3>1 DEF t, d
  <2>6. CASE d # 0
    <3>1. 1 - d # ((t + k - d) % k) + 1
      BY <2>2, <2>4, <2>6
    <3> QED
      BY <1>2, <2>3, <2>6, <3>1 DEF d
  <2> QED
    BY <2>5, <2>6
<1> QED
  BY <1>1, <1>2

\* The home is a repository of the table, never the main server before it,
\* as the main server computes it (147, 238) from any character.
THEOREM HomeInTable ==
  ASSUME NEW char \in -128..127, NEW k \in Nat \ {0}
  PROVE  MainIndex(char, k) \in 1..k
<1>1. CASE char >= 0
  <2>1. char % k \in 0..(k - 1)
    BY Remainder
  <2> QED
    BY <1>1, <2>1 DEF MainIndex
<1>2. CASE char < 0
  <2>1. (Modulus + char) % k \in 0..(k - 1)
    BY Remainder, ModulusIsNat
  <2>2. MainIndex(char, k) = ((Modulus + char) % k) + 1
    BY <1>2, Unsigned
  <2> QED
    BY <2>1, <2>2
<1> QED
  BY <1>1, <1>2

=============================================================================
