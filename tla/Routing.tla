------------------------------- MODULE Routing -------------------------------
(***************************************************************************)
(* The index of the repository a name belongs to, from the character it    *)
(* begins with, as the main server and as the repositories compute it.     *)
(* Index 0 of the table is the main server itself.                         *)
(***************************************************************************)
EXTENDS Integers

TwoTo16 == 65536

\* 2^64 modulo k, squared in steps that stay below 32 bits.
TwoTo64(k) ==
  LET to16 == TwoTo16 % k
      to32 == (to16 * to16) % k
  IN (to32 * to32) % k

\* Main server: char % size_t, so the character becomes a number below 2^64.
MainIndex(char, k) ==
  (IF char >= 0 THEN char % k ELSE (TwoTo64(k) + k - ((-char) % k)) % k) + 1

\* Faulty: the main server is not left out of the count.
FaultyRepoIndex(char, k) ==
  IF char >= 0 THEN char % (k + 1) ELSE -((-char) % (k + 1))

\* Repository: char % int, which has the sign of the character.
RepoIndex(char, k) ==
  (IF char >= 0 THEN char % k ELSE -((-char) % k)) + 1

=============================================================================
