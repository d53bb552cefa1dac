------------------------------ MODULE BitWords ------------------------------
(***************************************************************************)
(* The unsigned machine words the generators compute on, as bit vectors:   *)
(* a word is a function from bit numbers (0 is the least significant) to   *)
(* Booleans.  W is uint64_t's 64 or uint32_t's 32 in the code; everything   *)
(* is stated for an arbitrary width.                                       *)
(*                                                                         *)
(* A word is not a natural number here because the arguments about the     *)
(* xorshift and twister steps are arguments about bits (the lowest bit two *)
(* words differ in survives x ^ (x << k)), and in this form they can be    *)
(* proved for every width.  WordsAreUnsignedIntegers in V8Equiv compares   *)
(* each operator with the arithmetic it stands for.                        *)
(***************************************************************************)
EXTENDS Integers

CONSTANT W

ASSUME WAssumption == W \in Nat \ {0}

Bit == 0 .. (W - 1)
Word == [Bit -> BOOLEAN]

Zero == [i \in Bit |-> FALSE]

\* C's ^, & and | on unsigned operands.
Xor(a, b) == [i \in Bit |-> a[i] # b[i]]
And(a, b) == [i \in Bit |-> a[i] /\ b[i]]
Or(a, b)  == [i \in Bit |-> a[i] \/ b[i]]

\* C's << and >> on unsigned operands: the bits shifted out are lost and
\* zeros come in.
Shl(a, k) == [i \in Bit |-> i >= k /\ a[i - k]]
Shr(a, k) == [i \in Bit |-> i + k < W /\ a[i + k]]

\* The word congruent to the natural number n, as C converts to unsigned.
FromNat(n) == [i \in Bit |-> (n \div 2^i) % 2 = 1]

\* The natural number a word stands for.
ToNat(a) ==
  LET value[i \in 0 .. W] ==
        IF i = 0 THEN 0 ELSE value[i - 1] + (IF a[i - 1] THEN 2^(i - 1) ELSE 0)
  IN  value[W]

\* C's + on unsigned operands: the carry out of the top bit is lost.
Add(a, b) ==
  LET carry[i \in 0 .. W] ==
        IF i = 0 THEN FALSE
        ELSE \/ a[i - 1] /\ b[i - 1]
             \/ carry[i - 1] /\ (a[i - 1] \/ b[i - 1])
  IN  [i \in Bit |-> (a[i] # b[i]) # carry[i]]

\* C's * on unsigned operands: the sum, modulo 2^W, of a shifted by the
\* position of each bit set in b.  ("= TRUE" makes it plain to the provers that
\* the result is a word, without an induction over the recursive sum.)
Mul(a, b) ==
  LET sum[i \in 0 .. W] ==
        IF i = 0 THEN Zero
        ELSE IF b[i - 1] THEN Add(sum[i - 1], Shl(a, i - 1))
                         ELSE sum[i - 1]
  IN  [i \in Bit |-> sum[W][i] = TRUE]

\* Mutant of rotl: both shifts by k.
rotl_SameShift(x, k) == Or(Shl(x, k), Shr(x, k))

\* rotl of xoroshiro128plus.h, (x << k) | (x >> (64 - k)).
rotl(x, k) == Or(Shl(x, k), Shr(x, W - k))
=============================================================================
