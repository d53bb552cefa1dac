---------------------------- MODULE StaffordMix -----------------------------
(***************************************************************************)
(* The finalizer of splitmix64_r and splitmix63_r: David Stafford's Mix13,  *)
(* two rounds of "xor with a right shift, multiply" and a last xor with a   *)
(* right shift, on words of W bits.  splitmix63_r masks every product to   *)
(* 63 bits, which is the same computation with W = 63.                     *)
(***************************************************************************)
EXTENDS BitWords

CONSTANTS Shift1, Shift2, Shift3,   \* 30, 27 and 31
          Multiplier1,              \* 0xBF58476D1CE4E5B9
          Multiplier2               \* 0x94D049BB133111EB

ASSUME ShiftsAssumption ==
  /\ Shift1 \in Nat \ {0}
  /\ Shift2 \in Nat \ {0}
  /\ Shift3 \in Nat \ {0}

\* Both multipliers are odd, so that multiplying by them modulo 2^W can be
\* undone (SplitMixProofs).
ASSUME MultipliersAssumption ==
  /\ Multiplier1 \in Word /\ Multiplier1[0]
  /\ Multiplier2 \in Word /\ Multiplier2[0]

mix13(z) ==
  LET z1 == Mul(Xor(z, Shr(z, Shift1)), Multiplier1)
      z2 == Mul(Xor(z1, Shr(z1, Shift2)), Multiplier2)
  IN  Xor(z2, Shr(z2, Shift3))
=============================================================================
