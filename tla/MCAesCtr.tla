------------------------------ MODULE MCAesCtr ------------------------------
(***************************************************************************)
(* The generators made from ciphers.  A program has one of them: aesctr or *)
(* aesdragontamer, with blocks of a few values and rounds that permute     *)
(* them, or trivium32 or trivium64, as they are.                           *)
(***************************************************************************)
EXTENDS AesCtr, AesDragontamer, Trivium

VARIABLE generator

Blocks == 16

MCBlock == 0 .. (Blocks - 1)
MCBlockOf(c) == c
MCInitialKey(s) == s
MCRoundKey(k, r) == (3 * k + r) % Blocks
MCXor(x, k) == (x + k) % Blocks
MCAesenc(x, k) == (5 * x + k + 1) % Blocks
MCAesenclast(x, k) == (7 * x + k) % Blocks
MCHalf(b, h) == <<b, h>>

\* Two lanes of eight values, odd increments; rounds that mix the lanes.
MCINCREMENT == <<3, 1>>
MCmm_aesenc(x, k) == <<(x[2] + k[1]) % 8, (3 * x[1] + x[2] + k[2]) % 8>>
MCmm_aesdec(x, k) == <<(5 * x[1] + x[2] + k[1]) % 8, (x[1] + k[2]) % 8>>
MCStartOf(s) == <<s, (5 * s + 1) % 8>>

\* Pairs of a seed and a sequence number, with bits set here and there.
MCTriviumSeeds ==
  {<<[i \in 0 .. 63 |-> i % 5 = 1], [i \in 0 .. 63 |-> i % 7 = 3]>>,
   <<[i \in 0 .. 63 |-> i = 63], [i \in 0 .. 63 |-> FALSE]>>}

MCInit == /\ Init /\ aesdragontamer_init /\ trivium_init
          /\ \/ generator \in {"aesctr", "aesdragontamer"} /\ width = 32
             \/ generator = "trivium"

MCNext == \/ /\ generator = "aesctr"
             /\ Next
             /\ UNCHANGED <<generator, aesdragontamer_vars, trivium_vars>>
          \/ /\ generator = "aesdragontamer"
             /\ aesdragontamer_next
             /\ UNCHANGED <<generator, vars, trivium_vars>>
          \/ /\ generator = "trivium"
             /\ trivium_next
             /\ UNCHANGED <<generator, vars, aesdragontamer_vars>>

MCSpec == MCInit /\ [][MCNext]_<<generator, vars, aesdragontamer_vars, trivium_vars>>
=============================================================================
