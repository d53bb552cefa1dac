----------------------------- MODULE MCSplitMix -----------------------------
(***************************************************************************)
(* splitmix64 and splitmix63 scaled down to a counter of four bits, with    *)
(* the scaled mix13 of StaffordMix as their finalizer (W is the width of    *)
(* the counter), or one of the generators it seeds whose period is claimed. *)
(***************************************************************************)
EXTENDS SplitMix, StaffordMix, WeylSequence, Pcg, FiniteSetsExt

\* Words of one bit less.
MCMultiplier63 == [i \in 0 .. (W - 2) |-> i # 1]
Stafford63 == INSTANCE StaffordMix WITH
                W <- W - 1, Shift3 <- W - 2,
                Multiplier1 <- MCMultiplier63, Multiplier2 <- MCMultiplier63

MixTable == [x \in 0 .. 15 |-> mix13(FromNat(x))]
MixTable63 == [x \in 0 .. 7 |-> Stafford63!mix13(Stafford63!FromNat(x))]
MCMix(m, x) == IF m = Modulus THEN MixTable[x] ELSE MixTable63[x]

MCMultiplier1 == FromNat(13)
MCMultiplier2 == FromNat(11)

\* Every value of the counter is a seed somebody may pass.
MCSeeds == 0 .. (Modulus - 1)

\* The first words splitmix64 makes of a seed, as numbers, and words of more
\* and of fewer bits.
MCWords ==
  [s \in MCSeeds, n \in 0 .. 4 |->
     SumSet({2^i : i \in {j \in Bit : splitmix64_stateless("splitmix64", s, n)[j]}})]
MCWord(s, n) == MCWords[s, n]
MCWideWord(s, n) == 16 * MCWord(s, n) + MCWord(s, n + 1)
MCWord63(s, n) == MCWord(s, n) % 8

\* The exclusive or of numbers of at most eight bits.
MCxor(a, b) ==
  SumSet({2^i : i \in {j \in 0 .. 7 : ((a \div 2^j) + (b \div 2^j)) % 2 = 1}})

MCwyhash == <<5, 13, 9>>
MCwyrand == <<15, 11>>

MCInit == /\ Init /\ pcg_init
          /\ \/ weyl_init /\ pcg = "pcg32"
             \/ generator = "splitmix64" /\ pcg = "pcg32" /\ CG_zero
             \/ generator = "pcg" /\ CG_zero
          /\ generator # "splitmix64" => header = "splitmix64"

MCNext == \/ /\ generator = "splitmix64"
             /\ Next
             /\ UNCHANGED <<weyl_vars, pcg_vars>>
          \/ generator = "pcg" /\ pcg_next /\ UNCHANGED <<vars, weyl_vars>>
          \/ weyl_next /\ UNCHANGED <<vars, pcg_vars>>

MCSpec == MCInit /\ [][MCNext]_<<vars, weyl_vars, pcg_vars>>
=============================================================================
