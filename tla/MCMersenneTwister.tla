------------------------- MODULE MCMersenneTwister --------------------------
(***************************************************************************)
(* The two generators on arrays updated in place.  A program has one of    *)
(* them: the twister, on words of W bits with masks, multiplier and        *)
(* tempering parameters scaled down with them, or the Mitchell-Moore       *)
(* generator, on a ring of 7 words.                                        *)
(***************************************************************************)
EXTENDS MersenneTwister, MitchellMoore

VARIABLE generator

MCUpperMask == [i \in Bit |-> i = W - 1]
MCLowerMask == [i \in Bit |-> i # W - 1]
MCMatrixA == FromNat(2)
MCSeedMultiplier == FromNat(3)
MCTemperB == FromNat(2)
MCTemperC == FromNat(2)

\* Seeds that differ in bits the array does not keep are among them.
MCSeeds == {0, 1, 6, 9}

MCRingSeeds == 0 .. 3

MCInit == /\ generator \in {"mersennetwister", "mitchellmoore"}
          /\ Init
          /\ mitchellmoore_init

MCNext == \/ /\ generator = "mersennetwister"
             /\ Next
             /\ UNCHANGED <<generator, mitchellmoore_vars>>
          \/ /\ generator = "mitchellmoore"
             /\ mitchellmoore_next
             /\ UNCHANGED <<generator, vars>>

MCSpec == MCInit /\ [][MCNext]_<<generator, vars, mitchellmoore_vars>>
                 /\ WF_vars(generator = "mersennetwister" /\ Running)
=============================================================================
