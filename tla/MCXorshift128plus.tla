------------------------- MODULE MCXorshift128plus --------------------------
(***************************************************************************)
(* Two processes on keys of two W-bit words, seeded by the scaled SplitMix; *)
(* or the unit test of their generators; or a program with one of the small *)
(* generators.                                                              *)
(***************************************************************************)
EXTENDS Xorshift128plus, V8Equiv, SmallGenerators, StaffordMix, FiniteSets

MCMultiplier1 == FromNat(13)
MCMultiplier2 == FromNat(11)
MCGamma == 5

MCMix(m, x) == mix13(FromNat(x))

MCSplitMix == INSTANCE SplitMix WITH
                Modulus <- 2^W, GOLDEN_GAMMA <- MCGamma,
                Mix <- MCMix, Seeds <- {}, MaxCalls <- 0,
                header <- "splitmix64", splitmix64_x <- 0, seed <- 0, served <- << >>

MCStateless(s, offset) == MCSplitMix!splitmix64_stateless("splitmix64", s, offset)

\* Every key takes the place of the million that the test draws from splitmix64:
\* the halves of a seed's key are the seed's two digits in base 2^W.
MCKeyHalf(s, offset) == FromNat(IF offset = 0 THEN s ELSE s \div 2^W)
MCSeedCount == 2^(2 * W)

\* The scaled shifts of the small generators.
MCShift(g, n) ==
  CASE g = "xorshift32"       -> <<1, 2, 1>>[n]
    [] g = "xorshift_k4"      -> <<1, 2, 1>>[n]
    [] g = "xorshift_k5"      -> <<1, 1, 2>>[n]
    [] g = "xoroshiro128plus" -> <<2, 1, 1>>[n]
    [] g = "jenkinssmall"     -> <<1, 2, 1>>[n]

MCSmallWord(g, s, n) == MCStateless(s, n)
MCJenkinsConstant == FromNat(5)
MCSmallSeeds == 0 .. (2^(W + 1) - 1)

\* One of them runs, the others have not begun.
MCInit == /\ Init
          /\ TestInit
          /\ \/ small_init
             \/ /\ generator \in {"xorshift128plus", "v8equiv"}
                /\ r = << >> /\ output = Zero /\ rounds = 0
                /\ start = << >> /\ given = NoSeed /\ small_calls = 0

MCNext == \/ /\ generator = "xorshift128plus" /\ Next
             /\ UNCHANGED <<small_vars, test_vars>>
          \/ /\ generator = "v8equiv" /\ TestNext
             /\ UNCHANGED <<vars, small_vars>>
          \/ /\ generator \in Generators /\ small_next
             /\ UNCHANGED <<vars, test_vars>>

MCFairness == WF_test_vars(/\ generator = "v8equiv" /\ TestNext
                           /\ UNCHANGED <<vars, small_vars>>)

MCSpec == MCInit /\ [][MCNext]_<<vars, test_vars, small_vars>> /\ MCFairness

-----------------------------------------------------------------------------
\* Of V8Equiv: the unit test comes to its verdict (v8equiv.c:46).
TestTerminates == generator = "v8equiv" => Terminates
=============================================================================
