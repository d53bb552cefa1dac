--------------------------- MODULE MCXorshift1024 ---------------------------
(***************************************************************************)
(* A register of four words of W bits, seeded by the scaled SplitMix.      *)
(***************************************************************************)
EXTENDS Xorshift1024, StaffordMix

MCMultiplier1 == FromNat(3)
MCMultiplier2 == FromNat(3)
MCMultiplier == FromNat(3)

\* Both headers at once: what each returns.
MCOutput(s0, s1, new) ==
  <<xorshift1024star_output(s0, s1, new), xorshift1024plus_output(s0, s1, new)>>

MCMix(m, x) == mix13(FromNat(x))

MCSplitMix == INSTANCE SplitMix WITH
                Modulus <- 2^W, GOLDEN_GAMMA <- 1,
                Mix <- MCMix, Seeds <- {}, MaxCalls <- 0,
                header <- "splitmix64", splitmix64_x <- 0, seed <- 0, served <- << >>

MCStateless(seed, k) == MCSplitMix!splitmix64_stateless("splitmix64", seed, k)
=============================================================================
