------------------------------ MODULE SplitMix ------------------------------
(***************************************************************************)
(* splitmix64.h and splitmix63.h: a counter that moves by GOLDEN_GAMMA and *)
(* a finalizer applied to it.  Every other generator is seeded from it,    *)
(* either by successive calls of splitmix64_r on a local copy of the seed  *)
(* or by splitmix64_stateless(seed, 0), (seed, 1), ...; the two ways must  *)
(* agree, and what they hand out must not repeat.                          *)
(*                                                                         *)
(* The counter is a uint64_t: Modulus is 2^64.  splitmix64_r finalizes all *)
(* of it; splitmix63_r keeps a 64-bit counter too but finalizes its low 63 *)
(* bits, and the functions of its header are otherwise the same.           *)
(***************************************************************************)
EXTENDS Integers, Sequences

CONSTANTS Modulus,        \* 2^64
          GOLDEN_GAMMA,
          Mix(_, _),      \* Mix(m, y): the finalizer, mix13 of StaffordMix, on
                          \* the numbers below m
          Seeds,          \* the seeds the drivers pass
          MaxCalls        \* bound on the calls made between two seedings

\* A power of two: the only odd number that divides it is 1.
ASSUME ModulusAssumption ==
  /\ Modulus \in Nat \ {0, 1}
  /\ \A d \in 2 .. Modulus : Modulus % d = 0 => d % 2 = 0

Headers == {"splitmix64", "splitmix63"}

\* The width of what a header's splitmix_r finalizes and returns: 2^64 or 2^63.
OutModulus(h) == IF h = "splitmix63" THEN Modulus \div 2 ELSE Modulus

ASSUME GammaAssumption ==
  /\ GOLDEN_GAMMA \in 0 .. (Modulus - 1)
  /\ GOLDEN_GAMMA % 2 = 1

\* The finalizer is one-to-one (SplitMixProofs: because its multipliers are
\* odd).
ASSUME MixAssumption ==
  \A m \in {Modulus, Modulus \div 2} : \A y, z \in 0 .. (m - 1) : Mix(m, y) = Mix(m, z) => y = z

ASSUME SeedsAssumption == Seeds \subseteq 0 .. (Modulus - 1)

ASSUME MaxCallsAssumption == MaxCalls \in Nat

VARIABLES header,        \* the one the program includes
          splitmix64_x,  \* the generator's state, a static global: zero at start
          seed,          \* history: the seed in force (0, the initial state's)
          served         \* history: the outputs returned since that seeding

vars == <<header, splitmix64_x, seed, served>>

-----------------------------------------------------------------------------
\* Mutants: a finalizer that masks one bit too many;
\* a stateless interface that forgets the call's own step.
Finalize_ShortMask(h, x) == Mix(OutModulus(h), x % (OutModulus(h) \div 2))
splitmix64_stateless_OffByOne(h, s, offset) ==
  Mix(OutModulus(h), ((s + ((offset * GOLDEN_GAMMA) % Modulus)) % Modulus) % OutModulus(h))

\* The new counter after one call, *seed += GOLDEN_GAMMA, and the value
\* returned for a counter that has just been moved.
Advance(x) == (x + GOLDEN_GAMMA) % Modulus
Finalize(h, x) == Mix(OutModulus(h), x % OutModulus(h))

\* splitmix64_stateless: the product and the sum both wrap.
splitmix64_stateless(h, s, offset) ==
  Finalize(h, Advance((s + ((offset * GOLDEN_GAMMA) % Modulus)) % Modulus))

-----------------------------------------------------------------------------
Init == /\ header \in Headers
        /\ splitmix64_x = 0
        /\ seed = 0
        /\ served = << >>

splitmix64_seed(s) ==
  /\ splitmix64_x' = s
  /\ seed' = s
  /\ served' = << >>
  /\ UNCHANGED header

\* splitmix64, and splitmix64_r on a local copy of the seed.
splitmix64 ==
  /\ Len(served) < MaxCalls
  /\ splitmix64_x' = Advance(splitmix64_x)
  /\ served' = Append(served, Finalize(header, splitmix64_x'))
  /\ UNCHANGED <<header, seed>>

Next == (\E s \in Seeds : splitmix64_seed(s)) \/ splitmix64

Spec == Init /\ [][Next]_vars

-----------------------------------------------------------------------------
TypeOK == /\ header \in Headers
          /\ splitmix64_x \in 0 .. (Modulus - 1)
          /\ seed \in 0 .. (Modulus - 1)
          /\ served \in Seq({Mix(OutModulus(header), y) : y \in 0 .. (OutModulus(header) - 1)})

\* splitmix64_stateless returns what its comment promises: the n-th call after
\* seeding returned splitmix64_stateless(seed, n - 1), through every wrap of the
\* counter.  Generators seeded through either interface get the same words.
StatelessIsNthCall ==
  \A n \in 1 .. Len(served) : served[n] = splitmix64_stateless(header, seed, n - 1)

\* Two calls fewer than OutModulus apart never return the same value, though
\* splitmix63's counter has another bit: the words a generator's state is filled
\* with are pairwise different, so at most one of them is zero.
NoRepeatWithinPeriod ==
  \A m, n \in 1 .. Len(served) :
    m < n /\ n - m < OutModulus(header) => served[m] # served[n]
=============================================================================
