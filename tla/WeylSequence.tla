---------------------------- MODULE WeylSequence ----------------------------
(***************************************************************************)
(* CG64.h, CG128.h, CG128-64.h and widynski.h: a nonlinear step driven by  *)
(* a Weyl sequence, a word that grows by the same odd number at each call. *)
(* CG64_c is <<s, x, k, weyl>> here, counted from 0; the other two have    *)
(* these names.  Seeding leaves part of the state as it finds it.          *)
(* wyhash.h, wyrand.h and w1rand.h: the sequence, in weyl, is the whole    *)
(* state, and the output a product of two words of it folded in the middle.*)
(***************************************************************************)
EXTENDS Integers

CONSTANTS Quarter,       \* 2^16: a uint64_t is below its fourth power
          SeedWord(_, _),    \* SeedWord(seed, n): splitmix64's n-th word from
          SeedWord63(_, _),  \* that seed, and splitmix63's
          xor(_, _),     \* ^
          wyhash_c,      \* the increment and the two multipliers of wyhash
          wyrand_c,      \* the increment of wyrand, and what it is xored with
          w1rand_c,      \* the same: the two are one number
          WeylSeeds,
          MaxStale,      \* bound on the calls before a second seeding
          MaxWeylCalls   \* bound on the calls after a seeding

Half == Quarter * Quarter   \* 2^32
Narrow == Half * Half       \* 2^64
Wide == Narrow * Narrow     \* 2^128

\* The two moduli are powers of two: no odd number but 1 divides them.
ASSUME PowersOfTwoAssumption ==
  /\ Quarter \in Nat \ {0, 1}
  /\ \A M \in {Narrow, Wide} : \A d \in 2 .. M : M % d = 0 => d % 2 = 0

ASSUME SeedWordsAssumption ==
  /\ WeylSeeds \subseteq 0 .. (Narrow - 1)
  /\ \A seed \in WeylSeeds, n \in 0 .. 2 :
       SeedWord(seed, n) \in 0 .. (Narrow - 1) /\ SeedWord63(seed, n) \in 0 .. (Narrow - 1)

\* The increments that are written in the headers are odd.
ASSUME IncrementsAssumption ==
  \A increment \in {wyhash_c[1], wyrand_c[1], w1rand_c} :
    increment \in Nat /\ increment % 2 = 1

VARIABLES generator,     \* the one the program has
          CG_x, CG_k, CG_weyl, CG_s,   \* its words: zero until seeded
          output,        \* what the last call since seeding returned
          CG_first,      \* history: <<x, k, weyl>> as seeding left them
          calls,         \* history: the calls since seeding
          CG_seedings    \* history: how many seedings there were, 2 at most

CG_words == <<CG_x, CG_k, CG_weyl, CG_s, CG_first, CG_seedings>>

weyl_vars == <<generator, output, calls, CG_words>>

WeylGenerators == {"CG64", "CG128", "CG128_64", "widynski", "wyhash64", "wyrand", "w1rand"}

-----------------------------------------------------------------------------
\* Mutant: a sequence that moves by any number.
Odd_AsItIs(n) == n

\* n | 1
Odd(n) == n + 1 - (n % 2)

\* x >> 48 of 64 bits, and x >> 96 of 128.
High(n) == n \div (Half * Quarter)
WideHigh(n) == n \div (Narrow * Half)

-----------------------------------------------------------------------------
CG_zero == /\ CG_x = 0 /\ CG_k = 0 /\ CG_weyl = 0 /\ CG_s = 0
           /\ output = 0
           /\ CG_first = <<0, 0, 0>>
           /\ calls = 0
           /\ CG_seedings = 0

weyl_init == generator \in WeylGenerators /\ CG_zero

Seeded(g) == /\ generator = g
             /\ CG_seedings < 2
             /\ calls <= MaxStale
             /\ output' = 0
             /\ CG_first' = <<CG_x', CG_k', CG_weyl'>>
             /\ calls' = 0
             /\ CG_seedings' = CG_seedings + 1
             /\ UNCHANGED generator

Called(g, result) == /\ generator = g
                     /\ calls < MaxWeylCalls
                     /\ output' = result
                     /\ calls' = calls + 1
                     /\ UNCHANGED <<generator, CG_s, CG_first, CG_seedings>>

CG64_seed(seed) == /\ CG_s' = Odd((2 * SeedWord63(seed, 0)) % Narrow)
                   /\ UNCHANGED <<CG_x, CG_k, CG_weyl>>
                   /\ Seeded("CG64")

CG64 == /\ CG_k' = (CG_k + CG_x) % Narrow
        /\ CG_weyl' = (CG_weyl + CG_s) % Narrow
        /\ CG_x' = xor(((CG_x \div 2) * Odd(CG_k')) % Narrow, CG_weyl')
        /\ Called("CG64", xor(High(CG_k'), CG_x'))

\* Two calls of splitmix64_r on one counter in one expression: C leaves open
\* which of them is the first.
EitherOrder(seed) ==
  {SeedWord(seed, n) * Narrow + Odd(SeedWord(seed, 1 - n)) : n \in {0, 1}}

CG128_seed(seed) == /\ CG_s' \in EitherOrder(seed)
                    /\ UNCHANGED <<CG_x, CG_k, CG_weyl>>
                    /\ Seeded("CG128")

CG128 == /\ CG_k' = (CG_k + CG_x) % Wide
         /\ CG_weyl' = (CG_weyl + CG_s) % Wide
         /\ CG_x' = xor(((CG_x \div 2) * Odd(CG_k')) % Wide, CG_weyl')
         /\ Called("CG128", xor(WideHigh(CG_k'), CG_x'))

CG128_64_seed(seed) == /\ CG_x' \in EitherOrder(seed)
                       /\ CG_s' = Odd((2 * SeedWord63(seed, 2)) % Narrow)
                       /\ UNCHANGED <<CG_k, CG_weyl>>
                       /\ Seeded("CG128_64")

\* x has 128 bits, the other three 64.
CG128_64 == /\ CG_k' = (CG_k + CG_x) % Narrow
            /\ CG_weyl' = (CG_weyl + CG_s) % Narrow
            /\ CG_x' = xor((Odd(CG_x) * (CG_k' \div 2)) % Wide, CG_weyl')
            /\ Called("CG128_64", xor(High(CG_k'), CG_x'))

\* A seed of 32 bits or fewer is put into both halves.
widynski_seed(seed) ==
  /\ CG_s' = IF Odd(seed) < Half THEN Odd(seed) + Odd(seed) * Half ELSE Odd(seed)
  /\ CG_x' = 0
  /\ CG_weyl' = 0
  /\ UNCHANGED CG_k
  /\ Seeded("widynski")

\* The halves of x^2 + weyl change places; the lower one is returned.
widynski ==
  LET sum == (CG_x * CG_x + CG_weyl + CG_s) % Narrow
  IN  /\ CG_weyl' = (CG_weyl + CG_s) % Narrow
      /\ CG_x' = (sum \div Half) + (sum % Half) * Half
      /\ UNCHANGED CG_k
      /\ Called("widynski", CG_x' % Half)

\* (tmp >> 64) ^ tmp
Folded(product) == xor(product \div Narrow, product % Narrow)

wy_seed(seed) == /\ generator \in {"wyhash64", "wyrand", "w1rand"}
                 /\ CG_weyl' = seed
                 /\ UNCHANGED <<CG_x, CG_k, CG_s>>
                 /\ Seeded(generator)

wyhash64 == /\ CG_weyl' = (CG_weyl + wyhash_c[1]) % Narrow
            /\ UNCHANGED <<CG_x, CG_k>>
            /\ Called("wyhash64", Folded(Folded(CG_weyl' * wyhash_c[2]) * wyhash_c[3]))

wyrand == /\ CG_weyl' = (CG_weyl + wyrand_c[1]) % Narrow
          /\ UNCHANGED <<CG_x, CG_k>>
          /\ Called("wyrand", Folded(CG_weyl' * xor(CG_weyl', wyrand_c[2])))

w1rand == /\ CG_weyl' = (CG_weyl + w1rand_c) % Narrow
          /\ UNCHANGED <<CG_x, CG_k>>
          /\ Called("w1rand", Folded(CG_weyl' * xor(CG_weyl', w1rand_c)))

WeylSeed(seed) == \/ wy_seed(seed)
                  \/ CG64_seed(seed)
                  \/ CG128_seed(seed)
                  \/ CG128_64_seed(seed)
                  \/ widynski_seed(seed)

WeylCall == \/ CG64 \/ CG128 \/ CG128_64 \/ widynski
            \/ wyhash64 \/ wyrand \/ w1rand

weyl_next == (\E seed \in WeylSeeds : WeylSeed(seed)) \/ WeylCall

weyl_spec == weyl_init /\ [][weyl_next]_weyl_vars

-----------------------------------------------------------------------------
Period == IF generator = "CG128" THEN Wide ELSE Narrow

\* "each generator seeded by unike odd c[0] produces separate stream of a period
\* of at least 2^64" (CG64.h:14; 2^128, CG128.h:14), and wyhash's state "can be
\* seeded with any value" (wyhash.h:5): a seeded generator does not return to
\* where it started earlier, whichever of the two words comes first and whatever
\* was left of an earlier seeding.
NoEarlyReturn ==
  CG_seedings > 0 /\ calls \in 1 .. (Period - 1) => <<CG_x, CG_k, CG_weyl>> # CG_first
=============================================================================
