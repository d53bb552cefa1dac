-------------------------- MODULE SmallGenerators ---------------------------
(***************************************************************************)
(* The generators whose whole state is a few words and whose step maps all *)
(* zeros to all zeros: xorshift32, xorshift_k4, xorshift_k5,               *)
(* xoroshiro128plus, jenkinssmall and lehmer64.  The step must take no     *)
(* other state there, and a seeding must not start there; the speed        *)
(* driver (speed/src/rng.cpp) calls all of them without seeding.           *)
(***************************************************************************)
EXTENDS BitWords, Sequences

CONSTANTS SmallShift(_, _),      \* SmallShift(g, n): the n-th shift in g's step
          SmallWord(_, _, _),    \* SmallWord(g, seed, n): the n-th word splitmix64
                                 \* makes of a seed, cut to the width of g's words
          LehmerMultiplier,      \* of lehmer64
          JenkinsConstant,       \* 0xf1ea5eed
          JenkinsRounds,         \* 20
          SmallSeeds,            \* numbers of more than W bits
          MaxSmallCalls          \* bound on the calls after a seeding

ASSUME SmallShiftAssumption ==
  \A g \in {"xorshift32", "xorshift_k4", "xorshift_k5", "xoroshiro128plus", "jenkinssmall"} :
    \A n \in 1 .. 3 : SmallShift(g, n) \in 1 .. (W - 1)

\* splitmix64's words are all different (SplitMixProofs), and so are those that
\* keep their 64 bits.
ASSUME SmallWordAssumption ==
  /\ SmallSeeds \subseteq Nat
  /\ \A g \in {"xorshift_k4", "xorshift_k5", "xoroshiro128plus", "lehmer64"} :
       \A seed \in SmallSeeds, n \in 0 .. 4 : SmallWord(g, seed, n) \in Word
  /\ \A g \in {"xoroshiro128plus", "lehmer64"} :
       \A seed \in SmallSeeds : SmallWord(g, seed, 0) # SmallWord(g, seed, 1)

ASSUME SmallConstantsAssumption ==
  /\ LehmerMultiplier \in Nat /\ LehmerMultiplier % 2 = 1
  /\ JenkinsConstant \in Word /\ JenkinsConstant # Zero
  /\ JenkinsRounds \in Nat

VARIABLES generator,    \* the one the program has
          r,            \* its words, in the order of their declaration
          output,       \* the word the last call since seeding returned
          rounds,       \* the rounds left in a seeding of jenkinssmall
          start,        \* history: r as it was when the last seeding began to mix
          given,        \* history: the last seed, or NoSeed
          small_calls   \* history: the calls since seeding

small_vars == <<generator, r, output, rounds, start, given, small_calls>>

NoSeed == -1

Generators == {"xorshift32", "xorshift_k4", "xorshift_k5",
               "xoroshiro128plus", "jenkinssmall", "lehmer64"}

Size == [xorshift32 |-> 1, xorshift_k4 |-> 4, xorshift_k5 |-> 5,
         xoroshiro128plus |-> 2, jenkinssmall |-> 4, lehmer64 |-> 2]

Zeros == [n \in 1 .. Size[generator] |-> Zero]

Left(a, n)  == Xor(a, Shl(a, SmallShift(generator, n)))
Right(a, n) == Xor(a, Shr(a, SmallShift(generator, n)))
Turn(a, n)  == rotl(a, SmallShift(generator, n))

-----------------------------------------------------------------------------
\* Mutant: an = in place of the last ^=.
xorshift32_Assigned == LET y == Shl(Right(Left(r[1], 1), 2), SmallShift(generator, 3))
                       IN  [words |-> <<y>>, result |-> y]

\* The words after a step, and what the call returns.
xorshift32 == LET y == Left(Right(Left(r[1], 1), 2), 3)
              IN  [words |-> <<y>>, result |-> y]

xorshift_k4 == LET t == Left(r[1], 1)
                   w == Xor(Right(r[4], 2), Right(t, 3))
               IN  [words |-> <<r[2], r[3], r[4], w>>, result |-> w]

\* The y of the result is the second word after the words have moved.
xorshift_k5 ==
  LET t == Right(r[1], 1)
      v == Xor(Left(r[5], 2), Left(t, 3))
  IN  [words |-> <<r[2], r[3], r[4], r[5], v>>,
       result |-> Mul(Add(Add(r[3], r[3]), FromNat(1)), v)]

xoroshiro128plus ==
  LET s1 == Xor(r[1], r[2])
  IN  [words |-> <<Xor(Turn(r[1], 1), Left(s1, 2)), Turn(s1, 3)>>,
       result |-> Add(r[1], r[2])]

\* a - b
Sub(a, b) == Add(Add(a, [i \in Bit |-> ~b[i]]), FromNat(1))

jenkinssmall ==
  LET e == Sub(r[1], Turn(r[2], 1))
      a == Xor(r[2], Turn(r[3], 2))
      d == Add(e, a)
  IN  [words |-> <<a, Add(r[3], Turn(r[4], 3)), Add(r[4], e), d>>, result |-> d]

\* A product modulo 2^(2W), the higher word first.
lehmer64 ==
  LET product == (ToNat(r[1]) * 2^W + ToNat(r[2])) * LehmerMultiplier
  IN  [words |-> <<FromNat(product \div 2^W), FromNat(product)>>,
       result |-> FromNat(product \div 2^W)]

SmallStep == CASE generator = "xorshift32" -> xorshift32
          [] generator = "xorshift_k4" -> xorshift_k4
          [] generator = "xorshift_k5" -> xorshift_k5
          [] generator = "xoroshiro128plus" -> xoroshiro128plus
          [] generator = "jenkinssmall" -> jenkinssmall
          [] generator = "lehmer64" -> lehmer64

\* The words a seeding writes: the seed itself, cut to the word's width;
\* 0xf1ea5eed and the seed three times; or words of splitmix64.
xorshift32_seed(seed) == <<FromNat(seed)>>

jenkinssmall_init(seed) ==
  <<JenkinsConstant, FromNat(seed), FromNat(seed), FromNat(seed)>>

SplitMixWords(seed, n) == [i \in 1 .. n |-> SmallWord(generator, seed, i - 1)]

xorshift_k4_seed(seed)      == SplitMixWords(seed, 4)
xorshift_k5_seed(seed)      == SplitMixWords(seed, 5)
xoroshiro128plus_seed(seed) == SplitMixWords(seed, 2)
lehmer64_seed(seed)         == SplitMixWords(seed, 2)

Loaded(seed) == CASE generator = "xorshift32" -> xorshift32_seed(seed)
                  [] generator = "xorshift_k4" -> xorshift_k4_seed(seed)
                  [] generator = "xorshift_k5" -> xorshift_k5_seed(seed)
                  [] generator = "xoroshiro128plus" -> xoroshiro128plus_seed(seed)
                  [] generator = "jenkinssmall" -> jenkinssmall_init(seed)
                  [] generator = "lehmer64" -> lehmer64_seed(seed)

-----------------------------------------------------------------------------
\* Static storage starts as zeros.
small_init == /\ generator \in Generators
              /\ r = Zeros
              /\ output = Zero
              /\ rounds = 0
              /\ start = Zeros
              /\ given = NoSeed
              /\ small_calls = 0

Seed(seed) == /\ rounds = 0
              /\ r' = Loaded(seed)
              /\ output' = Zero
              /\ rounds' = IF generator = "jenkinssmall" THEN JenkinsRounds ELSE 0
              /\ start' = r'
              /\ given' = seed
              /\ small_calls' = 0
              /\ UNCHANGED generator

\* A call in the loop that ends jenkinssmall_init; its result is not used.
MixingRound == /\ rounds > 0
               /\ r' = SmallStep.words
               /\ rounds' = rounds - 1
               /\ UNCHANGED <<generator, output, start, given, small_calls>>

SmallCall == /\ rounds = 0
             /\ small_calls < MaxSmallCalls
             /\ r' = SmallStep.words
             /\ output' = SmallStep.result
             /\ small_calls' = small_calls + 1
             /\ UNCHANGED <<generator, rounds, start, given>>

small_next == (\E seed \in SmallSeeds : Seed(seed)) \/ MixingRound \/ SmallCall

small_spec == small_init /\ [][small_next]_small_vars

-----------------------------------------------------------------------------
\* A generator is at zero exactly if it started there: no number of steps of
\* a seeded one leads to the state it cannot leave, and one that nobody
\* seeded, as in the speed driver, returns zeros and nothing else.
ZeroOnlyFromZero == /\ r = Zeros <=> start = Zeros
                    /\ start = Zeros => output = Zero

\* Seeding leaves that state: two words of splitmix64 are never both zero, and
\* the constant is not zero.  xorshift32 keeps only the low bits of its seed: a
\* multiple of 2^32 is a seed of zero (xorshift32.h:9).  xorshift_k4 and
\* xorshift_k5 keep the low halves of their words, which are not known to differ.
SeedingLeavesZero ==
  given # NoSeed =>
    /\ generator \in {"xoroshiro128plus", "jenkinssmall", "lehmer64"} => start # Zeros
    /\ generator = "xorshift32" => (start = Zeros <=> given % 2^W = 0)

\* None of the small generators reaches the state it cannot leave, unless it
\* starts there: as one that was never seeded, in the speed driver, or one
\* with a seed of zero (xorshift1024plus.h:15, xorshift32.h:9).
ZeroOnlyFromSeedOfZero ==
  generator \in Generators => ZeroOnlyFromZero /\ SeedingLeavesZero
=============================================================================
