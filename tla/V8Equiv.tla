------------------------------- MODULE V8Equiv -------------------------------
(***************************************************************************)
(* unit/src/v8equiv.c: the repository's only unit test.  For each seed it  *)
(* makes two copies of a key, spins the original generator of Vigna's      *)
(* paper once on the first, and then compares the original generator on    *)
(* the first copy with xorshift128plus_r on the second.  (The prefixes are *)
(* for modules that extend this one and Xorshift128plus.)                  *)
(***************************************************************************)
EXTENDS Xorshift128plusStep

CONSTANTS StatelessWord(_, _),        \* splitmix64_stateless, as words
          SeedCount,                  \* 1000000
          Comparisons                 \* 1024

ASSUME StatelessWordAssumption ==
  \A s \in 0 .. (SeedCount - 1) : \A n \in {0, 1} : StatelessWord(s, n) \in Word

ASSUME CountsAssumption == SeedCount \in Nat /\ Comparisons \in Nat

VARIABLES pc,           \* where main is: "main", "are_equiv", "bug" or "done"
          test_seed, i, \* the two loop counters
          key1, key2    \* the two copies in are_equiv

test_vars == <<pc, test_seed, i, key1, key2>>

-----------------------------------------------------------------------------
TestInit == /\ pc = "main"
            /\ test_seed = 0
            /\ i = 0
            /\ key1 = ZeroKey
            /\ key2 = ZeroKey

\* Mutant: the first copy is not spun.
Begin_NoSpin ==
  /\ pc = "main"
  /\ test_seed < SeedCount
  /\ key1' = [part1 |-> StatelessWord(test_seed, 0),
              part2 |-> StatelessWord(test_seed, 1)]
  /\ key2' = key1'
  /\ i' = 0
  /\ pc' = "are_equiv"
  /\ UNCHANGED test_seed

\* The next seed's key, from two calls of splitmix64_r; are_equiv copies it
\* and spins the first copy "to synchronize".
Begin ==
  /\ pc = "main"
  /\ test_seed < SeedCount
  /\ LET key == [part1 |-> StatelessWord(test_seed, 0),
                 part2 |-> StatelessWord(test_seed, 1)]
     IN  /\ key1' = OrigNextKey(key)
         /\ key2' = key
  /\ i' = 0
  /\ pc' = "are_equiv"
  /\ UNCHANGED test_seed

\* One comparison: both generators are called, whatever they return.
Compare ==
  /\ pc = "are_equiv"
  /\ i < Comparisons
  /\ key1' = OrigNextKey(key1)
  /\ key2' = NextKey(key2)
  /\ IF xorshift128plus_orig_r(key1) # xorshift128plus_r(key2)
     THEN /\ pc' = "bug"
          /\ UNCHANGED i
     ELSE /\ i' = i + 1
          /\ UNCHANGED pc
  /\ UNCHANGED test_seed

\* Mutant: the same seed again.
Equivalent_SameSeed ==
  /\ pc = "are_equiv"
  /\ i = Comparisons
  /\ pc' = "main"
  /\ UNCHANGED <<test_seed, i, key1, key2>>

\* are_equiv returns true and main goes on with the next seed.
Equivalent ==
  /\ pc = "are_equiv"
  /\ i = Comparisons
  /\ test_seed' = test_seed + 1
  /\ pc' = "main"
  /\ UNCHANGED <<i, key1, key2>>

\* "The two functions are equivalent."
Finish ==
  /\ pc = "main"
  /\ test_seed = SeedCount
  /\ pc' = "done"
  /\ UNCHANGED <<test_seed, i, key1, key2>>

TestNext == Begin \/ Compare \/ Equivalent \/ Finish

\* A single thread that never blocks: it takes its next step.
TestSpec == TestInit /\ [][TestNext]_test_vars /\ WF_test_vars(TestNext)

-----------------------------------------------------------------------------
TestTypeOK == /\ pc \in {"main", "are_equiv", "bug", "done"}
              /\ test_seed \in 0 .. SeedCount
              /\ i \in 0 .. Comparisons
              /\ key1 \in Key
              /\ key2 \in Key

\* On every pair of words: sum, product, shifts and conversion agree with
\* arithmetic modulo 2^W, and a rotation by k is undone by one of W - k.  The
\* operators the generators' steps are written with mean what C's mean.
WordsAreUnsignedIntegers ==
  LET a == key2.part1
      b == key2.part2
  IN  /\ ToNat(Add(a, b)) = (ToNat(a) + ToNat(b)) % 2^W
      /\ ToNat(Mul(a, b)) = (ToNat(a) * ToNat(b)) % 2^W
      /\ ToNat(Xor(a, b)) = ToNat(Or(a, b)) - ToNat(And(a, b))
      /\ FromNat(ToNat(a) + 2^W) = a
      /\ \A k \in 0 .. W :
           /\ ToNat(Shl(a, k)) = (ToNat(a) * 2^k) % 2^W
           /\ ToNat(Shr(a, k)) = ToNat(a) \div 2^k
           /\ rotl(rotl(a, k), W - k) = a

\* "The resulting streams are off by one step": the copy that was spun is one
\* step ahead of the other, all the way.
OneStepAhead == pc = "are_equiv" => key1 = NextKey(key2)

\* "The two functions are equivalent": the test never finds a difference.
NoBug == pc # "bug"

\* The test comes to its verdict.
Terminates == <>(pc \in {"done", "bug"})
=============================================================================
