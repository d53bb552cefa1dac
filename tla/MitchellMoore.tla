--------------------------- MODULE MitchellMoore ----------------------------
(***************************************************************************)
(* mitchellmoore.h: an additive generator on a ring of R words with three  *)
(* additions a call, at four places that go around the ring.  The places   *)
(* are remainders of 32-bit counters which seeding leaves alone and which  *)
(* wrap at 2^32, not a multiple of 250: one after the other they jump      *)
(* there, and for the calls in between the distances of the places change. *)
(***************************************************************************)
EXTENDS Integers, FiniteSets

CONSTANTS R, S, T, U,      \* 250, 200, 103 and 50
          CounterModulus,  \* 2^32, of unsigned int
          WordModulus,     \* 2^32, of uint32_t
          RingSeeds

\* The counters start at different places, and are at different places too when
\* one has wrapped and the other has not: 2^32 is 46 modulo 250.
ASSUME RingAssumption ==
  /\ R \in Nat \ {0, 1} /\ S \in Nat /\ T \in Nat /\ U \in Nat
  /\ U < T /\ T < S /\ S < R /\ R < CounterModulus /\ CounterModulus \in Nat
  /\ \A p, q \in {R, S, T, U} :
       p > q => (p - q) % R # 0 /\ (CounterModulus - (p - q)) % R # 0

ASSUME WordAssumption == WordModulus \in Nat \ {0} /\ WordModulus % 2 = 0

ASSUME RingSeedsAssumption == RingSeeds \subseteq Nat

VARIABLES mitchellmoore_sequence,
          mitchellmoore_a, mitchellmoore_b, mitchellmoore_c, mitchellmoore_d,
          mitchellmoore_seeded   \* history: the generator has been seeded

mitchellmoore_vars ==
  <<mitchellmoore_sequence, mitchellmoore_a, mitchellmoore_b, mitchellmoore_c,
    mitchellmoore_d, mitchellmoore_seeded>>

Ring == 0 .. (R - 1)

-----------------------------------------------------------------------------
\* A step of the linear congruential generator the words come from.  It keeps
\* more bits than a word does, on which the low ones do not depend.
SeedStep(word) == ((1664525 % WordModulus) * word + 1013904223) % WordModulus

\* The words the seeding loop leaves: it goes over the ring twice.
SeedWords(seed) ==
  LET lcg[n \in 0 .. (2 * R)] == IF n = 0 THEN seed ELSE SeedStep(lcg[n - 1])
  IN  [i \in Ring |-> lcg[R + i + 1]]

\* Mutants: a counter that stops at its largest value; = where += is meant.
Bump_Saturating(counter) ==
  IF counter = CounterModulus - 1 THEN counter ELSE counter + 1

AddWord_Assign(sequence, to, from) == [sequence EXCEPT ![to] = sequence[from]]

\* ++counter, and sequence[to] += sequence[from].
Bump(counter) == (counter + 1) % CounterModulus

AddWord(sequence, to, from) ==
  [sequence EXCEPT ![to] = (@ + sequence[from]) % WordModulus]

-----------------------------------------------------------------------------
mitchellmoore_init ==
  /\ mitchellmoore_sequence = [i \in Ring |-> 0]
  /\ mitchellmoore_a = R /\ mitchellmoore_b = S
  /\ mitchellmoore_c = T /\ mitchellmoore_d = U
  /\ mitchellmoore_seeded = FALSE

\* <<= 1 on the first word, |= 1 on the second; the counters stay.
mitchellmoore_seed(seed) ==
  LET words == SeedWords(seed)
  IN  /\ mitchellmoore_sequence' =
           [words EXCEPT ![0] = (2 * @) % WordModulus, ![1] = @ + 1 - (@ % 2)]
      /\ mitchellmoore_seeded' = TRUE
      /\ UNCHANGED <<mitchellmoore_a, mitchellmoore_b, mitchellmoore_c, mitchellmoore_d>>

\* The additions are done from the right.
mitchellmoore ==
  LET a  == Bump(mitchellmoore_a) % R
      b  == Bump(mitchellmoore_b) % R
      c  == Bump(mitchellmoore_c) % R
      d  == Bump(mitchellmoore_d) % R
      s1 == AddWord(mitchellmoore_sequence, c, d)
      s2 == AddWord(s1, b, c)
  IN  /\ mitchellmoore_sequence' = AddWord(s2, a, b)
      /\ mitchellmoore_a' = Bump(mitchellmoore_a)
      /\ mitchellmoore_b' = Bump(mitchellmoore_b)
      /\ mitchellmoore_c' = Bump(mitchellmoore_c)
      /\ mitchellmoore_d' = Bump(mitchellmoore_d)
      /\ UNCHANGED mitchellmoore_seeded

mitchellmoore_next ==
  (\E seed \in RingSeeds : mitchellmoore_seed(seed)) \/ mitchellmoore

mitchellmoore_spec ==
  mitchellmoore_init /\ [][mitchellmoore_next]_mitchellmoore_vars

-----------------------------------------------------------------------------
\* A call adds at three different places, from a fourth, also in the calls
\* during which some of the counters have wrapped and others have not: C
\* leaves an expression that modifies an element twice undefined, and a word
\* added to itself would lose its lowest bit.
PlacesDistinct ==
  Cardinality({mitchellmoore_a % R, mitchellmoore_b % R,
               mitchellmoore_c % R, mitchellmoore_d % R}) = 4

\* Seeding makes one word odd so that the lowest bits are not all zero, from
\* which the additions could not recover; they never become so, wherever the
\* counters were when the generator was seeded.
NeverAllEven ==
  mitchellmoore_seeded => \E i \in Ring : mitchellmoore_sequence[i] % 2 = 1
=============================================================================
