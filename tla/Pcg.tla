-------------------------------- MODULE Pcg ---------------------------------
(***************************************************************************)
(* pcg32.h and pcg64.h: a linear congruential sequence, and a rotation of  *)
(* a folded state by the number its highest bits hold.  The state has      *)
(* twice the bits of an output: 64 and 32, or 128 and 64.                  *)
(***************************************************************************)
EXTENDS Integers

CONSTANTS OutBits,       \* bits of an output: 32 or 64
          RotBits,       \* bits of a rotation: 5 or 6
          PcgMultiplier, \* of the sequence
          pcg_xor(_, _), \* ^
          Word32(_, _),  \* Word32(seed, n): splitmix64's n-th word from
          Word64(_, _),  \* seed, as pcg32 and pcg64 have it: as wide as the
                         \* state of pcg32, half as wide as that of pcg64
          PcgSeeds,
          MaxPcgCalls    \* bound on the calls after a seeding

StateModulus == 2^(2 * OutBits)
Out == 2^OutBits

\* 5 bits rotate 32, 6 bits 64: never by more than there are.
ASSUME BitsAssumption ==
  OutBits \in Nat \ {0} /\ RotBits \in 0 .. OutBits /\ 2^RotBits <= OutBits

\* What ^ is of numbers of an output's width: without carries.
ASSUME XorAssumption ==
  /\ \A a, b \in 0 .. (StateModulus - 1) : pcg_xor(a, b) \in Nat
  /\ \A a, b \in 0 .. (Out - 1) : pcg_xor(a, b) < Out
  /\ \A a \in 0 .. (Out - 1) : pcg_xor(a, a) = 0 /\ pcg_xor(a, 0) = a
  /\ \A n \in 0 .. OutBits : \A a \in 0 .. (2^n - 1), b \in 0 .. (2^(OutBits - n) - 1) :
       pcg_xor(a, b * 2^n) = a + b * 2^n

\* 0x5851f42d4c957f2d, and the default multiplier of 128 bits.
ASSUME PcgMultiplierAssumption == PcgMultiplier \in Nat /\ PcgMultiplier % 4 = 1

ASSUME PcgWordsAssumption ==
  \A s \in PcgSeeds : /\ \A n \in 0 .. 1 : Word32(s, n) \in 0 .. (StateModulus - 1)
                      /\ \A n \in 0 .. 3 : Word64(s, n) \in 0 .. (Out - 1)

VARIABLES pcg,           \* the one the program has: "pcg32" or "pcg64"
          state, inc,    \* rng->state, rng->inc: zero until seeded
          pcg_output,    \* the word the last call since seeding returned
          first,         \* history: the state seeding left
          pcg_calls      \* history: the calls since seeding

pcg_vars == <<pcg, state, inc, pcg_output, first, pcg_calls>>

-----------------------------------------------------------------------------
\* Mutant: a sequence number taken as it is, even or odd.
MadeOdd_AsItIs(n) == n

\* n | 1
MadeOdd(n) == n + 1 - (n % 2)

\* a | b: a bit that both have is counted twice in the sum.
or(a, b) == (a + b + pcg_xor(a, b)) \div 2

\* The highest bits of the state.
Rot(x) == x \div 2^(2 * OutBits - RotBits)

\* The state folded to an output's width, ((x >> 18) ^ x) >> 27 or
\* (x >> 64) ^ x: the first leaves out the bits that make the rotation.
Fold(x) ==
  IF pcg = "pcg32"
  THEN (pcg_xor(x \div 2^((OutBits + RotBits) \div 2), x) \div 2^(OutBits - RotBits)) % Out
  ELSE pcg_xor(x \div Out, x % Out)

\* What value << (OutBits - rot) may give: at rot = 0, a shift by the whole
\* width is undefined, the value itself or nothing; pcg64 masks the count.
Shifted(value, rot) ==
  IF rot # 0 THEN {(value * 2^(OutBits - rot)) % Out}
  ELSE IF pcg = "pcg32" THEN {value, 0} ELSE {value}

\* Mutant: the shifts are by rot and by one bit less than the rest.
pcg_rotr_OneShort(value, rot) ==
  {or(value \div 2^rot, left) : left \in Shifted(value, IF rot = 0 THEN 0 ELSE rot + 1)}

pcg_rotr(value, rot) == {or(value \div 2^rot, left) : left \in Shifted(value, rot)}

pcg_step(x) == (x * PcgMultiplier + inc) % StateModulus

-----------------------------------------------------------------------------
pcg_init == /\ pcg \in {"pcg32", "pcg64"}
            /\ state = 0 /\ inc = 0 /\ pcg_output = 0 /\ first = 0 /\ pcg_calls = 0

PcgSeeded == /\ first' = state'
             /\ pcg_output' = 0
             /\ pcg_calls' = 0
             /\ UNCHANGED pcg

pcg32_seed(s) == /\ pcg = "pcg32"
                 /\ state' = Word32(s, 0)
                 /\ inc' = MadeOdd(Word32(s, 1))
                 /\ PcgSeeded

\* initseq is made odd and then shifted out of the lowest bit, which is set.
pcg64_seed(s) ==
  LET initstate == Word64(s, 0) * Out + Word64(s, 1)
      initseq   == MadeOdd(Word64(s, 2) * Out + Word64(s, 3))
  IN  /\ pcg = "pcg64"
      /\ inc' = MadeOdd((2 * initseq) % StateModulus)
      /\ state' = ((inc' + initstate) * PcgMultiplier + inc') % StateModulus
      /\ PcgSeeded

PcgCalled(outputs) == /\ pcg_calls < MaxPcgCalls
                      /\ state' = pcg_step(state)
                      /\ pcg_output' \in outputs
                      /\ pcg_calls' = pcg_calls + 1
                      /\ UNCHANGED <<pcg, inc, first>>

\* pcg32 makes its output from the state before the step, pcg64 after it.
pcg32 == pcg = "pcg32" /\ PcgCalled(pcg_rotr(Fold(state), Rot(state)))
pcg64 ==
  pcg = "pcg64" /\ PcgCalled(pcg_rotr(Fold(pcg_step(state)), Rot(pcg_step(state))))

pcg_next == (\E s \in PcgSeeds : pcg32_seed(s) \/ pcg64_seed(s)) \/ pcg32 \/ pcg64

pcg_spec == pcg_init /\ [][pcg_next]_pcg_vars

-----------------------------------------------------------------------------
\* The period is the largest there is: a generator that was seeded does not
\* return to a state before it has been in all of them, whatever splitmix64
\* handed out for the state and the sequence ("must *always* be odd",
\* pcg32.h:12).
NoStateTwice ==
  inc # 0 /\ pcg_calls \in 1 .. (StateModulus - 1) => state # first

\* An output is a rotation of the folded state: whatever the undefined shift
\* gives, no bit is lost and none comes twice (pcg32.h:33).
RotatesRight(value, rot, result) ==
  \A i \in 0 .. (OutBits - 1) :
    (result \div 2^i) % 2 = (value \div 2^((i + rot) % OutBits)) % 2

OutputIsRotation ==
  [][pcg32 \/ pcg64 =>
       LET x == IF pcg = "pcg32" THEN state ELSE state'
       IN  RotatesRight(Fold(x), Rot(x), pcg_output')]_pcg_vars
=============================================================================
