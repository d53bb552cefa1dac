---------------------------- MODULE Xorshift1024 ----------------------------
(***************************************************************************)
(* xorshift1024star.h and xorshift1024plus.h: the same array, pointer and  *)
(* seeding, and the same new word in each call; they differ in the value   *)
(* they return, the constant Output here.                                  *)
(***************************************************************************)
EXTENDS BitWords

CONSTANTS Size,                     \* 16
          ShiftA, ShiftB, ShiftC,   \* 31, 11 and 30
          Multiplier,               \* 1181783497276652981
          Output(_, _, _),          \* xorshift1024star_output, or ...plus_output
          SplitMixWord(_, _),       \* the words splitmix64_r makes of a seed
          Seeds

ASSUME SizesAssumption ==
  /\ Size \in Nat /\ Size >= 2
  /\ ShiftA \in Nat \ {0} /\ ShiftB \in Nat \ {0} /\ ShiftC \in Nat \ {0}

\* What SplitMix promises of the words the array is filled with.
ASSUME WordsAssumption ==
  \A seed \in Seeds : /\ SplitMixWord(seed, 0) \in Word
                      /\ \A k \in 1 .. (Size - 1) : /\ SplitMixWord(seed, k) \in Word
                                                    /\ SplitMixWord(seed, k) # SplitMixWord(seed, 0)

VARIABLES s,        \* the array
          p,        \* where its newest word is
          seeded,   \* history: the generator has been seeded
          output    \* the value the last call returned

vars == <<s, p, seeded, output>>

Index == 0 .. (Size - 1)

\* The values a call may return.
Outputs == {Output(s0, s1, new) : s0 \in Word, s1 \in Word, new \in Word}

-----------------------------------------------------------------------------
\* s1 ^= s1 << a; s1 ^ s0 ^ (s1 >> b) ^ (s0 >> c).
NewWord(s0, s1) ==
  LET t == Xor(s1, Shl(s1, ShiftA))
  IN  Xor(Xor(Xor(t, s0), Shr(t, ShiftB)), Shr(s0, ShiftC))

\* "star" returns the new word times a constant, "plus" the sum of the two old.
xorshift1024star_output(s0, s1, new) == Mul(new, Multiplier)
xorshift1024plus_output(s0, s1, new) == Add(s0, s1)

\* Static storage starts as zeros.  (Nothing has been returned yet; output has
\* the value of a call that finds zeros.)
Init == /\ s = [k \in Index |-> Zero]
        /\ p = 0
        /\ seeded = FALSE
        /\ output = Output(Zero, Zero, Zero)

\* Mutants: the pointer stays where it was; every word is the first one.
xorshift1024_seed_KeepPointer(seed) ==
  /\ s' = [k \in Index |-> SplitMixWord(seed, k)]
  /\ seeded' = TRUE
  /\ UNCHANGED <<p, output>>

xorshift1024_seed_SameWord(seed) ==
  /\ s' = [k \in Index |-> SplitMixWord(seed, 0)]
  /\ p' = 0
  /\ seeded' = TRUE
  /\ UNCHANGED output

\* xorshift1024star_seed and xorshift1024plus_seed.
xorshift1024_seed(seed) ==
  /\ s' = [k \in Index |-> SplitMixWord(seed, k)]
  /\ p' = 0
  /\ seeded' = TRUE
  /\ UNCHANGED output

\* Mutant: the pointer does not wrap when it is stored.
xorshift1024_NoWrap ==
  LET s0 == s[p]
      q  == (p + 1) % Size
      s1 == s[q]
      new == NewWord(s0, s1)
  IN  /\ s' = [s EXCEPT ![q] = new]
      /\ p' = p + 1
      /\ output' = Output(s0, s1, new)
      /\ UNCHANGED seeded

\* xorshift1024star and xorshift1024plus: the oldest word, next to the newest,
\* makes room for the new one.
xorshift1024 ==
  LET s0 == s[p]
      q  == (p + 1) % Size
      s1 == s[q]
      new == NewWord(s0, s1)
  IN  /\ s' = [s EXCEPT ![q] = new]
      /\ p' = q
      /\ output' = Output(s0, s1, new)
      /\ UNCHANGED seeded

Next == (\E seed \in Seeds : xorshift1024_seed(seed)) \/ xorshift1024

Spec == Init /\ [][Next]_vars

-----------------------------------------------------------------------------
TypeOK == /\ s \in [Index -> Word]
          /\ p \in Index
          /\ seeded \in BOOLEAN
          /\ output \in Outputs

\* "The state must be seeded so that it is not everywhere zero": once it is
\* seeded, no number of calls makes all the words zero at once.
NeverAllZero == seeded => \E k \in Index : s[k] # Zero

\* The register this implements: the words from the one after the pointer on,
\* around the end of the array.
Register == [i \in Index |-> s[(p + 1 + i) % Size]]

SeededRegisters ==
  {[i \in Index |-> SplitMixWord(seed, (i + 1) % Size)] : seed \in Seeds}

SR == INSTANCE ShiftRegister WITH
        Words <- Word, Recur <- NewWord,
        Registers <- SeededRegisters, register <- Register

\* The array and the pointer that goes around it implement the register: each
\* call replaces exactly the oldest word, and a seeding, wherever the pointer
\* was, starts the stream its seed stands for.
ImplementsShiftRegister == SR!Spec
=============================================================================
