-------------------------- MODULE MersenneTwister ---------------------------
(***************************************************************************)
(* mersennetwister.h: the seeding loop, the three-part loop that replaces  *)
(* the whole array in place every N calls, and the tempered output.  Each  *)
(* iteration of a loop is a step, so that the order in which the array is  *)
(* overwritten and read is part of the model.                              *)
(***************************************************************************)
EXTENDS BitWords

CONSTANTS N, M,                      \* 624 and 397
          UPPER_MASK, LOWER_MASK,    \* the highest bit, and all the others
          MATRIX_A,                  \* 0x9908b0df
          SeedMultiplier, SeedShift, \* 1812433253 and 30
          TemperU, TemperS, TemperT, TemperL,   \* 11, 7, 15 and 18
          TemperB, TemperC,          \* 0x9d2c5680 and 0xefc60000
          Seeds                      \* the uint64_t seeds of the drivers

ASSUME PeriodAssumption ==
  N \in Nat /\ M \in Nat /\ 1 <= M /\ M < N

ASSUME SeedsAssumption == Seeds \subseteq Nat

VARIABLES mt,      \* the state array
          mti,     \* next word to hand out; N + 1 until the first seeding
          pc,      \* "idle" between calls; "seed", "twist", "return" inside
          kk,      \* the loop variable of the twist
          output   \* the value the last call returned

vars == <<mt, mti, pc, kk, output>>

Index == 0 .. (N - 1)

-----------------------------------------------------------------------------
\* y of one iteration, and (y >> 1) ^ mag01[y & 1].
Joined(high, low) == Or(And(high, UPPER_MASK), And(low, LOWER_MASK))
Twisted(y) == Xor(Shr(y, 1), IF y[0] THEN MATRIX_A ELSE Zero)

Twist(high, low, far) == Xor(far, Twisted(Joined(high, low)))

Temper(x) ==
  LET y1 == Xor(x, Shr(x, TemperU))
      y2 == Xor(y1, And(Shl(y1, TemperS), TemperB))
      y3 == Xor(y2, And(Shl(y2, TemperT), TemperC))
  IN  Xor(y3, Shr(y3, TemperL))

\* The seeding recurrence: mt[i] from mt[i - 1].
SeedWord(previous, i) ==
  Add(Mul(SeedMultiplier, Xor(previous, Shr(previous, SeedShift))), FromNat(i))

-----------------------------------------------------------------------------
\* A static array of zeros, and mti = N + 1: "mt[N] is not initialized".
Init == /\ mt = [i \in Index |-> Zero]
        /\ mti = N + 1
        /\ pc = "idle"
        /\ kk = 0
        /\ output = Zero

\* mersennetwister_seed(seed): only the low bits of the seed are kept.
BeginSeed(seed) ==
  /\ pc = "idle"
  /\ mt' = [mt EXCEPT ![0] = FromNat(seed)]
  /\ mti' = 1
  /\ pc' = "seed"
  /\ UNCHANGED <<kk, output>>

SeedLoop ==
  /\ pc = "seed"
  /\ mti < N
  /\ mt' = [mt EXCEPT ![mti] = SeedWord(mt[mti - 1], mti)]
  /\ mti' = mti + 1
  /\ UNCHANGED <<pc, kk, output>>

\* Mutant: the loop variable is reset where the loop should end.
EndSeed_Restart ==
  /\ pc = "seed"
  /\ mti >= N
  /\ mti' = 1
  /\ UNCHANGED <<mt, pc, kk, output>>

EndSeed ==
  /\ pc = "seed"
  /\ mti >= N
  /\ pc' = "idle"
  /\ UNCHANGED <<mt, mti, kk, output>>

\* mersennetwister(): "generate N words at one time" when all are used up.
Call ==
  /\ pc = "idle"
  /\ pc' = IF mti >= N THEN "twist" ELSE "return"
  /\ kk' = 0
  /\ UNCHANGED <<mt, mti, output>>

\* for (kk = 0; kk < N - M; kk++): the far word is M places ahead.
TwistAhead ==
  /\ pc = "twist"
  /\ kk < N - M
  /\ mt' = [mt EXCEPT ![kk] = Twist(mt[kk], mt[kk + 1], mt[kk + M])]
  /\ kk' = kk + 1
  /\ UNCHANGED <<mti, pc, output>>

\* for (; kk < N - 1; kk++): the far word is one already replaced.
TwistBehind ==
  /\ pc = "twist"
  /\ N - M <= kk /\ kk < N - 1
  /\ mt' = [mt EXCEPT ![kk] = Twist(mt[kk], mt[kk + 1], mt[kk + (M - N)])]
  /\ kk' = kk + 1
  /\ UNCHANGED <<mti, pc, output>>

\* Mutants: the pointer is not reset; the far word is one place off.
TwistLast_NoReset ==
  /\ pc = "twist"
  /\ kk = N - 1
  /\ mt' = [mt EXCEPT ![N - 1] = Twist(mt[N - 1], mt[0], mt[M - 1])]
  /\ pc' = "return"
  /\ UNCHANGED <<mti, kk, output>>

TwistLast_OffByOne ==
  /\ pc = "twist"
  /\ kk = N - 1
  /\ mt' = [mt EXCEPT ![N - 1] = Twist(mt[N - 1], mt[0], mt[M])]
  /\ mti' = 0
  /\ pc' = "return"
  /\ UNCHANGED <<kk, output>>

\* The last word wraps around to the first; then mti is reset.
TwistLast ==
  /\ pc = "twist"
  /\ kk = N - 1
  /\ mt' = [mt EXCEPT ![N - 1] = Twist(mt[N - 1], mt[0], mt[M - 1])]
  /\ mti' = 0
  /\ pc' = "return"
  /\ UNCHANGED <<kk, output>>

Return ==
  /\ pc = "return"
  /\ output' = Temper(mt[mti])
  /\ mti' = mti + 1
  /\ pc' = "idle"
  /\ UNCHANGED <<mt, kk>>

Next == \/ \E seed \in Seeds : BeginSeed(seed)
        \/ SeedLoop \/ EndSeed
        \/ Call \/ TwistAhead \/ TwistBehind \/ TwistLast \/ Return

\* Whoever is inside a call goes on: the program is a single thread.  It need
\* not call again.
Running == SeedLoop \/ EndSeed \/ TwistAhead \/ TwistBehind \/ TwistLast \/ Return

Spec == Init /\ [][Next]_vars /\ WF_vars(Running)

-----------------------------------------------------------------------------
TypeOK == /\ mt \in [Index -> Word]
          /\ mti \in 0 .. (N + 1)
          /\ pc \in {"idle", "seed", "twist", "return"}
          /\ kk \in Index
          /\ output \in Word
          /\ pc = "seed" => mti \in 1 .. N
          /\ pc = "return" => mti < N

\* A call that has started returns.
CallsReturn == pc # "idle" ~> pc = "idle"

-----------------------------------------------------------------------------
(***************************************************************************)
(* The recurrence this implements: x[n+N] = x[n+M] ^ twisted(x[n], x[n+1]), *)
(* where word n of the window is x[n].  In the middle of the twist the     *)
(* oldest word is mt[kk]: those before it have been replaced, the words    *)
(* from it on have not.                                                    *)
(***************************************************************************)
Recurrence(window) == Twist(window[0], window[1], window[M])

Oldest == IF pc = "twist" THEN kk ELSE 0

Window == [i \in Index |-> IF i + Oldest < N THEN mt[i + Oldest]
                                             ELSE mt[i + Oldest - N]]

Ahead == CASE pc = "twist" -> kk
           [] pc = "seed"  -> 0
           [] OTHER        -> IF mti < N THEN N - mti ELSE 0

\* The windows seeding makes: each word from the one before.
SeededWindows ==
  {w \in [Index -> Word] :
     \A i \in 1 .. (N - 1) : w[i] = SeedWord(w[i - 1], i)}

NoWindow == [i \in {} |-> 0]

LR == INSTANCE LaggedRecurrence WITH
        Words <- Word, Recur <- Recurrence, Output <- Temper,
        Windows <- SeededWindows,
        window <- IF pc = "seed" THEN NoWindow ELSE Window,
        ahead <- Ahead, seeding <- (pc = "seed")

\* The array, the pointer and the loops implement the recurrence: the twist
\* never reads a word it should not have replaced yet, or one it should have;
\* every word is handed out once, in order; no word computed before a seeding
\* is handed out after it; and seeding fills the whole array from the seed.
ImplementsRecurrence == LR!Spec
=============================================================================
