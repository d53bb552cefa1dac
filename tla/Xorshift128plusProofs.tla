----------------------- MODULE Xorshift128plusProofs ------------------------
(***************************************************************************)
(* For every word width, shifts, seeds, number of processes and order of   *)
(* their calls: a seeded key never becomes zero, and runs with different   *)
(* seeds never meet.  Both rest on the step being one-to-one.  And for     *)
(* every word width, shifts and keys the unit test v8equiv cannot fail, the *)
(* words are unsigned integers, and no small generator reaches zero.       *)
(***************************************************************************)
EXTENDS Xorshift128plus, V8Equiv, SmallGenerators, BitWordsProofs, SequenceTheorems

-----------------------------------------------------------------------------
\* One step, of either generator, returns a key and loses nothing of the key
\* it is given: part1 keeps the old part2; with it, the new part2 determines
\* s1 ^ (s1 >> b), hence s1, hence the old part1.
LEMMA ShiftedKey ==
  ASSUME NEW k \in Key, NEW b, NEW c
  PROVE  Shifted(k, b, c) \in Key
BY WordClosure DEF Shifted, Key

THEOREM StepInjective ==
  ASSUME NEW k \in Key, NEW l \in Key, NEW b \in Nat \ {0}, NEW c \in Nat \ {0},
         Shifted(k, b, c) = Shifted(l, b, c)
  PROVE  k = l
<1> DEFINE s0(m) == m.part2
           s1(m) == Xor(m.part1, Shl(m.part1, ShiftA))
           mixed(m) == Xor(Xor(Xor(s1(m), s0(m)), Shr(s1(m), b)), Shr(s0(m), c))
<1>1. s0(k) = s0(l) /\ mixed(k) = mixed(l)
  BY DEF Shifted
<1>2. /\ k.part1 \in Word /\ k.part2 \in Word
      /\ l.part1 \in Word /\ l.part2 \in Word
  BY DEF Key
<1>3. s1(k) \in Word /\ s1(l) \in Word
  BY WordClosure
<1> HIDE DEF s1
<1>4. Xor(Xor(s1(k), s0(k)), Shr(s1(k), b)) = Xor(Xor(s1(l), s0(l)), Shr(s1(l), b))
  <2> DEFINE x == Xor(Xor(s1(k), s0(k)), Shr(s1(k), b))
             y == Xor(Xor(s1(l), s0(l)), Shr(s1(l), b))
             z == Shr(s0(k), c)
  <2>1. x \in Word /\ y \in Word /\ z \in Word
    BY WordClosure
  <2>2. Xor(x, z) = Xor(y, z)
    BY <1>1
  <2> HIDE DEF x, y, z
  <2>3. x = y
    BY <2>1, <2>2, XorCancelRight
  <2> QED BY <2>3 DEF x, y
<1>5. s1(k) = s1(l)
  \* (s1 ^ s0) ^ (s1 >> b) is (s1 ^ (s1 >> b)) ^ s0, bit by bit.
  <2>1. ASSUME NEW x \in Word
        PROVE  Xor(Xor(x, s0(k)), Shr(x, b)) = Xor(Xor(x, Shr(x, b)), s0(k))
    <3> SUFFICES ASSUME NEW j \in Bit
                 PROVE  ((x[j] # s0(k)[j]) # Shr(x, b)[j]) = ((x[j] # Shr(x, b)[j]) # s0(k)[j])
      BY DEF Xor
    <3>1. x[j] \in BOOLEAN /\ s0(k)[j] \in BOOLEAN /\ Shr(x, b)[j] \in BOOLEAN
      BY <1>2, WordClosure DEF Word
    <3> QED BY <3>1
  <2>2. Xor(Xor(s1(k), Shr(s1(k), b)), s0(k)) = Xor(Xor(s1(l), Shr(s1(l), b)), s0(k))
    BY <1>1, <1>3, <1>4, <2>1
  <2>3. Xor(s1(k), Shr(s1(k), b)) \in Word /\ Xor(s1(l), Shr(s1(l), b)) \in Word
    BY WordClosure
  <2>4. Xor(s1(k), Shr(s1(k), b)) = Xor(s1(l), Shr(s1(l), b))
    BY <1>2, <2>2, <2>3, XorCancelRight
  <2> QED BY <1>3, <2>4, XorShrInjective
<1>6. k.part1 = l.part1
  BY <1>2, <1>5, XorShlInjective, XorshiftAssumption DEF s1
<1> QED BY <1>1, <1>2, <1>6 DEF Key

\* The all-zero key is a fixed point, so by StepInjective the only key that
\* steps to it is itself.
LEMMA ZeroIsFixed ==
  ASSUME NEW b \in Nat, NEW c \in Nat
  PROVE  ZeroKey \in Key /\ Shifted(ZeroKey, b, c) = ZeroKey
BY ZeroStaysZero, WordClosure, XorshiftAssumption DEF Shifted, ZeroKey, Key

-----------------------------------------------------------------------------
\* The key that call c leaves of key k, and the key seed s makes.
After(c, k) == IF c = "xorshift128plus" THEN NextKey(k) ELSE V8NextKey(k)
Seeded(s) == [part1 |-> SplitMixWord(s, 0),
              part2 |-> SplitMixWord(s, 1)]

LEMMA AfterFacts ==
  /\ \A c \in Call, k \in Key : After(c, k) \in Key
  /\ \A c \in Call, k \in Key, l \in Key : After(c, k) = After(c, l) => k = l
  /\ \A c \in Call : After(c, ZeroKey) = ZeroKey
  /\ ZeroKey \in Key
<1> USE XorshiftAssumption DEF After, NextKey, V8NextKey
<1>1. \A c \in Call, k \in Key : After(c, k) \in Key
  BY ShiftedKey
<1>2. \A c \in Call, k \in Key, l \in Key : After(c, k) = After(c, l) => k = l
  BY StepInjective
<1>3. ZeroKey \in Key /\ \A c \in Call : After(c, ZeroKey) = ZeroKey
  BY ZeroIsFixed
<1> QED BY <1>1, <1>2, <1>3

LEMMA SeededFacts ==
  /\ \A s \in Seeds : Seeded(s) \in Key /\ Seeded(s) # ZeroKey /\ s # Unseeded
  /\ \A o, s \in Seeds : o # s => Seeded(o) # Seeded(s)
<1>1. ASSUME NEW s \in Seeds
      PROVE  Seeded(s) \in Key /\ Seeded(s) # ZeroKey /\ s # Unseeded
  <2>1. Seeded(s) \in Key
    BY StatelessAssumption DEF Seeded, Key
  <2>2. Seeded(s).part1 # Seeded(s).part2 /\ ZeroKey.part1 = ZeroKey.part2
    BY StatelessAssumption DEF Seeded, ZeroKey
  <2>3. s \in Nat
    BY SeedsAssumption
  <2> QED BY <2>1, <2>2, <2>3 DEF Unseeded
<1>2. ASSUME NEW o \in Seeds, NEW s \in Seeds, o # s
      PROVE  Seeded(o) # Seeded(s)
  <2>1. Seeded(o).part1 # Seeded(s).part1
    BY <1>2, StatelessAssumption DEF Seeded
  <2> QED BY <2>1
<1> QED BY <1>1, <1>2

-----------------------------------------------------------------------------
\* The history is the history: it starts from the key the seed makes, each
\* call maps one key to the next, and the key in memory is the last one.
HistoryOK ==
  \A p \in Process :
    /\ Len(keys[p]) = Len(calls[p]) + 1
    /\ key[p] = keys[p][Len(keys[p])]
    /\ seed[p] # Unseeded => keys[p][1] = Seeded(seed[p])
    /\ \A n \in 1 .. Len(calls[p]) : keys[p][n + 1] = After(calls[p][n], keys[p][n])

IInv == /\ TypeOK
        /\ HistoryOK
        /\ NeverStuckAtZero
        /\ SeedsStayApart

LEMMA InitIInv == Init => IInv
<1> SUFFICES ASSUME Init PROVE IInv
  OBVIOUS
<1> USE AfterFacts DEF Init
<1>1. TypeOK
  BY DEF TypeOK
<1>2. HistoryOK
  BY DEF HistoryOK
<1>3. NeverStuckAtZero /\ SeedsStayApart
  BY DEF NeverStuckAtZero, SeedsStayApart
<1> QED BY <1>1, <1>2, <1>3 DEF IInv

LEMMA SeedIInv ==
  ASSUME IInv, NEW p \in Process, NEW s \in Seeds, xorshift128plus_seed(p, s)
  PROVE  IInv'
<1>1. /\ key' = [key EXCEPT ![p] = Seeded(s)]
      /\ seed' = [seed EXCEPT ![p] = s]
      /\ calls' = [calls EXCEPT ![p] = << >>]
      /\ keys' = [keys EXCEPT ![p] = <<Seeded(s)>>]
  BY DEF xorshift128plus_seed, xorshift128plus_init, Seeded
<1>2. Seeded(s) \in Key /\ Seeded(s) # ZeroKey /\ s # Unseeded
  BY SeededFacts
<1>3. TypeOK'
  BY <1>1, <1>2 DEF IInv, TypeOK
<1>4. HistoryOK'
  <2> SUFFICES ASSUME NEW q \in Process
               PROVE  /\ Len(keys'[q]) = Len(calls'[q]) + 1
                      /\ key'[q] = keys'[q][Len(keys'[q])]
                      /\ seed'[q] # Unseeded => keys'[q][1] = Seeded(seed'[q])
                      /\ \A n \in 1 .. Len(calls'[q]) :
                           keys'[q][n + 1] = After(calls'[q][n], keys'[q][n])
    BY DEF HistoryOK
  <2>1. CASE q = p
    BY <1>1, <2>1 DEF IInv, TypeOK
  <2>2. CASE q # p
    BY <1>1, <2>2 DEF IInv, TypeOK, HistoryOK
  <2> QED BY <2>1, <2>2
<1>5. NeverStuckAtZero'
  BY <1>1, <1>2 DEF IInv, TypeOK, NeverStuckAtZero
<1>6. SeedsStayApart'
  <2> SUFFICES ASSUME NEW q \in Process, NEW o \in Process,
                      NEW n \in 1 .. Len(keys'[q]),
                      seed'[q] # Unseeded, seed'[o] # Unseeded, seed'[q] # seed'[o],
                      n <= Len(keys'[o]),
                      \A j \in 1 .. (n - 1) : calls'[q][j] = calls'[o][j]
               PROVE  keys'[q][n] # keys'[o][n]
    BY DEF SeedsStayApart, SameCalls
  <2>1. CASE q # p /\ o # p
    BY <1>1, <2>1 DEF IInv, TypeOK, SeedsStayApart, SameCalls
  <2>2. CASE q = p \/ o = p
    <3>1. q # o
      OBVIOUS
    <3>2. n = 1
      BY <1>1, <2>2 DEF IInv, TypeOK
    <3>3. seed'[q] \in Seeds /\ seed'[o] \in Seeds
      BY <1>3 DEF TypeOK
    <3>4. keys'[q][1] = Seeded(seed'[q]) /\ keys'[o][1] = Seeded(seed'[o])
      BY <1>4 DEF HistoryOK
    <3> QED BY <3>2, <3>3, <3>4, SeededFacts
  <2> QED BY <2>1, <2>2
<1> QED BY <1>3, <1>4, <1>5, <1>6 DEF IInv

LEMMA CallIInv ==
  ASSUME IInv, NEW p \in Process, NEW c \in Call, Step(p, c, After(c, key[p]))
  PROVE  IInv'
<1> DEFINE new == After(c, key[p])
           len == Len(calls[p])
<1>1. /\ key \in [Process -> Key] /\ calls \in [Process -> Seq(Call)]
      /\ keys \in [Process -> Seq(Key)] /\ new \in Key /\ len \in Nat
      /\ Len(keys[p]) = len + 1
      /\ key[p] = keys[p][len + 1]
  BY AfterFacts DEF IInv, TypeOK, HistoryOK
<1>2. /\ key' = [key EXCEPT ![p] = new]
      /\ calls' = [calls EXCEPT ![p] = Append(calls[p], c)]
      /\ keys' = [keys EXCEPT ![p] = Append(keys[p], new)]
      /\ seed' = seed
  BY <1>1 DEF Step
<1> HIDE DEF new, len
<1>3. /\ calls'[p] = Append(calls[p], c)
      /\ keys'[p] = Append(keys[p], new)
      /\ Len(calls'[p]) = len + 1 /\ Len(keys'[p]) = len + 2
      /\ calls'[p][len + 1] = c
      /\ keys'[p][len + 2] = new
      /\ \A j \in 1 .. len : calls'[p][j] = calls[p][j]
      /\ \A j \in 1 .. (len + 1) : keys'[p][j] = keys[p][j]
  BY <1>1, <1>2 DEF len
<1>4. \A q \in Process \ {p} : /\ key'[q] = key[q] /\ calls'[q] = calls[q]
                               /\ keys'[q] = keys[q]
  BY <1>1, <1>2
<1>5. TypeOK'
  BY <1>1, <1>2 DEF IInv, TypeOK
<1>6. HistoryOK'
  <2> SUFFICES ASSUME NEW q \in Process
               PROVE  /\ Len(keys'[q]) = Len(calls'[q]) + 1
                      /\ key'[q] = keys'[q][Len(keys'[q])]
                      /\ seed'[q] # Unseeded => keys'[q][1] = Seeded(seed'[q])
                      /\ \A n \in 1 .. Len(calls'[q]) :
                           keys'[q][n + 1] = After(calls'[q][n], keys'[q][n])
    BY DEF HistoryOK
  <2>1. CASE q # p
    BY <1>2, <1>4, <2>1 DEF IInv, HistoryOK
  <2>2. CASE q = p
    <3>1. Len(keys'[p]) = Len(calls'[p]) + 1 /\ key'[p] = keys'[p][Len(keys'[p])]
      BY <1>1, <1>2, <1>3
    <3>2. seed'[p] # Unseeded => keys'[p][1] = Seeded(seed'[p])
      <4>1. keys'[p][1] = keys[p][1]
        BY <1>1, <1>3
      <4> QED BY <1>2, <4>1 DEF IInv, HistoryOK
    <3>3. ASSUME NEW n \in 1 .. Len(calls'[p])
          PROVE  keys'[p][n + 1] = After(calls'[p][n], keys'[p][n])
      <4>1. CASE n = len + 1
        <5>1. keys'[p][n + 1] = new /\ calls'[p][n] = c /\ keys'[p][n] = key[p]
          BY <1>1, <1>3, <4>1
        <5> QED BY <5>1 DEF new
      <4>2. CASE n # len + 1
        <5>1. n \in 1 .. len /\ n + 1 \in 1 .. (len + 1)
          BY <1>1, <1>3, <4>2
        <5>2. keys[p][n + 1] = After(calls[p][n], keys[p][n])
          BY <5>1 DEF IInv, HistoryOK, len
        <5> QED BY <1>1, <1>3, <5>1, <5>2
      <4> QED BY <4>1, <4>2
    <3> QED BY <2>2, <3>1, <3>2, <3>3
  <2> QED BY <2>1, <2>2
<1>7. NeverStuckAtZero'
  <2> SUFFICES ASSUME NEW q \in Process, seed[q] # Unseeded PROVE key'[q] # ZeroKey
    BY <1>2 DEF NeverStuckAtZero
  <2>1. key[q] # ZeroKey
    BY DEF IInv, NeverStuckAtZero
  <2>2. CASE q = p
    <3>1. new # After(c, ZeroKey)
      BY <1>1, <2>1, <2>2, AfterFacts DEF new
    <3> QED BY <1>1, <1>2, <2>2, <3>1, AfterFacts
  <2> QED BY <1>4, <2>1, <2>2
<1>8. SeedsStayApart'
  <2> SUFFICES ASSUME NEW q \in Process, NEW o \in Process,
                      NEW n \in 1 .. Len(keys'[q]),
                      seed'[q] # Unseeded, seed'[o] # Unseeded, seed'[q] # seed'[o],
                      n <= Len(keys'[o]),
                      \A j \in 1 .. (n - 1) : calls'[q][j] = calls'[o][j]
               PROVE  keys'[q][n] # keys'[o][n]
    BY DEF SeedsStayApart, SameCalls
  <2>s. seed[q] # Unseeded /\ seed[o] # Unseeded /\ seed[q] # seed[o]
    BY <1>2
  <2>0. /\ Len(keys'[q]) \in Nat /\ Len(keys'[o]) \in Nat
        /\ Len(keys[q]) \in Nat /\ Len(keys[o]) \in Nat
        /\ Len(keys'[q]) = Len(calls'[q]) + 1 /\ Len(keys'[o]) = Len(calls'[o]) + 1
    BY <1>1, <1>5, <1>6, SMTT(30) DEF TypeOK, HistoryOK
  <2>1. CASE n = 1
    <3>1. keys'[q][1] = Seeded(seed[q]) /\ keys'[o][1] = Seeded(seed[o])
      BY <1>2, <1>6 DEF HistoryOK
    <3>2. seed[q] \in Seeds /\ seed[o] \in Seeds
      BY <2>s DEF IInv, TypeOK
    <3> QED BY <2>1, <2>s, <3>1, <3>2, SeededFacts
  <2>2. CASE n # 1
    <3> DEFINE m == n - 1
    <3>1. /\ m \in Nat \ {0} /\ n = m + 1
          /\ m \in 1 .. Len(calls'[q]) /\ m \in 1 .. Len(calls'[o])
          /\ \A j \in 1 .. m : calls'[q][j] = calls'[o][j]
      BY <2>0, <2>2
    <3> HIDE DEF m
    <3>2. keys'[q][n] = After(calls'[q][m], keys'[q][m])
      BY <1>6, <3>1 DEF HistoryOK
    <3>3. keys'[o][n] = After(calls'[o][m], keys'[o][m])
      BY <1>6, <3>1 DEF HistoryOK
    <3>4. calls'[q][m] = calls'[o][m] /\ calls'[q][m] \in Call
      <4>1. calls'[q] \in Seq(Call)
        BY <1>5 DEF TypeOK
      <4> QED BY <3>1, <4>1
    <3>5. \* before the call both histories had an m-th key
          /\ m \in 1 .. Len(keys[q]) /\ m \in 1 .. Len(keys[o])
          /\ \A x \in {q, o} : keys'[x][m] = keys[x][m]
          /\ \A x \in {q, o} : \A j \in 1 .. (m - 1) : calls'[x][j] = calls[x][j]
      <4>1. ASSUME NEW x \in {q, o}
            PROVE  /\ m \in 1 .. Len(keys[x])
                   /\ keys'[x][m] = keys[x][m]
                   /\ \A j \in 1 .. (m - 1) : calls'[x][j] = calls[x][j]
        <5>0. m \in 1 .. Len(calls'[x]) /\ Len(keys'[x]) = Len(calls'[x]) + 1
          BY <2>0, <3>1
        <5>1. CASE x = p
          <6>1. m \in 1 .. (len + 1)
            BY <1>3, <5>0, <5>1
          <6>2. \A j \in 1 .. (m - 1) : j \in 1 .. len
            BY <1>1, <6>1
          <6> QED BY <1>1, <1>3, <5>1, <6>1, <6>2
        <5>2. CASE x # p
          <6>1. calls'[x] = calls[x] /\ keys'[x] = keys[x]
            BY <1>4, <5>2
          <6>2. m \in 1 .. Len(keys'[x])
            BY <2>0, <3>1, <5>0
          <6> QED BY <6>1, <6>2
        <5> QED BY <5>1, <5>2
      <4> QED BY <4>1
    <3>6. keys[q][m] # keys[o][m]
      <4>1. ASSUME NEW j \in 1 .. (m - 1) PROVE calls[q][j] = calls[o][j]
        <5>1. j \in 1 .. m
          BY <3>1
        <5>2. calls'[q][j] = calls'[o][j]
          BY <3>1, <5>1
        <5>3. calls'[q][j] = calls[q][j] /\ calls'[o][j] = calls[o][j]
          BY <3>5
        <5> QED BY <5>2, <5>3
      <4>2. m <= Len(keys[o])
        BY <3>5, <2>0
      <4> QED BY <2>s, <3>5, <4>1, <4>2 DEF IInv, SeedsStayApart, SameCalls
    <3>7. keys[q][m] \in Key /\ keys[o][m] \in Key
      BY <1>1, <3>5
    <3> QED BY <3>2, <3>3, <3>4, <3>5, <3>6, <3>7, AfterFacts
  <2> QED BY <2>1, <2>2
<1> QED BY <1>5, <1>6, <1>7, <1>8 DEF IInv

LEMMA StepIInv == IInv /\ [Next]_vars => IInv'
<1> SUFFICES ASSUME IInv, [Next]_vars PROVE IInv'
  OBVIOUS
<1>1. ASSUME NEW p \in Process, NEW s \in Seeds, xorshift128plus_seed(p, s)
      PROVE  IInv'
  BY <1>1, SeedIInv
<1>2. ASSUME NEW p \in Process, xorshift128plus(p)
      PROVE  IInv'
  <2>1. Step(p, "xorshift128plus", After("xorshift128plus", key[p]))
    BY <1>2 DEF xorshift128plus, After
  <2> QED BY <2>1, CallIInv DEF Call
<1>3. ASSUME NEW p \in Process, v8xorshift128plus(p)
      PROVE  IInv'
  <2>1. Step(p, "v8xorshift128plus", After("v8xorshift128plus", key[p]))
    BY <1>3 DEF v8xorshift128plus, After
  <2> QED BY <2>1, CallIInv DEF Call
<1>4. CASE UNCHANGED vars
  BY <1>4 DEF IInv, TypeOK, HistoryOK, NeverStuckAtZero,
              SeedsStayApart, SameCalls, vars
<1> QED BY <1>1, <1>2, <1>3, <1>4 DEF Next

\* The processes' keys and histories keep their types.
THEOREM TypeCorrect == Spec => []TypeOK
<1>1. IInv => TypeOK
  BY DEF IInv
<1> QED BY <1>1, InitIInv, StepIInv, PTL DEF Spec

\* A seeded key is never all zeros.
THEOREM NonZeroCorrect == Spec => []NeverStuckAtZero
<1>1. IInv => NeverStuckAtZero
  BY DEF IInv
<1> QED BY <1>1, InitIInv, StepIInv, PTL DEF Spec

\* Runs with different seeds never reach the same key after the same calls.
THEOREM SeedsStayApartCorrect == Spec => []SeedsStayApart
<1>1. IInv => SeedsStayApart
  BY DEF IInv
<1> QED BY <1>1, InitIInv, StepIInv, PTL DEF Spec

-----------------------------------------------------------------------------
(***************************************************************************)
(* The unit test.  Its comment says "you can check it algebraically": the  *)
(* spun key is the other's next key, and the sum one of the generators     *)
(* returns before its update is the sum the other returns after it.        *)
(***************************************************************************)
\* A step of either generator leaves a key.
LEMMA NextKeyType == \A k \in Key : NextKey(k) \in Key /\ OrigNextKey(k) \in Key
BY WordClosure DEF NextKey, OrigNextKey, Shifted, Key

\* With the first key one step ahead, both generators return the same value.
THEOREM SameOutput ==
  ASSUME NEW k \in Key
  PROVE  xorshift128plus_orig_r(NextKey(k)) = xorshift128plus_r(k)
<1>1. NextKey(k).part1 = k.part2
  BY DEF NextKey, Shifted
<1> QED BY <1>1 DEF xorshift128plus_orig_r, xorshift128plus_r

\* While keys are compared, main is inside its loop over the seeds.
InLoop == pc = "are_equiv" => test_seed < SeedCount

TestIInv == TestTypeOK /\ InLoop /\ OneStepAhead /\ NoBug

LEMMA TestInitIInv == TestInit => TestIInv
<1>1. ZeroKey \in Key
  BY WordClosure DEF ZeroKey, Key
<1> QED BY <1>1, CountsAssumption DEF TestInit, TestIInv, TestTypeOK, InLoop, OneStepAhead, NoBug

LEMMA TestStepIInv == TestIInv /\ [TestNext]_test_vars => TestIInv'
<1> SUFFICES ASSUME TestIInv, [TestNext]_test_vars PROVE TestIInv'
  OBVIOUS
<1> USE CountsAssumption DEF TestIInv, TestTypeOK, InLoop, OneStepAhead, NoBug
<1>1. CASE Begin
  <2> DEFINE new == [part1 |-> StatelessWord(test_seed, 0),
                     part2 |-> StatelessWord(test_seed, 1)]
  <2>1. new \in Key
    BY <1>1, StatelessWordAssumption DEF Begin, Key
  <2>2. key2' = new /\ key1' = OrigNextKey(new)
    BY <1>1 DEF Begin
  <2>3. OrigNextKey(new) = NextKey(new)
    BY DEF OrigNextKey, NextKey
  <2> QED BY <1>1, <2>1, <2>2, <2>3, NextKeyType DEF Begin
<1>2. CASE Compare
  <2>1. key1 = NextKey(key2) /\ key2 \in Key
    BY <1>2 DEF Compare
  <2>2. xorshift128plus_orig_r(key1) = xorshift128plus_r(key2)
    BY <2>1, SameOutput
  <2>3. pc' = pc /\ i' = i + 1 /\ test_seed' = test_seed
    BY <1>2, <2>2 DEF Compare
  <2>4. key1' = NextKey(key1) /\ key2' = NextKey(key2)
    BY <1>2 DEF Compare, OrigNextKey, NextKey
  <2>5. key1' = NextKey(key2')
    BY <2>1, <2>4
  <2>6. TestTypeOK'
    BY <1>2, <2>1, <2>3, <2>4, NextKeyType DEF Compare
  <2> QED BY <1>2, <2>3, <2>5, <2>6 DEF Compare
<1>3. CASE Equivalent
  BY <1>3 DEF Equivalent
<1>4. CASE Finish
  BY <1>4 DEF Finish
<1>5. CASE UNCHANGED test_vars
  BY <1>5 DEF test_vars
<1> QED BY <1>1, <1>2, <1>3, <1>4, <1>5 DEF TestNext

\* The test never reports a difference, whatever keys it draws.
THEOREM EquivalenceCorrect == TestSpec => []NoBug
<1>1. TestIInv => NoBug
  BY DEF TestIInv
<1> QED BY <1>1, TestInitIInv, TestStepIInv, PTL DEF TestSpec

\* The counters of the two loops stay in range, and the keys are keys.
THEOREM TestTypeCorrect == TestSpec => []TestTypeOK
<1>1. TestIInv => TestTypeOK
  BY DEF TestIInv
<1> QED BY <1>1, TestInitIInv, TestStepIInv, PTL DEF TestSpec

\* The words the generators compute on are C's unsigned integers: on any two
\* of them, of any width, the operators of BitWords do what C's do to the
\* numbers they stand for.
THEOREM WordsCorrect == TestSpec => []WordsAreUnsignedIntegers
<1>1. ASSUME NEW a \in Word, NEW b \in Word
      PROVE  /\ ToNat(Add(a, b)) = (ToNat(a) + ToNat(b)) % 2^W
             /\ ToNat(Mul(a, b)) = (ToNat(a) * ToNat(b)) % 2^W
             /\ ToNat(Xor(a, b)) = ToNat(Or(a, b)) - ToNat(And(a, b))
             /\ FromNat(ToNat(a) + 2^W) = a
             /\ \A k \in 0 .. W :
                  /\ ToNat(Shl(a, k)) = (ToNat(a) * 2^k) % 2^W
                  /\ ToNat(Shr(a, k)) = ToNat(a) \div 2^k
                  /\ rotl(rotl(a, k), W - k) = a
  <2>1. FromNat(ToNat(a) + 2^W) = a
    <3>1. FromNat(ToNat(a) + (2^W * 1)) = a
      BY Roundtrip
    <3>2. 2^W * 1 = 2^W
      BY ToNatFacts
    <3> QED BY <3>1, <3>2
  <2> QED BY <2>1, AddValue, MulValue, XorValue, ShlValue, ShrValue, RotlBack
<1>2. TestTypeOK => WordsAreUnsignedIntegers
  <2> SUFFICES ASSUME TestTypeOK PROVE WordsAreUnsignedIntegers
    OBVIOUS
  <2>1. key2.part1 \in Word /\ key2.part2 \in Word
    BY DEF TestTypeOK, Key
  <2> QED BY <1>1, <2>1 DEF WordsAreUnsignedIntegers
<1> QED BY <1>2, TestTypeCorrect, PTL

\* The spun stream stays exactly one step ahead of the other.
THEOREM OneStepAheadCorrect == TestSpec => []OneStepAhead
<1>1. TestIInv => OneStepAhead
  BY DEF TestIInv
<1> QED BY <1>1, TestInitIInv, TestStepIInv, PTL DEF TestSpec

-----------------------------------------------------------------------------
(***************************************************************************)
(* The small generators: a step takes no other state to the one it cannot  *)
(* leave.  Every step is made of shift-and-XOR steps and rotations of one  *)
(* word, which are injective, of sums and differences with a word known to *)
(* be zero, and, in lehmer64, of an odd multiplication modulo a power of   *)
(* two.                                                                    *)
(***************************************************************************)
LEMMA SubZero ==
  ASSUME NEW a \in Word
  PROVE  Sub(a, Zero) = a
<1> DEFINE n == [j \in Bit |-> ~ Zero[j]]
           A == ToNat(a)
           M == 2^W
<1>1. n \in Word /\ Zero \in Word /\ \A j \in Bit : n[j] = ~ Zero[j]
  BY WordClosure DEF Word
<1>2. A \in 0 .. (M - 1) /\ M \in Nat \ {0} /\ ToNat(Zero) = 0
  BY ToNatFacts, ZeroValue
<1>3. M >= 2
  <2> DEFINE k == W - 1
  <2>1. k \in Nat /\ k + 1 = W
    BY WAssumption
  <2> HIDE DEF k
  <2>2. 2^(k + 1) = 2 * 2^k /\ 2^k \in Nat \ {0}
    BY <2>1, TwoPowers
  <2> QED BY <2>1, <2>2
<1>4. ToNat(n) = M - 1
  <2>1. ToNat(n) = (2^W - 1) - ToNat(Zero)
    <3> HIDE DEF n
    <3> QED BY <1>1, NotValue
  <2> QED BY <1>2, <2>1
<1>5. Add(a, n) \in Word /\ ToNat(Add(a, n)) = (A + (M - 1)) % M
  <2> HIDE DEF n
  <2> QED BY <1>1, <1>4, AddValue, WordClosure
<1>6. FromNat(1) \in Word /\ ToNat(FromNat(1)) = 1
  <2>1. FromNat(1) \in Word /\ ToNat(FromNat(1)) = 1 % M
    BY FromNatValue
  <2> HIDE DEF M
  <2>2. ((M * 0) + 1) % M = 1 /\ (M * 0) + 1 = 1
    BY <1>2, <1>3, ModUnique
  <2> QED BY <2>1, <2>2
<1>7. Sub(a, Zero) = Add(Add(a, n), FromNat(1))
  BY DEF Sub
<1>8. ToNat(Sub(a, Zero)) = (((A + (M - 1)) % M) + 1) % M
  <2> HIDE DEF n, A, M
  <2>1. ToNat(Add(Add(a, n), FromNat(1))) = (ToNat(Add(a, n)) + ToNat(FromNat(1))) % 2^W
    BY <1>5, <1>6, AddValue
  <2> QED BY <1>5, <1>6, <1>7, <2>1 DEF M
<1>9. (((A + (M - 1)) % M) + 1) % M = A
  <2> HIDE DEF A, M
  <2> DEFINE x == A + (M - 1)
  <2>1. x \in Int /\ x + 1 = (M * 1) + A
    BY <1>2
  <2> HIDE DEF x
  <2>2. ((x % M) + 1) % M = (x + 1) % M
    <3>1. 1 \in Int
      OBVIOUS
    <3> QED BY <1>2, <2>1, <3>1, ModAdd, Zenon
  <2>3. ((M * 1) + A) % M = A
    BY <1>2, ModUnique
  <2> QED BY <2>1, <2>2, <2>3 DEF x
<1>10. Sub(a, Zero) \in Word
  BY <1>7, WordClosure
<1> QED BY <1>8, <1>9, <1>10, ToNatFacts

\* What must be shown of a generator's step: its words are words, and are all
\* zero exactly if they were, when the result is zero as well.
Steady(n, step) ==
  r \in [1 .. n -> Word] =>
    /\ step.words \in [1 .. n -> Word] /\ step.result \in Word
    /\ step.words = [k \in 1 .. n |-> Zero] <=> r = [k \in 1 .. n |-> Zero]
    /\ r = [k \in 1 .. n |-> Zero] => step.result = Zero

LEMMA Tuples ==
  ASSUME NEW a, NEW b, NEW c, NEW d, NEW e
  PROVE  /\ <<a>> = [n \in 1 .. 1 |-> Zero] <=> a = Zero
         /\ <<a, b>> = [n \in 1 .. 2 |-> Zero] <=> a = Zero /\ b = Zero
         /\ <<a, b, c, d>> = [n \in 1 .. 4 |-> Zero] <=> a = Zero /\ b = Zero /\ c = Zero /\ d = Zero
         /\ <<a, b, c, d, e>> = [n \in 1 .. 5 |-> Zero]
              <=> a = Zero /\ b = Zero /\ c = Zero /\ d = Zero /\ e = Zero
OBVIOUS

\* The words of r one by one.
LEMMA Words ==
  ASSUME NEW n \in Nat, r \in [1 .. n -> Word]
  PROVE  /\ \A k \in 1 .. n : r[k] \in Word
         /\ r = [k \in 1 .. n |-> Zero] <=> \A k \in 1 .. n : r[k] = Zero
OBVIOUS

LEMMA Xorshift32Steady ==
  ASSUME generator = "xorshift32"
  PROVE  Steady(1, xorshift32)
<1> SUFFICES ASSUME r \in [1 .. 1 -> Word]
             PROVE  /\ xorshift32.words \in [1 .. 1 -> Word] /\ xorshift32.result \in Word
                    /\ xorshift32.words = [k \in 1 .. 1 |-> Zero] <=> r = [k \in 1 .. 1 |-> Zero]
                    /\ r = [k \in 1 .. 1 |-> Zero] => xorshift32.result = Zero
  BY DEF Steady
<1> DEFINE x == Left(r[1], 1)
           y == Right(x, 2)
           z == Left(y, 3)
<1>1. \A n \in 1 .. 3 : SmallShift("xorshift32", n) \in Nat \ {0}
  BY SmallShiftAssumption, WAssumption
<1>2. r[1] \in Word /\ x \in Word /\ y \in Word /\ z \in Word
  BY WordClosure DEF Left, Right
<1>3. x = Zero <=> r[1] = Zero
  BY <1>1, <1>2, ZeroFromZero DEF Left
<1>4. y = Zero <=> x = Zero
  <2> HIDE DEF x
  <2> QED BY <1>1, <1>2, ZeroFromZero DEF Right
<1>5. z = Zero <=> y = Zero
  <2> HIDE DEF y
  <2> QED BY <1>1, <1>2, ZeroFromZero DEF Left
<1>6. xorshift32 = [words |-> <<z>>, result |-> z]
  BY DEF xorshift32
<1>7. r = [k \in 1 .. 1 |-> Zero] <=> r[1] = Zero
  OBVIOUS
<1> HIDE DEF x, y, z
<1>8. <<z>> \in [1 .. 1 -> Word] /\ (<<z>> = [k \in 1 .. 1 |-> Zero] <=> z = Zero)
  BY <1>2, Tuples
<1> QED BY <1>2, <1>3, <1>4, <1>5, <1>6, <1>7, <1>8

LEMMA XorshiftK4Steady ==
  ASSUME generator = "xorshift_k4"
  PROVE  Steady(4, xorshift_k4)
<1> SUFFICES ASSUME r \in [1 .. 4 -> Word]
             PROVE  /\ xorshift_k4.words \in [1 .. 4 -> Word] /\ xorshift_k4.result \in Word
                    /\ xorshift_k4.words = [k \in 1 .. 4 |-> Zero] <=> r = [k \in 1 .. 4 |-> Zero]
                    /\ r = [k \in 1 .. 4 |-> Zero] => xorshift_k4.result = Zero
  BY DEF Steady
<1> DEFINE t == Left(r[1], 1)
           u == Right(t, 3)
           v == Right(r[4], 2)
           w == Xor(v, u)
<1>1. \A n \in 1 .. 3 : SmallShift("xorshift_k4", n) \in Nat \ {0}
  BY SmallShiftAssumption, WAssumption
<1>2. r[1] \in Word /\ r[2] \in Word /\ r[3] \in Word /\ r[4] \in Word
  OBVIOUS
<1>3. t \in Word /\ u \in Word /\ v \in Word /\ w \in Word
  BY WordClosure DEF Left, Right
<1>4. t = Zero <=> r[1] = Zero
  BY <1>1, <1>2, ZeroFromZero DEF Left
<1>5. v = Zero <=> r[4] = Zero
  BY <1>1, <1>2, ZeroFromZero DEF Right
<1>6. u = Zero <=> t = Zero
  <2> HIDE DEF t
  <2> QED BY <1>1, <1>3, ZeroFromZero DEF Right
<1>7. v = Zero => (w = Zero <=> u = Zero)
  <2> HIDE DEF u, v
  <2> QED BY <1>3, ZeroFromZero
<1>8. xorshift_k4 = [words |-> <<r[2], r[3], r[4], w>>, result |-> w]
  BY DEF xorshift_k4
<1> HIDE DEF t, u, v, w
<1>9. r = [k \in 1 .. 4 |-> Zero] <=> r[1] = Zero /\ r[2] = Zero /\ r[3] = Zero /\ r[4] = Zero
  OBVIOUS
<1>10. /\ <<r[2], r[3], r[4], w>> \in [1 .. 4 -> Word]
       /\ <<r[2], r[3], r[4], w>> = [k \in 1 .. 4 |-> Zero]
            <=> r[2] = Zero /\ r[3] = Zero /\ r[4] = Zero /\ w = Zero
  <2>1. <<r[2], r[3], r[4], w>> \in [1 .. 4 -> Word]
    BY <1>2, <1>3
  <2> QED BY <2>1, Tuples
<1> QED BY <1>3, <1>4, <1>5, <1>6, <1>7, <1>8, <1>9, <1>10

LEMMA XorshiftK5Steady ==
  ASSUME generator = "xorshift_k5"
  PROVE  Steady(5, xorshift_k5)
<1> SUFFICES ASSUME r \in [1 .. 5 -> Word]
             PROVE  /\ xorshift_k5.words \in [1 .. 5 -> Word] /\ xorshift_k5.result \in Word
                    /\ xorshift_k5.words = [k \in 1 .. 5 |-> Zero] <=> r = [k \in 1 .. 5 |-> Zero]
                    /\ r = [k \in 1 .. 5 |-> Zero] => xorshift_k5.result = Zero
  BY DEF Steady
<1> DEFINE t == Right(r[1], 1)
           u == Left(t, 3)
           x == Left(r[5], 2)
           v == Xor(x, u)
           y == Add(Add(r[3], r[3]), FromNat(1))
<1>1. \A n \in 1 .. 3 : SmallShift("xorshift_k5", n) \in Nat \ {0}
  BY SmallShiftAssumption, WAssumption
<1>2. r[1] \in Word /\ r[2] \in Word /\ r[3] \in Word /\ r[4] \in Word /\ r[5] \in Word
  OBVIOUS
<1>3. t \in Word /\ u \in Word /\ x \in Word /\ v \in Word /\ y \in Word
  BY WordClosure DEF Left, Right
<1>4. t = Zero <=> r[1] = Zero
  BY <1>1, <1>2, ZeroFromZero DEF Right
<1>5. x = Zero <=> r[5] = Zero
  BY <1>1, <1>2, ZeroFromZero DEF Left
<1>6. u = Zero <=> t = Zero
  <2> HIDE DEF t
  <2> QED BY <1>1, <1>3, ZeroFromZero DEF Left
<1>7. x = Zero => (v = Zero <=> u = Zero)
  <2> HIDE DEF u, x
  <2> QED BY <1>3, ZeroFromZero
<1>8. xorshift_k5 = [words |-> <<r[2], r[3], r[4], r[5], v>>, result |-> Mul(y, v)]
  BY DEF xorshift_k5
<1> HIDE DEF t, u, x, v, y
<1>9. r = [k \in 1 .. 5 |-> Zero]
        <=> r[1] = Zero /\ r[2] = Zero /\ r[3] = Zero /\ r[4] = Zero /\ r[5] = Zero
  OBVIOUS
<1>10. /\ <<r[2], r[3], r[4], r[5], v>> \in [1 .. 5 -> Word]
       /\ <<r[2], r[3], r[4], r[5], v>> = [k \in 1 .. 5 |-> Zero]
            <=> r[2] = Zero /\ r[3] = Zero /\ r[4] = Zero /\ r[5] = Zero /\ v = Zero
  <2>1. <<r[2], r[3], r[4], r[5], v>> \in [1 .. 5 -> Word]
    BY <1>2, <1>3
  <2> QED BY <2>1, Tuples
<1>11. Mul(y, v) \in Word /\ (v = Zero => Mul(y, v) = Zero)
  BY <1>3, WordClosure, MulZero
<1> QED BY <1>3, <1>4, <1>5, <1>6, <1>7, <1>8, <1>9, <1>10, <1>11

LEMMA XoroshiroSteady ==
  ASSUME generator = "xoroshiro128plus"
  PROVE  Steady(2, xoroshiro128plus)
<1> SUFFICES ASSUME r \in [1 .. 2 -> Word]
             PROVE  /\ xoroshiro128plus.words \in [1 .. 2 -> Word] /\ xoroshiro128plus.result \in Word
                    /\ xoroshiro128plus.words = [k \in 1 .. 2 |-> Zero] <=> r = [k \in 1 .. 2 |-> Zero]
                    /\ r = [k \in 1 .. 2 |-> Zero] => xoroshiro128plus.result = Zero
  BY DEF Steady
<1> DEFINE s == Xor(r[1], r[2])
           t == Turn(r[1], 1)
           u == Left(s, 2)
           a == Xor(t, u)
           b == Turn(s, 3)
<1>1. \A n \in 1 .. 3 : SmallShift("xoroshiro128plus", n) \in Nat \ {0} /\ SmallShift("xoroshiro128plus", n) \in 0 .. W
  BY SmallShiftAssumption, WAssumption
<1>2. r[1] \in Word /\ r[2] \in Word
  OBVIOUS
<1>3. s \in Word /\ t \in Word /\ u \in Word /\ a \in Word /\ b \in Word
  BY WordClosure DEF Left, Turn
<1>4. t = Zero <=> r[1] = Zero
  BY <1>1, <1>2, ZeroFromZero DEF Turn
<1>5. u = Zero <=> s = Zero
  <2> HIDE DEF s
  <2> QED BY <1>1, <1>3, ZeroFromZero DEF Left
<1>6. b = Zero <=> s = Zero
  <2> HIDE DEF s
  <2> QED BY <1>1, <1>3, ZeroFromZero DEF Turn
<1>7. r[1] = Zero => (s = Zero <=> r[2] = Zero)
  BY <1>2, ZeroFromZero
<1>8. u = Zero => (a = Zero <=> t = Zero)
  <2> HIDE DEF t, u
  <2>1. Xor(t, u) = Xor(u, t)
    BY <1>3, XorCommutes
  <2> QED BY <1>3, <2>1, ZeroFromZero
<1>9. xoroshiro128plus = [words |-> <<a, b>>, result |-> Add(r[1], r[2])]
  BY DEF xoroshiro128plus
<1> HIDE DEF s, t, u, a, b
<1>10. r = [k \in 1 .. 2 |-> Zero] <=> r[1] = Zero /\ r[2] = Zero
  OBVIOUS
<1>11. /\ <<a, b>> \in [1 .. 2 -> Word]
       /\ <<a, b>> = [k \in 1 .. 2 |-> Zero] <=> a = Zero /\ b = Zero
  <2>1. <<a, b>> \in [1 .. 2 -> Word]
    BY <1>3
  <2> QED BY <2>1, Tuples, Zenon
<1>12. Add(r[1], r[2]) \in Word /\ (r[1] = Zero /\ r[2] = Zero => Add(r[1], r[2]) = Zero)
  BY <1>2, WordClosure, AddZero
<1> QED BY <1>3, <1>4, <1>5, <1>6, <1>7, <1>8, <1>9, <1>10, <1>11, <1>12

LEMMA JenkinsSteady ==
  ASSUME generator = "jenkinssmall"
  PROVE  Steady(4, jenkinssmall)
<1> SUFFICES ASSUME r \in [1 .. 4 -> Word]
             PROVE  /\ jenkinssmall.words \in [1 .. 4 -> Word] /\ jenkinssmall.result \in Word
                    /\ jenkinssmall.words = [k \in 1 .. 4 |-> Zero] <=> r = [k \in 1 .. 4 |-> Zero]
                    /\ r = [k \in 1 .. 4 |-> Zero] => jenkinssmall.result = Zero
  BY DEF Steady
<1> DEFINE s == Turn(r[2], 1)
           e == Sub(r[1], s)
           u == Turn(r[3], 2)
           a == Xor(r[2], u)
           v == Turn(r[4], 3)
           b == Add(r[3], v)
           c == Add(r[4], e)
           d == Add(e, a)
<1>1. \A n \in 1 .. 3 : SmallShift("jenkinssmall", n) \in 0 .. W
  BY SmallShiftAssumption, WAssumption
<1>2. r[1] \in Word /\ r[2] \in Word /\ r[3] \in Word /\ r[4] \in Word
  OBVIOUS
<1>3. /\ s \in Word /\ e \in Word /\ u \in Word /\ a \in Word /\ v \in Word
      /\ b \in Word /\ c \in Word /\ d \in Word
  BY WordClosure DEF Sub, Turn
<1>4. (s = Zero <=> r[2] = Zero) /\ (u = Zero <=> r[3] = Zero) /\ (v = Zero <=> r[4] = Zero)
  BY <1>1, <1>2, ZeroFromZero DEF Turn
<1>5. s = Zero => e = r[1]
  <2> HIDE DEF s
  <2> QED BY <1>2, SubZero
<1>6. u = Zero => a = r[2]
  <2> HIDE DEF u
  <2> QED BY <1>2, ZeroFromZero
<1>7. v = Zero => b = r[3]
  <2> HIDE DEF v
  <2> QED BY <1>2, AddZero
<1>8. r[3] = Zero => b = v
  <2> HIDE DEF v
  <2> QED BY <1>3, AddZero
<1>9. (e = Zero => c = r[4]) /\ (e = Zero => d = a) /\ (a = Zero => d = e)
  <2> HIDE DEF e, a
  <2> QED BY <1>2, <1>3, AddZero
<1>10. jenkinssmall = [words |-> <<a, b, c, d>>, result |-> d]
  BY DEF jenkinssmall
<1> HIDE DEF s, e, u, a, v, b, c, d
<1>11. r = [k \in 1 .. 4 |-> Zero] <=> r[1] = Zero /\ r[2] = Zero /\ r[3] = Zero /\ r[4] = Zero
  OBVIOUS
<1>12. /\ <<a, b, c, d>> \in [1 .. 4 -> Word]
       /\ <<a, b, c, d>> = [k \in 1 .. 4 |-> Zero] <=> a = Zero /\ b = Zero /\ c = Zero /\ d = Zero
  <2>1. <<a, b, c, d>> \in [1 .. 4 -> Word]
    BY <1>3
  <2> QED BY <2>1, Tuples
<1>13. r[1] = Zero /\ r[2] = Zero /\ r[3] = Zero /\ r[4] = Zero
         <=> a = Zero /\ b = Zero /\ c = Zero /\ d = Zero
  <2>1. ASSUME r[1] = Zero, r[2] = Zero, r[3] = Zero, r[4] = Zero
        PROVE  a = Zero /\ b = Zero /\ c = Zero /\ d = Zero
    BY <2>1, <1>4, <1>5, <1>6, <1>7, <1>9
  <2>2. ASSUME a = Zero, b = Zero, c = Zero, d = Zero
        PROVE  r[1] = Zero /\ r[2] = Zero /\ r[3] = Zero /\ r[4] = Zero
    BY <2>2, <1>4, <1>5, <1>6, <1>7, <1>9
  <2> QED BY <2>1, <2>2
<1>14. r[1] = Zero /\ r[2] = Zero /\ r[3] = Zero /\ r[4] = Zero => d = Zero
  BY <1>13
<1>15. jenkinssmall.words = <<a, b, c, d>> /\ jenkinssmall.result = d
  BY <1>10
<1> HIDE DEF jenkinssmall
<1> QED BY <1>3, <1>11, <1>12, <1>13, <1>14, <1>15, Zenon

\* Two digits to the base m are zero exactly if the number is, modulo m * m.
LEMMA TwoDigits ==
  ASSUME NEW m \in Nat \ {0}, NEW p \in Nat
  PROVE  p % m = 0 /\ (p \div m) % m = 0 <=> p % (m * m) = 0
<1> DEFINE q == p \div m
<1>1. q \in Int /\ p = (m * q) + (p % m)
  BY DivMod
<1>2. m * m \in Nat \ {0}
  <2>1. \A x \in Nat \ {0} : x * x \in Nat \ {0}
    OBVIOUS
  <2> QED BY <2>1
<1> HIDE DEF q
<1>3. ASSUME p % m = 0, q % m = 0 PROVE p % (m * m) = 0
  <2>1. PICK k \in Int : q = m * k
    BY <1>1, <1>3, ModMultiple
  <2>2. p = m * q
    <3>1. m * q \in Int
      BY <1>1
    <3> QED BY <1>1, <1>3, <3>1
  <2>3. p = (m * m) * k
    <3>1. \A x, y \in Int : x * (x * y) = (x * x) * y
      OBVIOUS
    <3> QED BY <2>1, <2>2, <3>1
  <2> DEFINE n == m * m
  <2> HIDE DEF n
  <2>4. n \in Nat \ {0} /\ p = n * k
    BY <1>2, <2>3 DEF n
  <2>5. p % n = 0
    BY <2>4, ModMultiple
  <2> QED BY <2>5 DEF n
<1>4. ASSUME p % (m * m) = 0 PROVE p % m = 0 /\ q % m = 0
  <2> DEFINE n == m * m
  <2>1. n \in Nat \ {0} /\ p % n = 0
    BY <1>2, <1>4
  <2> HIDE DEF n
  <2>2. PICK k \in Int : p = n * k
    BY <2>1, ModMultiple
  <2>3. p = m * (m * k)
    <3>1. \A x, y \in Int : x * (x * y) = (x * x) * y
      OBVIOUS
    <3> QED BY <2>2, <3>1 DEF n
  <2> DEFINE h == m * k
  <2>4. h \in Int /\ h % m = 0 /\ p = m * h
    BY <2>2, <2>3, ModMultiple
  <2> HIDE DEF h
  <2>5. p % m = 0
    BY <2>4, ModMultiple
  <2>6. q = h
    <3> DEFINE z == m * h
    <3>1. z \in Int /\ (z + 0) \div m = h
      BY <2>4, DivUnique
    <3> HIDE DEF z
    <3>2. z + 0 = p
      BY <3>1, <2>4 DEF z
    <3> QED BY <3>1, <3>2 DEF q
  <2> QED BY <2>4, <2>5, <2>6
<1> QED BY <1>3, <1>4 DEF q

\* A 128-bit state is zero exactly if both its words are; an odd multiplier
\* takes no other state there.
LEMMA LehmerSteady == Steady(2, lehmer64)
<1> SUFFICES ASSUME r \in [1 .. 2 -> Word]
             PROVE  /\ lehmer64.words \in [1 .. 2 -> Word] /\ lehmer64.result \in Word
                    /\ lehmer64.words = [k \in 1 .. 2 |-> Zero] <=> r = [k \in 1 .. 2 |-> Zero]
                    /\ r = [k \in 1 .. 2 |-> Zero] => lehmer64.result = Zero
  BY DEF Steady
<1> DEFINE M == 2^W
           A == ToNat(r[1])
           B == ToNat(r[2])
           L == LehmerMultiplier
           x == A * M + B
           p == x * L
           h == FromNat(p \div M)
           l == FromNat(p)
<1>1. r[1] \in Word /\ r[2] \in Word
  OBVIOUS
<1>2. M \in Nat \ {0} /\ A \in 0 .. (M - 1) /\ B \in 0 .. (M - 1)
  BY <1>1, ToNatFacts
<1>3. (r[1] = Zero <=> A = 0) /\ (r[2] = Zero <=> B = 0)
  BY <1>1, ToNatFacts, ZeroValue, WordClosure
<1>4. L \in Nat /\ L % 2 = 1
  BY SmallConstantsAssumption
<1>5. PowerOfTwo(M * M)
  <2>1. M * M = 2^(W + W) /\ W + W \in Nat
    BY WAssumption, PowerSum
  <2> QED BY <2>1, TwoPowerIsPowerOfTwo
<1>6. h \in Word /\ l \in Word
  BY WordClosure
<1>7. lehmer64 = [words |-> <<h, l>>, result |-> h]
  BY DEF lehmer64
<1> HIDE DEF M, A, B, L
<1>8. x \in 0 .. (M * M - 1) /\ x \in Nat /\ (x = 0 <=> A = 0 /\ B = 0)
  <2>1. \A m \in Nat \ {0} : \A a, b \in 0 .. (m - 1) :
          /\ a * m \in Nat /\ a * m <= m * m - m
          /\ a * m = 0 <=> a = 0
    <3> SUFFICES ASSUME NEW m \in Nat \ {0}, NEW a \in 0 .. (m - 1)
                 PROVE  /\ a * m \in Nat /\ a * m <= m * m - m
                        /\ a * m = 0 <=> a = 0
      OBVIOUS
    <3>1. a * m \in Nat /\ a * m <= (m - 1) * m /\ (m - 1) * m = m * m - m
      OBVIOUS
    <3>2. a # 0 => a * m >= m
      OBVIOUS
    <3>3. a = 0 => a * m = 0
      OBVIOUS
    <3>4. m * m \in Nat
      OBVIOUS
    <3> QED BY <3>1, <3>2, <3>3, <3>4
  <2> DEFINE c == A * M
             n == M * M
  <2>2. c \in Nat /\ n \in Nat /\ c <= n - M /\ (c = 0 <=> A = 0)
    BY <1>2, <2>1
  <2> HIDE DEF c, n
  <2>3. c + B \in 0 .. (n - 1) /\ c + B \in Nat /\ (c + B = 0 <=> A = 0 /\ B = 0)
    BY <1>2, <2>2
  <2> QED BY <2>3 DEF c, n
<1> HIDE DEF x
<1>9. p \in Nat /\ (p % (M * M) = 0 <=> x = 0)
  <2> DEFINE n == M * M
  <2>1. n \in Nat \ {0} /\ PowerOfTwo(n) /\ x \in 0 .. (n - 1)
    BY <1>5, <1>8 DEF PowerOfTwo
  <2> HIDE DEF n
  <2>2. ASSUME x # 0 PROVE p % n # 0
    <3>1. x \in 1 .. (n - 1)
      BY <2>1, <2>2
    <3>2. (x * L) % n # 0
      BY <1>4, <2>1, <3>1, OddMultiples, Zenon
    <3> QED BY <3>2
  <2>3. x = 0 => p % n = 0
    <3>1. x = 0 => p = 0
      BY <1>4
    <3>2. 0 % n = 0
      BY <2>1
    <3> QED BY <3>1, <3>2
  <2>4. p \in Nat
    BY <1>4, <1>8
  <2> QED BY <2>2, <2>3, <2>4 DEF n
<1> HIDE DEF p
<1>10. l = Zero /\ h = Zero <=> p % M = 0 /\ (p \div M) % M = 0
  <2>1. p \div M \in Nat
    BY <1>2, <1>9
  <2>2. \A n \in Nat : FromNat(n) = Zero <=> n % M = 0
    BY ZeroValue DEF M
  <2> QED BY <1>9, <2>1, <2>2
<1>11. p % M = 0 /\ (p \div M) % M = 0 <=> p % (M * M) = 0
  BY <1>2, <1>9, TwoDigits
<1>12. /\ r = [k \in 1 .. 2 |-> Zero] <=> r[1] = Zero /\ r[2] = Zero
       /\ l = Zero /\ h = Zero <=> r[1] = Zero /\ r[2] = Zero
  BY <1>3, <1>8, <1>9, <1>10, <1>11
<1> HIDE DEF h, l
<1>13. /\ <<h, l>> \in [1 .. 2 -> Word]
       /\ <<h, l>> = [k \in 1 .. 2 |-> Zero] <=> h = Zero /\ l = Zero
  <2>1. <<h, l>> \in [1 .. 2 -> Word]
    BY <1>6
  <2> QED BY <2>1, Tuples
<1> QED BY <1>6, <1>7, <1>12, <1>13

LEMMA Sizes == generator \in Generators => Size[generator] \in Nat
BY DEF Generators, Size

\* Every generator's step is steady.
LEMMA StepSteady == generator \in Generators => Steady(Size[generator], SmallStep)
<1>1. generator = "xorshift32" => Steady(1, SmallStep)
  BY Xorshift32Steady DEF SmallStep
<1>2. generator = "xorshift_k4" => Steady(4, SmallStep)
  BY XorshiftK4Steady DEF SmallStep
<1>3. generator = "xorshift_k5" => Steady(5, SmallStep)
  BY XorshiftK5Steady DEF SmallStep
<1>4. generator = "xoroshiro128plus" => Steady(2, SmallStep)
  BY XoroshiroSteady DEF SmallStep
<1>5. generator = "jenkinssmall" => Steady(4, SmallStep)
  BY JenkinsSteady DEF SmallStep
<1>6. generator = "lehmer64" => Steady(2, SmallStep)
  BY LehmerSteady DEF SmallStep
<1> QED BY <1>1, <1>2, <1>3, <1>4, <1>5, <1>6 DEF Generators, Size

\* A seeding writes words.
LEMMA LoadedWords ==
  ASSUME generator \in Generators, NEW s \in SmallSeeds
  PROVE  Loaded(s) \in [1 .. Size[generator] -> Word]
<1>1. FromNat(s) \in Word /\ JenkinsConstant \in Word
  BY WordClosure, SmallConstantsAssumption
<1>2. \A n \in 0 .. 5 : generator \in {"xorshift_k4", "xorshift_k5", "xoroshiro128plus", "lehmer64"} =>
        SplitMixWords(s, n) \in [1 .. n -> Word]
  <2> SUFFICES ASSUME NEW n \in 0 .. 5, NEW j \in 1 .. n,
                      generator \in {"xorshift_k4", "xorshift_k5", "xoroshiro128plus", "lehmer64"}
               PROVE  SmallWord(generator, s, j - 1) \in Word
    BY DEF SplitMixWords
  <2>1. j - 1 \in 0 .. 4
    OBVIOUS
  <2> QED BY <2>1, SmallWordAssumption
<1>3. generator = "xorshift32" => Loaded(s) \in [1 .. 1 -> Word]
  BY <1>1 DEF Loaded, xorshift32_seed
<1>4. generator = "xorshift_k4" => Loaded(s) \in [1 .. 4 -> Word]
  BY <1>2 DEF Loaded, xorshift_k4_seed
<1>5. generator = "xorshift_k5" => Loaded(s) \in [1 .. 5 -> Word]
  BY <1>2 DEF Loaded, xorshift_k5_seed
<1>6. generator = "xoroshiro128plus" => Loaded(s) \in [1 .. 2 -> Word]
  BY <1>2 DEF Loaded, xoroshiro128plus_seed
<1>7. generator = "jenkinssmall" => Loaded(s) \in [1 .. 4 -> Word]
  BY <1>1 DEF Loaded, jenkinssmall_init
<1>8. generator = "lehmer64" => Loaded(s) \in [1 .. 2 -> Word]
  BY <1>2 DEF Loaded, lehmer64_seed
<1>9. /\ generator = "xorshift32" => Size[generator] = 1
      /\ generator \in {"xoroshiro128plus", "lehmer64"} => Size[generator] = 2
      /\ generator \in {"xorshift_k4", "jenkinssmall"} => Size[generator] = 4
      /\ generator = "xorshift_k5" => Size[generator] = 5
  BY DEF Size
<1> QED BY <1>3, <1>4, <1>5, <1>6, <1>7, <1>8, <1>9 DEF Generators

\* What a seeding writes is zero only where SeedingLeavesZero allows it.
LEMMA LoadedZero ==
  ASSUME NEW s \in SmallSeeds
  PROVE  /\ generator \in {"xoroshiro128plus", "jenkinssmall", "lehmer64"} => Loaded(s) # Zeros
         /\ generator = "xorshift32" => (Loaded(s) = Zeros <=> s % 2^W = 0)
<1>1. ASSUME generator = "xoroshiro128plus" \/ generator = "lehmer64" PROVE Loaded(s) # Zeros
  <2>1. Loaded(s) = SplitMixWords(s, 2)
    BY <1>1 DEF Loaded, xoroshiro128plus_seed, lehmer64_seed
  <2>2. Zeros = [n \in 1 .. 2 |-> Zero]
    BY <1>1 DEF Zeros, Size
  <2>3. /\ Loaded(s)[1] = SmallWord(generator, s, 0)
        /\ Loaded(s)[2] = SmallWord(generator, s, 1)
    BY <2>1 DEF SplitMixWords
  <2>4. SmallWord(generator, s, 0) # SmallWord(generator, s, 1)
    BY <1>1, SmallWordAssumption
  <2>5. Zeros[1] = Zeros[2]
    BY <2>2
  <2> QED BY <2>3, <2>4, <2>5
<1>2. ASSUME generator = "jenkinssmall" PROVE Loaded(s) # Zeros
  <2>1. Loaded(s)[1] = JenkinsConstant
    BY <1>2 DEF Loaded, jenkinssmall_init
  <2>2. Zeros[1] = Zero
    BY <1>2 DEF Zeros, Size
  <2> QED BY <2>1, <2>2, SmallConstantsAssumption
<1>3. ASSUME generator = "xorshift32" PROVE Loaded(s) = Zeros <=> s % 2^W = 0
  <2>1. Loaded(s) = <<FromNat(s)>> /\ Zeros = [n \in 1 .. 1 |-> Zero]
    BY <1>3 DEF Loaded, xorshift32_seed, Zeros, Size
  <2>2. Loaded(s) = Zeros <=> FromNat(s) = Zero
    BY <2>1, Tuples
  <2>3. FromNat(s) = Zero <=> s % 2^W = 0
    BY ZeroValue, SmallWordAssumption
  <2> QED BY <2>2, <2>3
<1> QED BY <1>1, <1>2, <1>3

\* The invariant: the two states are words of the one generator, and zero
\* together.
SmallIInv == /\ generator \in Generators
             /\ r \in [1 .. Size[generator] -> Word]
             /\ start \in [1 .. Size[generator] -> Word]
             /\ output \in Word
             /\ rounds \in Nat
             /\ ZeroOnlyFromZero
             /\ SeedingLeavesZero

LEMMA SmallInit == small_init => SmallIInv
<1> SUFFICES ASSUME small_init PROVE SmallIInv
  OBVIOUS
<1>1. Zeros \in [1 .. Size[generator] -> Word] /\ Zero \in Word
  BY WordClosure DEF Zeros
<1> QED BY <1>1 DEF small_init, SmallIInv, ZeroOnlyFromZero, SeedingLeavesZero

LEMMA SmallSeedStep ==
  ASSUME SmallIInv, NEW s \in SmallSeeds, Seed(s)
  PROVE  SmallIInv'
<1>1. /\ generator' = generator /\ r' = Loaded(s) /\ start' = r' /\ given' = s
      /\ output' = Zero
  BY DEF Seed
<1>2. Zeros' = Zeros
  BY <1>1 DEF Zeros
<1>3. generator \in Generators /\ Loaded(s) \in [1 .. Size[generator] -> Word] /\ Zero \in Word
  BY LoadedWords, WordClosure DEF SmallIInv
<1>4. rounds' \in Nat
  BY SmallConstantsAssumption DEF Seed
<1>5. ZeroOnlyFromZero'
  BY <1>1 DEF ZeroOnlyFromZero
<1>6. SeedingLeavesZero'
  BY <1>1, <1>2, LoadedZero DEF SeedingLeavesZero
<1> QED BY <1>1, <1>3, <1>4, <1>5, <1>6 DEF SmallIInv

\* A round of the seeding of jenkinssmall and a call are the same step.
LEMMA SmallMove ==
  ASSUME SmallIInv, r' = SmallStep.words, output' \in {output, SmallStep.result},
         UNCHANGED <<generator, start, given>>, rounds' \in Nat
  PROVE  SmallIInv'
<1>1. /\ generator \in Generators /\ r \in [1 .. Size[generator] -> Word]
      /\ start \in [1 .. Size[generator] -> Word] /\ output \in Word
      /\ ZeroOnlyFromZero /\ SeedingLeavesZero
  BY DEF SmallIInv
<1>2. Zeros' = Zeros /\ Zeros = [n \in 1 .. Size[generator] |-> Zero]
  BY DEF Zeros
<1>3. /\ r' \in [1 .. Size[generator] -> Word] /\ SmallStep.result \in Word
      /\ r' = Zeros <=> r = Zeros
      /\ r = Zeros => SmallStep.result = Zero
  BY <1>1, <1>2, StepSteady DEF Steady
<1>4. output' \in Word
  BY <1>1, <1>3
<1>5. ZeroOnlyFromZero'
  BY <1>1, <1>2, <1>3 DEF ZeroOnlyFromZero
<1>6. SeedingLeavesZero'
  BY <1>1, <1>2 DEF SeedingLeavesZero
<1> QED BY <1>1, <1>3, <1>4, <1>5, <1>6 DEF SmallIInv

\* ZeroOnlyFromSeedOfZero for every width, shift, odd multiplier and non-zero
\* constant, and any words of splitmix64 of which the first two differ.
THEOREM ZeroOnlyFromZeroCorrect == small_spec => []ZeroOnlyFromSeedOfZero
<1>1. ASSUME SmallIInv, [small_next]_small_vars PROVE SmallIInv'
  <2>1. CASE \E s \in SmallSeeds : Seed(s)
    BY <1>1, <2>1, SmallSeedStep
  <2>2. CASE MixingRound
    <3>1. rounds' \in Nat
      BY <1>1, <2>2 DEF MixingRound, SmallIInv
    <3> QED BY <1>1, <2>2, <3>1, SmallMove DEF MixingRound
  <2>3. CASE SmallCall
    <3>1. rounds' \in Nat
      BY <1>1, <2>3 DEF SmallCall, SmallIInv
    <3> QED BY <1>1, <2>3, <3>1, SmallMove DEF SmallCall
  <2>4. CASE UNCHANGED small_vars
    BY <1>1, <2>4 DEF small_vars, SmallIInv, ZeroOnlyFromZero, SeedingLeavesZero, Zeros
  <2> QED BY <1>1, <2>1, <2>2, <2>3, <2>4 DEF small_next
<1>2. SmallIInv => ZeroOnlyFromSeedOfZero
  BY DEF SmallIInv, ZeroOnlyFromSeedOfZero
<1> QED BY SmallInit, <1>1, <1>2, PTL DEF small_spec
=============================================================================
