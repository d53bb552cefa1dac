------------------------- MODULE Xorshift1024Proofs -------------------------
(***************************************************************************)
(* For every register size, word width and shifts: the array with its      *)
(* moving pointer implements the shift register, and a seeded register is  *)
(* never all zeros.                                                        *)
(***************************************************************************)
EXTENDS Xorshift1024, BitWordsProofs

-----------------------------------------------------------------------------
\* The remainders the pointer needs.
LEMMA Around ==
  ASSUME NEW x \in 0 .. (2 * Size - 1)
  PROVE  x % Size = IF x < Size THEN x ELSE x - Size
<1> USE SizesAssumption
<1>1. CASE x < Size
  <2>1. ((Size * 0) + x) % Size = x
    BY <1>1, ModUnique
  <2> QED BY <1>1, <2>1
<1>2. CASE ~(x < Size)
  <2> DEFINE r == x - Size
  <2>1. r \in 0 .. (Size - 1)
    BY <1>2
  <2> HIDE DEF r
  <2>2. ((Size * 1) + r) % Size = r
    BY <2>1, ModUnique
  <2> QED BY <1>2, <2>2 DEF r
<1> QED BY <1>1, <1>2

\* A call on a pointer in range: the next place, and what is left in the array.
LEMMA CallFacts ==
  ASSUME TypeOK, xorshift1024
  PROVE  \E q \in Index :
           /\ q = (IF p + 1 < Size THEN p + 1 ELSE 0)
           /\ q = (p + 1) % Size
           /\ q # p
           /\ p' = q
           /\ s' = [s EXCEPT ![q] = NewWord(s[p], s[q])]
           /\ output' = Output(s[p], s[q], NewWord(s[p], s[q]))
           /\ seeded' = seeded
<1> USE SizesAssumption DEF Index
<1>1. p \in 0 .. (Size - 1)
  BY DEF TypeOK
<1>2. (p + 1) % Size = IF p + 1 < Size THEN p + 1 ELSE 0
  BY <1>1, Around
<1> DEFINE q == (p + 1) % Size
<1>3. /\ p' = q
      /\ s' = [s EXCEPT ![q] = NewWord(s[p], s[q])]
      /\ output' = Output(s[p], s[q], NewWord(s[p], s[q]))
      /\ seeded' = seeded
  BY DEF xorshift1024
<1>4. q \in Index /\ q # p
  BY <1>1, <1>2
<1>5. q = (p + 1) % Size /\ q = (IF p + 1 < Size THEN p + 1 ELSE 0)
  BY <1>2, <1>1
<1> HIDE DEF q
<1> QED BY <1>3, <1>4, <1>5

LEMMA NewWordIsWord == \A s0, s1 : NewWord(s0, s1) \in Word
BY WordClosure DEF NewWord

-----------------------------------------------------------------------------
LEMMA InitTypeOK == Init => TypeOK
<1>1. Zero \in Word
  BY WordClosure
<1>2. 0 \in Index
  BY SizesAssumption DEF Index
<1>3. Output(Zero, Zero, Zero) \in Outputs
  BY <1>1 DEF Outputs
<1> QED BY <1>1, <1>2, <1>3 DEF Init, TypeOK

\* The array holds words, and the pointer stays inside it.
THEOREM TypeCorrect == Spec => []TypeOK
<1>1. Init => TypeOK
  BY InitTypeOK
<1>2. TypeOK /\ [Next]_vars => TypeOK'
  <2> SUFFICES ASSUME TypeOK, [Next]_vars PROVE TypeOK'
    OBVIOUS
  <2>1. ASSUME NEW seed \in Seeds, xorshift1024_seed(seed) PROVE TypeOK'
    <3>1. \A k \in Index : SplitMixWord(seed, k) \in Word
      BY WordsAssumption, SizesAssumption DEF Index
    <3> QED BY <2>1, <3>1, SizesAssumption DEF xorshift1024_seed, TypeOK, Index
  <2>2. CASE xorshift1024
    <3>1. PICK q \in Index :
             /\ p' = q
             /\ s' = [s EXCEPT ![q] = NewWord(s[p], s[q])]
             /\ output' = Output(s[p], s[q], NewWord(s[p], s[q]))
             /\ seeded' = seeded
      BY <2>2, CallFacts
    <3>2. s[p] \in Word /\ s[q] \in Word
      BY DEF TypeOK
    <3>3. output' \in Outputs
      BY <3>1, <3>2, NewWordIsWord DEF Outputs
    <3> QED BY <3>1, <3>3, NewWordIsWord DEF TypeOK
  <2>3. CASE UNCHANGED vars
    BY <2>3 DEF vars, TypeOK
  <2> QED BY <2>1, <2>2, <2>3 DEF Next
<1> QED BY <1>1, <1>2, PTL DEF Spec

-----------------------------------------------------------------------------
\* The new word is zero, beside a newest word that is zero, only if the oldest
\* is zero: both xor-and-shift steps are one-to-one.
LEMMA NewWordZero ==
  ASSUME NEW s1 \in Word, NewWord(Zero, s1) = Zero
  PROVE  s1 = Zero
<1> USE SizesAssumption
<1> DEFINE t == Xor(s1, Shl(s1, ShiftA))
<1>1. t \in Word
  BY WordClosure
<1>2. Xor(Xor(Xor(t, Zero), Shr(t, ShiftB)), Zero) = Zero
  BY ZeroStaysZero DEF NewWord
<1> HIDE DEF t
<1>3. \A a \in Word : Xor(a, Zero) = a
  BY DEF Xor, Zero, Word
<1>4. Xor(t, Shr(t, ShiftB)) = Zero
  BY <1>1, <1>2, <1>3, WordClosure
<1>5. Xor(Zero, Shr(Zero, ShiftB)) = Zero
  BY ZeroStaysZero
<1>6. t = Zero
  BY <1>1, <1>4, <1>5, WordClosure, XorShrInjective
<1>7. Xor(Zero, Shl(Zero, ShiftA)) = Zero
  BY ZeroStaysZero
<1> QED BY <1>6, <1>7, WordClosure, XorShlInjective DEF t

\* A seeded register is never all zeros: two of the words it is seeded with
\* differ, and a call that left zeros everywhere would have found them there.
THEOREM NonZeroCorrect == Spec => []NeverAllZero
<1>1. Init => NeverAllZero
  BY DEF Init, NeverAllZero
<1>2. TypeOK /\ NeverAllZero /\ [Next]_vars => NeverAllZero'
  <2> SUFFICES ASSUME TypeOK, NeverAllZero, [Next]_vars PROVE NeverAllZero'
    OBVIOUS
  <2>1. ASSUME NEW seed \in Seeds, xorshift1024_seed(seed) PROVE NeverAllZero'
    <3>1. SplitMixWord(seed, 0) # SplitMixWord(seed, 1)
      BY WordsAssumption, SizesAssumption
    <3>2. s'[0] # s'[1] /\ 0 \in Index /\ 1 \in Index
      BY <2>1, <3>1, SizesAssumption DEF xorshift1024_seed, Index
    <3> QED BY <3>2 DEF NeverAllZero
  <2>2. CASE xorshift1024
    <3>1. PICK q \in Index :
             /\ q # p
             /\ s' = [s EXCEPT ![q] = NewWord(s[p], s[q])]
             /\ seeded' = seeded
      BY <2>2, CallFacts
    <3>2. SUFFICES ASSUME seeded, \A k \in Index : s'[k] = Zero
                   PROVE  FALSE
      BY <3>1 DEF NeverAllZero
    <3>3. \A k \in Index \ {q} : s[k] = Zero
      BY <3>1, <3>2 DEF TypeOK
    <3>4. s[p] = Zero /\ NewWord(s[p], s[q]) = Zero
      BY <3>1, <3>2, <3>3 DEF TypeOK
    <3>5. s[q] = Zero
      BY <3>4, NewWordZero DEF TypeOK
    <3> QED BY <3>2, <3>3, <3>5 DEF NeverAllZero
  <2>3. CASE UNCHANGED vars
    BY <2>3 DEF vars, NeverAllZero
  <2> QED BY <2>1, <2>2, <2>3 DEF Next
<1> QED BY <1>1, <1>2, TypeCorrect, PTL DEF Spec

-----------------------------------------------------------------------------
\* The places of the register, without remainders.
LEMMA PlaceIs ==
  ASSUME NEW q \in Index, NEW i \in Index
  PROVE  (q + 1 + i) % Size = IF q + 1 + i < Size THEN q + 1 + i ELSE q + 1 + i - Size
<1> DEFINE x == q + 1 + i
<1>1. x \in 0 .. (2 * Size - 1)
  BY SizesAssumption DEF Index
<1> HIDE DEF x
<1>2. x % Size = IF x < Size THEN x ELSE x - Size
  BY <1>1, Around
<1>3. q \in Nat /\ i \in Nat /\ Size \in Nat \ {0}
  BY SizesAssumption DEF Index
<1> QED BY <1>2, <1>3 DEF x

LEMMA RegisterIs ==
  ASSUME TypeOK
  PROVE  Register = [i \in Index |-> IF p + 1 + i < Size THEN s[p + 1 + i]
                                                        ELSE s[p + 1 + i - Size]]
<1>1. \A i \in Index : (p + 1 + i) % Size = IF p + 1 + i < Size THEN p + 1 + i
                                                                ELSE p + 1 + i - Size
  BY PlaceIs DEF TypeOK
<1> QED BY <1>1 DEF Register

LEMMA InitRefines == Init => SR!Init
<1> SUFFICES ASSUME Init PROVE SR!Init
  OBVIOUS
<1>1. TypeOK
  BY InitTypeOK
<1>2. Register \in [Index -> Word]
  <2>1. ASSUME NEW i \in Index
        PROVE  (IF p + 1 + i < Size THEN s[p + 1 + i] ELSE s[p + 1 + i - Size]) \in Word
    <3>1. CASE p + 1 + i < Size
      <4>1. p + 1 + i \in Index
        BY <1>1, <3>1, SizesAssumption DEF TypeOK, Index
      <4> QED BY <1>1, <3>1, <4>1 DEF TypeOK
    <3>2. CASE ~(p + 1 + i < Size)
      <4>1. p + 1 + i - Size \in Index
        BY <1>1, <3>2, SizesAssumption DEF TypeOK, Index
      <4> QED BY <1>1, <3>2, <4>1 DEF TypeOK
    <3> QED BY <3>1, <3>2
  <2> QED BY <1>1, <2>1, RegisterIs
<1> QED BY <1>1, <1>2 DEF SR!Init, SR!Index, Index, TypeOK, Outputs

LEMMA StepRefines == TypeOK /\ TypeOK' /\ [Next]_vars => [SR!Next]_(SR!vars)
<1> SUFFICES ASSUME TypeOK, TypeOK', [Next]_vars PROVE SR!Next \/ UNCHANGED SR!vars
  OBVIOUS
<1> USE SizesAssumption DEF Index
<1>1. ASSUME NEW seed \in Seeds, xorshift1024_seed(seed) PROVE SR!Seed
  <2>1. p' = 0 /\ s' = [k \in Index |-> SplitMixWord(seed, k)] /\ output' = output
    BY <1>1 DEF xorshift1024_seed
  <2>2. Register' = [i \in Index |-> s'[(p' + 1 + i) % Size]]
    BY DEF Register
  <2>3. ASSUME NEW i \in Index PROVE s'[(p' + 1 + i) % Size] = SplitMixWord(seed, (i + 1) % Size)
    <3>1. p' + 1 + i = i + 1 /\ i + 1 \in 0 .. (2 * Size - 1)
      BY <2>1
    <3>2. (i + 1) % Size \in Index
      BY <3>1, Around
    <3> QED BY <2>1, <3>1, <3>2
  <2>4. Register' = [i \in Index |-> SplitMixWord(seed, (i + 1) % Size)]
    BY <2>2, <2>3
  <2> QED BY <2>1, <2>4 DEF SR!Seed, SeededRegisters
<1>2. CASE xorshift1024
  <2>1. PICK q \in Index :
           /\ q = (IF p + 1 < Size THEN p + 1 ELSE 0)
           /\ q # p
           /\ p' = q
           /\ s' = [s EXCEPT ![q] = NewWord(s[p], s[q])]
           /\ output' = Output(s[p], s[q], NewWord(s[p], s[q]))
    BY <1>2, CallFacts
  <2> DEFINE new == NewWord(s[p], s[q])
  <2>2. p \in 0 .. (Size - 1) /\ s \in [0 .. (Size - 1) -> Word]
    BY DEF TypeOK
  <2>3. Register[Size - 1] = s[p]
    BY <2>2, RegisterIs
  <2>4. Register[0] = s[q]
    BY <2>1, <2>2, RegisterIs
  <2> HIDE DEF new
  <2>5. Register' = [i \in Index |-> IF q + 1 + i < Size THEN s'[q + 1 + i]
                                                       ELSE s'[q + 1 + i - Size]]
    <3>1. Register' = [i \in Index |-> s'[(q + 1 + i) % Size]]
      BY <2>1 DEF Register
    <3>2. \A i \in Index : (q + 1 + i) % Size = IF q + 1 + i < Size THEN q + 1 + i
                                                                    ELSE q + 1 + i - Size
      BY PlaceIs
    <3> QED BY <3>1, <3>2
  <2>6. s'[q] = new /\ \A k \in Index \ {q} : s'[k] = s[k]
    BY <2>1, <2>2 DEF new
  <2>7. ASSUME NEW i \in Index
        PROVE  (IF q + 1 + i < Size THEN s'[q + 1 + i] ELSE s'[q + 1 + i - Size])
                 = IF i = Size - 1 THEN new ELSE Register[i + 1]
    <3>1. CASE i = Size - 1
      <4>1. ~(q + 1 + i < Size) /\ q + 1 + i - Size = q
        BY <3>1
      <4> QED BY <2>6, <3>1, <4>1
    <3>2. CASE i # Size - 1
      <4>1. i + 1 \in Index
        BY <3>2
      <4>2. Register[i + 1] = IF p + 1 + (i + 1) < Size THEN s[p + 1 + (i + 1)]
                                                     ELSE s[p + 1 + (i + 1) - Size]
        BY <4>1, RegisterIs
      <4>3. CASE q = p + 1
        BY <2>2, <2>6, <3>2, <4>2, <4>3
      <4>4. CASE q = 0 /\ p = Size - 1
        BY <2>2, <2>6, <3>2, <4>2, <4>4
      <4> QED BY <2>1, <2>2, <4>3, <4>4
    <3> QED BY <3>1, <3>2
  <2>8. Register' = [i \in Index |-> IF i = Size - 1 THEN new ELSE Register[i + 1]]
    BY <2>5, <2>7
  <2> QED BY <2>1, <2>3, <2>4, <2>8 DEF SR!Next, SR!Generate, SR!Index, new
<1>3. CASE UNCHANGED vars
  BY <1>3 DEF vars, SR!vars, Register
<1> QED BY <1>1, <1>2, <1>3 DEF Next, SR!Next

\* The array and its pointer implement the shift register.
THEOREM RefinementCorrect == Spec => ImplementsShiftRegister
BY TypeCorrect, InitRefines, StepRefines, PTL
   DEF Spec, ImplementsShiftRegister, SR!Spec
=============================================================================
