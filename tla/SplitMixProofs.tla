--------------------------- MODULE SplitMixProofs ---------------------------
(***************************************************************************)
(* For every counter width, increment, finalizer and seed: the finalizer   *)
(* is one-to-one, successive calls and the stateless interface return the  *)
(* same words, and no word returns before the period ends.  So it is with  *)
(* the generators that splitmix64 seeds: those that add a step to a        *)
(* counter, and pcg, whose linear congruential sequence has a full period  *)
(* and whose outputs are rotations of its folded states.                   *)
(***************************************************************************)
EXTENDS SplitMix, StaffordMix, WeylSequence, Pcg, BitWordsProofs, SequenceTheorems

\* The finalizer of splitmix64_r loses nothing, whatever the shifts, as long as
\* its two constants are odd.
THEOREM FinalizerInjective ==
  ASSUME NEW y \in Word, NEW z \in Word, mix13(y) = mix13(z)
  PROVE  y = z
<1> DEFINE inner(w)  == Mul(Xor(w, Shr(w, Shift1)), Multiplier1)
           outer(w) == Mul(Xor(w, Shr(w, Shift2)), Multiplier2)
<1> USE ShiftsAssumption, MultipliersAssumption
<1>0. \A u, v \in Word : /\ Mul(u, Multiplier1) = Mul(v, Multiplier1) => u = v
                         /\ Mul(u, Multiplier2) = Mul(v, Multiplier2) => u = v
  <2>1. Multiplier1[0] = TRUE /\ Multiplier2[0] = TRUE
    BY WAssumption DEF Word, Bit
  <2> QED BY <2>1, MulOddInjective
<1>1. \A w : inner(w) \in Word /\ outer(w) \in Word
  BY WordClosure
<1>2. outer(inner(y)) = outer(inner(z))
  <2>1. Xor(outer(inner(y)), Shr(outer(inner(y)), Shift3))
          = Xor(outer(inner(z)), Shr(outer(inner(z)), Shift3))
    BY DEF mix13
  <2> HIDE DEF inner, outer
  <2> QED BY <1>1, <2>1, XorShrInjective
<1>3. inner(y) = inner(z)
  <2> HIDE DEF inner
  <2> DEFINE p == Xor(inner(y), Shr(inner(y), Shift2))
             q == Xor(inner(z), Shr(inner(z), Shift2))
  <2>1. p = q
    <3>1. p \in Word /\ q \in Word /\ Mul(p, Multiplier2) = Mul(q, Multiplier2)
      BY <1>2, WordClosure
    <3> HIDE DEF p, q, outer
    <3> QED BY <1>0, <3>1, Zenon
  <2> QED BY <1>1, <2>1, XorShrInjective
<1>4. Xor(y, Shr(y, Shift1)) = Xor(z, Shr(z, Shift1))
  <2> DEFINE p == Xor(y, Shr(y, Shift1))
             q == Xor(z, Shr(z, Shift1))
  <2>1. p \in Word /\ q \in Word /\ Mul(p, Multiplier1) = Mul(q, Multiplier1)
    BY <1>3, WordClosure
  <2>2. p = q
    <3> HIDE DEF p, q, inner, outer
    <3> QED BY <1>0, <2>1, Zenon
  <2> QED BY <2>2
<1> QED BY <1>4, XorShrInjective

\* What MixAssumption asks of Mix and ModulusAssumption of Modulus is true of the
\* finalizer on the numbers its words stand for: of splitmix64_r with words of 64
\* bits, and of splitmix63_r, which masks the counter and both products, with
\* words of 63.
THEOREM FinalizerMeetsAssumptions ==
  /\ \A y, z \in 0 .. (2^W - 1) :
       ToNat(mix13(FromNat(y))) = ToNat(mix13(FromNat(z))) => y = z
  /\ \A y \in 0 .. (2^W - 1) : ToNat(mix13(FromNat(y))) \in 0 .. (2^W - 1)
  /\ 2^W \in Nat \ {0} /\ \A d \in 2 .. 2^W : 2^W % d = 0 => d % 2 = 0
<1>1. \A w \in Word : mix13(w) \in Word
  BY WordClosure DEF mix13
<1>2. 2^W \in Nat \ {0} /\ \A a \in Word : ToNat(a) \in 0 .. (2^W - 1)
  BY ToNatFacts
<1>3. ASSUME NEW y \in 0 .. (2^W - 1)
      PROVE  FromNat(y) \in Word /\ ToNat(FromNat(y)) = y
  <2> DEFINE M == 2^W
  <2>1. y \in Nat /\ M \in Nat \ {0} /\ y \in 0 .. (M - 1)
    BY <1>2
  <2>2. FromNat(y) \in Word /\ ToNat(FromNat(y)) = y % M
    BY <2>1, FromNatValue
  <2> HIDE DEF M
  <2>3. y = (M * 0) + y
    BY <2>1
  <2>4. ((M * 0) + y) % M = y
    BY <2>1, ModUnique
  <2> QED BY <2>2, <2>3, <2>4
<1>4. ASSUME NEW y \in 0 .. (2^W - 1), NEW z \in 0 .. (2^W - 1),
             ToNat(mix13(FromNat(y))) = ToNat(mix13(FromNat(z)))
      PROVE  y = z
  <2>1. FromNat(y) \in Word /\ FromNat(z) \in Word
    BY <1>3
  <2>2. mix13(FromNat(y)) = mix13(FromNat(z))
    BY <1>1, <1>4, <2>1, ToNatFacts
  <2>3. FromNat(y) = FromNat(z)
    BY <2>1, <2>2, FinalizerInjective
  <2> QED BY <1>3, <2>3
<1>5. \A d \in 2 .. 2^W : 2^W % d = 0 => d % 2 = 0
  BY TwoPowerIsPowerOfTwo, WAssumption DEF PowerOfTwo
<1> QED BY <1>1, <1>2, <1>3, <1>4, <1>5

-----------------------------------------------------------------------------
\* Both headers finalize numbers below a power of two that divides Modulus.
LEMMA OutModulusFacts ==
  ASSUME NEW h \in Headers
  PROVE  /\ OutModulus(h) \in {Modulus, Modulus \div 2} /\ OutModulus(h) \in Nat \ {0}
         /\ \E k \in Nat \ {0} : Modulus = k * OutModulus(h)
         /\ PowerOfTwo(OutModulus(h))
<1>1. Modulus \in Nat \ {0, 1} /\ PowerOfTwo(Modulus)
  BY ModulusAssumption DEF PowerOfTwo
<1>2. CASE h # "splitmix63"
  <2>1. OutModulus(h) = Modulus
    BY <1>2 DEF OutModulus
  <2>2. \E k \in Nat \ {0} : Modulus = k * Modulus
    <3>1. 1 \in Nat \ {0} /\ Modulus = 1 * Modulus
      BY <1>1
    <3> QED BY <3>1
  <2> QED BY <1>1, <2>1, <2>2
<1>3. CASE h = "splitmix63"
  <2> DEFINE q == Modulus \div 2
  <2>1. OutModulus(h) = q
    BY <1>3 DEF OutModulus
  <2>2. Modulus % 2 = 0
    <3>1. Modulus \in 2 .. Modulus /\ Modulus % Modulus = 0
      BY <1>1
    <3> QED BY <3>1, ModulusAssumption
  <2>3. q \in Nat \ {0} /\ Modulus = 2 * q
    BY <1>1, <2>2
  <2> HIDE DEF q
  <2>4. ASSUME NEW d \in 2 .. q, q % d = 0 PROVE d % 2 = 0
    <3>1. d \in Nat \ {0} /\ d \in Int /\ q \in Int
      BY <2>3
    <3>2. PICK e \in Int : q = d * e
      BY <2>4, <3>1, DivMod
    <3>3. Modulus = (d * (2 * e)) + 0 /\ 2 * e \in Int
      BY <2>3, <3>1, <3>2
    <3>4. Modulus % d = 0
      BY <3>1, <3>3, ModUnique
    <3> QED BY <2>3, <3>4, ModulusAssumption
  <2>5. PowerOfTwo(q)
    BY <2>3, <2>4 DEF PowerOfTwo
  <2>6. \E k \in Nat \ {0} : Modulus = k * q
    <3>1. 2 \in Nat \ {0}
      OBVIOUS
    <3> QED BY <2>3, <3>1
  <2>7. q \in {Modulus, Modulus \div 2}
    BY DEF q
  <2> QED BY <2>1, <2>3, <2>5, <2>6, <2>7
<1> QED BY <1>2, <1>3

\* The counter after n calls that started from s.
Counter(s, n) == (s + (n * GOLDEN_GAMMA)) % Modulus

\* One call moves the counter from Counter(s, n) to Counter(s, n + 1).
LEMMA AdvanceCounter ==
  ASSUME NEW s \in Nat, NEW n \in Nat
  PROVE  /\ Counter(s, n) \in 0 .. (Modulus - 1)
         /\ Advance(Counter(s, n)) = Counter(s, n + 1)
<1> USE ModulusAssumption, GammaAssumption
<1>1. n * GOLDEN_GAMMA \in Nat /\ (n + 1) * GOLDEN_GAMMA = (n * GOLDEN_GAMMA) + GOLDEN_GAMMA
  OBVIOUS
<1> DEFINE a == s + (n * GOLDEN_GAMMA)
<1>2. a \in Int /\ GOLDEN_GAMMA \in Int /\ s + ((n + 1) * GOLDEN_GAMMA) = a + GOLDEN_GAMMA
  BY <1>1
<1>3. Counter(s, n) = a % Modulus /\ Counter(s, n + 1) = (a + GOLDEN_GAMMA) % Modulus
  BY <1>2 DEF Counter
<1> HIDE DEF a
<1>4. ((a % Modulus) + GOLDEN_GAMMA) % Modulus = (a + GOLDEN_GAMMA) % Modulus
  BY <1>2, ModAdd
<1>5. a % Modulus \in 0 .. (Modulus - 1)
  BY <1>2, DivMod
<1> QED BY <1>3, <1>4, <1>5 DEF Advance

\* splitmix64_stateless(s, n) finalizes the counter the (n+1)-th call moves to.
LEMMA StatelessCounter ==
  ASSUME NEW h \in Headers, NEW s \in Nat, NEW n \in Nat
  PROVE  splitmix64_stateless(h, s, n) = Finalize(h, Counter(s, n + 1))
<1> DEFINE p == n * GOLDEN_GAMMA
<1>1. p \in Int /\ s \in Int
  BY GammaAssumption, ModulusAssumption
<1>2. Counter(s, n) = (s + p) % Modulus
  BY DEF Counter
<1> HIDE DEF p
<1>3. (s + (p % Modulus)) % Modulus = (s + p) % Modulus
  <2>1. ((p % Modulus) + s) % Modulus = (p + s) % Modulus
    BY <1>1, ModAdd, ModulusAssumption
  <2>2. p % Modulus \in Int
    BY <1>1, DivMod, ModulusAssumption
  <2>3. s + (p % Modulus) = (p % Modulus) + s /\ s + p = p + s
    BY <1>1, <2>2
  <2> QED BY <2>1, <2>3
<1>4. splitmix64_stateless(h, s, n) = Finalize(h, Advance(Counter(s, n)))
  BY <1>2, <1>3 DEF splitmix64_stateless, p
<1> QED BY <1>4, AdvanceCounter

\* Counters fewer than OutModulus calls apart are finalized to different words.
LEMMA CountersFinalizeApart ==
  ASSUME NEW h \in Headers, NEW s \in Nat, NEW m \in Nat, NEW n \in Nat,
         m < n, n - m < OutModulus(h)
  PROVE  Finalize(h, Counter(s, m)) # Finalize(h, Counter(s, n))
<1> DEFINE M == OutModulus(h)
           a == s + (m * GOLDEN_GAMMA)
           b == s + (n * GOLDEN_GAMMA)
<1>0. M \in Nat \ {0} /\ Modulus \in Nat \ {0} /\ GOLDEN_GAMMA \in Nat
  <2>1. M \in Nat \ {0}
    BY OutModulusFacts, Zenon DEF M
  <2> QED BY <2>1, ModulusAssumption, GammaAssumption
<1>1. a \in Int /\ b \in Int /\ b - a = (n - m) * GOLDEN_GAMMA
  BY <1>0
<1>2. Counter(s, m) = a % Modulus /\ Counter(s, n) = b % Modulus
  BY DEF Counter
<1> HIDE DEF a, b, M
<1>3. PICK k \in Nat \ {0} : Modulus = k * M
  BY OutModulusFacts DEF M
<1>4. (a % Modulus) % M = a % M /\ (b % Modulus) % M = b % M
  <2>1. (a % (k * M)) % M = a % M
    BY <1>0, <1>1, ModOfMultiple
  <2>2. (b % (k * M)) % M = b % M
    BY <1>0, <1>1, ModOfMultiple
  <2> QED BY <1>3, <2>1, <2>2
<1>5. a % M \in 0 .. (M - 1) /\ b % M \in 0 .. (M - 1)
  BY <1>0, <1>1, DivMod
<1>6. a % M # b % M
  <2> SUFFICES ASSUME a % M = b % M PROVE FALSE
    OBVIOUS
  <2>1. ((n - m) * GOLDEN_GAMMA) % M = 0
    <3>1. (b - a) % M = 0
      BY <1>0, <1>1, ModDifference, Zenon
    <3> QED BY <1>1, <3>1
  <2>2. n - m \in 1 .. (M - 1)
    BY <1>0 DEF M
  <2>3. PowerOfTwo(M) /\ GOLDEN_GAMMA % 2 = 1
    BY OutModulusFacts, GammaAssumption DEF M
  <2> QED BY <1>0, <2>1, <2>2, <2>3, OddMultiples
<1>7. Mix(M, a % M) # Mix(M, b % M)
  BY <1>5, <1>6, OutModulusFacts, MixAssumption DEF M
<1> QED BY <1>2, <1>4, <1>7 DEF Finalize, M

-----------------------------------------------------------------------------
\* The inductive invariant: the counter is a function of the seed and of the
\* number of calls made, and so is every output.
IInv == /\ TypeOK
        /\ splitmix64_x = Counter(seed, Len(served))
        /\ StatelessIsNthCall

LEMMA InitIInv == Init => IInv
<1> SUFFICES ASSUME Init PROVE IInv
  OBVIOUS
<1> USE ModulusAssumption, GammaAssumption DEF Init
<1>1. TypeOK
  BY DEF TypeOK
<1>2. Counter(0, 0) = 0
  BY DEF Counter
<1>3. StatelessIsNthCall
  BY DEF StatelessIsNthCall
<1> QED BY <1>1, <1>2, <1>3 DEF IInv

LEMMA SeedIInv ==
  ASSUME IInv, NEW s \in Seeds, splitmix64_seed(s)
  PROVE  IInv'
<1> USE ModulusAssumption, GammaAssumption, SeedsAssumption DEF splitmix64_seed
<1>1. TypeOK'
  BY DEF IInv, TypeOK
<1>2. (splitmix64_x = Counter(seed, Len(served)))'
  <2>1. Counter(s, 0) = s
    <3>1. s \in 0 .. (Modulus - 1) /\ s + (0 * GOLDEN_GAMMA) = (Modulus * 0) + s
      OBVIOUS
    <3> QED BY <3>1, ModUnique DEF Counter
  <2> QED BY <2>1
<1>3. StatelessIsNthCall'
  BY DEF StatelessIsNthCall
<1> QED BY <1>1, <1>2, <1>3 DEF IInv

LEMMA CallIInv ==
  ASSUME IInv, splitmix64
  PROVE  IInv'
<1> USE ModulusAssumption, GammaAssumption
<1> DEFINE n == Len(served)
           y == Finalize(header, splitmix64_x')
           M == OutModulus(header)
<1>1. /\ seed \in Nat /\ n \in Nat /\ header \in Headers
      /\ served \in Seq({Mix(M, v) : v \in 0 .. (M - 1)})
  BY DEF IInv, TypeOK
<1>2. splitmix64_x' = Counter(seed, n + 1)
  BY <1>1, AdvanceCounter DEF IInv, splitmix64
<1>3. splitmix64_x' \in 0 .. (Modulus - 1)
  BY <1>1, <1>2, AdvanceCounter
<1>4. y \in {Mix(M, v) : v \in 0 .. (M - 1)}
  <2>1. \A v \in Int : v % M \in 0 .. (M - 1)
    BY <1>1, OutModulusFacts, DivMod
  <2>2. splitmix64_x' \in Int
    BY <1>3
  <2> QED BY <2>1, <2>2 DEF Finalize
<1>5. /\ served' = Append(served, y)
      /\ Len(served') = n + 1
      /\ served'[n + 1] = y
      /\ \A i \in 1 .. n : served'[i] = served[i]
  BY <1>1, <1>4 DEF splitmix64
<1>6. TypeOK'
  <2>1. header' = header /\ seed' = seed /\ seed \in 0 .. (Modulus - 1)
    BY DEF splitmix64, IInv, TypeOK
  <2>2. served' \in Seq({Mix(M, v) : v \in 0 .. (M - 1)})
    BY ONLY <1>1, <1>4, <1>5
  <2> HIDE DEF y, n
  <2> QED BY <1>1, <1>3, <2>1, <2>2 DEF TypeOK, OutModulus
<1>7. (splitmix64_x = Counter(seed, Len(served)))'
  BY <1>2, <1>5 DEF splitmix64
<1>8. StatelessIsNthCall'
  <2> SUFFICES ASSUME NEW i \in 1 .. (n + 1)
               PROVE  served'[i] = splitmix64_stateless(header, seed, i - 1)
    BY <1>5 DEF StatelessIsNthCall, splitmix64
  <2>1. CASE i = n + 1
    <3>1. splitmix64_stateless(header, seed, n) = y
      BY <1>1, <1>2, StatelessCounter
    <3> QED BY <1>1, <1>5, <2>1, <3>1
  <2>2. CASE i # n + 1
    BY <1>1, <1>5, <2>2 DEF IInv, StatelessIsNthCall
  <2> QED BY <2>1, <2>2
<1> QED BY <1>6, <1>7, <1>8 DEF IInv

LEMMA IInvImplies == IInv => NoRepeatWithinPeriod
<1> SUFFICES ASSUME IInv,
                    NEW m \in 1 .. Len(served), NEW n \in 1 .. Len(served),
                    m < n, n - m < OutModulus(header)
             PROVE  served[m] # served[n]
  BY DEF NoRepeatWithinPeriod
<1>1. header \in Headers /\ seed \in Nat /\ Len(served) \in Nat
  BY ModulusAssumption DEF IInv, TypeOK
<1>2. m \in Nat /\ n \in Nat /\ m - 1 \in Nat /\ n - 1 \in Nat
  BY <1>1
<1>3. \A i \in 1 .. Len(served) : served[i] = Finalize(header, Counter(seed, i))
  <2> TAKE i \in 1 .. Len(served)
  <2>1. served[i] = splitmix64_stateless(header, seed, i - 1)
    BY DEF IInv, StatelessIsNthCall
  <2>2. i - 1 \in Nat /\ (i - 1) + 1 = i
    BY <1>1
  <2>3. splitmix64_stateless(header, seed, i - 1) = Finalize(header, Counter(seed, (i - 1) + 1))
    BY <1>1, <2>2, StatelessCounter
  <2> QED BY <2>1, <2>2, <2>3
<1> QED BY <1>1, <1>2, <1>3, CountersFinalizeApart

LEMMA StepIInv == IInv /\ [Next]_vars => IInv'
<1> SUFFICES ASSUME IInv, [Next]_vars PROVE IInv'
  OBVIOUS
<1>1. CASE \E s \in Seeds : splitmix64_seed(s)
  BY <1>1, SeedIInv
<1>2. CASE splitmix64
  BY <1>2, CallIInv
<1>3. CASE UNCHANGED vars
  BY <1>3 DEF IInv, TypeOK, StatelessIsNthCall, vars, splitmix64_stateless,
              Finalize, Advance, Counter
<1> QED BY <1>1, <1>2, <1>3 DEF Next

\* splitmix64 keeps its type.
THEOREM TypeCorrect == Spec => []TypeOK
<1>1. IInv => TypeOK
  BY DEF IInv
<1> QED BY <1>1, InitIInv, StepIInv, PTL DEF Spec

\* The n-th call after seeding returns splitmix64_stateless(seed, n - 1).
THEOREM StatelessCorrect == Spec => []StatelessIsNthCall
<1>1. IInv => StatelessIsNthCall
  BY DEF IInv
<1> QED BY <1>1, InitIInv, StepIInv, PTL DEF Spec

\* No output repeats until OutModulus calls later.
THEOREM PeriodCorrect == Spec => []NoRepeatWithinPeriod
BY InitIInv, StepIInv, IInvImplies, PTL DEF Spec

-----------------------------------------------------------------------------
\* WeylSequence: the word that moves by the same odd number at each call.

\* What it moves by.
WeylStep == IF generator = "wyhash64" THEN wyhash_c[1]
            ELSE IF generator = "wyrand" THEN wyrand_c[1]
            ELSE IF generator = "w1rand" THEN w1rand_c
            ELSE CG_s

\* The inductive invariant: since seeding, which made the step odd, the word is
\* the number of calls times the step away from where seeding left it.
WeylTypes == /\ generator \in WeylGenerators
             /\ calls \in Nat /\ CG_seedings \in Nat
             /\ CG_s \in Nat /\ CG_weyl \in 0 .. (Period - 1)

Grown == /\ WeylStep % 2 = 1
         /\ CG_first[3] \in 0 .. (Period - 1)
         /\ CG_weyl = (CG_first[3] + (calls * WeylStep)) % Period

WeylIInv == WeylTypes /\ (CG_seedings > 0 => Grown)

LEMMA PeriodFacts ==
  /\ Narrow \in Nat \ {0} /\ Wide \in Nat \ {0} /\ Narrow <= Wide
  /\ PowerOfTwo(Narrow) /\ PowerOfTwo(Wide)
  /\ Half \in Nat /\ Half % 2 = 0 /\ Narrow % 2 = 0
<1>1. Quarter \in Nat /\ Quarter >= 2
  BY PowersOfTwoAssumption
<1>2. Half \in Nat /\ Half >= 2
  BY <1>1 DEF Half
<1>3. Narrow \in Nat /\ Narrow >= 2 /\ Narrow >= Half
  <2> HIDE DEF Half
  <2> QED BY <1>2 DEF Narrow
<1>4. Wide \in Nat /\ Wide >= 2 /\ Narrow <= Wide
  <2> HIDE DEF Narrow
  <2> QED BY <1>3 DEF Wide
<1>5. /\ \A d \in 2 .. Narrow : Narrow % d = 0 => d % 2 = 0
      /\ \A d \in 2 .. Wide : Wide % d = 0 => d % 2 = 0
  BY PowersOfTwoAssumption
<1> HIDE DEF Half, Narrow, Wide
<1>6. PowerOfTwo(Narrow) /\ PowerOfTwo(Wide)
  BY <1>3, <1>4, <1>5 DEF PowerOfTwo
<1>7. Narrow % Half = 0 /\ Narrow % Narrow = 0
  <2>1. Narrow = Half * Half /\ Narrow = Narrow * 1
    BY <1>3 DEF Narrow
  <2> QED BY <1>2, <1>3, <2>1, ModMultiple
<1>8. Half % 2 = 0 /\ Narrow % 2 = 0
  <2>1. Half \in 2 .. Narrow /\ Narrow \in 2 .. Narrow
    BY <1>2, <1>3
  <2> QED BY <1>5, <1>7, <2>1, Zenon
<1> QED BY <1>2, <1>3, <1>4, <1>6, <1>8

\* n | 1 is odd, and a multiple of an even number added to it changes nothing.
LEMMA OddIsOdd ==
  ASSUME NEW n \in Nat
  PROVE  /\ Odd(n) \in Nat /\ Odd(n) % 2 = 1
         /\ \A k, e \in Nat : e % 2 = 0 => (k * e) + Odd(n) \in Nat /\ ((k * e) + Odd(n)) % 2 = 1
<1>1. Odd(n) \in Nat /\ Odd(n) % 2 = 1
  BY DEF Odd
<1> HIDE DEF Odd
<1>2. ASSUME NEW k \in Nat, NEW e \in Nat, e % 2 = 0
      PROVE  (k * e) + Odd(n) \in Nat /\ ((k * e) + Odd(n)) % 2 = 1
  <2>1. PICK f \in Int : e = 2 * f
    BY <1>2, ModMultiple
  <2>2. k * e = 2 * (k * f) /\ k * f \in Int /\ k * e \in Nat
    BY <2>1
  <2> DEFINE g == k * f
             p == k * e
  <2>3. p = 2 * g /\ g \in Int /\ p \in Nat
    BY <2>2
  <2> HIDE DEF g, p
  <2>4. p + Odd(n) \in Nat /\ (p + Odd(n)) % 2 = 1
    BY <1>1, <2>3
  <2> QED BY <2>4 DEF p
<1> QED BY <1>1, <1>2

LEMMA InitWeylIInv == weyl_init => WeylIInv
BY PeriodFacts DEF weyl_init, CG_zero, WeylIInv, WeylTypes, Period

\* What a seeding must bring about.
LEMMA SeededWeylIInv ==
  ASSUME WeylIInv, calls' = 0, CG_seedings' = CG_seedings + 1, UNCHANGED generator,
         CG_first' = <<CG_x', CG_k', CG_weyl'>>,
         CG_weyl' \in 0 .. (Period - 1), CG_s' \in Nat, WeylStep' % 2 = 1, WeylStep' \in Nat
  PROVE  WeylIInv'
<1>1. Period' = Period /\ Period \in Nat \ {0}
  BY PeriodFacts DEF Period
<1>2. WeylTypes'
  BY <1>1 DEF WeylIInv, WeylTypes
<1>3. CG_first[3]' = CG_weyl'
  OBVIOUS
<1>4. (CG_weyl' + (0 * WeylStep')) % Period = CG_weyl'
  <2>1. \A p \in Nat \ {0} : \A x \in 0 .. (p - 1), y \in Nat : (x + (0 * y)) % p = x
    <3> TAKE p \in Nat \ {0}
    <3> TAKE x \in 0 .. (p - 1), y \in Nat
    <3>1. x + (0 * y) = (p * 0) + x
      OBVIOUS
    <3> QED BY <3>1, ModUnique
  <2> QED BY <1>1, <2>1, Zenon
<1>5. Grown'
  BY <1>1, <1>3, <1>4 DEF Grown
<1> QED BY <1>2, <1>5 DEF WeylIInv

LEMMA SeedWeylIInv ==
  ASSUME WeylIInv, NEW s \in WeylSeeds, WeylSeed(s)
  PROVE  WeylIInv'
<1>1. /\ s \in Nat /\ s \in 0 .. (Narrow - 1)
      /\ \A n \in 0 .. 2 : SeedWord(s, n) \in Nat /\ SeedWord63(s, n) \in Nat
      /\ \A n \in 0 .. 2 : (2 * SeedWord63(s, n)) % Narrow \in Nat
  <2>1. \A n \in 0 .. 2 : SeedWord(s, n) \in Nat /\ SeedWord63(s, n) \in Nat
    BY SeedWordsAssumption
  <2>2. \A x \in Nat : (2 * x) % Narrow \in Nat
    BY PeriodFacts, DivMod
  <2> QED BY <2>1, <2>2, PeriodFacts, SeedWordsAssumption
<1>2. /\ CG_weyl \in 0 .. (Period - 1) /\ CG_s \in Nat
      /\ Period \in Nat \ {0} /\ Narrow <= Period
  BY PeriodFacts DEF WeylIInv, WeylTypes, Period
<1>3. \A c \in EitherOrder(s) : c \in Nat /\ c % 2 = 1
  <2>1. \A n \in {0, 1} :
          LET c == SeedWord(s, n) * Narrow + Odd(SeedWord(s, 1 - n))
          IN  c \in Nat /\ c % 2 = 1
    <3> TAKE n \in {0, 1}
    <3>1. SeedWord(s, n) \in Nat /\ SeedWord(s, 1 - n) \in Nat
      BY <1>1
    <3> QED BY <3>1, PeriodFacts, OddIsOdd
  <2> QED BY <2>1 DEF EitherOrder
<1>4. ASSUME generator \in {"CG64", "CG128", "CG128_64", "widynski"}, CG_s' % 2 = 1, CG_s' \in Nat,
             CG_weyl' \in {0, CG_weyl}, Seeded(generator)
      PROVE  WeylIInv'
  <2>1. WeylStep' = CG_s' /\ CG_weyl' \in 0 .. (Period - 1)
    BY <1>2, <1>4 DEF WeylStep, Seeded
  <2> QED BY <1>4, <2>1, SeededWeylIInv DEF Seeded
<1>5. CASE CG64_seed(s)
  <2>1. CG_s' % 2 = 1 /\ CG_s' \in Nat
    BY <1>1, <1>5, OddIsOdd DEF CG64_seed
  <2> QED BY <1>4, <1>5, <2>1 DEF CG64_seed, Seeded
<1>6. CASE CG128_seed(s)
  <2>1. CG_s' % 2 = 1 /\ CG_s' \in Nat
    BY <1>3, <1>6 DEF CG128_seed
  <2> QED BY <1>4, <1>6, <2>1 DEF CG128_seed, Seeded
<1>7. CASE CG128_64_seed(s)
  <2>1. CG_s' % 2 = 1 /\ CG_s' \in Nat
    BY <1>1, <1>7, OddIsOdd DEF CG128_64_seed
  <2> QED BY <1>4, <1>7, <2>1 DEF CG128_64_seed, Seeded
<1>8. CASE widynski_seed(s)
  <2>1. CG_s' % 2 = 1 /\ CG_s' \in Nat
    <3>1. Odd(s) \in Nat /\ Odd(s) % 2 = 1
      BY <1>1, OddIsOdd
    <3>2. (Odd(s) * Half) + Odd(s) \in Nat /\ ((Odd(s) * Half) + Odd(s)) % 2 = 1
      BY <1>1, <3>1, PeriodFacts, OddIsOdd
    <3>3. Odd(s) * Half \in Nat
      BY <3>1, PeriodFacts
    <3>4. Odd(s) + Odd(s) * Half = (Odd(s) * Half) + Odd(s)
      BY <3>1, <3>3
    <3> QED BY <1>8, <3>1, <3>2, <3>4 DEF widynski_seed
  <2> QED BY <1>4, <1>8, <2>1 DEF widynski_seed, Seeded
<1>9. CASE wy_seed(s)
  <2>1. CG_weyl' \in 0 .. (Period - 1) /\ CG_s' \in Nat
    BY <1>1, <1>2, <1>9, PeriodFacts DEF wy_seed
  <2>2. WeylStep' \in Nat /\ WeylStep' % 2 = 1
    BY <1>9, IncrementsAssumption DEF wy_seed, WeylStep, Seeded
  <2> QED BY <1>9, <2>1, <2>2, SeededWeylIInv DEF wy_seed, Seeded
<1> QED BY <1>5, <1>6, <1>7, <1>8, <1>9 DEF WeylSeed

LEMMA CallWeylIInv ==
  ASSUME WeylIInv, WeylCall
  PROVE  WeylIInv'
<1>1. /\ UNCHANGED <<generator, CG_s, CG_first, CG_seedings>> /\ calls' = calls + 1
      /\ CG_weyl' = (CG_weyl + WeylStep) % Period
  BY DEF WeylCall, CG64, CG128, CG128_64, widynski, wyhash64, wyrand, w1rand, Called,
         WeylStep, Period
<1>2. Period' = Period /\ Period \in Nat \ {0} /\ WeylStep' = WeylStep
  BY <1>1, PeriodFacts DEF Period, WeylStep
<1>3. WeylStep \in Nat
  BY IncrementsAssumption DEF WeylIInv, WeylTypes, WeylStep
<1>4. CG_weyl' \in 0 .. (Period - 1)
  BY <1>1, <1>2, <1>3, DivMod DEF WeylIInv, WeylTypes
<1>5. WeylTypes'
  BY <1>1, <1>2, <1>4 DEF WeylIInv, WeylTypes
<1>6. ASSUME Grown PROVE Grown'
  <2>1. /\ calls \in Nat /\ CG_first[3] \in Nat
        /\ CG_weyl = (CG_first[3] + (calls * WeylStep)) % Period
    BY <1>2, <1>6 DEF WeylIInv, WeylTypes, Grown
  <2> DEFINE a == CG_first[3] + (calls * WeylStep)
  <2>2. a \in Int /\ CG_first[3] + ((calls + 1) * WeylStep) = a + WeylStep
    BY <1>3, <2>1
  <2>3. CG_weyl = a % Period
    BY <2>1
  <2> HIDE DEF a
  <2>4. ((a % Period) + WeylStep) % Period = (a + WeylStep) % Period
    <3>1. \A x, y \in Int : ((x % Period) + y) % Period = (x + y) % Period
      BY <1>2, ModAdd
    <3>2. WeylStep \in Int
      BY <1>3
    <3> QED BY <2>2, <3>1, <3>2, Zenon
  <2>5. CG_weyl' = (CG_first[3] + ((calls + 1) * WeylStep)) % Period
    BY <1>1, <2>2, <2>3, <2>4
  <2> QED BY <1>1, <1>2, <1>6, <2>5 DEF Grown
<1> QED BY <1>1, <1>5, <1>6 DEF WeylIInv

LEMMA StepWeylIInv == WeylIInv /\ [weyl_next]_weyl_vars => WeylIInv'
<1>1. ASSUME WeylIInv, UNCHANGED weyl_vars PROVE WeylIInv'
  BY <1>1 DEF weyl_vars, CG_words, WeylIInv, WeylTypes, Grown, WeylStep, Period
<1> QED BY <1>1, SeedWeylIInv, CallWeylIInv DEF weyl_next

\* No seeded generator of WeylSequence is back at the words seeding left before
\* as many calls as its counting word has values, whatever the seed, the order
\* in which CG128 draws its two words, and what an earlier seeding left
\* (CG64.h:14, CG128.h:14, wyhash.h:5).
THEOREM WeylPeriodCorrect == weyl_spec => []NoEarlyReturn
<1>1. WeylIInv => NoEarlyReturn
  <2> SUFFICES ASSUME WeylIInv, CG_seedings > 0, calls \in 1 .. (Period - 1),
                      <<CG_x, CG_k, CG_weyl>> = CG_first
               PROVE  FALSE
    BY DEF NoEarlyReturn
  <2>1. Period \in Nat \ {0} /\ PowerOfTwo(Period)
    BY PeriodFacts DEF Period
  <2>2. WeylStep \in Nat /\ WeylStep % 2 = 1
    BY IncrementsAssumption DEF WeylIInv, WeylTypes, Grown, WeylStep
  <2>3. /\ CG_weyl = CG_first[3] /\ CG_weyl \in 0 .. (Period - 1)
        /\ CG_weyl = (CG_weyl + (calls * WeylStep)) % Period
    BY DEF WeylIInv, WeylTypes, Grown
  <2>4. calls * WeylStep \in Int
    BY <2>2
  <2> DEFINE p == calls * WeylStep
  <2> HIDE DEF p
  <2>5. CG_weyl % Period = CG_weyl
    <3>1. CG_weyl = (Period * 0) + CG_weyl
      BY <2>1, <2>3
    <3> QED BY <2>1, <2>3, <3>1, ModUnique
  <2>6. p % Period = 0
    <3>1. p \in Int /\ CG_weyl + p \in Int /\ (CG_weyl + p) - CG_weyl = p
      BY <2>3, <2>4 DEF p
    <3>2. CG_weyl % Period = (CG_weyl + p) % Period
      BY <2>3, <2>5 DEF p
    <3>3. ((CG_weyl + p) - CG_weyl) % Period = 0
      BY <2>1, <2>3, <3>1, <3>2, ModDifference
    <3> QED BY <3>1, <3>3
  <2> QED BY <2>1, <2>2, <2>6, OddMultiples DEF p
<1> QED BY <1>1, InitWeylIInv, StepWeylIInv, PTL DEF weyl_spec
-----------------------------------------------------------------------------
\* f sums the powers of a: f[n] == 1 + a + ... + a^(n-1).
Sums(f, n, a) == /\ f \in [0 .. n -> Nat]
                 /\ f[0] = 0
                 /\ \A i \in 0 .. (n - 1) : f[i + 1] = a * f[i] + 1

LEMMA SumsExtend ==
  ASSUME NEW a \in Nat, NEW n \in Nat, NEW f, Sums(f, n, a)
  PROVE  \E g : Sums(g, n + 1, a) /\ g[n + 1] = a * f[n] + 1
<1> DEFINE g == [i \in 0 .. (n + 1) |-> IF i <= n THEN f[i] ELSE a * f[n] + 1]
<1>1. a * f[n] + 1 \in Nat /\ f[n] \in Nat
  <2>1. f[n] \in Nat
    BY DEF Sums
  <2> QED BY <2>1
<1>2. g \in [0 .. (n + 1) -> Nat] /\ g[0] = 0 /\ g[n + 1] = a * f[n] + 1
  BY <1>1 DEF Sums
<1>3. ASSUME NEW i \in 0 .. n PROVE g[i + 1] = a * g[i] + 1
  <2>1. CASE i < n
    <3>1. g[i + 1] = f[i + 1] /\ g[i] = f[i]
      BY <2>1
    <3> QED BY <2>1, <3>1 DEF Sums
  <2>2. CASE i = n
    BY <2>2
  <2> QED BY <2>1, <2>2
<1> HIDE DEF g
<1>4. Sums(g, n + 1, a)
  <2>1. (n + 1) - 1 = n
    OBVIOUS
  <2> QED BY <1>2, <1>3, <2>1 DEF Sums
<1> QED BY <1>2, <1>4

\* The sum of m + j powers, from the sums of m and of j.
LEMMA SumsAdd ==
  ASSUME NEW a \in Nat \ {0}, NEW n \in Nat, NEW f, Sums(f, n, a), NEW m \in 0 .. n
  PROVE  \A j \in 0 .. (n - m) : f[m + j] = f[m] + f[j] * ((a - 1) * f[m] + 1)
<1> DEFINE c == (a - 1) * f[m] + 1
           S == {j \in 0 .. (n - m) : f[m + j] = f[m] + f[j] * c}
<1>1. f[m] \in Nat /\ \A i \in 0 .. n : f[i] \in Nat
  BY DEF Sums
<1>2. c \in Nat /\ f[m] * (a - 1) + 1 = c
  <2>1. \A x, y \in Nat : x * y \in Nat /\ x * y = y * x
    OBVIOUS
  <2>2. a - 1 \in Nat
    OBVIOUS
  <2> QED BY <1>1, <2>1, <2>2
<1> HIDE DEF c
<1>3. 0 \in S
  BY <1>1, <1>2 DEF Sums
<1>4. ASSUME NEW j \in 0 .. ((n - m) - 1), j \in S PROVE j + 1 \in S
  <2>1. f[j + 1] = a * f[j] + 1 /\ f[m + (j + 1)] = a * f[m + j] + 1
    <3>1. j \in 0 .. (n - 1) /\ m + j \in 0 .. (n - 1) /\ m + (j + 1) = (m + j) + 1
      OBVIOUS
    <3> QED BY <3>1 DEF Sums
  <2>2. f[m + j] = f[m] + f[j] * c
    BY <1>4
  <2>3. \A x, y, d \in Nat : a * (x + y * d) + 1 = x + (a * y + 1) * d <=> x * (a - 1) + 1 = d
    <3> SUFFICES ASSUME NEW x \in Nat, NEW y \in Nat, NEW d \in Nat
                 PROVE  a * (x + y * d) + 1 = x + (a * y + 1) * d <=> x * (a - 1) + 1 = d
      OBVIOUS
    <3>1. a * (x + y * d) = a * x + (a * y) * d /\ (a * y + 1) * d = (a * y) * d + d
      OBVIOUS
    <3>2. x * (a - 1) = a * x - x
      OBVIOUS
    <3> DEFINE p == a * x
               q == (a * y) * d
    <3>3. p \in Nat /\ q \in Nat
      OBVIOUS
    <3> HIDE DEF p, q
    <3> QED BY <3>1, <3>2, <3>3 DEF p, q
  <2>4. f[j] \in Nat /\ j + 1 \in 0 .. (n - m)
    BY <1>1
  <2> QED BY <1>1, <1>2, <2>1, <2>2, <2>3, <2>4
<1>5. \A j \in 0 .. (n - m) : j \in S
  <2> HIDE DEF S
  <2> QED BY <1>3, <1>4, UpTo
<1> QED BY <1>5 DEF c

\* With an odd a, as many odd terms as there are terms.
LEMMA SumsParity ==
  ASSUME NEW a \in Nat, a % 2 = 1, NEW n \in Nat, NEW f, Sums(f, n, a)
  PROVE  \A i \in 0 .. n : f[i] % 2 = i % 2
<1> DEFINE S == {i \in 0 .. n : f[i] % 2 = i % 2}
<1>1. 0 \in S
  BY DEF Sums
<1>2. ASSUME NEW i \in 0 .. (n - 1), i \in S PROVE i + 1 \in S
  <2>1. f[i] \in Nat /\ f[i + 1] = a * f[i] + 1 /\ f[i] % 2 = i % 2
    BY <1>2 DEF Sums
  <2>2. PICK b \in Nat : a = 2 * b + 1
    <3>1. a \div 2 \in Nat /\ a = 2 * (a \div 2) + 1
      OBVIOUS
    <3> QED BY <3>1
  <2>3. a * f[i] = 2 * (b * f[i]) + f[i]
    <3>1. \A x, y \in Nat : (2 * x + 1) * y = 2 * (x * y) + y
      OBVIOUS
    <3> QED BY <2>1, <2>2, <3>1
  <2> DEFINE q == b * f[i]
  <2>4. q \in Nat
    BY <2>1
  <2> HIDE DEF q
  <2>5. f[i + 1] = 2 * q + f[i] + 1
    BY <2>1, <2>3 DEF q
  <2>6. f[i + 1] % 2 = (i + 1) % 2
    BY <2>1, <2>4, <2>5
  <2> QED BY <2>6
<1>3. \A i \in 0 .. n : i \in S
  <2> HIDE DEF S
  <2> QED BY <1>1, <1>2, UpTo
<1> QED BY <1>3

LEMMA TwiceMod ==
  ASSUME NEW x \in Int, NEW m \in Nat \ {0}
  PROVE  (2 * x) % (2 * m) = 0 <=> x % m = 0
<1> DEFINE n == 2 * m
<1>1. n \in Nat \ {0} /\ 2 * x \in Int
  OBVIOUS
<1>2. ASSUME x % m = 0 PROVE (2 * x) % n = 0
  <2>1. PICK q \in Int : x = m * q
    BY <1>2, ModMultiple
  <2>2. 2 * x = n * q
    BY <2>1
  <2> HIDE DEF n
  <2>3. (n * q) % n = 0
    BY <1>1, <2>1, ModMultiple
  <2> QED BY <2>2, <2>3
<1>3. ASSUME (2 * x) % n = 0 PROVE x % m = 0
  <2>1. PICK q \in Int : 2 * x = n * q
    <3> HIDE DEF n
    <3> QED BY <1>1, <1>3, ModMultiple
  <2>2. x = m * q
    <3> DEFINE p == m * q
    <3>1. p \in Int /\ n * q = 2 * p
      OBVIOUS
    <3> HIDE DEF p, n
    <3>2. 2 * x = 2 * p
      BY <2>1, <3>1
    <3> QED BY <3>1, <3>2 DEF p
  <2>3. (m * q) % m = 0
    BY <2>1, ModMultiple
  <2> QED BY <2>2, <2>3
<1> QED BY <1>2, <1>3

\* A power of two that divides a product divides the even factor.
LEMMA OddFactor ==
  ASSUME NEW m, PowerOfTwo(m), NEW x \in Nat, NEW o \in Nat, o % 2 = 1, (x * o) % m = 0
  PROVE  x % m = 0
<1> SUFFICES ASSUME x % m # 0 PROVE FALSE
  OBVIOUS
<1> DEFINE d == x \div m
           n == x % m
<1>1. m \in Nat \ {0}
  BY DEF PowerOfTwo
<1>2. d \in Int /\ n \in 0 .. (m - 1) /\ x = (m * d) + n
  <2>1. x \in Int
    OBVIOUS
  <2> QED BY <1>1, <2>1, DivMod, Zenon
<1>3. n \in 1 .. (m - 1) /\ n \in Nat /\ n # 0
  BY <1>2
<1> HIDE DEF d, n
<1>4. x * o = (n * o) + (m * (d * o))
  <2>1. \A y, z, u, v \in Int : (y * z + u) * v = (u * v) + (y * (z * v))
    OBVIOUS
  <2> QED BY <1>1, <1>2, <2>1
<1>5. ((n * o) + (m * (d * o))) % m = (n * o) % m
  <2> DEFINE p == n * o
             q == d * o
  <2>1. p \in Int /\ q \in Int
    BY <1>2
  <2> HIDE DEF p, q
  <2>2. (p + (m * q)) % m = p % m
    BY <1>1, <2>1, ModShift
  <2> QED BY <2>2 DEF p, q
<1>6. (n * o) % m # 0
  BY <1>3, OddMultiples, Zenon
<1> QED BY <1>4, <1>5, <1>6

\* With an a of 1 modulo 4, what power of two divides the sum of n powers
\* divides n: an odd number of them is odd, and twice as many are twice the sum
\* times an odd number.
LEMMA SumsDivided ==
  ASSUME NEW a \in Nat, a % 4 = 1, NEW n \in Nat, NEW f, Sums(f, n, a),
         NEW i \in 1 .. n, NEW k \in Nat, f[i] % 2^k = 0
  PROVE  i % 2^k = 0
<1> DEFINE Bad == {j \in 1 .. n : \E l \in Nat : f[j] % 2^l = 0 /\ j % 2^l # 0}
<1> SUFFICES ASSUME Bad # {} PROVE FALSE
  OBVIOUS
<1>1. Bad \in SUBSET Nat
  OBVIOUS
<1>2. PICK m \in Bad : \A j \in Bad : m <= j
  <2> HIDE DEF Bad
  <2> QED BY <1>1, LeastNatural
<1>3. PICK l \in Nat : f[m] % 2^l = 0 /\ m % 2^l # 0
  BY <1>2
<1>4. m \in 1 .. n /\ m \in Nat
  BY <1>2
<1>5. l # 0
  <2>1. 2^0 = 1 /\ m % 1 = 0
    BY <1>4, TwoPowers
  <2> QED BY <1>3, <2>1
<1> DEFINE j == l - 1
           p == 2^j
<1>6. p \in Nat \ {0} /\ 2^l = 2 * p /\ j \in Nat
  <2>1. j \in Nat /\ j + 1 = l
    BY <1>5
  <2> HIDE DEF j
  <2> QED BY <2>1, TwoPowers
<1> HIDE DEF p, j
<1>7. a % 2 = 1 /\ a \in Nat \ {0}
  OBVIOUS
<1>8. f[m] \in Nat /\ f[m] % 2 = m % 2
  <2>1. m \in 0 .. n
    BY <1>4
  <2>2. f[m] % 2 = m % 2
    BY <1>7, <2>1, SumsParity
  <2> QED BY <2>1, <2>2 DEF Sums
<1>9. f[m] % 2 = 0
  <2> DEFINE q == 2 * p
  <2>1. q \in Nat \ {0} /\ f[m] % q = 0
    BY <1>3, <1>6
  <2> HIDE DEF q
  <2>2. PICK u \in Int : f[m] = q * u
    <3>1. f[m] \in Int
      BY <1>8
    <3> QED BY <2>1, <3>1, ModMultiple
  <2>3. f[m] = 2 * (p * u)
    <3>1. \A x, y \in Int : (2 * x) * y = 2 * (x * y)
      OBVIOUS
    <3> QED BY <1>6, <2>2, <3>1 DEF q
  <2> DEFINE v == p * u
  <2>4. v \in Int
    BY <1>6, <2>2
  <2> HIDE DEF v
  <2>5. f[m] = 2 * v
    BY <2>3 DEF v
  <2> QED BY <2>4, <2>5
<1> DEFINE h == m \div 2
<1>10. h \in 1 .. n /\ h \in Nat /\ m = 2 * h /\ h < m
  BY <1>4, <1>8, <1>9
<1> HIDE DEF h
<1>11. h \notin Bad
  BY <1>2, <1>10
<1>12. f[h] \in Nat
  BY <1>10, SMTT(30) DEF Sums
<1>13. PICK t \in Nat : a - 1 = 4 * t
  <2>1. a \div 4 \in Nat /\ a - 1 = 4 * (a \div 4)
    OBVIOUS
  <2> QED BY <2>1
<1> DEFINE o == 2 * (t * f[h]) + 1
<1>14. o \in Nat /\ o % 2 = 1
  <2> DEFINE w == t * f[h]
  <2>1. w \in Nat
    BY <1>12
  <2> HIDE DEF w
  <2> QED BY <2>1 DEF w
<1>15. f[m] = 2 * (f[h] * o)
  <2>1. f[h + h] = f[h] + f[h] * ((a - 1) * f[h] + 1)
    <3>1. h \in 0 .. n /\ h \in 0 .. (n - h)
      BY <1>4, <1>10
    <3> QED BY <1>7, <3>1, SumsAdd
  <2>2. \A x, y \in Nat : x + x * ((4 * y) * x + 1) = 2 * (x * (2 * (y * x) + 1))
    <3> SUFFICES ASSUME NEW x \in Nat, NEW y \in Nat
                 PROVE  x + x * ((4 * y) * x + 1) = 2 * (x * (2 * (y * x) + 1))
      OBVIOUS
    <3> DEFINE z == y * x
    <3>1. z \in Nat /\ (4 * y) * x = 4 * z
      OBVIOUS
    <3> HIDE DEF z
    <3>2. x * (4 * z + 1) = 4 * (x * z) + x /\ x * (2 * z + 1) = 2 * (x * z) + x
      BY <3>1
    <3> DEFINE g == x * z
    <3>3. g \in Nat
      BY <3>1
    <3> HIDE DEF g
    <3>4. x + (4 * g + x) = 2 * (2 * g + x)
      BY <3>3
    <3> QED BY <3>1, <3>2, <3>4 DEF z, g
  <2>3. h + h = m
    BY <1>10
  <2> QED BY <1>12, <1>13, <2>1, <2>2, <2>3
<1> HIDE DEF o
<1>16. (f[h] * o) % p = 0
  <2> DEFINE x == f[h] * o
  <2>1. x \in Int /\ (2 * x) % (2 * p) = 0
    BY <1>3, <1>6, <1>12, <1>14, <1>15
  <2> HIDE DEF x
  <2>2. x % p = 0
    BY <1>6, <2>1, TwiceMod
  <2> QED BY <2>2 DEF x
<1>17. f[h] % p = 0
  <2>1. PowerOfTwo(p)
    BY <1>6, TwoPowerIsPowerOfTwo DEF p
  <2> QED BY <1>12, <1>14, <1>16, <2>1, OddFactor
<1>18. h % p = 0
  BY <1>6, <1>10, <1>11, <1>17 DEF p
<1>19. (2 * h) % (2 * p) = 0
  <2>1. h \in Int
    BY <1>10
  <2> QED BY <1>6, <1>18, <2>1, TwiceMod, Zenon
<1> QED BY <1>3, <1>6, <1>10, <1>19

\* An affine step can be taken before or after a remainder.
LEMMA AffineMod ==
  ASSUME NEW x \in Int, NEW a \in Int, NEW c \in Int, NEW m \in Nat \ {0}
  PROVE  ((x % m) * a + c) % m = (x * a + c) % m
<1> DEFINE d == x \div m
           e == x % m
<1>1. d \in Int /\ e \in Int /\ x = (m * d) + e
  <2>1. e \in 0 .. (m - 1) /\ d \in Int /\ x = (m * d) + e
    BY DivMod
  <2> QED BY <2>1
<1> HIDE DEF d, e
<1> DEFINE p == e * a + c
           q == d * a
<1>2. x * a + c = p + (m * q)
  <2>1. \A y, z, u, v, w \in Int : (y * z + u) * v + w = (u * v + w) + (y * (z * v))
    OBVIOUS
  <2> QED BY <1>1, <2>1
<1>3. p \in Int /\ q \in Int
  BY <1>1
<1> HIDE DEF p, q
<1>4. (p + (m * q)) % m = p % m
  BY <1>3, ModShift
<1> QED BY <1>2, <1>4 DEF p, e

\* What a seeding hands over: words below the modulus, the second one odd.
LEMMA StateModulusFacts ==
  /\ StateModulus \in Nat \ {0} /\ PowerOfTwo(StateModulus)
  /\ \A n \in 0 .. (StateModulus - 1) : /\ MadeOdd(n) \in 0 .. (StateModulus - 1)
                                        /\ MadeOdd(n) % 2 = 1
<1> DEFINE j == 2 * OutBits - 1
           M == 2^(2 * OutBits)
<1>1. j \in Nat /\ j + 1 = 2 * OutBits /\ 2 * OutBits \in Nat
  BY BitsAssumption
<1> HIDE DEF j
<1>2. 2^j \in Nat \ {0} /\ M = 2 * 2^j /\ M \in Nat \ {0}
  BY <1>1, TwoPowers
<1>3. PowerOfTwo(M)
  BY <1>1, TwoPowerIsPowerOfTwo
<1> HIDE DEF M
<1>4. ASSUME NEW n \in 0 .. (M - 1)
      PROVE  n + 1 - (n % 2) \in 0 .. (M - 1) /\ (n + 1 - (n % 2)) % 2 = 1
  BY <1>2
<1> QED BY <1>2, <1>3, <1>4 DEF M, StateModulus, MadeOdd

\* The state is the affine step's power, applied to the state seeding left.
PcgIInv ==
  /\ state \in 0 .. (StateModulus - 1)
  /\ first \in 0 .. (StateModulus - 1)
  /\ inc \in 0 .. (StateModulus - 1)
  /\ inc # 0 => inc % 2 = 1
  /\ pcg_calls \in Nat
  /\ \E f : /\ Sums(f, pcg_calls, PcgMultiplier)
            /\ state = (first + f[pcg_calls] * ((PcgMultiplier - 1) * first + inc)) % StateModulus

\* A seeding starts a history of no calls.
LEMMA FreshIInv ==
  ASSUME state' \in 0 .. (StateModulus - 1), first' = state', pcg_calls' = 0,
         inc' \in 0 .. (StateModulus - 1), inc' # 0 => inc' % 2 = 1
  PROVE  PcgIInv'
<1> DEFINE f == [n \in 0 .. 0 |-> 0]
           D == (PcgMultiplier - 1) * state' + inc'
<1>1. Sums(f, 0, PcgMultiplier) /\ f[0] = 0
  BY DEF Sums
<1> HIDE DEF f
<1>2. D \in Int
  BY PcgMultiplierAssumption
<1> HIDE DEF D
<1>3. StateModulus \in Nat \ {0}
  BY StateModulusFacts
<1>4. state' = (state' + f[0] * D) % StateModulus
  <2>1. \A m \in Nat \ {0}, x \in Nat, d \in Int : x < m => x = (x + 0 * d) % m
    OBVIOUS
  <2>2. state' \in Nat /\ state' < StateModulus
    BY <1>3
  <2> QED BY <1>1, <1>2, <1>3, <2>1, <2>2
<1> QED BY <1>1, <1>4 DEF PcgIInv, D

LEMMA PcgSeedIInv ==
  ASSUME NEW s \in PcgSeeds, pcg32_seed(s) \/ pcg64_seed(s)
  PROVE  PcgIInv'
<1> DEFINE M == StateModulus
<1>1. M \in Nat \ {0}
  BY StateModulusFacts
<1>2. CASE pcg32_seed(s)
  <2>1. /\ Word32(s, 0) \in 0 .. (M - 1) /\ Word32(s, 1) \in 0 .. (M - 1)
    BY PcgWordsAssumption
  <2>2. state' = Word32(s, 0) /\ inc' = MadeOdd(Word32(s, 1)) /\ first' = state' /\ pcg_calls' = 0
    BY <1>2 DEF pcg32_seed, PcgSeeded
  <2> QED BY <2>1, <2>2, StateModulusFacts, FreshIInv
<1>3. CASE pcg64_seed(s)
  <2> DEFINE initstate == Word64(s, 0) * Out + Word64(s, 1)
             w == Word64(s, 2) * Out + Word64(s, 3)
             initseq == MadeOdd(w)
  <2>1. initstate \in Int /\ 2 * initseq \in Int
    <3>1. \A n \in 0 .. 3 : Word64(s, n) \in Int
      BY PcgWordsAssumption
    <3>2. Out \in Int
      BY BitsAssumption, TwoPowers DEF Out
    <3>3. initstate \in Int /\ w \in Int
      BY <3>1, <3>2
    <3> HIDE DEF initstate, w
    <3>4. w + 1 - (w % 2) \in Int
      BY <3>3
    <3> QED BY <3>3, <3>4 DEF MadeOdd
  <2>2. /\ inc' = MadeOdd((2 * initseq) % M)
        /\ state' = ((inc' + initstate) * PcgMultiplier + inc') % M
        /\ first' = state' /\ pcg_calls' = 0
    BY <1>3 DEF pcg64_seed, PcgSeeded
  <2> HIDE DEF initstate, initseq
  <2>3. (2 * initseq) % M \in 0 .. (M - 1)
    BY <1>1, <2>1, DivMod
  <2>4. inc' \in 0 .. (M - 1) /\ inc' % 2 = 1
    BY <2>2, <2>3, StateModulusFacts
  <2>5. (inc' + initstate) * PcgMultiplier + inc' \in Int
    BY <2>1, <2>4, PcgMultiplierAssumption
  <2>6. state' \in 0 .. (M - 1)
    <3> DEFINE x == (inc' + initstate) * PcgMultiplier + inc'
    <3>1. x \in Int /\ state' = x % M
      BY <2>2, <2>5
    <3> HIDE DEF x
    <3> QED BY <1>1, <3>1, DivMod
  <2> QED BY <2>2, <2>4, <2>6, FreshIInv
<1> QED BY <1>2, <1>3

LEMMA PcgCallIInv ==
  ASSUME PcgIInv, NEW outputs, PcgCalled(outputs)
  PROVE  PcgIInv'
<1> DEFINE a == PcgMultiplier
           M == StateModulus
           n == pcg_calls
           D == (a - 1) * first + inc
<1>1. /\ state' = (state * a + inc) % M /\ n' = n + 1
      /\ inc' = inc /\ first' = first
  BY DEF PcgCalled, pcg_step
<1>2. /\ state \in 0 .. (M - 1) /\ first \in 0 .. (M - 1) /\ inc \in 0 .. (M - 1)
      /\ (inc # 0 => inc % 2 = 1) /\ n \in Nat
  BY DEF PcgIInv
<1>3. M \in Nat \ {0} /\ a \in Nat \ {0}
  BY StateModulusFacts, PcgMultiplierAssumption
<1>4. PICK f : Sums(f, n, a) /\ state = (first + f[n] * D) % M
  BY DEF PcgIInv
<1>5. PICK g : Sums(g, n + 1, a) /\ g[n + 1] = a * f[n] + 1
  BY <1>2, <1>3, <1>4, SumsExtend
<1>6. f[n] \in Int /\ D \in Int
  <2>1. f[n] \in Int
    BY <1>2, <1>4 DEF Sums
  <2> QED BY <1>2, <1>3, <2>1
<1>7. (first + f[n] * D) * a + inc = first + (a * f[n] + 1) * D
  <2>1. \A x, y, z, b \in Int :
          (x + y * ((b - 1) * x + z)) * b + z = x + (b * y + 1) * ((b - 1) * x + z)
    <3> SUFFICES ASSUME NEW x \in Int, NEW y \in Int, NEW z \in Int, NEW b \in Int
                 PROVE  (x + y * ((b - 1) * x + z)) * b + z = x + (b * y + 1) * ((b - 1) * x + z)
      OBVIOUS
    <3> DEFINE d == (b - 1) * x + z
    <3>1. d \in Int /\ d + x = b * x + z
      OBVIOUS
    <3> HIDE DEF d
    <3>2. (x + y * d) * b = x * b + (b * y) * d /\ (b * y + 1) * d = (b * y) * d + d
      BY <3>1
    <3> DEFINE p == (b * y) * d
               q == x * b
    <3>3. p \in Int /\ q \in Int /\ b * x = q
      BY <3>1
    <3> HIDE DEF p, q
    <3>4. (q + p) + z = x + (p + d)
      BY <3>1, <3>3
    <3> QED BY <3>2, <3>4 DEF p, q, d
  <2> QED BY <1>2, <1>3, <1>6, <2>1
<1> HIDE DEF D
<1>8. state' = (first + g[n + 1] * D) % M
  <2> DEFINE x == first + f[n] * D
  <2>1. x \in Int
    BY <1>2, <1>6
  <2>2. state' = ((x % M) * a + inc) % M
    BY <1>1, <1>4
  <2>3. x * a + inc = first + g[n + 1] * D
    BY <1>5, <1>7
  <2> HIDE DEF x
  <2>4. ((x % M) * a + inc) % M = (x * a + inc) % M
    <3>1. a \in Int /\ inc \in Int
      BY <1>2, <1>3
    <3> QED BY <1>3, <2>1, <3>1, AffineMod, Zenon
  <2> QED BY <2>2, <2>3, <2>4
<1>9. /\ state' \in 0 .. (M - 1) /\ n' \in Nat
  <2> DEFINE x == state * a + inc
  <2>1. x \in Int
    BY <1>2, <1>3
  <2>2. state' = x % M
    BY <1>1
  <2> HIDE DEF x
  <2> QED BY <1>1, <1>2, <1>3, <2>1, <2>2, DivMod
<1>10. Sums(g, n', a) /\ state' = (first' + g[n'] * ((a - 1) * first' + inc')) % M
  BY <1>1, <1>5, <1>8 DEF D
<1> QED BY <1>1, <1>2, <1>9, <1>10 DEF PcgIInv

\* Back at the first state, the sum times an odd number would be a multiple of
\* the modulus, hence the sum, hence the number of calls.
LEMMA PcgIInvSuffices == PcgIInv => NoStateTwice
<1> SUFFICES ASSUME PcgIInv, inc # 0, pcg_calls \in 1 .. (StateModulus - 1), state = first
             PROVE  FALSE
  BY DEF NoStateTwice
<1> DEFINE a == PcgMultiplier
           M == StateModulus
           n == pcg_calls
           D == (a - 1) * first + inc
           k == 2 * OutBits
<1>1. /\ first \in 0 .. (M - 1) /\ inc \in 0 .. (M - 1) /\ inc % 2 = 1 /\ n \in Nat
      /\ n \in 1 .. (M - 1)
  BY DEF PcgIInv
<1>2. M \in Nat \ {0} /\ PowerOfTwo(M) /\ a \in Nat /\ a % 4 = 1 /\ k \in Nat /\ M = 2^k
  BY StateModulusFacts, PcgMultiplierAssumption, BitsAssumption DEF StateModulus
<1>3. PICK f : Sums(f, n, a) /\ first = (first + f[n] * D) % M
  BY DEF PcgIInv
<1>4. f[n] \in Nat
  BY <1>1, <1>3 DEF Sums
<1>5. D \in Nat /\ D % 2 = 1
  <2>1. PICK t \in Nat : a - 1 = 4 * t
    <3>1. a \div 4 \in Nat /\ a - 1 = 4 * (a \div 4)
      BY <1>2
    <3> QED BY <3>1
  <2>2. D = 2 * (2 * (t * first)) + inc
    <3>1. \A x, y \in Nat : (4 * x) * y = 2 * (2 * (x * y))
      OBVIOUS
    <3>2. first \in Nat
      BY <1>1
    <3> QED BY <2>1, <3>1, <3>2
  <2> DEFINE p == 2 * (t * first)
  <2>3. p \in Nat
    BY <1>1
  <2> HIDE DEF p
  <2>4. D = 2 * p + inc
    BY <2>2 DEF p
  <2> HIDE DEF D
  <2> QED BY <1>1, <2>3, <2>4
<1> HIDE DEF a, M, n, D, k
<1>6. (f[n] * D) % M = 0
  <2> DEFINE x == f[n] * D
  <2>1. x \in Int /\ first \in Int /\ first + x \in Int
    BY <1>1, <1>4, <1>5
  <2>2. first % M = first
    <3>1. ((M * 0) + first) % M = first /\ (M * 0) + first = first
      BY <1>1, <1>2, ModUnique
    <3> QED BY <3>1
  <2> HIDE DEF x
  <2>3. first % M = (first + x) % M
    BY <1>3, <2>2 DEF x
  <2>4. ((first + x) - first) % M = 0
    BY <1>2, <2>1, <2>3, ModDifference
  <2>5. (first + x) - first = x
    BY <2>1
  <2> QED BY <2>4, <2>5 DEF x
<1>7. f[n] % M = 0
  BY <1>2, <1>4, <1>5, <1>6, OddFactor
<1>8. n % M = 0
  <2>1. n \in 1 .. n
    BY <1>1
  <2>2. n % 2^k = 0
    BY <1>1, <1>2, <1>3, <1>7, <2>1, SumsDivided
  <2> QED BY <1>2, <2>2
<1>9. n % M = n
  <2>1. ((M * 0) + n) % M = n /\ (M * 0) + n = n
    BY <1>1, <1>2, ModUnique
  <2> QED BY <2>1
<1> QED BY <1>1, <1>8, <1>9

LEMMA PcgInvariant == pcg_spec => []PcgIInv
<1>1. pcg_init => PcgIInv
  <2> SUFFICES ASSUME pcg_init PROVE PcgIInv
    OBVIOUS
  <2> DEFINE f == [i \in 0 .. 0 |-> 0]
             D == (PcgMultiplier - 1) * 0 + 0
  <2>1. Sums(f, 0, PcgMultiplier) /\ f[0] = 0
    BY DEF Sums
  <2> HIDE DEF f
  <2>2. StateModulus \in Nat \ {0} /\ D = 0
    BY StateModulusFacts, PcgMultiplierAssumption
  <2>3. 0 = (0 + f[0] * D) % StateModulus
    BY <2>1, <2>2
  <2>4. state = 0 /\ first = 0 /\ inc = 0 /\ pcg_calls = 0
    BY DEF pcg_init
  <2>5. /\ Sums(f, pcg_calls, PcgMultiplier)
        /\ state = (first + f[pcg_calls] * ((PcgMultiplier - 1) * first + inc)) % StateModulus
    BY <2>1, <2>3, <2>4
  <2>6. 0 \in 0 .. (StateModulus - 1)
    BY <2>2
  <2> QED BY <2>4, <2>5, <2>6 DEF PcgIInv
<1>2. ASSUME PcgIInv, [pcg_next]_pcg_vars PROVE PcgIInv'
  <2>1. CASE \E s \in PcgSeeds : pcg32_seed(s) \/ pcg64_seed(s)
    BY <2>1, PcgSeedIInv
  <2>2. CASE pcg32 \/ pcg64
    BY <1>2, <2>2, PcgCallIInv DEF pcg32, pcg64
  <2>3. CASE UNCHANGED pcg_vars
    BY <1>2, <2>3 DEF pcg_vars, PcgIInv
  <2> QED BY <1>2, <2>1, <2>2, <2>3 DEF pcg_next
<1> QED BY <1>1, <1>2, PTL DEF pcg_spec

\* NoStateTwice for every number of bits, every multiplier of 1 modulo 4, and
\* whatever words of splitmix64 a seeding takes (pcg32.h:12).
THEOREM PcgPeriodCorrect == pcg_spec => []NoStateTwice
BY PcgInvariant, PcgIInvSuffices, PTL

-----------------------------------------------------------------------------
\* The bits of q * 2^n + a, for an a of n bits: those of a, and above them
\* those of q.
LEMMA LowBits ==
  \A n, q \in Nat : \A a \in 0 .. (2^n - 1) :
    \A i \in 0 .. (n - 1) : ((q * 2^n + a) \div 2^i) % 2 = (a \div 2^i) % 2
<1> TAKE n, q \in Nat
<1> TAKE a \in 0 .. (2^n - 1)
<1> TAKE i \in 0 .. (n - 1)
<1> DEFINE m == 2^n
<1>1. m \in Nat \ {0} /\ a \in Nat
  BY TwoPowers
<1>2. ((q * m + a) \div 2^i) % 2 = (a \div 2^i) % 2
  <2> DEFINE p == 2^i
             k == n - (i + 1)
             g == 2^k
             d == a \div p
             r == a % p
  <2>1. i \in Nat /\ k \in Nat /\ p \in Nat \ {0} /\ g \in Nat \ {0}
    <3>1. i \in Nat /\ k \in Nat
      OBVIOUS
    <3> HIDE DEF k
    <3> QED BY <3>1, TwoPowers
  <2>2. m = (2 * p) * g
    <3>1. i + 1 \in Nat /\ (i + 1) + k = n
      BY <2>1
    <3> HIDE DEF k
    <3>2. 2^((i + 1) + k) = 2^(i + 1) * 2^k /\ 2^(i + 1) = 2 * 2^i
      BY <2>1, <3>1, PowerSum, TwoPowers
    <3> QED BY <3>1, <3>2
  <2>3. d \in Int /\ r \in 0 .. (p - 1) /\ a = (p * d) + r
    <3> HIDE DEF p
    <3>1. a \in Int
      BY <1>1
    <3> QED BY <2>1, <3>1, DivMod, Zenon
  <2> HIDE DEF m, p, g, d, r, k
  <2> DEFINE h == q * g
  <2>4. h \in Nat
    BY <2>1
  <2>5. q * m + a = (p * (2 * h + d)) + r
    <3>1. \A x, y, z, u, v \in Int : x * ((2 * y) * z) + ((y * u) + v) = (y * (2 * (x * z) + u)) + v
      <4> SUFFICES ASSUME NEW x \in Int, NEW y \in Int, NEW z \in Int, NEW u \in Int, NEW v \in Int
                   PROVE  x * ((2 * y) * z) + ((y * u) + v) = (y * (2 * (x * z) + u)) + v
        OBVIOUS
      <4> DEFINE w == x * z
      <4>1. w \in Int /\ x * ((2 * y) * z) = 2 * (y * w)
        OBVIOUS
      <4> HIDE DEF w
      <4>2. y * (2 * w + u) = 2 * (y * w) + y * u
        BY <4>1
      <4> QED BY <4>1, <4>2 DEF w
    <3>2. p \in Int /\ g \in Int /\ r \in Int /\ q \in Int
      BY <2>1, <2>3
    <3> QED BY <2>2, <2>3, <3>1, <3>2
  <2> HIDE DEF h
  <2>6. (q * m + a) \div p = 2 * h + d
    <3>1. 2 * h + d \in Int
      BY <2>3, <2>4
    <3> DEFINE z == 2 * h + d
    <3> HIDE DEF z
    <3>2. ((p * z) + r) \div p = z
      BY <2>1, <2>3, <3>1, DivUnique DEF z
    <3> QED BY <2>5, <3>2 DEF z
  <2>7. (2 * h + d) % 2 = d % 2
    BY <2>3, <2>4
  <2> QED BY <2>6, <2>7 DEF p, d
<1> QED BY <1>2

LEMMA HighBits ==
  \A n, q \in Nat : \A a \in 0 .. (2^n - 1) :
    \A i \in Nat : (q * 2^n + a) \div 2^(n + i) = q \div 2^i
<1> TAKE n, q \in Nat
<1> TAKE a \in 0 .. (2^n - 1)
<1> TAKE i \in Nat
<1> DEFINE m == 2^n
<1>1. m \in Nat \ {0} /\ a \in Nat
  BY TwoPowers
<1>2. (q * m + a) \div 2^(n + i) = q \div 2^i
  <2> DEFINE p == 2^i
             d == q \div p
             r == q % p
  <2>1. p \in Nat \ {0} /\ 2^(n + i) = m * p
    <3>1. 2^(n + i) = 2^n * 2^i
      BY PowerSum
    <3>2. 2^i \in Nat \ {0}
      BY TwoPowers
    <3> QED BY <3>1, <3>2
  <2>2. d \in Int /\ r \in 0 .. (p - 1) /\ q = (p * d) + r
    <3> HIDE DEF p
    <3>1. q \in Int
      OBVIOUS
    <3> QED BY <2>1, <3>1, DivMod, Zenon
  <2> HIDE DEF m, p, d, r
  <2> DEFINE N == m * p
             e == r * m + a
  <2>3. q * m + a = (N * d) + e
    <3>1. \A x, y, z, u, v \in Int : ((x * y) + z) * u + v = ((u * x) * y) + (z * u + v)
      OBVIOUS
    <3> QED BY <1>1, <2>1, <2>2, <3>1
  <2>4. N \in Nat \ {0} /\ e \in 0 .. (N - 1)
    <3>1. \A x, y \in Nat \ {0}, u \in Nat : u < y => u * x <= x * y - x /\ u * x \in Nat /\ x * y \in Nat \ {0}
      <4> SUFFICES ASSUME NEW x \in Nat \ {0}, NEW y \in Nat \ {0}, NEW u \in Nat, u < y
                   PROVE  u * x <= x * y - x /\ u * x \in Nat /\ x * y \in Nat \ {0}
        OBVIOUS
      <4>1. u * x <= (y - 1) * x /\ (y - 1) * x = x * y - x
        OBVIOUS
      <4>2. u * x \in Nat /\ x * y \in Nat /\ x * y > 0
        OBVIOUS
      <4> QED BY <4>1, <4>2
    <3>2. r * m <= N - m /\ r * m \in Nat /\ N \in Nat \ {0}
      BY <1>1, <2>1, <2>2, <3>1
    <3> DEFINE w == r * m
    <3> HIDE DEF w, N
    <3>3. w <= N - m /\ w \in Nat /\ N \in Nat \ {0} /\ a < m
      BY <3>2, <1>1 DEF w, m
    <3>4. w + a \in 0 .. (N - 1)
      BY <1>1, <3>3
    <3> QED BY <3>3, <3>4 DEF w
  <2> HIDE DEF N, e
  <2>5. ((N * d) + e) \div N = d
    BY <2>2, <2>4, DivUnique
  <2> QED BY <2>1, <2>3, <2>5 DEF N, d, p
<1> QED BY <1>2

\* What is left and what is shifted in have no bit in common.
LEMMA Rotation ==
  ASSUME NEW v \in 0 .. (Out - 1), NEW rot \in 0 .. OutBits, NEW result \in pcg_rotr(v, rot)
  PROVE  RotatesRight(v, rot, result)
<1> DEFINE p == 2^rot
           k == OutBits - rot
           g == 2^k
           A == v \div p
           B == v % p
<1>1. OutBits \in Nat \ {0} /\ rot \in Nat /\ k \in Nat /\ k \in 0 .. OutBits
  BY BitsAssumption
<1>2. p \in Nat \ {0} /\ g \in Nat \ {0} /\ Out = g * p /\ Out \in Nat \ {0}
  <2>1. k + rot = OutBits
    BY <1>1
  <2> HIDE DEF k
  <2>2. 2^(k + rot) = 2^k * 2^rot
    BY <1>1, PowerSum
  <2>3. 2^rot \in Nat \ {0} /\ 2^k \in Nat \ {0} /\ 2^OutBits \in Nat \ {0}
    BY <1>1, TwoPowers
  <2> QED BY <2>1, <2>2, <2>3 DEF Out
<1>3. v \in Nat /\ v < Out
  BY <1>2
<1>4. A \in Nat /\ B \in 0 .. (p - 1) /\ v = A * p + B
  <2>1. A \in Int /\ B \in 0 .. (p - 1) /\ v = (p * A) + B
    <3> HIDE DEF p
    <3>1. v \in Int
      BY <1>3
    <3> QED BY <1>2, <3>1, DivMod, Zenon
  <2>2. A \in Nat
    <3> HIDE DEF p
    <3> QED BY <1>2, <1>3
  <2> HIDE DEF A, B, p
  <2> QED BY <1>2, <2>1, <2>2
<1> HIDE DEF A, B
<1>5. A < g
  <2> SUFFICES ASSUME A >= g PROVE FALSE
    BY <1>2, <1>4
  <2>1. \A x, y, z \in Nat : x >= y => x * z >= y * z /\ x * z \in Nat /\ y * z \in Nat
    OBVIOUS
  <2> HIDE DEF p, g
  <2>2. A * p >= g * p /\ A * p \in Nat
    BY <1>2, <1>4, <2>1
  <2> DEFINE x == A * p
  <2> HIDE DEF x
  <2>3. x >= Out /\ x \in Nat /\ v = x + B
    BY <1>2, <1>4, <2>2 DEF x
  <2>4. B \in Nat
    BY <1>2, <1>4
  <2>5. v = x + B => v >= x
    BY <2>3, <2>4
  <2> QED BY ONLY <1>2, <1>3, <2>3, <2>5
<1>6. (v * g) % Out = B * g
  <2> HIDE DEF p, g
  <2>1. v * g = (Out * A) + B * g
    <3>1. \A x, y, z, u \in Int : (x * y + z) * u = ((u * y) * x) + z * u
      OBVIOUS
    <3> QED BY <1>2, <1>4, <3>1
  <2>2. B * g \in 0 .. (Out - 1)
    <3>1. \A x, y \in Nat \ {0}, u \in Nat : u < y => u * x <= x * y - x /\ u * x \in Nat /\ x * y \in Nat
      <4> SUFFICES ASSUME NEW x \in Nat \ {0}, NEW y \in Nat \ {0}, NEW u \in Nat, u < y
                   PROVE  u * x <= x * y - x /\ u * x \in Nat /\ x * y \in Nat
        OBVIOUS
      <4>1. u * x <= (y - 1) * x /\ (y - 1) * x = x * y - x
        OBVIOUS
      <4>2. u * x \in Nat /\ x * y \in Nat
        OBVIOUS
      <4> QED BY <4>1, <4>2
    <3>2. B * g <= g * p - g /\ B * g \in Nat /\ g * p \in Nat
      BY <1>2, <1>4, <3>1
    <3> DEFINE x == B * g
    <3> HIDE DEF x
    <3>3. x <= Out - g /\ x \in Nat
      BY <1>2, <3>2 DEF x
    <3>4. x \in 0 .. (Out - 1)
      BY <1>2, <3>3
    <3> QED BY <3>4 DEF x
  <2> DEFINE x == B * g
  <2> HIDE DEF x
  <2>3. ((Out * A) + x) % Out = x
    <3>1. A \in Int /\ x \in 0 .. (Out - 1)
      BY <1>4, <2>2 DEF x
    <3> QED BY <1>2, <3>1, ModUnique, Zenon
  <2> QED BY <2>1, <2>3 DEF x
<1>7. result = B * g + A
  <2>1. CASE rot # 0
    <3>1. result = or(A, B * g)
      BY <1>6, <2>1 DEF pcg_rotr, Shifted, A
    <3>2. pcg_xor(A, B * g) = A + B * g
      <4>1. k \in 0 .. OutBits /\ A \in 0 .. (2^k - 1) /\ B \in 0 .. (2^(OutBits - k) - 1)
        <5>1. OutBits - k = rot
          BY <1>1
        <5>2. A \in 0 .. (g - 1)
          BY <1>2, <1>4, <1>5
        <5> QED BY <1>1, <1>4, <5>1, <5>2
      <4> HIDE DEF k
      <4> QED BY <4>1, XorAssumption
    <3> DEFINE x == B * g
    <3>3. x \in Nat
      BY <1>2, <1>4
    <3> HIDE DEF x
    <3>4. (A + x + (A + x)) \div 2 = x + A
      BY <1>4, <3>3
    <3> QED BY <3>1, <3>2, <3>4 DEF or, x
  <2>2. CASE rot = 0
    <3>1. p = 1 /\ B = 0 /\ A = v
      <4>1. p = 1
        BY <2>2, TwoPowers, <1>1
      <4> QED BY <1>3, <1>4, <4>1
    <3>2. result \in {or(v, v), or(v, 0)}
      BY <2>2, <3>1 DEF pcg_rotr, Shifted, A
    <3>3. pcg_xor(v, v) = 0 /\ pcg_xor(v, 0) = v
      BY XorAssumption
    <3>4. or(v, v) = v /\ or(v, 0) = v
      <4>1. (v + v + 0) \div 2 = v /\ (v + 0 + v) \div 2 = v
        BY <1>3
      <4> QED BY <3>3, <4>1 DEF or
    <3>5. B * g + A = v
      BY <1>2, <1>3, <3>1
    <3> QED BY <3>2, <3>4, <3>5
  <2> QED BY <2>1, <2>2
<1>8. ASSUME NEW i \in 0 .. (OutBits - 1)
      PROVE  (result \div 2^i) % 2 = (v \div 2^((i + rot) % OutBits)) % 2
  <2>1. i \in Nat /\ i < OutBits
    BY <1>1
  <2>2. A \in 0 .. (2^k - 1) /\ B \in 0 .. (2^rot - 1) /\ B \in Nat
    BY <1>2, <1>4, <1>5
  <2> DEFINE Below(n, q, a) == \A j \in 0 .. (n - 1) : ((q * 2^n + a) \div 2^j) % 2 = (a \div 2^j) % 2
             Above(n, q, a) == \A j \in Nat : (q * 2^n + a) \div 2^(n + j) = q \div 2^j
  <2>3. /\ \A n, q \in Nat : \A a \in 0 .. (2^n - 1) : Below(n, q, a)
        /\ \A n, q \in Nat : \A a \in 0 .. (2^n - 1) : Above(n, q, a)
    <3>1. \A n, q \in Nat : \A a \in 0 .. (2^n - 1) : Below(n, q, a)
      BY LowBits
    <3>2. \A n, q \in Nat : \A a \in 0 .. (2^n - 1) : Above(n, q, a)
      BY HighBits
    <3> QED BY <3>1, <3>2
  <2> HIDE DEF Below, Above
  <2>4. Below(k, B, A) /\ Above(k, B, A) /\ Below(rot, A, B) /\ Above(rot, A, B)
    BY <1>1, <1>4, <2>2, <2>3
  <2> USE DEF Below, Above
  <2>5. CASE i < k
    <3>1. i \in 0 .. (k - 1) /\ i + rot = rot + i /\ (i + rot) % OutBits = rot + i
      BY <1>1, <2>1, <2>5
    <3>2. (result \div 2^i) % 2 = (A \div 2^i) % 2
      BY <1>7, <2>4, <3>1
    <3>3. v \div 2^(rot + i) = A \div 2^i
      BY <1>4, <2>1, <2>4
    <3> QED BY <3>1, <3>2, <3>3
  <2>6. CASE i >= k
    <3> DEFINE j == i - k
    <3>1. j \in 0 .. (rot - 1) /\ j \in Nat /\ i = k + j /\ (i + rot) % OutBits = j
      <4>1. i + rot = OutBits + (i - k) /\ i - k \in 0 .. (OutBits - 1) /\ i - k < rot
        BY <1>1, <2>1, <2>6
      <4>2. (OutBits + j) % OutBits = j
        BY <1>1, <4>1
      <4> QED BY <1>1, <2>1, <2>6, <4>1, <4>2
    <3> HIDE DEF j, k
    <3>2. result \div 2^i = B \div 2^j
      BY <1>7, <2>4, <3>1
    <3>3. (v \div 2^j) % 2 = (B \div 2^j) % 2
      BY <1>4, <2>4, <3>1
    <3> QED BY <3>1, <3>2, <3>3
  <2> QED BY <1>1, <2>1, <2>5, <2>6
<1> QED BY <1>8 DEF RotatesRight

LEMMA DivBelow ==
  ASSUME NEW g \in Nat \ {0}, NEW h \in Nat \ {0}, NEW x \in 0 .. (g * h - 1)
  PROVE  x \div g \in 0 .. (h - 1)
<1> DEFINE d == x \div g
           r == x % g
           N == g * h
<1>1. N \in Nat
  OBVIOUS
<1>2. x \in Nat /\ x < N
  BY <1>1
<1>3. d \in Int /\ r \in 0 .. (g - 1) /\ x = (g * d) + r
  <2>1. x \in Int
    BY <1>2
  <2> QED BY <2>1, DivMod, Zenon
<1>4. d >= 0
  BY <1>2
<1> HIDE DEF d, r
<1>5. d < h
  <2> SUFFICES ASSUME d >= h PROVE FALSE
    BY <1>3
  <2>1. \A y, z \in Int : \A u \in Nat \ {0} : y >= z => u * y >= u * z
    OBVIOUS
  <2>2. g * d >= N
    BY <1>3, <2>1
  <2> DEFINE w == g * d
  <2>3. w \in Int /\ w >= N /\ x = w + r
    BY <1>3, <2>2
  <2> HIDE DEF w, N
  <2>4. r \in Nat
    BY <1>3
  <2>5. x >= w
    BY <2>3, <2>4
  <2> QED BY ONLY <1>1, <1>2, <2>3, <2>5
<1> QED BY <1>3, <1>4, <1>5 DEF d

\* A state's folding is as wide as an output, and its rotation no wider.
LEMMA FoldFacts ==
  ASSUME NEW x \in 0 .. (StateModulus - 1)
  PROVE  Rot(x) \in 0 .. OutBits /\ (pcg \in {"pcg32", "pcg64"} => Fold(x) \in 0 .. (Out - 1))
<1>1. StateModulus \in Nat \ {0} /\ Out \in Nat \ {0}
  BY StateModulusFacts, BitsAssumption, TwoPowers DEF Out
<1>2. x \in Nat /\ x < StateModulus
  BY <1>1
<1>3. \A g \in Nat \ {0} : x \div g \in 0 .. (StateModulus - 1)
  <2> SUFFICES ASSUME NEW g \in Nat \ {0} PROVE x \div g \in 0 .. (StateModulus - 1)
    OBVIOUS
  <2>1. \A y, z \in Nat \ {0} : z <= y * z /\ y * z \in Nat
    OBVIOUS
  <2> DEFINE n == g * StateModulus
  <2>2. StateModulus <= n /\ n \in Nat
    BY <1>1, <2>1
  <2>3. x \in 0 .. (n - 1)
    <3> HIDE DEF n
    <3> QED BY <1>1, <1>2, <2>2
  <2> QED BY <1>1, <2>3, DivBelow
<1>4. Rot(x) \in 0 .. OutBits
  <2> DEFINE k == 2 * OutBits - RotBits
  <2>1. k \in Nat /\ RotBits \in Nat /\ k + RotBits = 2 * OutBits
    BY BitsAssumption
  <2> HIDE DEF k
  <2>2. 2^k \in Nat \ {0} /\ 2^RotBits \in Nat \ {0} /\ StateModulus = 2^k * 2^RotBits
    <3>1. 2^k \in Nat \ {0} /\ 2^RotBits \in Nat \ {0}
      BY <2>1, TwoPowers
    <3>2. 2^(k + RotBits) = 2^k * 2^RotBits
      BY <2>1, PowerSum
    <3>3. 2^(k + RotBits) = 2^(2 * OutBits)
      BY ONLY <2>1
    <3> QED BY ONLY <3>1, <3>2, <3>3 DEF StateModulus
  <2>3. x \div 2^k \in 0 .. (2^RotBits - 1)
    BY <2>2, DivBelow
  <2> QED BY <2>2, <2>3, BitsAssumption DEF Rot, k
<1>5. CASE pcg = "pcg32"
  <2> DEFINE j == (OutBits + RotBits) \div 2
             k == OutBits - RotBits
             y == pcg_xor(x \div 2^j, x)
  <2>1. j \in Nat /\ k \in Nat
    BY BitsAssumption
  <2>2. 2^j \in Nat \ {0} /\ 2^k \in Nat \ {0}
    <3> HIDE DEF j, k
    <3> QED BY <2>1, TwoPowers
  <2>3. y \in Nat
    <3>1. x \div 2^j \in 0 .. (StateModulus - 1)
      <4> HIDE DEF j
      <4> QED BY <1>3, <2>2
    <3> HIDE DEF j
    <3> QED BY <3>1, XorAssumption
  <2>4. Fold(x) = (y \div 2^k) % Out
    BY <1>5 DEF Fold
  <2> HIDE DEF y, j, k
  <2>5. y \div 2^k \in Int
    BY <2>2, <2>3
  <2>6. Fold(x) \in 0 .. (Out - 1)
    BY <1>1, <2>4, <2>5, DivMod
  <2> QED BY <1>4, <2>6
<1>6. CASE pcg = "pcg64"
  <2>1. StateModulus = Out * Out
    <3>1. OutBits \in Nat /\ OutBits + OutBits = 2 * OutBits
      BY BitsAssumption
    <3> QED BY <3>1, PowerSum DEF StateModulus, Out
  <2>2. x \div Out \in 0 .. (Out - 1)
    BY <1>1, <2>1, DivBelow
  <2>3. x % Out \in 0 .. (Out - 1)
    BY <1>1, <1>2
  <2>4. Fold(x) = pcg_xor(x \div Out, x % Out)
    BY <1>6 DEF Fold
  <2>5. x % Out \in 0 .. (StateModulus - 1)
    <3>1. \A y \in Nat \ {0} : y <= y * y
      OBVIOUS
    <3>2. Out <= StateModulus
      BY <1>1, <2>1, <3>1
    <3> QED BY <1>1, <2>3, <3>2
  <2>6. Fold(x) \in Nat /\ Fold(x) < Out
    BY <1>1, <1>3, <2>2, <2>3, <2>4, <2>5, XorAssumption
  <2> QED BY <1>1, <1>4, <2>6
<1> QED BY <1>4, <1>5, <1>6

\* OutputIsRotation for every width and number of rotation bits that fit it,
\* whichever value the undefined shift gives (pcg32.h:33).
THEOREM RotationCorrect == pcg_spec => OutputIsRotation
<1>1. ASSUME PcgIInv, PcgIInv', [pcg_next]_pcg_vars
      PROVE  [pcg32 \/ pcg64 =>
                LET x == IF pcg = "pcg32" THEN state ELSE state'
                IN  RotatesRight(Fold(x), Rot(x), pcg_output')]_pcg_vars
  <2>1. state \in 0 .. (StateModulus - 1) /\ state' \in 0 .. (StateModulus - 1)
    BY <1>1 DEF PcgIInv
  <2>2. ASSUME pcg32 PROVE RotatesRight(Fold(state), Rot(state), pcg_output') /\ pcg = "pcg32"
    <3>1. pcg = "pcg32" /\ pcg_output' \in pcg_rotr(Fold(state), Rot(state))
      BY <2>2 DEF pcg32, PcgCalled
    <3> QED BY <2>1, <3>1, FoldFacts, Rotation
  <2>3. ASSUME pcg64 PROVE RotatesRight(Fold(state'), Rot(state'), pcg_output') /\ pcg # "pcg32"
    <3>1. pcg = "pcg64" /\ pcg_output' \in pcg_rotr(Fold(state'), Rot(state'))
      BY <2>3 DEF pcg64, PcgCalled
    <3> QED BY <2>1, <3>1, FoldFacts, Rotation
  <2> QED BY <2>2, <2>3
<1> QED BY <1>1, PcgInvariant, PTL DEF pcg_spec, OutputIsRotation
=============================================================================
