----------------------- MODULE MersenneTwisterProofs ------------------------
(***************************************************************************)
(* For every word width, N, M < N, masks and constants: the twister's      *)
(* in-place loops implement the lagged recurrence.  And for every ring,    *)
(* places and wrap of the counters: the Mitchell-Moore generator adds at   *)
(* different places and keeps an odd word.                                 *)
(***************************************************************************)
EXTENDS MersenneTwister, MitchellMoore, BitWordsProofs, FiniteSetTheorems

\* The helpers return words.
LEMMA HelperTypes ==
  /\ \A a, b, c : Twist(a, b, c) \in Word
  /\ \A x : Temper(x) \in Word
  /\ \A x, i : SeedWord(x, i) \in Word
BY WordClosure DEF Twist, Temper, SeedWord

\* In the middle of seeding, the words seeded so far form the chain.
SeedChain ==
  pc = "seed" => \A i \in 1 .. (mti - 1) : mt[i] = SeedWord(mt[i - 1], i)

IInv == TypeOK /\ SeedChain

LEMMA InitIInv == Init => IInv
BY PeriodAssumption, WordClosure DEF Init, IInv, TypeOK, SeedChain, Index

LEMMA StepIInv == IInv /\ [Next]_vars => IInv'
<1> SUFFICES ASSUME IInv, [Next]_vars PROVE IInv'
  OBVIOUS
<1> USE PeriodAssumption DEF IInv, TypeOK, Index
<1>1. ASSUME NEW seed \in Seeds, BeginSeed(seed) PROVE IInv'
  BY <1>1, WordClosure DEF BeginSeed, SeedChain
<1>2. CASE SeedLoop
  <2>1. TypeOK'
    BY <1>2, HelperTypes DEF SeedLoop
  <2>2. SeedChain'
    <3> SUFFICES ASSUME NEW i \in 1 .. (mti' - 1)
                 PROVE  mt'[i] = SeedWord(mt'[i - 1], i)
      BY DEF SeedChain
    <3>1. mt' = [mt EXCEPT ![mti] = SeedWord(mt[mti - 1], mti)] /\ mti' = mti + 1
      BY <1>2 DEF SeedLoop
    <3>2. mti \in 1 .. (N - 1)
      BY <1>2 DEF SeedLoop
    <3>3. mt'[i - 1] = mt[i - 1]
      BY <3>1, <3>2
    <3>4. CASE i = mti
      BY <3>1, <3>2, <3>3, <3>4
    <3>5. CASE i # mti
      <4>1. i \in 1 .. (mti - 1) /\ mt'[i] = mt[i]
        BY <3>1, <3>2, <3>5
      <4>2. pc = "seed"
        BY <1>2 DEF SeedLoop
      <4> QED BY <3>3, <4>1, <4>2 DEF SeedChain
    <3> QED BY <3>4, <3>5
  <2> QED BY <2>1, <2>2
<1>3. CASE EndSeed
  BY <1>3 DEF EndSeed, SeedChain
<1>4. CASE Call
  BY <1>4 DEF Call, SeedChain
<1>5. CASE TwistAhead
  BY <1>5, HelperTypes DEF TwistAhead, SeedChain
<1>6. CASE TwistBehind
  BY <1>6, HelperTypes DEF TwistBehind, SeedChain
<1>7. CASE TwistLast
  BY <1>7, HelperTypes DEF TwistLast, SeedChain
<1>8. CASE Return
  BY <1>8, HelperTypes DEF Return, SeedChain
<1>9. CASE UNCHANGED vars
  BY <1>9 DEF vars, SeedChain
<1> QED BY <1>1, <1>2, <1>3, <1>4, <1>5, <1>6, <1>7, <1>8, <1>9 DEF Next

\* No index is ever out of the array and every word stays a word.
THEOREM TypeCorrect == Spec => []TypeOK
<1>1. IInv => TypeOK
  BY DEF IInv
<1> QED BY <1>1, InitIInv, StepIInv, PTL DEF Spec

-----------------------------------------------------------------------------
(***************************************************************************)
(* The refinement.  While kk words have been replaced the window is the    *)
(* array rotated by kk, so each iteration slides it by one word.           *)
(***************************************************************************)

\* One iteration of the twist, whichever of the three, slides the window: it
\* reads x[n], x[n+1] and x[n+M] where the window has them, and it replaces
\* the oldest word.
LEMMA TwistSlides ==
  ASSUME IInv, pc = "twist",
         NEW new, new = Recurrence(Window),
         mt' = [mt EXCEPT ![kk] = new],
         \/ pc' = "twist" /\ kk' = kk + 1 /\ kk < N - 1
         \/ pc' = "return" /\ kk = N - 1
  PROVE  Window' = LR!Slide(Window)
<1> USE PeriodAssumption DEF IInv, TypeOK, Index
<1>1. Window = [i \in Index |-> IF i + kk < N THEN mt[i + kk] ELSE mt[i + kk - N]]
  BY DEF Window, Oldest
<1>2. \A i \in 0 .. (N - 2) :
        Window[i + 1] = IF i + kk + 1 < N THEN mt[i + kk + 1] ELSE mt[i + kk + 1 - N]
  BY <1>1
<1>3. \A j \in Index : mt'[j] = IF j = kk THEN new ELSE mt[j]
  OBVIOUS
<1> DEFINE o == IF pc' = "twist" THEN kk + 1 ELSE 0
<1>4. Window' = [i \in Index |-> IF i + o < N THEN mt'[i + o] ELSE mt'[i + o - N]]
  BY DEF Window, Oldest
<1>5. LR!Slide(Window) = [i \in Index |-> IF i = N - 1 THEN new ELSE Window[i + 1]]
  BY DEF LR!Slide, LR!Index
<1>6. ASSUME NEW i \in Index
      PROVE  (IF i + o < N THEN mt'[i + o] ELSE mt'[i + o - N])
               = (IF i = N - 1 THEN new ELSE Window[i + 1])
  <2>1. CASE i = N - 1
    BY <1>3, <2>1
  <2>2. CASE i # N - 1
    <3>1. i \in 0 .. (N - 2)
      BY <2>2
    <3>2. CASE kk < N - 1
      BY <1>2, <1>3, <3>1, <3>2
    <3>3. CASE kk = N - 1
      BY <1>2, <1>3, <3>1, <3>3
    <3> QED BY <3>2, <3>3
  <2> QED BY <2>1, <2>2
<1> QED BY <1>4, <1>5, <1>6

LEMMA InitRefines == Init => LR!Init
<1> SUFFICES ASSUME Init PROVE LR!Init
  OBVIOUS
<1> USE PeriodAssumption DEF Init, Index
<1>1. Window \in [Index -> Word]
  BY WordClosure DEF Window, Oldest
<1>2. Ahead = 0 /\ pc # "seed" /\ output \in Word
  BY WordClosure DEF Ahead
<1> QED BY <1>1, <1>2 DEF LR!Init, LR!Index

LEMMA StepRefines == IInv /\ [Next]_vars => [LR!Next]_(LR!vars)
<1> SUFFICES ASSUME IInv, [Next]_vars PROVE LR!Next \/ UNCHANGED LR!vars
  OBVIOUS
<1> USE PeriodAssumption DEF IInv, TypeOK, Index
<1>1. ASSUME NEW seed \in Seeds, BeginSeed(seed) PROVE LR!BeginSeed
  BY <1>1 DEF BeginSeed, LR!BeginSeed, LR!NoWindow, NoWindow, Ahead
<1>2. CASE SeedLoop
  BY <1>2 DEF SeedLoop, LR!vars, Ahead
<1>3. CASE EndSeed
  <2>1. mti = N /\ pc' = "idle" /\ mt' = mt /\ mti' = mti /\ output' = output
    BY <1>3 DEF EndSeed
  <2>2. Window' = mt
    BY <2>1 DEF Window, Oldest
  <2>3. mt \in SeededWindows
    BY <1>3, <2>1 DEF EndSeed, SeedChain, SeededWindows
  <2>4. Ahead' = 0
    BY <2>1 DEF Ahead
  <2> QED BY <1>3, <2>1, <2>2, <2>3, <2>4 DEF EndSeed, LR!Next, LR!EndSeed
<1>4. CASE Call
  <2>1. Window' = Window
    BY <1>4 DEF Call, Window, Oldest
  <2>2. Ahead' = Ahead
    BY <1>4 DEF Call, Ahead
  <2> QED BY <1>4, <2>1, <2>2 DEF Call, LR!vars
<1>5. CASE TwistAhead
  <2> DEFINE new == Twist(mt[kk], mt[kk + 1], mt[kk + M])
  <2>1. new = Recurrence(Window)
    BY <1>5 DEF TwistAhead, Recurrence, Window, Oldest
  <2>2. /\ pc = "twist" /\ pc' = "twist" /\ kk' = kk + 1 /\ kk < N - 1
        /\ mt' = [mt EXCEPT ![kk] = new] /\ output' = output
    BY <1>5 DEF TwistAhead
  <2> HIDE DEF new
  <2>3. Window' = LR!Slide(Window)
    BY <2>1, <2>2, TwistSlides
  <2>4. Ahead = kk /\ Ahead' = kk + 1
    BY <2>2 DEF Ahead
  <2> QED BY <2>2, <2>3, <2>4 DEF LR!Next, LR!Extend
<1>6. CASE TwistBehind
  <2> DEFINE new == Twist(mt[kk], mt[kk + 1], mt[kk + (M - N)])
  <2>1. new = Recurrence(Window)
    <3>1. Window[0] = mt[kk] /\ Window[1] = mt[kk + 1]
      BY <1>6 DEF TwistBehind, Window, Oldest
    <3>2. Window[M] = mt[kk + (M - N)]
      <4>1. M + kk - N = kk + (M - N) /\ ~(M + kk < N)
        BY <1>6 DEF TwistBehind
      <4> QED BY <1>6, <4>1 DEF TwistBehind, Window, Oldest
    <3> QED BY <3>1, <3>2 DEF Recurrence
  <2>2. /\ pc = "twist" /\ pc' = "twist" /\ kk' = kk + 1 /\ kk < N - 1
        /\ mt' = [mt EXCEPT ![kk] = new] /\ output' = output
    BY <1>6 DEF TwistBehind
  <2> HIDE DEF new
  <2>3. Window' = LR!Slide(Window)
    BY <2>1, <2>2, TwistSlides
  <2>4. Ahead = kk /\ Ahead' = kk + 1
    BY <2>2 DEF Ahead
  <2> QED BY <2>2, <2>3, <2>4 DEF LR!Next, LR!Extend
<1>7. CASE TwistLast
  <2> DEFINE new == Twist(mt[N - 1], mt[0], mt[M - 1])
  <2>1. new = Recurrence(Window)
    <3>1. Window[0] = mt[N - 1] /\ Window[1] = mt[0]
      BY <1>7 DEF TwistLast, Window, Oldest
    <3>2. Window[M] = mt[M - 1]
      <4>1. M + kk - N = M - 1 /\ ~(M + kk < N)
        BY <1>7 DEF TwistLast
      <4> QED BY <1>7, <4>1 DEF TwistLast, Window, Oldest
    <3> QED BY <3>1, <3>2 DEF Recurrence
  <2>2. /\ pc = "twist" /\ pc' = "return" /\ kk = N - 1 /\ mti' = 0
        /\ mt' = [mt EXCEPT ![kk] = new] /\ output' = output
    BY <1>7 DEF TwistLast
  <2> HIDE DEF new
  <2>3. Window' = LR!Slide(Window)
    BY <2>1, <2>2, TwistSlides
  <2>4. Ahead = kk /\ Ahead' = kk + 1
    BY <2>2 DEF Ahead
  <2> QED BY <2>2, <2>3, <2>4 DEF LR!Next, LR!Extend
<1>8. CASE Return
  <2>1. /\ pc = "return" /\ pc' = "idle" /\ mti' = mti + 1 /\ mt' = mt /\ mti < N
        /\ output' = Temper(mt[mti])
    BY <1>8 DEF Return
  <2>2. Window = mt /\ Window' = mt
    BY <2>1 DEF Window, Oldest
  <2>3. Ahead = N - mti /\ Ahead' = N - mti - 1
    BY <2>1 DEF Ahead
  <2>4. N - Ahead = mti /\ Ahead > 0 /\ Ahead' = Ahead - 1
    BY <2>1, <2>3
  <2> QED BY <2>1, <2>2, <2>4 DEF LR!Next, LR!Take
<1>9. CASE UNCHANGED vars
  BY <1>9 DEF vars, LR!vars, Window, Oldest, Ahead
<1> QED BY <1>1, <1>2, <1>3, <1>4, <1>5, <1>6, <1>7, <1>8, <1>9 DEF Next, LR!Next

\* The Mersenne Twister hands out the words of its recurrence, tempered, in
\* order and exactly once each.
THEOREM RefinementCorrect == Spec => ImplementsRecurrence
BY InitIInv, StepIInv, InitRefines, StepRefines, PTL
   DEF Spec, ImplementsRecurrence, LR!Spec

-----------------------------------------------------------------------------
(***************************************************************************)
(* The Mitchell-Moore generator.  Of two counters one is ahead of the      *)
(* other by the distance of the places they started at, or, between the    *)
(* wrap of the one and that of the other, behind by what is missing to the *)
(* counters' modulus.                                                      *)
(***************************************************************************)
Counter == 0 .. (CounterModulus - 1)

InFront(x, y, distance) == x - y = distance \/ x - y = distance - CounterModulus

CountersOK ==
  /\ mitchellmoore_a \in Counter /\ mitchellmoore_b \in Counter
  /\ mitchellmoore_c \in Counter /\ mitchellmoore_d \in Counter
  /\ InFront(mitchellmoore_a, mitchellmoore_b, R - S)
  /\ InFront(mitchellmoore_a, mitchellmoore_c, R - T)
  /\ InFront(mitchellmoore_a, mitchellmoore_d, R - U)
  /\ InFront(mitchellmoore_b, mitchellmoore_c, S - T)
  /\ InFront(mitchellmoore_b, mitchellmoore_d, S - U)
  /\ InFront(mitchellmoore_c, mitchellmoore_d, T - U)

WordsOK == mitchellmoore_sequence \in [Ring -> 0 .. (WordModulus - 1)]

mitchellmoore_IInv == CountersOK /\ WordsOK /\ NeverAllEven

\* A counter goes on by one, or from its largest value to zero.
LEMMA BumpFacts ==
  ASSUME NEW x \in Counter
  PROVE  /\ Bump(x) \in Counter
         /\ Bump(x) = IF x = CounterModulus - 1 THEN 0 ELSE x + 1
<1>1. CounterModulus \in Nat \ {0}
  BY RingAssumption
<1>2. CASE x = CounterModulus - 1
  <2>1. x + 1 = (CounterModulus * 1) + 0
    BY <1>1, <1>2
  <2>2. ((CounterModulus * 1) + 0) % CounterModulus = 0
    BY <1>1, ModUnique
  <2> QED BY <1>1, <1>2, <2>1, <2>2 DEF Bump, Counter
<1>3. CASE x # CounterModulus - 1
  <2>1. x + 1 = (CounterModulus * 0) + (x + 1) /\ x + 1 \in 0 .. (CounterModulus - 1)
    BY <1>1, <1>3 DEF Counter
  <2>2. ((CounterModulus * 0) + (x + 1)) % CounterModulus = x + 1
    BY <1>1, <2>1, ModUnique
  <2> QED BY <1>3, <2>1, <2>2 DEF Bump, Counter
<1> QED BY <1>2, <1>3

\* Two counters keep their distance.
LEMMA InFrontStays ==
  ASSUME NEW x \in Counter, NEW y \in Counter, NEW distance \in 1 .. (CounterModulus - 1),
         InFront(x, y, distance)
  PROVE  InFront(Bump(x), Bump(y), distance)
BY BumpFacts, RingAssumption DEF InFront, Counter

\* Counters at such a distance are at different places.
LEMMA InFrontApart ==
  ASSUME NEW p \in {R, S, T, U}, NEW q \in {R, S, T, U}, p > q,
         NEW x \in Counter, NEW y \in Counter, InFront(x, y, p - q)
  PROVE  x % R # y % R
<1> SUFFICES ASSUME x % R = y % R PROVE FALSE
  OBVIOUS
<1>0. R \in Nat \ {0} /\ x \in Int /\ y \in Int /\ p \in Nat /\ q \in Nat
      /\ CounterModulus \in Nat
  BY RingAssumption DEF Counter
<1>1. (p - q) % R # 0 /\ (CounterModulus - (p - q)) % R # 0
  BY RingAssumption
<1>2. (x - y) % R = 0 /\ (y - x) % R = 0
  BY <1>0, ModDifference
<1>3. x - y = p - q \/ y - x = CounterModulus - (p - q)
  BY <1>0 DEF InFront
<1> QED BY <1>1, <1>2, <1>3

\* So the four of them are at four places.
Apart(a, b, c, d) ==
  /\ a \in Ring /\ b \in Ring /\ c \in Ring /\ d \in Ring
  /\ a # b /\ a # c /\ a # d /\ b # c /\ b # d /\ c # d

LEMMA FourPlaces ==
  ASSUME NEW a \in Counter, NEW b \in Counter, NEW c \in Counter, NEW d \in Counter,
         InFront(a, b, R - S), InFront(a, c, R - T), InFront(a, d, R - U),
         InFront(b, c, S - T), InFront(b, d, S - U), InFront(c, d, T - U)
  PROVE  Apart(a % R, b % R, c % R, d % R)
<1>1. /\ R > S /\ R > T /\ R > U /\ S > T /\ S > U /\ T > U
      /\ R \in Nat \ {0} /\ CounterModulus \in Nat
  BY RingAssumption
<1>2. \A x \in Counter : x % R \in Ring
  BY <1>1 DEF Counter, Ring
<1>3. \A p, q \in {R, S, T, U} : p > q =>
        \A x, y \in Counter : InFront(x, y, p - q) => x % R # y % R
  BY InFrontApart
<1> QED BY <1>1, <1>2, <1>3 DEF Apart

-----------------------------------------------------------------------------
\* The parity of a sum modulo an even number is that of the sum.
LEMMA ParityOfSum ==
  ASSUME NEW x \in 0 .. (WordModulus - 1), NEW y \in 0 .. (WordModulus - 1)
  PROVE  /\ (x + y) % WordModulus \in 0 .. (WordModulus - 1)
         /\ ((x + y) % WordModulus) % 2 = (x + y) % 2
<1>1. WordModulus \in Nat \ {0} /\ WordModulus % 2 = 0
  BY WordAssumption
<1>2. CASE x + y < WordModulus
  <2>1. x + y = (WordModulus * 0) + (x + y) /\ x + y \in 0 .. (WordModulus - 1)
    BY <1>1, <1>2
  <2>2. ((WordModulus * 0) + (x + y)) % WordModulus = x + y
    BY <1>1, <2>1, ModUnique
  <2> QED BY <2>1, <2>2
<1>3. CASE x + y >= WordModulus
  <2> DEFINE z == x + y - WordModulus
  <2>1. x + y = (WordModulus * 1) + z /\ z \in 0 .. (WordModulus - 1)
    BY <1>1, <1>3
  <2>2. ((WordModulus * 1) + z) % WordModulus = z
    BY <1>1, <2>1, ModUnique
  <2>3. z % 2 = (x + y) % 2
    BY <1>1
  <2> QED BY <2>1, <2>2, <2>3
<1> QED BY <1>1, <1>2, <1>3

LEMMA AddWordFacts ==
  ASSUME NEW seq \in [Ring -> 0 .. (WordModulus - 1)], NEW to \in Ring, NEW from \in Ring
  PROVE  /\ AddWord(seq, to, from) \in [Ring -> 0 .. (WordModulus - 1)]
         /\ AddWord(seq, to, from)[to] % 2 = (seq[to] + seq[from]) % 2
         /\ \A n \in Ring : n # to => AddWord(seq, to, from)[n] = seq[n]
BY ParityOfSum DEF AddWord

\* Going from the right, the first odd word among the places makes the next one
\* odd or stays itself.
LEMMA CallIInv == mitchellmoore_IInv /\ mitchellmoore => mitchellmoore_IInv'
<1> SUFFICES ASSUME mitchellmoore_IInv, mitchellmoore PROVE mitchellmoore_IInv'
  OBVIOUS
<1> DEFINE a == Bump(mitchellmoore_a) % R
           b == Bump(mitchellmoore_b) % R
           c == Bump(mitchellmoore_c) % R
           d == Bump(mitchellmoore_d) % R
           s0 == mitchellmoore_sequence
           s1 == AddWord(s0, c, d)
           s2 == AddWord(s1, b, c)
           s3 == AddWord(s2, a, b)
<1>1. /\ mitchellmoore_sequence' = s3
      /\ mitchellmoore_a' = Bump(mitchellmoore_a)
      /\ mitchellmoore_b' = Bump(mitchellmoore_b)
      /\ mitchellmoore_c' = Bump(mitchellmoore_c)
      /\ mitchellmoore_d' = Bump(mitchellmoore_d)
      /\ mitchellmoore_seeded' = mitchellmoore_seeded
  BY DEF mitchellmoore
<1>2. CountersOK'
  <2>1. /\ R - S \in 1 .. (CounterModulus - 1) /\ R - T \in 1 .. (CounterModulus - 1)
        /\ R - U \in 1 .. (CounterModulus - 1) /\ S - T \in 1 .. (CounterModulus - 1)
        /\ S - U \in 1 .. (CounterModulus - 1) /\ T - U \in 1 .. (CounterModulus - 1)
    BY RingAssumption
  <2> QED BY <1>1, <2>1, BumpFacts, InFrontStays DEF mitchellmoore_IInv, CountersOK
<1>3. Apart(a, b, c, d)
  <2>1. Apart(mitchellmoore_a' % R, mitchellmoore_b' % R, mitchellmoore_c' % R,
              mitchellmoore_d' % R)
    BY <1>2, FourPlaces DEF CountersOK
  <2> QED BY <1>1, <2>1
<1> HIDE DEF a, b, c, d
<1>4. s0 \in [Ring -> 0 .. (WordModulus - 1)]
  BY DEF mitchellmoore_IInv, WordsOK
<1>5. /\ s1 \in [Ring -> 0 .. (WordModulus - 1)]
      /\ s1[c] % 2 = (s0[c] + s0[d]) % 2 /\ \A n \in Ring : n # c => s1[n] = s0[n]
  BY <1>3, <1>4, AddWordFacts DEF Apart
<1>6. /\ s2 \in [Ring -> 0 .. (WordModulus - 1)]
      /\ s2[b] % 2 = (s1[b] + s1[c]) % 2 /\ \A n \in Ring : n # b => s2[n] = s1[n]
  BY <1>3, <1>5, AddWordFacts DEF Apart
<1>7. /\ s3 \in [Ring -> 0 .. (WordModulus - 1)]
      /\ s3[a] % 2 = (s2[a] + s2[b]) % 2 /\ \A n \in Ring : n # a => s3[n] = s2[n]
  BY <1>3, <1>6, AddWordFacts DEF Apart
<1> HIDE DEF s0, s1, s2, s3
<1>8. WordsOK'
  BY <1>1, <1>7 DEF WordsOK
<1>9. ASSUME NEW n \in Ring, s0[n] % 2 = 1
      PROVE  \E m \in Ring : s3[m] % 2 = 1
  <2>1. /\ s0[a] \in Nat /\ s0[b] \in Nat /\ s0[c] \in Nat /\ s0[d] \in Nat
        /\ s1[c] \in Nat /\ s2[b] \in Nat
    BY <1>3, <1>4, <1>5, <1>6, WordAssumption DEF Apart
  <2>2. /\ s3[d] = s0[d] /\ s3[c] = s1[c] /\ s3[b] = s2[b]
        /\ s1[b] = s0[b] /\ s2[a] = s0[a] /\ s2[c] = s1[c]
    BY <1>3, <1>5, <1>6, <1>7 DEF Apart
  <2>3. CASE n \notin {a, b, c, d}
    BY <1>5, <1>6, <1>7, <1>9, <2>3
  <2>4. CASE s0[d] % 2 = 1
    BY <1>3, <2>2, <2>4 DEF Apart
  <2>5. CASE s0[d] % 2 # 1 /\ s0[c] % 2 = 1
    <3>1. s1[c] % 2 = 1
      BY <1>5, <2>1, <2>5
    <3> QED BY <1>3, <2>2, <3>1 DEF Apart
  <2>6. CASE s0[d] % 2 # 1 /\ s0[c] % 2 # 1 /\ s0[b] % 2 = 1
    <3>1. s1[c] % 2 = 0
      BY <1>5, <2>1, <2>6
    <3>2. s2[b] % 2 = 1
      BY <1>6, <2>1, <2>2, <2>6, <3>1
    <3> QED BY <1>3, <2>2, <3>2 DEF Apart
  <2>7. CASE s0[d] % 2 # 1 /\ s0[c] % 2 # 1 /\ s0[b] % 2 # 1 /\ s0[a] % 2 = 1
    <3>1. s1[c] % 2 = 0
      BY <1>5, <2>1, <2>7
    <3>2. s2[b] % 2 = 0
      BY <1>6, <2>1, <2>2, <2>7, <3>1
    <3>3. s3[a] % 2 = 1
      BY <1>7, <2>1, <2>2, <2>7, <3>2
    <3> QED BY <1>3, <3>3 DEF Apart
  <2> QED BY <1>9, <2>3, <2>4, <2>5, <2>6, <2>7
<1>10. NeverAllEven'
  BY <1>1, <1>9 DEF mitchellmoore_IInv, NeverAllEven, s0
<1> QED BY <1>2, <1>8, <1>10 DEF mitchellmoore_IInv

\* The words of the seeding's generator exist: the recursion that defines them
\* has a solution, up to any of its steps.
IsSeedRun(f, n, seed) ==
  /\ f \in [0 .. n -> Nat] /\ f[0] = seed
  /\ \A m \in 1 .. n : f[m] = SeedStep(f[m - 1])

LEMMA SeedStepType ==
  ASSUME NEW word \in Nat PROVE SeedStep(word) \in 0 .. (WordModulus - 1)
<1>1. \A factor, summand \in Nat : factor * word + summand \in Nat
  OBVIOUS
<1>2. \A sum \in Nat : sum % WordModulus \in 0 .. (WordModulus - 1)
  BY WordAssumption
<1>3. 1664525 % WordModulus \in Nat
  BY WordAssumption, SMT
<1> QED BY <1>1, <1>2, <1>3, SMT DEF SeedStep

LEMMA SeedRunExists ==
  ASSUME NEW seed \in Nat, NEW k \in Nat
  PROVE  \E f : IsSeedRun(f, k, seed)
<1> DEFINE Without == {n \in Nat : ~ \E f : IsSeedRun(f, n, seed)}
<1> SUFFICES ASSUME Without # {} PROVE FALSE
  OBVIOUS
<1>1. PICK m \in Without : \A n \in Without : m <= n
  BY LeastNatural
<1>2. m # 0
  <2>1. IsSeedRun([n \in 0 .. 0 |-> seed], 0, seed)
    BY DEF IsSeedRun
  <2> QED BY <1>1, <2>1
<1>3. PICK f : IsSeedRun(f, m - 1, seed)
  BY <1>1, <1>2
<1> DEFINE g == [n \in 0 .. m |-> IF n = m THEN SeedStep(f[m - 1]) ELSE f[n]]
<1>4. m \in Nat \ {0} /\ f[m - 1] \in Nat
  BY <1>1, <1>2, <1>3 DEF IsSeedRun
<1>5. SeedStep(f[m - 1]) \in Nat
  BY <1>4, SeedStepType, WordAssumption
<1>6. IsSeedRun(g, m, seed)
  <2>1. g \in [0 .. m -> Nat] /\ g[0] = seed
    BY <1>3, <1>4, <1>5 DEF IsSeedRun
  <2>2. ASSUME NEW n \in 1 .. m PROVE g[n] = SeedStep(g[n - 1])
    BY <1>3, <1>4, <2>2 DEF IsSeedRun
  <2> QED BY <2>1, <2>2 DEF IsSeedRun
<1> QED BY <1>1, <1>6

\* Seeding fills the ring with words.
LEMMA SeedWordsType ==
  ASSUME NEW seed \in Nat
  PROVE  SeedWords(seed) \in [Ring -> 0 .. (WordModulus - 1)]
<1> DEFINE Solves(f) ==
             f = [n \in 0 .. (2 * R) |->
                    IF n = 0 THEN seed ELSE SeedStep(f[n - 1])]
           lcg == CHOOSE f : Solves(f)
<1>1. R \in Nat \ {0} /\ 2 * R \in Nat
  BY RingAssumption
<1>2. PICK f : IsSeedRun(f, 2 * R, seed)
  BY <1>1, SeedRunExists
<1>3. Solves(f)
  BY <1>1, <1>2 DEF IsSeedRun
<1>4. Solves(lcg)
  BY <1>3
<1>5. SeedWords(seed) = [i \in Ring |-> lcg[R + i + 1]]
  BY DEF SeedWords
<1> HIDE DEF lcg
<1>6. lcg[0] = seed /\ \A n \in 1 .. (2 * R) : lcg[n] = SeedStep(lcg[n - 1])
  BY <1>1, <1>4
<1>7. \A n \in 0 .. (2 * R) : lcg[n] \in Nat
  <2> DEFINE Bad == {n \in 0 .. (2 * R) : lcg[n] \notin Nat}
  <2> SUFFICES ASSUME Bad # {} PROVE FALSE
    OBVIOUS
  <2>1. PICK m \in Bad : \A n \in Bad : m <= n
    <3>1. Bad \in SUBSET Nat
      BY <1>1
    <3> HIDE DEF Bad
    <3> QED BY <3>1, LeastNatural
  <2>2. m \in 1 .. (2 * R) /\ lcg[m - 1] \in Nat
    BY <1>1, <1>6, <2>1
  <2> QED BY <1>6, <2>1, <2>2, SeedStepType, WordAssumption
<1>8. \A n \in 1 .. (2 * R) : lcg[n] \in 0 .. (WordModulus - 1)
  BY <1>1, <1>6, <1>7, SeedStepType
<1> QED BY <1>1, <1>5, <1>8 DEF Ring

LEMMA SeedIInv ==
  ASSUME mitchellmoore_IInv, NEW seed \in RingSeeds, mitchellmoore_seed(seed)
  PROVE  mitchellmoore_IInv'
<1> DEFINE words == SeedWords(seed)
<1>1. words \in [Ring -> 0 .. (WordModulus - 1)]
  BY SeedWordsType, RingSeedsAssumption
<1>2. /\ mitchellmoore_sequence' =
           [words EXCEPT ![0] = (2 * @) % WordModulus, ![1] = @ + 1 - (@ % 2)]
      /\ mitchellmoore_seeded' = TRUE
      /\ mitchellmoore_a' = mitchellmoore_a /\ mitchellmoore_b' = mitchellmoore_b
      /\ mitchellmoore_c' = mitchellmoore_c /\ mitchellmoore_d' = mitchellmoore_d
  BY DEF mitchellmoore_seed
<1> HIDE DEF words
<1>3. 0 \in Ring /\ 1 \in Ring /\ WordModulus \in Nat \ {0} /\ WordModulus % 2 = 0
  BY RingAssumption, WordAssumption DEF Ring
<1>4. (2 * words[0]) % WordModulus \in 0 .. (WordModulus - 1)
  <2>1. 2 * words[0] \in Nat
    BY <1>1, <1>3
  <2> DEFINE double == 2 * words[0]
  <2>2. double \in Nat
    BY <2>1
  <2> HIDE DEF double
  <2>3. double % WordModulus \in 0 .. (WordModulus - 1)
    BY <1>3, <2>2
  <2> QED BY <2>3 DEF double
<1>5. /\ words[1] + 1 - (words[1] % 2) \in 0 .. (WordModulus - 1)
      /\ (words[1] + 1 - (words[1] % 2)) % 2 = 1
  BY <1>1, <1>3
<1>6. WordsOK'
  BY <1>1, <1>2, <1>3, <1>4, <1>5 DEF WordsOK
<1>7. NeverAllEven'
  BY <1>1, <1>2, <1>3, <1>5 DEF NeverAllEven
<1>8. CountersOK'
  BY <1>2 DEF mitchellmoore_IInv, CountersOK
<1> QED BY <1>6, <1>7, <1>8 DEF mitchellmoore_IInv

LEMMA MitchellMooreIInv == mitchellmoore_spec => []mitchellmoore_IInv
<1>1. mitchellmoore_init => mitchellmoore_IInv
  <2> SUFFICES ASSUME mitchellmoore_init PROVE mitchellmoore_IInv
    OBVIOUS
  <2>1. CountersOK
    BY RingAssumption DEF mitchellmoore_init, CountersOK, Counter, InFront
  <2>2. WordsOK
    BY WordAssumption DEF mitchellmoore_init, WordsOK
  <2> QED BY <2>1, <2>2 DEF mitchellmoore_init, mitchellmoore_IInv, NeverAllEven
<1>2. mitchellmoore_IInv /\ UNCHANGED mitchellmoore_vars => mitchellmoore_IInv'
  BY DEF mitchellmoore_vars, mitchellmoore_IInv, CountersOK, WordsOK, NeverAllEven
<1>3. mitchellmoore_IInv /\ [mitchellmoore_next]_mitchellmoore_vars => mitchellmoore_IInv'
  BY <1>2, SeedIInv, CallIInv DEF mitchellmoore_next
<1> QED BY <1>1, <1>3, PTL DEF mitchellmoore_spec

LEMMA FourElements ==
  ASSUME NEW a, NEW b, NEW c, NEW d, Apart(a, b, c, d)
  PROVE  Cardinality({a, b, c, d}) = 4
<1>1. IsFiniteSet({a}) /\ Cardinality({a}) = 1
  BY FS_Singleton
<1>2. IsFiniteSet({a, b}) /\ Cardinality({a, b}) = 2
  <2>1. {a, b} = {a} \cup {b} /\ b \notin {a}
    BY DEF Apart
  <2> QED BY <1>1, <2>1, FS_AddElement
<1>3. IsFiniteSet({a, b, c}) /\ Cardinality({a, b, c}) = 3
  <2>1. {a, b, c} = {a, b} \cup {c} /\ c \notin {a, b}
    BY DEF Apart
  <2> QED BY <1>2, <2>1, FS_AddElement
<1>4. {a, b, c, d} = {a, b, c} \cup {d} /\ d \notin {a, b, c}
  BY DEF Apart
<1> QED BY <1>3, <1>4, FS_AddElement

\* A call adds at three different places, from a fourth, however often the
\* 32-bit counters have wrapped.
THEOREM PlacesCorrect == mitchellmoore_spec => []PlacesDistinct
<1>1. mitchellmoore_IInv => PlacesDistinct
  BY FourPlaces, FourElements DEF mitchellmoore_IInv, CountersOK, PlacesDistinct
<1> QED BY <1>1, MitchellMooreIInv, PTL

\* Once seeded, the generator never gets to words that are all even, from which
\* its lowest bit could not recover.
THEOREM OddWordCorrect == mitchellmoore_spec => []NeverAllEven
<1>1. mitchellmoore_IInv => NeverAllEven
  BY DEF mitchellmoore_IInv
<1> QED BY <1>1, MitchellMooreIInv, PTL
=============================================================================
