---------------------------- MODULE AesCtrProofs ----------------------------
(***************************************************************************)
(* For every number of lanes, rounds, counters and seeds, and whatever the *)
(* round functions are: the buffered generator implements counter mode.    *)
(* The same of aesdragontamer.h, for every width of its lanes and every    *)
(* increment.  And of trivium32.h and trivium64.h, as they are: a call is  *)
(* 32, or 64, clocks of Trivium.                                           *)
(***************************************************************************)
EXTENDS AesCtr, AesDragontamer, Trivium, BitWordsProofs

\* The lanes' counters are consecutive, and a buffer that is not used up holds
\* the encryptions of the AESCTR_UNROLL counters before them.
LanesConsecutive == \A i \in Lane : ctr[i] = (ctr[0] + i) % Counters
BufferCurrent ==
  offset < BufferSize =>
    \A i \in Lane : state[i] = Encrypt(seed, (ctr[0] - AESCTR_UNROLL + i) % Counters)

IInv == TypeOK /\ (Seeded => LanesConsecutive /\ BufferCurrent)

\* What the type invariant says of the offset: it is at a half block.
LEMMA OffsetFacts ==
  ASSUME TypeOK
  PROVE  /\ offset \in Nat /\ BufferSize \in Nat
         /\ offset <= BufferSize
         /\ offset < BufferSize =>
              /\ offset \div 16 \in Lane
              /\ (offset % 16) \div 8 \in {0, 1}
              /\ (offset % 16) \div 8 = 0 =>
                   /\ (offset + 8) \div 16 = offset \div 16
                   /\ ((offset + 8) % 16) \div 8 = 1
                   /\ offset + 8 < BufferSize
              /\ (offset % 16) \div 8 = 1 =>
                   /\ (offset + 8) \div 16 = (offset \div 16) + 1
                   /\ ((offset + 8) % 16) \div 8 = 0
                   /\ offset + 8 >= BufferSize => (offset \div 16) + 1 = AESCTR_UNROLL
<1> USE SizesAssumption DEF BufferSize, Lane
<1>1. PICK n \in 0 .. (2 * AESCTR_UNROLL) : offset = 8 * n
  BY DEF TypeOK
<1>2. offset \in Nat /\ offset <= BufferSize
  BY <1>1
<1>3. PICK m \in Nat, h \in {0, 1} : n = (2 * m) + h
  <2>1. n = (2 * (n \div 2)) + (n % 2) /\ n \div 2 \in Nat /\ n % 2 \in {0, 1}
    BY <1>1
  <2> QED BY <2>1
<1>4. offset = (16 * m) + (8 * h)
  BY <1>1, <1>3
<1>5. offset \div 16 = m /\ (offset % 16) \div 8 = h
  BY <1>3, <1>4
<1>6. h = 0 => (offset + 8) \div 16 = m /\ ((offset + 8) % 16) \div 8 = 1
  BY <1>3, <1>4
<1>7. h = 1 => (offset + 8) \div 16 = m + 1 /\ ((offset + 8) % 16) \div 8 = 0
  BY <1>3, <1>4
<1>8. offset < BufferSize => m < AESCTR_UNROLL
  BY <1>3, <1>4
<1> QED BY <1>2, <1>3, <1>4, <1>5, <1>6, <1>7, <1>8

\* Counter arithmetic: the counter AESCTR_UNROLL before the next lane-0
\* counter is the current one, and so on for every lane.
LEMMA LaneArithmetic ==
  ASSUME NEW c \in Counter, NEW i \in Lane
  PROVE  /\ (c + i) % Counters \in Counter
         /\ (c + AESCTR_UNROLL) % Counters \in Counter
         /\ (((c + i) % Counters) + AESCTR_UNROLL) % Counters
              = (((c + AESCTR_UNROLL) % Counters) + i) % Counters
         /\ (((c + AESCTR_UNROLL) % Counters) - AESCTR_UNROLL + i) % Counters
              = (c + i) % Counters
         /\ c % Counters = c
<1> USE SizesAssumption
<1>1. c \in Int /\ i \in Int /\ AESCTR_UNROLL \in Int /\ c \in 0 .. (Counters - 1)
  BY DEF Counter, Lane
<1>2. \A x, y \in Int : ((x % Counters) + y) % Counters = (x + y) % Counters
  BY ModAdd
<1>3. \A x \in Int : x % Counters \in Counter
  BY DivMod DEF Counter
<1> DEFINE u == AESCTR_UNROLL
           p == c + i
           q == c + u
           d == i - u
<1>4. p \in Int /\ q \in Int /\ d \in Int /\ u \in Int
  BY <1>1
<1>5. p + u = q + i /\ q + d = p
  BY <1>1
<1>6. q % Counters \in Int
  BY <1>3, <1>4 DEF Counter
<1>7. (q % Counters) - u + i = (q % Counters) + d
  BY <1>1, <1>6
<1> HIDE DEF u, p, q, d
<1>8. /\ ((p % Counters) + u) % Counters = (p + u) % Counters
      /\ ((q % Counters) + i) % Counters = (q + i) % Counters
      /\ ((q % Counters) + d) % Counters = (q + d) % Counters
  BY <1>1, <1>2, <1>4
<1>9. /\ p % Counters \in Counter
      /\ q % Counters \in Counter
      /\ ((p % Counters) + u) % Counters = ((q % Counters) + i) % Counters
      /\ ((q % Counters) - u + i) % Counters = p % Counters
  BY <1>3, <1>4, <1>5, <1>7, <1>8
<1>10. c % Counters = c
  <2>1. ((Counters * 0) + c) % Counters = c
    BY <1>1, ModUnique
  <2> QED BY <1>1, <2>1
<1> QED BY <1>9, <1>10 DEF u, p, q

\* The counter served next, by buffer position: it moves on by one when a
\* block's second half has been handed out, within the buffer and at its end.
LEMMA ServedCounter ==
  ASSUME NEW c \in Counter, NEW m \in Lane
  PROVE  /\ (c - AESCTR_UNROLL + m) % Counters \in Counter
         /\ (((c - AESCTR_UNROLL + m) % Counters) + 1) % Counters
              = (c - AESCTR_UNROLL + (m + 1)) % Counters
         /\ m + 1 = AESCTR_UNROLL =>
              (((c - AESCTR_UNROLL + m) % Counters) + 1) % Counters = c
<1> USE SizesAssumption
<1> DEFINE x == c - AESCTR_UNROLL + m
<1>1. x \in Int /\ c \in Int /\ x + 1 = c - AESCTR_UNROLL + (m + 1)
  BY DEF Counter, Lane
<1>2. m + 1 = AESCTR_UNROLL => x + 1 = c
  BY DEF Counter, Lane
<1> HIDE DEF x
<1>3. ((x % Counters) + 1) % Counters = (x + 1) % Counters
  <2>1. \A y \in Int : ((x % Counters) + y) % Counters = (x + y) % Counters
    BY <1>1, ModAdd
  <2> QED BY <2>1
<1>4. x % Counters \in Counter
  BY <1>1, DivMod DEF Counter
<1>5. c % Counters = c
  <2>1. 0 \in Lane
    BY DEF Lane
  <2> QED BY <2>1, LaneArithmetic
<1> QED BY <1>1, <1>2, <1>3, <1>4, <1>5 DEF x

-----------------------------------------------------------------------------
LEMMA InitIInv == Init => IInv
<1> SUFFICES ASSUME Init PROVE IInv
  OBVIOUS
<1> USE SizesAssumption, BlockAssumption DEF Init
<1>1. TypeOK
  <2>1. offset = 8 * 0 /\ 0 \in 0 .. (2 * AESCTR_UNROLL)
    OBVIOUS
  <2>2. output \in Outputs
    BY DEF Outputs
  <2>3. state \in [Lane -> Block] /\ ctr \in [Lane -> Counter]
    BY DEF Counter
  <2> QED BY <2>1, <2>2, <2>3 DEF TypeOK
<1>2. ~Seeded
  BY DEF Seeded
<1> QED BY <1>1, <1>2 DEF IInv

LEMMA SeedIInv ==
  ASSUME IInv, NEW s \in Seeds, aesctr_seed(s)
  PROVE  IInv'
<1> USE SizesAssumption, BlockAssumption DEF aesctr_seed
<1>1. TypeOK'
  <2>1. offset' = 8 * (2 * AESCTR_UNROLL)
    BY DEF BufferSize
  <2>2. ctr' \in [Lane -> Counter]
    BY DEF Lane, Counter
  <2>3. seed' \in RoundKeys
    BY DEF RoundKeys
  <2> QED BY <2>1, <2>2, <2>3 DEF IInv, TypeOK
<1>2. LanesConsecutive'
  <2> SUFFICES ASSUME NEW i \in Lane PROVE ctr'[i] = (ctr'[0] + i) % Counters
    BY DEF LanesConsecutive
  <2>1. ctr'[i] = i /\ ctr'[0] = 0 /\ i \in Counter
    BY DEF Lane, Counter
  <2>2. i % Counters = i
    BY <2>1, LaneArithmetic
  <2> QED BY <2>1, <2>2 DEF Counter
<1>3. BufferCurrent'
  BY DEF BufferCurrent, BufferSize
<1> QED BY <1>1, <1>2, <1>3 DEF IInv

LEMMA CallIInv ==
  ASSUME IInv, aesctr
  PROVE  IInv'
<1> USE SizesAssumption, BlockAssumption
<1>1. /\ TypeOK /\ ctr \in [Lane -> Counter] /\ ctr[0] \in Counter /\ 0 \in Lane
      /\ offset \in Nat /\ seed' = seed /\ Seeded' = Seeded
      /\ seed \in RoundKeys \cup {ZeroKeys}
  BY OffsetFacts DEF IInv, TypeOK, aesctr, Lane, Seeded
<1>2. CASE offset >= BufferSize
  <2>1. /\ state' = [i \in Lane |-> Encrypt(seed, ctr[i])]
        /\ ctr' = [i \in Lane |-> (ctr[i] + AESCTR_UNROLL) % Counters]
        /\ output' = Half(state'[0], 0)
        /\ offset' = 8
    <3>1. 0 \div 16 = 0 /\ (0 % 16) \div 8 = 0
      OBVIOUS
    <3> QED BY <1>2, <3>1 DEF aesctr, Refill, BytesAt
  <2>2. TypeOK'
    <3>1. state' \in [Lane -> Block]
      BY <1>1, <2>1
    <3>2. \A i \in Lane : (ctr[i] + AESCTR_UNROLL) % Counters \in Counter
      BY <1>1, LaneArithmetic
    <3>3. offset' = 8 * 1 /\ 1 \in 0 .. (2 * AESCTR_UNROLL)
      BY <2>1
    <3>4. output' \in Outputs
      BY <1>1, <2>1, <3>1 DEF Outputs
    <3> QED BY <1>1, <2>1, <3>1, <3>2, <3>3, <3>4 DEF TypeOK
  <2>3. ASSUME Seeded PROVE LanesConsecutive' /\ BufferCurrent'
    <3>1. ASSUME NEW i \in Lane
          PROVE  /\ ctr'[i] = (ctr'[0] + i) % Counters
                 /\ state'[i] = Encrypt(seed, (ctr'[0] - AESCTR_UNROLL + i) % Counters)
      <4>1. ctr[i] = (ctr[0] + i) % Counters
        BY <2>3 DEF IInv, LanesConsecutive
      <4>2. ctr'[i] = (((ctr[0] + i) % Counters) + AESCTR_UNROLL) % Counters
        BY <2>1, <4>1
      <4>3. ctr'[0] = (ctr[0] + AESCTR_UNROLL) % Counters
        BY <1>1, <2>1
      <4>4. state'[i] = Encrypt(seed, ctr[i])
        BY <2>1
      <4> QED BY <1>1, <4>1, <4>2, <4>3, <4>4, LaneArithmetic
    <3> QED BY <1>1, <3>1 DEF LanesConsecutive, BufferCurrent
  <2> QED BY <1>1, <2>2, <2>3 DEF IInv
<1>3. CASE ~(offset >= BufferSize)
  <2>1. /\ state' = state /\ ctr' = ctr /\ offset' = offset + 8
        /\ output' = Half(state[offset \div 16], (offset % 16) \div 8)
    BY <1>3 DEF aesctr, BytesAt
  <2>2. TypeOK'
    <3>1. PICK n \in 0 .. (2 * AESCTR_UNROLL) : offset = 8 * n
      BY <1>1 DEF TypeOK
    <3>2. offset' = 8 * (n + 1) /\ n + 1 \in 0 .. (2 * AESCTR_UNROLL)
      BY <1>3, <2>1, <3>1 DEF BufferSize
    <3>3. offset \div 16 \in Lane /\ (offset % 16) \div 8 \in {0, 1}
      <4>1. offset < BufferSize
        BY <1>1, <1>3, OffsetFacts
      <4> QED BY <1>1, <4>1, OffsetFacts
    <3>4. output' \in Outputs
      BY <1>1, <2>1, <3>3 DEF TypeOK, Outputs
    <3> QED BY <1>1, <2>1, <3>2, <3>4 DEF TypeOK
  <2>3. ASSUME Seeded PROVE LanesConsecutive' /\ BufferCurrent'
    <3>1. offset < BufferSize
      BY <1>1, <1>3, OffsetFacts
    <3> QED BY <1>1, <2>1, <2>3, <3>1 DEF IInv, LanesConsecutive, BufferCurrent
  <2> QED BY <1>1, <2>2, <2>3 DEF IInv
<1> QED BY <1>2, <1>3

LEMMA StepIInv == IInv /\ [Next]_vars => IInv'
<1> SUFFICES ASSUME IInv, [Next]_vars PROVE IInv'
  OBVIOUS
<1>1. CASE UNCHANGED vars
  BY <1>1 DEF vars, IInv, TypeOK, Seeded, LanesConsecutive, BufferCurrent
<1> QED BY <1>1, SeedIInv, CallIInv DEF Next

\* The buffer offset stays at a half block inside or at the end of the buffer.
THEOREM TypeCorrect == Spec => []TypeOK
<1>1. IInv => TypeOK
  BY DEF IInv
<1> QED BY <1>1, InitIInv, StepIInv, PTL DEF Spec

-----------------------------------------------------------------------------
LEMMA InitRefines == Init => CM!Init
<1> SUFFICES ASSUME Init PROVE CM!Init
  OBVIOUS
<1>1. output \in Outputs
  BY BlockAssumption DEF Init, Outputs
<1>2. ~Seeded /\ seed \notin RoundKeys
  BY BlockAssumption DEF Init, Seeded
<1> QED BY <1>1, <1>2 DEF CM!Init, NextCounter, NextHalf

LEMMA SeedRefines ==
  ASSUME NEW s \in Seeds, aesctr_seed(s)
  PROVE  CM!Seed
<1> USE SizesAssumption DEF aesctr_seed
<1>1. seed' \in RoundKeys /\ Seeded'
  BY BlockAssumption DEF RoundKeys, Seeded
<1>2. ctr'[0] = 0 /\ offset' = BufferSize /\ output' = output
  BY DEF Lane
<1>3. NextCounter' = 0
  BY <1>1, <1>2 DEF NextCounter, BufferSize
<1>4. NextHalf' = 0
  <2>1. (16 * AESCTR_UNROLL) % 16 = 0
    OBVIOUS
  <2> QED BY <1>1, <1>2, <2>1 DEF NextHalf, BufferSize
<1> QED BY <1>1, <1>2, <1>3, <1>4 DEF CM!Seed

LEMMA CallRefines ==
  ASSUME IInv, IInv', aesctr
  PROVE  CM!Generate \/ CM!GenerateUnseeded
<1> USE SizesAssumption, BlockAssumption
<1>1. /\ TypeOK /\ ctr \in [Lane -> Counter] /\ ctr[0] \in Counter /\ 0 \in Lane
      /\ offset \in Nat /\ seed' = seed /\ Seeded' = Seeded
      /\ output' \in Outputs
  BY OffsetFacts DEF IInv, TypeOK, aesctr, Lane, Seeded
<1>2. CASE ~Seeded
  BY <1>1, <1>2 DEF CM!GenerateUnseeded, NextCounter, NextHalf
<1>3. CASE Seeded /\ offset >= BufferSize
  <2>1. /\ state' = [i \in Lane |-> Encrypt(seed, ctr[i])]
        /\ ctr' = [i \in Lane |-> (ctr[i] + AESCTR_UNROLL) % Counters]
        /\ output' = Half(state'[0], 0)
        /\ offset' = 8
    <3>1. 0 \div 16 = 0 /\ (0 % 16) \div 8 = 0
      OBVIOUS
    <3> QED BY <1>3, <3>1 DEF aesctr, Refill, BytesAt
  <2>2. offset = 16 * AESCTR_UNROLL
    BY <1>1, <1>3, OffsetFacts DEF BufferSize
  <2>3. NextCounter = ctr[0] /\ NextHalf = 0
    <3>1. (16 * AESCTR_UNROLL) % 16 = 0
      OBVIOUS
    <3> QED BY <1>3, <2>2, <3>1 DEF NextCounter, NextHalf
  <2>4. output' = Half(Encrypt(seed, ctr[0]), 0)
    BY <1>1, <2>1
  <2>5. NextCounter' = ctr[0]
    <3>1. ~(8 >= BufferSize) /\ 8 \div 16 = 0
      BY DEF BufferSize
    <3>2. ctr'[0] = (ctr[0] + AESCTR_UNROLL) % Counters
      BY <1>1, <2>1
    <3>3. NextCounter' = (ctr'[0] - AESCTR_UNROLL + 0) % Counters
      BY <1>1, <1>3, <2>1, <3>1 DEF NextCounter, BufferSize
    <3>4. (((ctr[0] + AESCTR_UNROLL) % Counters) - AESCTR_UNROLL + 0) % Counters
            = (ctr[0] + 0) % Counters
      BY <1>1, LaneArithmetic
    <3>5. (ctr[0] + 0) % Counters = ctr[0]
      <4>1. ctr[0] + 0 = ctr[0]
        BY <1>1 DEF Counter
      <4> QED BY <1>1, <4>1, LaneArithmetic
    <3> QED BY <3>2, <3>3, <3>4, <3>5
  <2>6. NextHalf' = 1
    <3>1. (8 % 16) \div 8 = 1
      OBVIOUS
    <3> QED BY <1>1, <1>3, <2>1, <3>1 DEF NextHalf
  <2> QED BY <1>1, <1>3, <2>3, <2>4, <2>5, <2>6 DEF CM!Generate
<1>4. CASE Seeded /\ ~(offset >= BufferSize)
  <2> DEFINE m == offset \div 16
             h == (offset % 16) \div 8
  <2>1. /\ state' = state /\ ctr' = ctr /\ offset' = offset + 8
        /\ output' = Half(state[m], h)
    BY <1>4 DEF aesctr, BytesAt
  <2>2. offset < BufferSize
    BY <1>1, <1>4, OffsetFacts
  <2>3. m \in Lane /\ h \in {0, 1}
    BY <1>1, <2>2, OffsetFacts
  <2>4. NextCounter = (ctr[0] - AESCTR_UNROLL + m) % Counters /\ NextHalf = h
    BY <1>4 DEF NextCounter, NextHalf
  <2>5. output' = Half(Encrypt(seed, NextCounter), NextHalf)
    BY <1>4, <2>1, <2>2, <2>3, <2>4 DEF IInv, BufferCurrent
  <2>6. CASE h = 0
    <3>1. /\ (offset + 8) \div 16 = m /\ ((offset + 8) % 16) \div 8 = 1
          /\ ~(offset + 8 >= BufferSize)
      BY <1>1, <2>2, <2>6, OffsetFacts
    <3>2. NextCounter' = NextCounter
      BY <1>1, <1>4, <2>1, <2>4, <3>1 DEF NextCounter, BufferSize
    <3>3. NextHalf' = 1
      BY <1>1, <1>4, <2>1, <3>1 DEF NextHalf
    <3> HIDE DEF m, h
    <3> QED BY <1>1, <1>4, <2>4, <2>5, <2>6, <3>2, <3>3 DEF CM!Generate
  <2>7. CASE h = 1
    <3>1. /\ (offset + 8) \div 16 = m + 1 /\ ((offset + 8) % 16) \div 8 = 0
          /\ offset + 8 >= BufferSize => m + 1 = AESCTR_UNROLL
      BY <1>1, <2>2, <2>7, OffsetFacts
    <3>2. NextCounter' = (NextCounter + 1) % Counters
      <4>1. CASE offset + 8 >= BufferSize
        <5>1. NextCounter' = ctr[0]
          BY <1>1, <1>4, <2>1, <4>1 DEF NextCounter, BufferSize
        <5> HIDE DEF m, h
        <5> QED BY <1>1, <2>3, <2>4, <3>1, <4>1, <5>1, ServedCounter
      <4>2. CASE ~(offset + 8 >= BufferSize)
        <5>1. NextCounter' = (ctr[0] - AESCTR_UNROLL + (m + 1)) % Counters
          BY <1>1, <1>4, <2>1, <3>1, <4>2 DEF NextCounter, BufferSize
        <5> HIDE DEF m, h
        <5> QED BY <1>1, <2>3, <2>4, <5>1, ServedCounter
      <4> QED BY <4>1, <4>2
    <3>3. NextHalf' = 0
      BY <1>1, <1>4, <2>1, <3>1 DEF NextHalf
    <3> HIDE DEF m, h
    <3> QED BY <1>1, <1>4, <2>4, <2>5, <2>7, <3>2, <3>3 DEF CM!Generate
  <2> QED BY <2>3, <2>6, <2>7
<1> QED BY <1>2, <1>3, <1>4

LEMMA StepRefines == IInv /\ IInv' /\ [Next]_vars => [CM!Next]_(CM!vars)
<1> SUFFICES ASSUME IInv, IInv', [Next]_vars PROVE CM!Next \/ UNCHANGED CM!vars
  OBVIOUS
<1>1. ASSUME NEW s \in Seeds, aesctr_seed(s) PROVE CM!Next
  BY <1>1, SeedRefines DEF CM!Next
<1>2. CASE aesctr
  BY <1>2, CallRefines DEF CM!Next
<1>3. CASE UNCHANGED vars
  BY <1>3 DEF vars, CM!vars, Seeded, NextCounter, NextHalf
<1> QED BY <1>1, <1>2, <1>3 DEF Next

\* aesctr.h is AES in counter mode: every call returns the next half block.
THEOREM RefinementCorrect == Spec => ImplementsCounterMode
BY InitIInv, StepIInv, InitRefines, StepRefines, PTL
   DEF Spec, ImplementsCounterMode, CM!Spec
-----------------------------------------------------------------------------
(***************************************************************************)
(* aesdragontamer.h.  The state is as many increments after its start as   *)
(* the buffer has been filled, and the buffer is made of it.               *)
(***************************************************************************)
StreamTypeOK == /\ g_state \in Block128 /\ g_start \in Block128
                /\ g_increment \in {Zero128, INCREMENT}
                /\ g_buffer \in [0 .. 3 -> StreamWords]
                /\ g_offset \in 0 .. 4
                /\ g_output \in StreamWords
                /\ g_filled \in 0 .. (LaneModulus - 1)

BufferOfState == /\ <<g_increment, g_start>> \in StreamKeys
                 /\ g_state = Moved(g_start, g_filled)
                 /\ g_buffer = BufferWords(g_state, INCREMENT)

StreamIInv == StreamTypeOK /\ (IncrementSet => BufferOfState)

\* A number times b counts modulo m as its remainder does.
LEMMA RemainderTimes ==
  ASSUME NEW b \in Int, NEW m \in Nat \ {0}
  PROVE  \A a, n \in Int : (a + (n % m) * b) % m = (a + n * b) % m
<1> SUFFICES ASSUME NEW a \in Int, NEW n \in Int
             PROVE  (a + (n % m) * b) % m = (a + n * b) % m
  BY Zenon
<1> DEFINE d == n \div m
           r == n % m
<1>1. d \in Int /\ r \in Int /\ n = (m * d) + r
  BY DivMod
<1> HIDE DEF d, r
<1>2. a + r * b \in Int /\ d * b \in Int
  BY <1>1
<1>3. (a + n * b) = (a + r * b) + m * (d * b)
  BY <1>1
<1>4. ((a + r * b) + m * (d * b)) % m = (a + r * b) % m
  BY <1>2, ModShift
<1> QED BY <1>3, <1>4 DEF r

\* One lane: an increment more, and the number of increments only matters
\* modulo the lane's.
LEMMA LaneMoves ==
  ASSUME NEW a \in Int, NEW b \in Int, NEW n \in Int, NEW m \in Nat \ {0}
  PROVE  /\ (a + n * b) % m \in 0 .. (m - 1)
         /\ (((a + n * b) % m) + b) % m = (a + (n + 1) * b) % m
         /\ (a + ((n + 1) % m) * b) % m = (a + (n + 1) * b) % m
         /\ (a + (((n - 1) % m) + 1) * b) % m = (a + n * b) % m
<1> DEFINE e == a + n * b
           k == n + 1
           l == n - 1
           c == a + b
<1>1. e \in Int /\ k \in Int /\ l \in Int /\ c \in Int /\ l % m \in Int
  <2>1. e \in Int /\ k \in Int /\ l \in Int /\ c \in Int
    OBVIOUS
  <2> HIDE DEF l
  <2> QED BY <2>1, DivMod
<1>2. e + b = a + k * b /\ c + l * b = e /\ \A r \in Int : c + r * b = a + (r + 1) * b
  OBVIOUS
<1> HIDE DEF e, k, l, c
<1>3. e % m \in 0 .. (m - 1)
  BY <1>1, DivMod
<1>4. ((e % m) + b) % m = (e + b) % m
  BY <1>1, ModAdd, ZenonT(60)
<1>9. \A x, y \in Int : (x + (y % m) * b) % m = (x + y * b) % m
  BY RemainderTimes, Zenon
<1>5. (a + (k % m) * b) % m = (a + k * b) % m
  BY <1>1, <1>9, Zenon
<1>6. (c + (l % m) * b) % m = (c + l * b) % m
  BY <1>1, <1>9, Zenon
<1>7. (a + ((l % m) + 1) * b) % m = e % m
  BY <1>1, <1>2, <1>6
<1>8. ((e % m) + b) % m = (a + k * b) % m
  BY <1>2, <1>4
<1> QED BY <1>3, <1>5, <1>7, <1>8 DEF e, k, l

LEMMA StateMoves ==
  ASSUME NEW start \in Block128, NEW n \in 0 .. (LaneModulus - 1)
  PROVE  /\ Moved(start, n) \in Block128
         /\ add_epi64(Moved(start, n), INCREMENT) = Moved(start, n + 1)
         /\ Moved(start, (n + 1) % LaneModulus) = Moved(start, n + 1)
         /\ Moved(start, ((n - 1) % LaneModulus) + 1) = Moved(start, n)
<1> USE IncrementAssumption
<1>1. /\ start[1] \in Int /\ start[2] \in Int
      /\ INCREMENT[1] \in Int /\ INCREMENT[2] \in Int /\ n \in Int
  BY DEF Block128
<1> DEFINE Facts(a, b) ==
      /\ (a + n * b) % LaneModulus \in 0 .. (LaneModulus - 1)
      /\ (((a + n * b) % LaneModulus) + b) % LaneModulus = (a + (n + 1) * b) % LaneModulus
      /\ (a + ((n + 1) % LaneModulus) * b) % LaneModulus = (a + (n + 1) * b) % LaneModulus
      /\ (a + (((n - 1) % LaneModulus) + 1) * b) % LaneModulus = (a + n * b) % LaneModulus
<1>0. ASSUME NEW a \in Int, NEW b \in Int PROVE Facts(a, b)
  BY <1>1, LaneMoves
<1>2. Facts(start[1], INCREMENT[1])
  <2> HIDE DEF Facts
  <2> QED BY <1>1, <1>0
<1>3. Facts(start[2], INCREMENT[2])
  <2> HIDE DEF Facts
  <2> QED BY <1>1, <1>0
<1>4. Moved(start, n) \in Block128
  BY <1>2, <1>3 DEF Moved, Block128
<1>5. add_epi64(Moved(start, n), INCREMENT) = Moved(start, n + 1)
  BY <1>2, <1>3 DEF Moved, add_epi64
<1>6. Moved(start, (n + 1) % LaneModulus) = Moved(start, n + 1)
  BY <1>2, <1>3 DEF Moved
<1>7. Moved(start, ((n - 1) % LaneModulus) + 1) = Moved(start, n)
  BY <1>2, <1>3 DEF Moved
<1> QED BY <1>4, <1>5, <1>6, <1>7

\* The words made of a state and an increment are halves of blocks.
LEMMA BufferWordsType ==
  ASSUME NEW st \in Block128, NEW increment \in Block128
  PROVE  BufferWords(st, increment) \in [0 .. 3 -> StreamWords]
<1> DEFINE p  == mm_aesenc(st, increment)
           p1 == mm_aesenc(p, increment)
           p2 == mm_aesdec(p, increment)
<1>1. p \in Block128 /\ p1 \in Block128 /\ p2 \in Block128
  BY RoundsAssumption
<1> HIDE DEF p1, p2
<1>2. \A i \in 0 .. 3 : i % 2 \in {0, 1} /\ (IF i < 2 THEN p1 ELSE p2) \in Block128
  BY <1>1
<1>3. \A i \in 0 .. 3 : mm_storeu(IF i < 2 THEN p1 ELSE p2, i % 2) \in StreamWords
  BY <1>2 DEF StreamWords
<1>4. BufferWords(st, increment)
        = [i \in 0 .. 3 |-> mm_storeu(IF i < 2 THEN p1 ELSE p2, i % 2)]
  BY DEF BufferWords, p1, p2
<1> QED BY <1>3, <1>4

LEMMA SumType ==
  ASSUME NEW x \in Block128, NEW y \in Block128
  PROVE  add_epi64(x, y) \in Block128
<1>1. /\ x[1] \in Int /\ x[2] \in Int /\ y[1] \in Int /\ y[2] \in Int
      /\ x[1] + y[1] \in Int /\ x[2] + y[2] \in Int
  BY IncrementAssumption DEF Block128
<1>2. /\ (x[1] + y[1]) % LaneModulus \in 0 .. (LaneModulus - 1)
      /\ (x[2] + y[2]) % LaneModulus \in 0 .. (LaneModulus - 1)
  BY <1>1, IncrementAssumption, DivMod
<1> QED BY <1>2 DEF add_epi64, Block128

-----------------------------------------------------------------------------
LEMMA StreamInit == aesdragontamer_init => StreamIInv /\ BS!Init
<1> SUFFICES ASSUME aesdragontamer_init PROVE StreamIInv /\ BS!Init
  OBVIOUS
<1> USE IncrementAssumption DEF aesdragontamer_init
<1>1. Zero128 \in Block128 /\ ~IncrementSet
  BY DEF Zero128, Block128, IncrementSet
<1>2. mm_storeu(Zero128, 0) \in StreamWords
  BY <1>1 DEF StreamWords
<1>3. StreamTypeOK
  BY <1>1, <1>2 DEF StreamTypeOK
<1>4. <<g_increment, g_start>> \notin StreamKeys
  BY <1>1 DEF StreamKeys, IncrementSet
<1>5. BS!Init
  BY <1>1, <1>2, <1>4 DEF BS!Init, NextState, NextWord
<1> QED BY <1>1, <1>3, <1>5 DEF StreamIInv

LEMMA StreamSeeded ==
  ASSUME StreamIInv, NEW s \in StreamSeeds, aesdragontamer_seed(s)
  PROVE  StreamIInv' /\ BS!Seed
<1> USE IncrementAssumption, RoundsAssumption
<1>1. /\ g_increment' = INCREMENT /\ g_offset' = 0 /\ g_start' = StartOf(s)
      /\ g_output' = g_output
      /\ g_state' = add_epi64(StartOf(s), INCREMENT)
      /\ g_buffer' = BufferWords(g_state', INCREMENT)
      /\ g_filled' = 1
  BY DEF aesdragontamer_seed, aesdragontamer_tobuffer
<1>2. INCREMENT \in Block128 /\ StartOf(s) \in Block128 /\ g_output \in StreamWords
  BY DEF StreamIInv, StreamTypeOK
<1>3. LaneModulus > 1
  BY DEF Block128, Zero128
<1>4. g_state' = Moved(g_start', 1) /\ g_state' \in Block128
  <2>1. add_epi64(Moved(StartOf(s), 0), INCREMENT) = Moved(StartOf(s), 0 + 1)
    BY <1>2, <1>3, StateMoves
  <2>2. Moved(StartOf(s), 0) = StartOf(s)
    BY <1>2 DEF Moved, Block128
  <2> QED BY <1>1, <1>2, <2>1, <2>2, SumType
<1>5. g_buffer' \in [0 .. 3 -> StreamWords]
  BY <1>1, <1>2, <1>4, BufferWordsType
<1>6. StreamTypeOK'
  BY <1>1, <1>2, <1>3, <1>4, <1>5 DEF StreamTypeOK
<1>7. <<g_increment', g_start'>> \in StreamKeys /\ IncrementSet'
  BY <1>1 DEF StreamKeys, IncrementSet
<1>8. BufferOfState'
  BY <1>1, <1>4, <1>7 DEF BufferOfState
<1>9. NextState' = 0 /\ NextWord' = 0
  BY <1>1, <1>3, <1>7 DEF NextState, NextWord, NeedsFill
<1> QED BY <1>1, <1>6, <1>7, <1>8, <1>9 DEF StreamIInv, BS!Seed

\* The number of a state, and the one before it.
LEMMA StateNumbers ==
  ASSUME NEW n \in 0 .. (LaneModulus - 1)
  PROVE  /\ (n + 1) % LaneModulus \in 0 .. (LaneModulus - 1)
         /\ (n - 1) % LaneModulus \in 0 .. (LaneModulus - 1)
         /\ (((n + 1) % LaneModulus) - 1) % LaneModulus = n
         /\ (((n - 1) % LaneModulus) + 1) % LaneModulus = n
<1> USE IncrementAssumption
<1> DEFINE up == n + 1
           down == n - 1
           back == 0 - 1
<1>1. /\ 1 \in Int /\ back \in Int /\ n \in Int /\ up \in Int /\ down \in Int
      /\ up + back = n /\ down + 1 = n
  OBVIOUS
<1>2. n % LaneModulus = n
  <2>1. ((LaneModulus * 0) + n) % LaneModulus = n
    BY ModUnique
  <2> QED BY <2>1
<1> HIDE DEF up, down, back
<1>3. /\ up % LaneModulus \in 0 .. (LaneModulus - 1)
      /\ down % LaneModulus \in 0 .. (LaneModulus - 1)
  BY <1>1, DivMod
<1>4. /\ ((up % LaneModulus) + back) % LaneModulus = (up + back) % LaneModulus
      /\ ((down % LaneModulus) + 1) % LaneModulus = (down + 1) % LaneModulus
  <2>1. \A x, y \in Int : ((x % LaneModulus) + y) % LaneModulus = (x + y) % LaneModulus
    BY ModAdd
  <2> QED BY <1>1, <2>1, Zenon
<1>5. (up % LaneModulus) + back = (up % LaneModulus) - 1
  BY <1>3 DEF back
<1> QED BY <1>1, <1>2, <1>3, <1>4, <1>5 DEF up, down

LEMMA StreamCalled ==
  ASSUME StreamIInv, aesdragontamer
  PROVE  StreamIInv' /\ (BS!Generate \/ BS!GenerateUnseeded)
<1> USE IncrementAssumption
<1>1. /\ StreamTypeOK /\ INCREMENT \in Block128 /\ Zero128 \in Block128
      /\ g_increment' = g_increment /\ g_start' = g_start
      /\ IncrementSet' = IncrementSet
  BY DEF StreamIInv, aesdragontamer, IncrementSet, Zero128, Block128
<1>2. CASE NeedsFill
  <2>1. /\ g_state' = add_epi64(g_state, g_increment)
        /\ g_buffer' = BufferWords(g_state', g_increment)
        /\ g_output' = g_buffer'[0] /\ g_offset' = 1 /\ g_offset = 4
        /\ g_filled' = (g_filled + 1) % LaneModulus
    BY <1>2 DEF aesdragontamer, aesdragontamer_tobuffer, NeedsFill
  <2>2. StreamTypeOK'
    <3>1. g_increment \in Block128 /\ g_state' \in Block128
      BY <1>1, <2>1, SumType DEF StreamTypeOK
    <3>2. g_buffer' \in [0 .. 3 -> StreamWords]
      BY <2>1, <3>1, BufferWordsType
    <3>3. g_filled' \in 0 .. (LaneModulus - 1)
      BY <1>1, <2>1, StateNumbers DEF StreamTypeOK
    <3> QED BY <1>1, <2>1, <3>1, <3>2, <3>3 DEF StreamTypeOK
  <2>3. CASE ~IncrementSet
    BY <1>1, <2>2, <2>3
       DEF StreamTypeOK, StreamIInv, BS!GenerateUnseeded, NextState, NextWord
  <2>4. CASE IncrementSet
    <3>1. /\ BufferOfState /\ g_increment = INCREMENT /\ g_start \in Block128
          /\ g_filled \in 0 .. (LaneModulus - 1)
      BY <1>1, <2>4 DEF StreamIInv, StreamTypeOK, IncrementSet
    <3>2. g_state' = Moved(g_start, g_filled + 1) /\ g_state' = Moved(g_start', g_filled')
      BY <1>1, <2>1, <3>1, StateMoves DEF BufferOfState
    <3>3. BufferOfState'
      BY <1>1, <2>1, <3>1, <3>2 DEF BufferOfState
    <3>4. NextState = g_filled /\ NextWord = 0
      BY <1>2, <2>1, <2>4 DEF NextState, NextWord
    <3>5. NextState' = NextState /\ NextWord' = 1
      <4>1. ~NeedsFill'
        BY <2>1 DEF NeedsFill
      <4>2. NextState' = (g_filled' - 1) % LaneModulus
        BY <1>1, <2>4, <4>1 DEF NextState
      <4>3. NextState' = g_filled
        BY <2>1, <3>1, <4>2, StateNumbers
      <4>4. NextWord' = 1 % 4
        BY <1>1, <2>1, <2>4 DEF NextWord
      <4> QED BY <3>4, <4>3, <4>4
    <3>6. g_output' = WordOf(Enciphered(<<g_increment, g_start>>, NextState), NextWord)
      BY <2>1, <3>1, <3>2, <3>4 DEF Enciphered, WordOf
    <3> QED BY <1>1, <2>2, <2>4, <3>3, <3>4, <3>5, <3>6 DEF StreamIInv, BS!Generate
  <2> QED BY <2>3, <2>4
<1>3. CASE ~NeedsFill
  <2>1. /\ g_output' = g_buffer[g_offset] /\ g_offset' = g_offset + 1
        /\ g_offset \in 0 .. 3
        /\ g_state' = g_state /\ g_buffer' = g_buffer /\ g_filled' = g_filled
    BY <1>1, <1>3 DEF aesdragontamer, NeedsFill, StreamTypeOK
  <2>2. StreamTypeOK'
    BY <1>1, <2>1 DEF StreamTypeOK
  <2>3. CASE ~IncrementSet
    BY <1>1, <2>2, <2>3
       DEF StreamTypeOK, StreamIInv, BS!GenerateUnseeded, NextState, NextWord
  <2>4. CASE IncrementSet
    <3>1. /\ BufferOfState /\ g_increment = INCREMENT /\ g_start \in Block128
          /\ g_filled \in 0 .. (LaneModulus - 1)
      BY <1>1, <2>4 DEF StreamIInv, StreamTypeOK, IncrementSet
    <3>2. BufferOfState'
      BY <1>1, <2>1, <3>1 DEF BufferOfState
    <3>3. NextState = (g_filled - 1) % LaneModulus /\ NextWord = g_offset
      BY <1>3, <2>1, <2>4 DEF NextState, NextWord
    <3>4. g_output' = WordOf(Enciphered(<<g_increment, g_start>>, NextState), NextWord)
      <4>1. Moved(g_start, NextState + 1) = g_state
        BY <3>1, <3>3, StateMoves DEF BufferOfState
      <4> QED BY <2>1, <3>1, <3>3, <4>1 DEF Enciphered, WordOf, BufferOfState
    <3>5. NextWord' = (NextWord + 1) % 4
      BY <1>1, <2>1, <2>4, <3>3 DEF NextWord
    <3>6. CASE g_offset = 3
      <4>1. NextState' = g_filled
        BY <1>1, <2>1, <2>4, <3>6 DEF NextState, NeedsFill
      <4>2. NextState' = (NextState + 1) % LaneModulus
        BY <3>1, <3>3, <4>1, StateNumbers
      <4> QED
        BY <1>1, <2>2, <2>4, <3>2, <3>3, <3>4, <3>5, <3>6, <4>2 DEF StreamIInv, BS!Generate
    <3>7. CASE g_offset # 3
      <4>1. NextState' = NextState
        BY <1>1, <2>1, <2>4, <3>3, <3>7 DEF NextState, NeedsFill
      <4> QED
        BY <1>1, <2>1, <2>2, <2>4, <3>2, <3>3, <3>4, <3>5, <3>7, <4>1
           DEF StreamIInv, BS!Generate
    <3> QED BY <3>6, <3>7
  <2> QED BY <2>3, <2>4
<1> QED BY <1>2, <1>3

LEMMA StreamStep ==
  StreamIInv /\ [aesdragontamer_next]_aesdragontamer_vars
    => StreamIInv' /\ [BS!Next]_(BS!vars)
<1> SUFFICES ASSUME StreamIInv, [aesdragontamer_next]_aesdragontamer_vars
             PROVE  StreamIInv' /\ (BS!Next \/ UNCHANGED BS!vars)
  OBVIOUS
<1>1. ASSUME NEW s \in StreamSeeds, aesdragontamer_seed(s) PROVE StreamIInv' /\ BS!Next
  BY <1>1, StreamSeeded DEF BS!Next
<1>2. CASE aesdragontamer
  BY <1>2, StreamCalled DEF BS!Next
<1>3. CASE UNCHANGED aesdragontamer_vars
  <2>1. StreamIInv'
    BY <1>3 DEF aesdragontamer_vars, StreamIInv, StreamTypeOK, BufferOfState, IncrementSet
  <2>2. UNCHANGED BS!vars
    BY <1>3 DEF aesdragontamer_vars, BS!vars, IncrementSet, NextState, NextWord, NeedsFill
  <2> QED BY <2>1, <2>2
<1> QED BY <1>1, <1>2, <1>3 DEF aesdragontamer_next

\* aesdragontamer.h is a stream of blocks: every call returns the next of the
\* four words made of the next state.
THEOREM BlockStreamCorrect == aesdragontamer_spec => ImplementsBlockStream
BY StreamInit, StreamStep, PTL
   DEF aesdragontamer_spec, ImplementsBlockStream, BS!Spec

-----------------------------------------------------------------------------
\* The bits that the three pieces take in k clocks after the register was r.
Into1(r, k) == (r[69 - k] # (r[286 - k] /\ r[287 - k])) # (r[243 - k] # r[288 - k])
Into2(r, k) == (r[171 - k] # (r[91 - k] /\ r[92 - k])) # (r[66 - k] # r[93 - k])
Into3(r, k) == (r[264 - k] # (r[175 - k] /\ r[176 - k])) # (r[162 - k] # r[177 - k])

\* The register after m clocks: as long as there are no more than 64, every
\* bit that a clock takes is still one of r's.
Clocked(r, m) ==
  [p \in 1 .. 288 |->
     IF p <= 93 THEN IF p > m THEN r[p - m] ELSE Into1(r, m - p)
     ELSE IF p <= 177 THEN IF p - 93 > m THEN r[p - m] ELSE Into2(r, m - (p - 93))
     ELSE IF p - 177 > m THEN r[p - m] ELSE Into3(r, m - (p - 177))]

Registers == [1 .. 288 -> BOOLEAN]

\* One clock more.
LEMMA ClockOnce ==
  ASSUME NEW r \in Registers, NEW m \in 0 .. 63
  PROVE  Cipher!Clock(Clocked(r, m)) = Clocked(r, m + 1)
<1> DEFINE c == Clocked(r, m)
           d == Clocked(r, m + 1)
<1>1. /\ c[66] = r[66 - m] /\ c[69] = r[69 - m] /\ c[91] = r[91 - m]
      /\ c[92] = r[92 - m] /\ c[93] = r[93 - m]
  BY DEF Clocked
<1>2. /\ c[162] = r[162 - m] /\ c[171] = r[171 - m] /\ c[175] = r[175 - m]
      /\ c[176] = r[176 - m] /\ c[177] = r[177 - m]
  BY DEF Clocked
<1>3. /\ c[243] = r[243 - m] /\ c[264] = r[264 - m] /\ c[286] = r[286 - m]
      /\ c[287] = r[287 - m] /\ c[288] = r[288 - m]
  BY DEF Clocked
<1>4. d[1] = Into1(r, m) /\ d[94] = Into2(r, m) /\ d[178] = Into3(r, m)
  BY DEF Clocked
<1>5. ASSUME NEW p \in 1 .. 288, p # 1, p # 94, p # 178
      PROVE  d[p] = c[p - 1]
  <2>1. p - 1 \in 1 .. 288 /\ (p - 1) - m = p - (m + 1)
    BY <1>5
  <2>2. CASE p <= 93
    <3>1. p - 1 <= 93 /\ (p - 1 > m <=> p > m + 1) /\ m - (p - 1) = (m + 1) - p
      BY <2>2
    <3>2. d[p] = IF p > m + 1 THEN r[p - (m + 1)] ELSE Into1(r, (m + 1) - p)
      BY <2>2 DEF Clocked
    <3>3. c[p - 1] = IF p - 1 > m THEN r[(p - 1) - m] ELSE Into1(r, m - (p - 1))
      BY <2>1, <3>1 DEF Clocked
    <3> HIDE DEF c, d
    <3> QED BY <2>1, <3>1, <3>2, <3>3
  <2>3. CASE p > 93 /\ p <= 177
    <3>1. /\ p - 1 > 93 /\ p - 1 <= 177 /\ ((p - 1) - 93 > m <=> p - 93 > m + 1)
          /\ m - ((p - 1) - 93) = (m + 1) - (p - 93)
      BY <2>3, <1>5
    <3>2. d[p] = IF p - 93 > m + 1 THEN r[p - (m + 1)] ELSE Into2(r, (m + 1) - (p - 93))
      BY <2>3 DEF Clocked
    <3>3. c[p - 1] = IF (p - 1) - 93 > m THEN r[(p - 1) - m] ELSE Into2(r, m - ((p - 1) - 93))
      BY <2>1, <3>1 DEF Clocked
    <3> HIDE DEF c, d
    <3> QED BY <2>1, <3>1, <3>2, <3>3
  <2>4. CASE p > 177
    <3>1. /\ p - 1 > 177 /\ ((p - 1) - 177 > m <=> p - 177 > m + 1)
          /\ m - ((p - 1) - 177) = (m + 1) - (p - 177)
      BY <2>4, <1>5
    <3>2. d[p] = IF p - 177 > m + 1 THEN r[p - (m + 1)] ELSE Into3(r, (m + 1) - (p - 177))
      BY <2>4 DEF Clocked
    <3>3. c[p - 1] = IF (p - 1) - 177 > m THEN r[(p - 1) - m] ELSE Into3(r, m - ((p - 1) - 177))
      BY <2>1, <3>1 DEF Clocked
    <3> HIDE DEF c, d
    <3> QED BY <2>1, <3>1, <3>2, <3>3
  <2> QED BY <2>2, <2>3, <2>4
<1>6. d = [p \in 1 .. 288 |-> d[p]]
  BY DEF Clocked
<1> HIDE DEF c, d
<1>7. /\ d[1] = ((c[69] # (c[286] /\ c[287])) # (c[243] # c[288]))
      /\ d[94] = ((c[171] # (c[91] /\ c[92])) # (c[66] # c[93]))
      /\ d[178] = ((c[264] # (c[175] /\ c[176])) # (c[162] # c[177]))
  BY <1>1, <1>2, <1>3, <1>4 DEF Into1, Into2, Into3
<1>8. Cipher!Clock(c) = d
  BY <1>5, <1>6, <1>7, SMTT(30) DEF Cipher!Clock
<1> QED BY <1>8 DEF c, d

\* The cipher's registers in the course of a call.
LEMMA AfterClocks ==
  ASSUME NEW r \in Registers, width \in {32, 64}
  PROVE  \A m \in 0 .. width : Cipher!After(r)[m] = Clocked(r, m)
<1> DEFINE register == CHOOSE f : f = [n \in 0 .. width |-> IF n = 0 THEN r ELSE Cipher!Clock(f[n - 1])]
           f == [n \in 0 .. width |-> Clocked(r, n)]
<1>1. Clocked(r, 0) = r
  <2>1. r = [p \in 1 .. 288 |-> r[p]]
    BY DEF Registers
  <2>2. \A p \in 1 .. 288 : Clocked(r, 0)[p] = r[p]
    BY DEF Clocked
  <2>3. Clocked(r, 0) = [p \in 1 .. 288 |-> Clocked(r, 0)[p]]
    BY DEF Clocked
  <2> QED BY <2>1, <2>2, <2>3, ZenonT(60)
<1>2. f = [n \in 0 .. width |-> IF n = 0 THEN r ELSE Cipher!Clock(f[n - 1])]
  <2> SUFFICES ASSUME NEW n \in 0 .. width
               PROVE  Clocked(r, n) = IF n = 0 THEN r ELSE Cipher!Clock(f[n - 1])
    OBVIOUS
  <2>1. CASE n = 0
    BY <1>1, <2>1
  <2>2. CASE n # 0
    <3>1. n - 1 \in 0 .. 63 /\ n - 1 \in 0 .. width /\ (n - 1) + 1 = n
      BY <2>2
    <3>2. f[n - 1] = Clocked(r, n - 1)
      BY <3>1
    <3>3. Cipher!Clock(Clocked(r, n - 1)) = Clocked(r, n)
      BY <3>1, ClockOnce
    <3> QED BY <2>2, <3>2, <3>3
  <2> QED BY <2>1, <2>2
<1>3. register = [n \in 0 .. width |-> IF n = 0 THEN r ELSE Cipher!Clock(register[n - 1])]
  <2> HIDE DEF f
  <2> QED BY <1>2, ZenonT(60)
<1>4. Cipher!After(r) = register
  BY DEF Cipher!After
<1> HIDE DEF register
<1> DEFINE S == {n \in 0 .. width : register[n] = Clocked(r, n)}
<1>5. 0 \in S
  BY <1>1, <1>3
<1>6. \A i \in 0 .. (width - 1) : i \in S => i + 1 \in S
  <2> SUFFICES ASSUME NEW i \in 0 .. (width - 1), i \in S PROVE i + 1 \in S
    OBVIOUS
  <2>1. i \in 0 .. 63 /\ i + 1 \in 0 .. width /\ i + 1 # 0 /\ (i + 1) - 1 = i
    OBVIOUS
  <2>2. register[i + 1] = Cipher!Clock(register[i])
    BY <1>3, <2>1
  <2> QED BY <2>1, <2>2, ClockOnce
<1>7. \A i \in 0 .. width : i \in S
  <2> HIDE DEF S
  <2> QED BY <1>5, <1>6, UpTo
<1> QED BY <1>4, <1>7

\* The bit output after m clocks.
LEMMA ClockedOutput ==
  ASSUME NEW r \in Registers, NEW m \in 0 .. 63
  PROVE  Cipher!OutputBit(Clocked(r, m)) =
           (((r[66 - m] # r[93 - m]) # (r[162 - m] # r[177 - m])) # (r[243 - m] # r[288 - m]))
<1> DEFINE c == Clocked(r, m)
<1>1. /\ c[66] = r[66 - m] /\ c[93] = r[93 - m] /\ c[162] = r[162 - m]
      /\ c[177] = r[177 - m] /\ c[243] = r[243 - m] /\ c[288] = r[288 - m]
  BY DEF Clocked
<1> HIDE DEF c
<1> QED BY <1>1 DEF Cipher!OutputBit, c

-----------------------------------------------------------------------------
TriviumWord == [WordBits -> BOOLEAN]

\* The words of the three pieces.
IsPieces(s) == \A k \in 1 .. 3 : s[k] \in [1 .. Sizes[k] -> TriviumWord]

\* What the operators on words make are words.
LEMMA WordsOfBits ==
  ASSUME NEW x, NEW y, NEW n
  PROVE  /\ ShiftedLeft(x, n) = [i \in WordBits |-> i >= n /\ x[i - n]]
         /\ BitwiseXor(x, y) \in TriviumWord
         /\ BitwiseAnd(x, y) \in TriviumWord
BY DEF ShiftedLeft, BitwiseXor, BitwiseAnd, TriviumWord

\* Bit j of the k-th word of a piece.
LEMMA PieceBitAt ==
  ASSUME width \in {32, 64}, NEW words, NEW k \in 1 .. 4, NEW j \in WordBits
  PROVE  PieceBit(words, ((k - 1) * width + j) + 1) = words[k][j]
<1> DEFINE p == ((k - 1) * width + j) + 1
<1>1. CASE width = 32
  <2>1. (p - 1) \div 32 = k - 1 /\ (p - 1) % 32 = j
    BY <1>1 DEF WordBits
  <2> QED BY <1>1, <2>1 DEF PieceBit
<1>2. CASE width = 64
  <2>1. (p - 1) \div 64 = k - 1 /\ (p - 1) % 64 = j
    BY <1>2 DEF WordBits
  <2> QED BY <1>2, <2>1 DEF PieceBit
<1> QED BY <1>1, <1>2

\* A window across two words whose shifts add up to a word.
LEMMA WindowBit ==
  ASSUME width \in {32, 64}, NEW s, NEW name, NEW i \in WordBits,
         NEW a, NEW k \in 2 .. 4, NEW n \in 1 .. (width - 1),
         s[a][k] \in TriviumWord, s[a][k - 1] \in TriviumWord,
         Windows[name] = <<a, k, n, width - n>>
  PROVE  Window(s, name)[i] = PieceBit(s[a], (k * width - n) - (width - 1 - i))
<1> DEFINE x == s[a][k]
           y == s[a][k - 1]
<1>1. Window(s, name) = BitwiseXor(ShiftedLeft(x, n), ShiftedRight(y, width - n))
  BY DEF Window
<1>2. Window(s, name)[i] =
        ((i >= n /\ x[i - n]) # (i + (width - n) < width /\ y[i + (width - n)]))
  BY <1>1 DEF BitwiseXor, ShiftedLeft, ShiftedRight
<1>3. CASE i >= n
  <2>1. i - n \in WordBits /\ ~(i + (width - n) < width)
    BY <1>3 DEF WordBits
  <2>2. ((k - 1) * width + (i - n)) + 1 = (k * width - n) - (width - 1 - i)
    BY DEF WordBits
  <2>3. x[i - n] \in BOOLEAN
    BY <2>1 DEF TriviumWord
  <2>4. Window(s, name)[i] = x[i - n]
    BY <1>2, <1>3, <2>1, <2>3
  <2>5. PieceBit(s[a], ((k - 1) * width + (i - n)) + 1) = s[a][k][i - n]
    <3> DEFINE j == i - n
    <3>1. j \in WordBits /\ k \in 1 .. 4
      BY <2>1
    <3> HIDE DEF j
    <3>2. PieceBit(s[a], ((k - 1) * width + j) + 1) = s[a][k][j]
      BY <3>1, PieceBitAt
    <3> QED BY <3>2 DEF j
  <2> QED BY <2>2, <2>4, <2>5
<1>4. CASE i < n
  <2>1. i + (width - n) \in WordBits /\ i + (width - n) < width /\ ~(i >= n) /\ k - 1 \in 1 .. 4
    BY <1>4 DEF WordBits
  <2>2. (((k - 1) - 1) * width + (i + (width - n))) + 1 = (k * width - n) - (width - 1 - i)
    BY DEF WordBits
  <2>3. y[i + (width - n)] \in BOOLEAN
    BY <2>1 DEF TriviumWord
  <2>4. Window(s, name)[i] = y[i + (width - n)]
    BY <1>2, <1>4, <2>1, <2>3
  <2>5. PieceBit(s[a], (((k - 1) - 1) * width + (i + (width - n))) + 1) = s[a][k - 1][i + (width - n)]
    BY <2>1, PieceBitAt
  <2> QED BY <2>2, <2>4, <2>5
<1> QED BY <1>3, <1>4 DEF WordBits

-----------------------------------------------------------------------------
\* The register the pieces hold is one of bits.
LEMMA RegisterIn ==
  ASSUME width \in {32, 64}, NEW s, IsPieces(s)
  PROVE  Register(s) \in Registers
<1>1. Sizes[1] * width >= 93 /\ Sizes[2] * width >= 84 /\ Sizes[3] * width >= 111
  BY DEF Sizes
<1>2. ASSUME NEW k \in 1 .. 3, NEW p \in 1 .. 111, p <= Sizes[k] * width
      PROVE  PieceBit(s[k], p) \in BOOLEAN
  <2>1. ((p - 1) \div width) + 1 \in 1 .. Sizes[k] /\ (p - 1) % width \in WordBits
    <3>1. Sizes[k] \in 2 .. 4
      BY DEF Sizes
    <3>2. CASE width = 32
      <4>1. ((p - 1) \div 32) + 1 <= Sizes[k]
        BY <1>2, <3>1, <3>2
      <4>2. ((p - 1) \div 32) + 1 \in Nat \ {0} /\ (p - 1) % 32 \in 0 .. 31
        OBVIOUS
      <4> QED BY <3>1, <3>2, <4>1, <4>2 DEF WordBits
    <3>3. CASE width = 64
      <4>1. ((p - 1) \div 64) + 1 <= Sizes[k]
        BY <1>2, <3>1, <3>3
      <4>2. ((p - 1) \div 64) + 1 \in Nat \ {0} /\ (p - 1) % 64 \in 0 .. 63
        OBVIOUS
      <4> QED BY <3>1, <3>3, <4>1, <4>2 DEF WordBits
    <3> QED BY <3>2, <3>3
  <2> DEFINE a == ((p - 1) \div width) + 1
             b == (p - 1) % width
  <2>2. PieceBit(s[k], p) = s[k][a][b]
    BY DEF PieceBit
  <2> HIDE DEF a, b
  <2>3. a \in 1 .. Sizes[k] /\ b \in WordBits
    BY <2>1 DEF a, b
  <2>4. s[k][a] \in TriviumWord
    <3>1. s[k] \in [1 .. Sizes[k] -> TriviumWord]
      BY DEF IsPieces
    <3> QED BY ONLY <2>3, <3>1
  <2> QED BY <2>2, <2>3, <2>4 DEF TriviumWord
<1> SUFFICES ASSUME NEW p \in 1 .. 288 PROVE Register(s)[p] \in BOOLEAN
  BY DEF Register, Registers
<1>3. CASE p <= 93
  <2>1. PieceBit(s[1], p) \in BOOLEAN
    <3>1. 1 \in 1 .. 3 /\ p \in 1 .. 111 /\ p <= Sizes[1] * width
      BY <1>1, <1>3 DEF Sizes
    <3> QED BY <1>2, <3>1
  <2> QED BY <1>3, <2>1 DEF Register
<1>4. CASE p > 93 /\ p <= 177
  <2>1. PieceBit(s[2], p - 93) \in BOOLEAN
    <3>1. 2 \in 1 .. 3 /\ p - 93 \in 1 .. 111 /\ p - 93 <= Sizes[2] * width
      BY <1>1, <1>4 DEF Sizes
    <3> QED BY <1>2, <3>1
  <2> QED BY <1>4, <2>1 DEF Register
<1>5. CASE p > 177
  <2>1. PieceBit(s[3], p - 177) \in BOOLEAN
    <3>1. 3 \in 1 .. 3 /\ p - 177 \in 1 .. 111 /\ p - 177 <= Sizes[3] * width
      BY <1>1, <1>5 DEF Sizes
    <3> QED BY <1>2, <3>1
  <2> QED BY <1>5, <2>1 DEF Register
<1> QED BY <1>3, <1>4, <1>5

\* A window's place in its piece, the a-th: its oldest bit is the t-th of the
\* register, and its two shifts make a word.
Before(a) == IF a = 1 THEN 0 ELSE IF a = 2 THEN 93 ELSE 177
IsTap(name, a, t) == LET w == Windows[name]
                     IN  /\ w = <<a, w[2], w[3], width - w[3]>>
                         /\ w[2] \in 2 .. Sizes[a] /\ w[3] \in 1 .. (width - 1)
                         /\ t = Before(a) + (w[2] * width - w[3])

\* The fifteen windows of both headers are at the bits their names say.
LEMMA AllTaps ==
  ASSUME width \in {32, 64}
  PROVE  /\ IsTap("s66", 1, 66) /\ IsTap("s69", 1, 69)
         /\ IsTap("s91", 1, 91) /\ IsTap("s92", 1, 92) /\ IsTap("s93", 1, 93)
         /\ IsTap("s162", 2, 162) /\ IsTap("s171", 2, 171)
         /\ IsTap("s175", 2, 175) /\ IsTap("s176", 2, 176) /\ IsTap("s177", 2, 177)
         /\ IsTap("s243", 3, 243) /\ IsTap("s264", 3, 264)
         /\ IsTap("s286", 3, 286) /\ IsTap("s287", 3, 287) /\ IsTap("s288", 3, 288)
<1> DEFINE Put(name, a, k, n, t) ==
             /\ Windows[name] = <<a, k, n, width - n>> /\ k \in 2 .. Sizes[a]
             /\ n \in 1 .. (width - 1) /\ t = Before(a) + (k * width - n)
<1>1. \A name, a, k, n, t : Put(name, a, k, n, t) => IsTap(name, a, t)
  BY DEF IsTap
<1>2. CASE width = 32
  <2>1. /\ Put("s66", 1, 3, 30, 66) /\ Put("s69", 1, 3, 27, 69)
        /\ Put("s91", 1, 3, 5, 91) /\ Put("s92", 1, 3, 4, 92) /\ Put("s93", 1, 3, 3, 93)
    BY <1>2 DEF Before, Windows, Sizes, trivium32
  <2>2. /\ Put("s162", 2, 3, 27, 162) /\ Put("s171", 2, 3, 18, 171) /\ Put("s175", 2, 3, 14, 175)
        /\ Put("s176", 2, 3, 13, 176) /\ Put("s177", 2, 3, 12, 177)
    BY <1>2 DEF Before, Windows, Sizes, trivium32
  <2>3. /\ Put("s243", 3, 3, 30, 243) /\ Put("s264", 3, 3, 9, 264)
        /\ Put("s286", 3, 4, 19, 286) /\ Put("s287", 3, 4, 18, 287) /\ Put("s288", 3, 4, 17, 288)
    BY <1>2 DEF Before, Windows, Sizes, trivium32
  <2> HIDE DEF Put
  <2> QED BY <1>1, <2>1, <2>2, <2>3
<1>3. CASE width = 64
  <2>1. /\ Put("s66", 1, 2, 62, 66) /\ Put("s69", 1, 2, 59, 69)
        /\ Put("s91", 1, 2, 37, 91) /\ Put("s92", 1, 2, 36, 92) /\ Put("s93", 1, 2, 35, 93)
    BY <1>3 DEF Before, Windows, Sizes, trivium64
  <2>2. /\ Put("s162", 2, 2, 59, 162) /\ Put("s171", 2, 2, 50, 171) /\ Put("s175", 2, 2, 46, 175)
        /\ Put("s176", 2, 2, 45, 176) /\ Put("s177", 2, 2, 44, 177)
    BY <1>3 DEF Before, Windows, Sizes, trivium64
  <2>3. /\ Put("s243", 3, 2, 62, 243) /\ Put("s264", 3, 2, 41, 264)
        /\ Put("s286", 3, 2, 19, 286) /\ Put("s287", 3, 2, 18, 287) /\ Put("s288", 3, 2, 17, 288)
    BY <1>3 DEF Before, Windows, Sizes, trivium64
  <2> HIDE DEF Put
  <2> QED BY <1>1, <2>1, <2>2, <2>3
<1> QED BY <1>2, <1>3

\* Bit i of a window is the bit the cipher takes at clock width - 1 - i: at
\* the distance t from the start of the register, less the clocks before.
LEMMA TapBits ==
  ASSUME width \in {32, 64}, NEW s, IsPieces(s), NEW name, NEW a \in 1 .. 3, NEW t \in Nat,
         IsTap(name, a, t), t - Before(a) \in 64 .. 111, a = 1 => t <= 93, a = 2 => t <= 177
  PROVE  \A i \in WordBits : Window(s, name)[i] = Register(s)[t - (width - 1 - i)]
<1> TAKE i \in WordBits
<1> DEFINE k == Windows[name][2]
           n == Windows[name][3]
           u == k * width - n
           m == width - 1 - i
<1>1. /\ Windows[name] = <<a, k, n, width - n>> /\ k \in 2 .. Sizes[a] /\ n \in 1 .. (width - 1)
      /\ t = Before(a) + u
  BY DEF IsTap
<1>2. k \in 2 .. 4 /\ k \in 1 .. Sizes[a] /\ k - 1 \in 1 .. Sizes[a]
  <2> HIDE DEF k, n, u
  <2> QED BY <1>1 DEF Sizes
<1>3. u \in Int /\ m \in 0 .. 63
  <2> HIDE DEF k, n
  <2> QED BY <1>1, <1>2 DEF WordBits
<1>4. Window(s, name)[i] = PieceBit(s[a], u - m)
  <2> HIDE DEF k, n
  <2>1. s[a] \in [1 .. Sizes[a] -> TriviumWord]
    BY DEF IsPieces
  <2>2. s[a][k] \in TriviumWord /\ s[a][k - 1] \in TriviumWord
    BY ONLY <1>2, <2>1
  <2> QED BY <1>1, <1>2, <2>2, WindowBit
<1> HIDE DEF k, n, u, m
<1>5. CASE a = 1
  <2>1. t = u /\ t - m \in 1 .. 93
    BY <1>1, <1>3, <1>5 DEF Before
  <2> QED BY <1>4, <1>5, <2>1 DEF Register, m
<1>6. CASE a = 2
  <2>1. t = 93 + u /\ t - m \in 94 .. 177
    BY <1>1, <1>3, <1>6 DEF Before
  <2>2. (t - m) - 93 = u - m
    BY <1>3, <2>1
  <2> QED BY <1>4, <1>6, <2>1, <2>2 DEF Register, m
<1>7. CASE a = 3
  <2>1. t = 177 + u /\ t - m \in 178 .. 288
    BY <1>1, <1>3, <1>7 DEF Before
  <2>2. (t - m) - 177 = u - m
    BY <1>3, <2>1
  <2> QED BY <1>4, <1>7, <2>1, <2>2 DEF Register, m
<1> QED BY <1>5, <1>6, <1>7

\* All windows at once: what the cipher takes in the clocks of a call.
LEMMA WindowsAreTaps ==
  ASSUME width \in {32, 64}, NEW s, IsPieces(s), NEW i \in WordBits
  PROVE  LET r == Register(s)
             m == width - 1 - i
         IN  /\ Window(s, "s66")[i] = r[66 - m] /\ Window(s, "s69")[i] = r[69 - m]
             /\ Window(s, "s91")[i] = r[91 - m] /\ Window(s, "s92")[i] = r[92 - m]
             /\ Window(s, "s93")[i] = r[93 - m]
             /\ Window(s, "s162")[i] = r[162 - m] /\ Window(s, "s171")[i] = r[171 - m]
             /\ Window(s, "s175")[i] = r[175 - m] /\ Window(s, "s176")[i] = r[176 - m]
             /\ Window(s, "s177")[i] = r[177 - m]
             /\ Window(s, "s243")[i] = r[243 - m] /\ Window(s, "s264")[i] = r[264 - m]
             /\ Window(s, "s286")[i] = r[286 - m] /\ Window(s, "s287")[i] = r[287 - m]
             /\ Window(s, "s288")[i] = r[288 - m]
<1> DEFINE At(name, t) == Window(s, name)[i] = Register(s)[t - (width - 1 - i)]
<1>1. At("s66", 66) /\ At("s69", 69) /\ At("s91", 91) /\ At("s92", 92) /\ At("s93", 93)
  <2>1. ASSUME NEW name, NEW t \in 64 .. 93, IsTap(name, 1, t) PROVE At(name, t)
    BY <2>1, TapBits DEF Before
  <2> HIDE DEF At
  <2> QED BY <2>1, AllTaps
<1>2. At("s162", 162) /\ At("s171", 171) /\ At("s175", 175) /\ At("s176", 176) /\ At("s177", 177)
  <2>1. ASSUME NEW name, NEW t \in 157 .. 177, IsTap(name, 2, t) PROVE At(name, t)
    BY <2>1, TapBits DEF Before
  <2> HIDE DEF At
  <2> QED BY <2>1, AllTaps
<1>3. At("s243", 243) /\ At("s264", 264) /\ At("s286", 286) /\ At("s287", 287) /\ At("s288", 288)
  <2>1. ASSUME NEW name, NEW t \in 241 .. 288, IsTap(name, 3, t) PROVE At(name, t)
    BY <2>1, TapBits DEF Before
  <2> HIDE DEF At
  <2> QED BY <2>1, AllTaps
<1> QED BY <1>1, <1>2, <1>3

\* The words that come in, bit by bit.
LEMMA UpdateBits ==
  ASSUME width \in {32, 64}, NEW s, IsPieces(s), NEW i \in WordBits
  PROVE  LET r == Register(s)
             m == width - 1 - i
         IN  /\ Update(s, "s243", "s288", "s286", "s287", "s69")[i] = Into1(r, m)
             /\ Update(s, "s66", "s93", "s91", "s92", "s171")[i] = Into2(r, m)
             /\ Update(s, "s162", "s177", "s175", "s176", "s264")[i] = Into3(r, m)
<1> DEFINE r == Register(s)
           m == width - 1 - i
<1>1. m \in 0 .. 63
  BY DEF WordBits
<1>2. \A x, y, b, d, e \in BOOLEAN : (((x # y) # (b /\ d)) # e) = ((e # (b /\ d)) # (x # y))
  OBVIOUS
<1>3. \A a, b, c, d, e : Update(s, a, b, c, d, e)[i] =
        (((Window(s, a)[i] # Window(s, b)[i]) # (Window(s, c)[i] /\ Window(s, d)[i])) # Window(s, e)[i])
  BY DEF Update, Sum, BitwiseXor, BitwiseAnd
<1>4. r \in Registers
  BY RegisterIn
<1> HIDE DEF m, r
<1>5. \A t \in 64 .. 288 : r[t - m] \in BOOLEAN
  BY <1>1, <1>4 DEF Registers
<1>6. Update(s, "s243", "s288", "s286", "s287", "s69")[i] =
        (((r[243 - m] # r[288 - m]) # (r[286 - m] /\ r[287 - m])) # r[69 - m])
  BY <1>3, WindowsAreTaps DEF r, m
<1>7. Update(s, "s66", "s93", "s91", "s92", "s171")[i] =
        (((r[66 - m] # r[93 - m]) # (r[91 - m] /\ r[92 - m])) # r[171 - m])
  BY <1>3, WindowsAreTaps DEF r, m
<1>8. Update(s, "s162", "s177", "s175", "s176", "s264")[i] =
        (((r[162 - m] # r[177 - m]) # (r[175 - m] /\ r[176 - m])) # r[264 - m])
  BY <1>3, WindowsAreTaps DEF r, m
<1>9. /\ Update(s, "s243", "s288", "s286", "s287", "s69")[i] = Into1(r, m)
      /\ Update(s, "s66", "s93", "s91", "s92", "s171")[i] = Into2(r, m)
      /\ Update(s, "s162", "s177", "s175", "s176", "s264")[i] = Into3(r, m)
  <2>1. r[69 - m] \in BOOLEAN /\ r[286 - m] \in BOOLEAN /\ r[287 - m] \in BOOLEAN /\ r[243 - m] \in BOOLEAN /\ r[288 - m] \in BOOLEAN
    BY <1>5
  <2>2. r[171 - m] \in BOOLEAN /\ r[91 - m] \in BOOLEAN /\ r[92 - m] \in BOOLEAN /\ r[66 - m] \in BOOLEAN /\ r[93 - m] \in BOOLEAN
    BY <1>5
  <2>3. r[264 - m] \in BOOLEAN /\ r[175 - m] \in BOOLEAN /\ r[176 - m] \in BOOLEAN /\ r[162 - m] \in BOOLEAN /\ r[177 - m] \in BOOLEAN
    BY <1>5
  <2>4. Update(s, "s243", "s288", "s286", "s287", "s69")[i] = Into1(r, m)
    BY ONLY <1>2, <1>6, <2>1 DEF Into1
  <2>5. Update(s, "s66", "s93", "s91", "s92", "s171")[i] = Into2(r, m)
    BY ONLY <1>2, <1>7, <2>2 DEF Into2
  <2>6. Update(s, "s162", "s177", "s175", "s176", "s264")[i] = Into3(r, m)
    BY ONLY <1>2, <1>8, <2>3 DEF Into3
  <2> QED BY <2>4, <2>5, <2>6
<1> QED BY <1>9 DEF r, m

\* The word a call returns has the bits the cipher puts out, the first of
\* them the highest.
LEMMA ReturnedBits ==
  ASSUME width \in {32, 64}, NEW s, IsPieces(s)
  PROVE  Returned(s) = [i \in WordBits |-> Cipher!OutputBit(Clocked(Register(s), width - 1 - i))]
<1>1. Returned(s) = [i \in WordBits |-> Returned(s)[i]]
  BY DEF Returned, BitwiseXor
<1> SUFFICES ASSUME NEW i \in WordBits
             PROVE  Returned(s)[i] = Cipher!OutputBit(Clocked(Register(s), width - 1 - i))
  BY <1>1
<1> DEFINE r == Register(s)
           m == width - 1 - i
<1>2. m \in 0 .. 63 /\ r \in Registers
  BY RegisterIn DEF WordBits
<1>3. Returned(s)[i] =
        (((Window(s, "s66")[i] # Window(s, "s93")[i]) # (Window(s, "s162")[i] # Window(s, "s177")[i]))
         # (Window(s, "s243")[i] # Window(s, "s288")[i]))
  BY DEF Returned, Sum, BitwiseXor
<1> HIDE DEF m, r
<1>4. Returned(s)[i] =
        (((r[66 - m] # r[93 - m]) # (r[162 - m] # r[177 - m])) # (r[243 - m] # r[288 - m]))
  BY <1>3, WindowsAreTaps DEF r, m
<1>5. Returned(s)[i] = Cipher!OutputBit(Clocked(r, m))
  <2>1. Cipher!OutputBit(Clocked(r, m)) =
          (((r[66 - m] # r[93 - m]) # (r[162 - m] # r[177 - m])) # (r[243 - m] # r[288 - m]))
    BY <1>2, ClockedOutput, ZenonT(60)
  <2> QED BY ONLY <1>4, <2>1
<1> QED BY <1>5 DEF r, m

\* A call keeps the sizes of the arrays.
LEMMA RotatedIsPieces ==
  ASSUME width \in {32, 64}, NEW s, IsPieces(s)
  PROVE  IsPieces(Rotated(s))
<1>1. \A a, b, c, d, e : Update(s, a, b, c, d, e) \in TriviumWord
  BY WordsOfBits DEF Update
<1>2. ASSUME NEW k \in 1 .. 3, NEW w \in TriviumWord
      PROVE  Rotate(s[k], w) \in [1 .. Sizes[k] -> TriviumWord]
  <2>1. s[k] \in [1 .. Sizes[k] -> TriviumWord] /\ Sizes[k] \in Nat
    BY DEF IsPieces, Sizes
  <2>2. ASSUME NEW j \in 1 .. Sizes[k] PROVE (IF j = 1 THEN w ELSE s[k][j - 1]) \in TriviumWord
    <3>1. j # 1 => j - 1 \in 1 .. Sizes[k]
      BY <2>1
    <3> QED BY <2>1, <3>1
  <2> QED BY <2>1, <2>2 DEF Rotate
<1> QED BY <1>1, <1>2 DEF IsPieces, Rotated

\* A piece after a call: its youngest bits are those of the word that came in,
\* and the others have moved up by a word.
LEMMA RotatedBits ==
  ASSUME width \in {32, 64}, NEW s, IsPieces(s)
  PROVE  \A a \in 1 .. 3, p \in 1 .. 111 : \A w :
           p <= Sizes[a] * width =>
             PieceBit(Rotate(s[a], w), p) = IF p <= width THEN w[p - 1] ELSE PieceBit(s[a], p - width)
<1> SUFFICES ASSUME NEW a \in 1 .. 3, NEW p \in 1 .. 111, NEW w, p <= Sizes[a] * width
             PROVE  PieceBit(Rotate(s[a], w), p) = IF p <= width THEN w[p - 1] ELSE PieceBit(s[a], p - width)
  OBVIOUS
<1> DEFINE words == s[a]
           n == Sizes[a]
<1>0. n \in 2 .. 4 /\ DOMAIN words = 1 .. n /\ p <= n * width
  BY DEF IsPieces, Sizes
<1> HIDE DEF words, n
<1> DEFINE k == ((p - 1) \div width) + 1
           j == (p - 1) % width
<1>1. PieceBit(Rotate(words, w), p) = Rotate(words, w)[k][j]
  BY DEF PieceBit
<1>2. k \in 1 .. n
  <2>1. CASE width = 32
    <3>1. ((p - 1) \div 32) + 1 \in Nat \ {0} /\ ((p - 1) \div 32) + 1 <= n
      BY <1>0, <2>1
    <3> QED BY <1>0, <2>1, <3>1
  <2>2. CASE width = 64
    <3>1. ((p - 1) \div 64) + 1 \in Nat \ {0} /\ ((p - 1) \div 64) + 1 <= n
      BY <1>0, <2>2
    <3> QED BY <1>0, <2>2, <3>1
  <2> QED BY <2>1, <2>2
<1>3. Rotate(words, w)[k] = IF k = 1 THEN w ELSE words[k - 1]
  <2> HIDE DEF k
  <2> QED BY <1>0, <1>2 DEF Rotate
<1>4. ASSUME p <= width PROVE p - 1 \in WordBits /\ PieceBit(Rotate(words, w), p) = w[p - 1]
  <2>1. k = 1 /\ j = p - 1 /\ p - 1 \in WordBits
    <3>1. CASE width = 32
      BY <1>4, <3>1 DEF WordBits
    <3>2. CASE width = 64
      BY <1>4, <3>2 DEF WordBits
    <3> QED BY <3>1, <3>2
  <2> HIDE DEF k, j
  <2> QED BY <1>1, <1>3, <2>1
<1>5. ASSUME p > width PROVE PieceBit(Rotate(words, w), p) = PieceBit(words, p - width)
  <2>1. k # 1 /\ (((p - width) - 1) \div width) + 1 = k - 1 /\ ((p - width) - 1) % width = j
    <3>1. CASE width = 32
      BY <1>5, <3>1
    <3>2. CASE width = 64
      BY <1>5, <3>2
    <3> QED BY <3>1, <3>2
  <2>2. PieceBit(words, p - width) = words[k - 1][j]
    BY <2>1 DEF PieceBit
  <2> HIDE DEF k, j
  <2> QED BY <1>1, <1>3, <2>1, <2>2
<1> QED BY <1>4, <1>5 DEF words

\* A call is width clocks.
LEMMA RotatedIsClocked ==
  ASSUME width \in {32, 64}, NEW s, IsPieces(s)
  PROVE  Register(Rotated(s)) = Clocked(Register(s), width)
<1> DEFINE r == Register(s)
           u1 == Update(s, "s243", "s288", "s286", "s287", "s69")
           u2 == Update(s, "s66", "s93", "s91", "s92", "s171")
           u3 == Update(s, "s162", "s177", "s175", "s176", "s264")
<1>1. Rotated(s) = <<Rotate(s[1], u1), Rotate(s[2], u2), Rotate(s[3], u3)>>
  BY DEF Rotated
<1>2. /\ \A i \in WordBits : u1[i] = Into1(r, width - 1 - i)
      /\ \A i \in WordBits : u2[i] = Into2(r, width - 1 - i)
      /\ \A i \in WordBits : u3[i] = Into3(r, width - 1 - i)
  BY UpdateBits
<1>3. /\ \A k \in 1 .. 3 : DOMAIN s[k] = 1 .. Sizes[k] /\ Sizes[k] \in 2 .. 4
      /\ \A p \in 1 .. 93 : p \in 1 .. 111 /\ p <= Sizes[1] * width
      /\ \A p \in 1 .. 84 : p \in 1 .. 111 /\ p <= Sizes[2] * width
      /\ \A p \in 1 .. 111 : p <= Sizes[3] * width
  BY DEF IsPieces, Sizes
<1> HIDE DEF u1, u2, u3
<1>4. \A a \in 1 .. 3, p \in 1 .. 111 : \A w :
        p <= Sizes[a] * width =>
          PieceBit(Rotate(s[a], w), p) = IF p <= width THEN w[p - 1] ELSE PieceBit(s[a], p - width)
  BY RotatedBits
<1>5. ASSUME NEW p \in 1 .. 288 PROVE Register(Rotated(s))[p] = Clocked(r, width)[p]
  <2>1. CASE p <= 93
    <3>1. Register(Rotated(s))[p] = PieceBit(Rotate(s[1], u1), p)
      BY <1>1, <2>1 DEF Register
    <3>2. p \in 1 .. 111 /\ p <= Sizes[1] * width
      <4>1. p \in 1 .. 93
        BY <2>1
      <4> QED BY <1>3, <4>1
    <3>3. PieceBit(Rotate(s[1], u1), p) = IF p <= width THEN u1[p - 1] ELSE PieceBit(s[1], p - width)
      <4>1. 1 \in 1 .. 3
        OBVIOUS
      <4> QED BY ONLY <1>4, <3>2, <4>1, ZenonT(60)
    <3>4. CASE p <= width
      <4>1. width - 1 - (p - 1) = width - p /\ ~(p > width) /\ p - 1 \in WordBits
        BY <3>4 DEF WordBits
      <4>2. u1[p - 1] = Into1(r, width - p)
        BY <1>2, <3>3, <3>4, <4>1
      <4> QED BY <2>1, <3>1, <3>3, <3>4, <4>1, <4>2 DEF Clocked
    <3>5. CASE p > width
      <4>1. r[p - width] = PieceBit(s[1], p - width)
        BY <2>1, <3>5 DEF Register
      <4> QED BY <2>1, <3>1, <3>3, <3>5, <4>1 DEF Clocked
    <3> QED BY <3>4, <3>5
  <2>2. CASE p > 93 /\ p <= 177
    <3> DEFINE q == p - 93
    <3>1. Register(Rotated(s))[p] = PieceBit(Rotate(s[2], u2), q)
      BY <1>1, <2>2 DEF Register
    <3>2. q \in 1 .. 111 /\ q <= Sizes[2] * width
      <4>1. q \in 1 .. 84
        BY <2>2
      <4> HIDE DEF q
      <4> QED BY <1>3, <4>1
    <3>6. Clocked(r, width)[p] = IF q > width THEN r[p - width] ELSE Into2(r, width - q)
      BY <2>2 DEF Clocked
    <3>7. q \in Int /\ p = q + 93
      OBVIOUS
    <3> HIDE DEF q
    <3>3. PieceBit(Rotate(s[2], u2), q) = IF q <= width THEN u2[q - 1] ELSE PieceBit(s[2], q - width)
      <4>1. 2 \in 1 .. 3
        OBVIOUS
      <4> QED BY ONLY <1>4, <3>2, <4>1, ZenonT(60)
    <3>4. CASE q <= width
      <4>1. width - 1 - (q - 1) = width - q /\ ~(q > width) /\ q - 1 \in WordBits
        BY <3>2, <3>4, <3>7 DEF WordBits
      <4>2. u2[q - 1] = Into2(r, width - q)
        BY <1>2, <3>3, <3>4, <4>1
      <4> QED BY <3>1, <3>3, <3>4, <3>6, <4>1, <4>2
    <3>5. CASE q > width
      <4>1. p - width \in 94 .. 177 /\ (p - width) - 93 = q - width /\ ~(q <= width)
        BY <2>2, <3>5, <3>7
      <4>2. r[p - width] = PieceBit(s[2], q - width)
        BY <4>1 DEF Register
      <4> QED BY <3>1, <3>3, <3>5, <3>6, <4>1, <4>2
    <3> QED BY <3>4, <3>5, <3>7
  <2>3. CASE p > 177
    <3> DEFINE q == p - 177
    <3>1. Register(Rotated(s))[p] = PieceBit(Rotate(s[3], u3), q)
      BY <1>1, <2>3 DEF Register
    <3>2. q \in 1 .. 111 /\ q <= Sizes[3] * width
      <4>1. q \in 1 .. 111
        BY <2>3
      <4> HIDE DEF q
      <4> QED BY <1>3, <4>1
    <3>6. Clocked(r, width)[p] = IF q > width THEN r[p - width] ELSE Into3(r, width - q)
      BY <2>3 DEF Clocked
    <3>7. q \in Int /\ p = q + 177
      OBVIOUS
    <3> HIDE DEF q
    <3>3. PieceBit(Rotate(s[3], u3), q) = IF q <= width THEN u3[q - 1] ELSE PieceBit(s[3], q - width)
      <4>1. 3 \in 1 .. 3
        OBVIOUS
      <4> QED BY ONLY <1>4, <3>2, <4>1, ZenonT(60)
    <3>4. CASE q <= width
      <4>1. width - 1 - (q - 1) = width - q /\ ~(q > width) /\ q - 1 \in WordBits
        BY <3>2, <3>4, <3>7 DEF WordBits
      <4>2. u3[q - 1] = Into3(r, width - q)
        BY <1>2, <3>3, <3>4, <4>1
      <4> QED BY <3>1, <3>3, <3>4, <3>6, <4>1, <4>2
    <3>5. CASE q > width
      <4>1. p - width \in 178 .. 288 /\ (p - width) - 177 = q - width /\ ~(q <= width)
        BY <2>3, <3>5, <3>7
      <4>2. r[p - width] = PieceBit(s[3], q - width)
        BY <4>1 DEF Register
      <4> QED BY <3>1, <3>3, <3>5, <3>6, <4>1, <4>2
    <3> QED BY <3>4, <3>5, <3>7
  <2> QED BY <2>1, <2>2, <2>3
<1>6. Register(Rotated(s)) = [p \in 1 .. 288 |-> Register(Rotated(s))[p]]
  BY DEF Register
<1>7. Clocked(r, width) = [p \in 1 .. 288 |-> Clocked(r, width)[p]]
  BY DEF Clocked
<1> QED BY <1>5, <1>6, <1>7, ZenonT(60)

\* Seeding loads the register as the cipher is loaded.
LEMMA LoadedRegister ==
  ASSUME width \in {32, 64}, NEW pair \in TriviumSeeds
  PROVE  /\ IsPieces(Loaded(pair[1], pair[2]))
         /\ Register(Loaded(pair[1], pair[2])) = Cipher!Load(pair[1], pair[2])
<1> DEFINE key == pair[1]
           iv == pair[2]
           s == Loaded(key, iv)
<1>1. key \in [0 .. 63 -> BOOLEAN] /\ iv \in [0 .. 63 -> BOOLEAN]
  BY TriviumSeedsAssumption
<1>2. ASSUME NEW x \in [0 .. 63 -> BOOLEAN], NEW n \in 2 .. 4
      PROVE  Split(x, n) \in [1 .. n -> TriviumWord]
  <2> SUFFICES ASSUME NEW k \in 1 .. n, NEW i \in WordBits
               PROVE  ((k - 1) * width + i < 64 /\ x[(k - 1) * width + i]) \in BOOLEAN
    BY DEF Split, TriviumWord
  <2> QED OBVIOUS
<1>3. /\ s[1] = Split(key, Sizes[1]) /\ s[2] = Split(iv, Sizes[2])
      /\ s[3] = [Zeros(Sizes[3]) EXCEPT ![Sizes[3]] = LastThree]
  BY DEF Loaded
<1>4. ZeroWord \in TriviumWord /\ LastThree \in TriviumWord
  BY DEF ZeroWord, LastThree, TriviumWord
<1>5. Sizes[1] \in 2 .. 4 /\ Sizes[2] \in 2 .. 4 /\ Sizes[3] \in 2 .. 4
  BY DEF Sizes
<1> HIDE DEF key, iv, s
<1>6. IsPieces(s)
  <2>1. s[1] \in [1 .. Sizes[1] -> TriviumWord]
    <3> DEFINE n == Sizes[1]
    <3>1. n \in 2 .. 4
      BY <1>5
    <3> HIDE DEF n
    <3>2. Split(key, n) \in [1 .. n -> TriviumWord]
      BY <1>1, <1>2, <3>1
    <3> QED BY <1>3, <3>2 DEF n
  <2>2. s[2] \in [1 .. Sizes[2] -> TriviumWord]
    <3> DEFINE n == Sizes[2]
    <3>1. n \in 2 .. 4
      BY <1>5
    <3> HIDE DEF n
    <3>2. Split(iv, n) \in [1 .. n -> TriviumWord]
      BY <1>1, <1>2, <3>1
    <3> QED BY <1>3, <3>2 DEF n
  <2>3. s[3] \in [1 .. Sizes[3] -> TriviumWord]
    BY <1>3, <1>4, <1>5 DEF Zeros
  <2> QED BY <2>1, <2>2, <2>3 DEF IsPieces
<1>7. ASSUME NEW x \in [0 .. 63 -> BOOLEAN], NEW n \in 2 .. 4, NEW p \in 1 .. 111, p <= n * width
      PROVE  PieceBit(Split(x, n), p) <=> p <= 64 /\ x[p - 1]
  <2> DEFINE k == ((p - 1) \div width) + 1
             j == (p - 1) % width
  <2>1. k \in 1 .. n /\ j \in WordBits /\ (k - 1) * width + j = p - 1
    <3>1. CASE width = 32
      <4>1. ((p - 1) \div 32) + 1 \in Nat \ {0} /\ ((p - 1) \div 32) + 1 <= n
        BY <1>7, <3>1
      <4> QED BY <3>1, <4>1 DEF WordBits
    <3>2. CASE width = 64
      <4>1. ((p - 1) \div 64) + 1 \in Nat \ {0} /\ ((p - 1) \div 64) + 1 <= n
        BY <1>7, <3>2
      <4> QED BY <3>2, <4>1, SMTT(30) DEF WordBits
    <3> QED BY <3>1, <3>2
  <2>2. PieceBit(Split(x, n), p) = Split(x, n)[k][j]
    BY DEF PieceBit
  <2> HIDE DEF k, j
  <2>3. Split(x, n)[k][j] = ((k - 1) * width + j < 64 /\ x[(k - 1) * width + j])
    BY <2>1 DEF Split
  <2>4. Split(x, n)[k][j] = (p - 1 < 64 /\ x[p - 1])
    BY <2>1, <2>3
  <2>5. p - 1 < 64 <=> p <= 64
    OBVIOUS
  <2>6. p <= 64 => x[p - 1] \in BOOLEAN
    OBVIOUS
  <2> QED BY <2>2, <2>4, <2>5, <2>6
<1>8. \A x \in [0 .. 63 -> BOOLEAN] : \A n \in 2 .. 4 : \A p \in 1 .. 111 :
         p <= n * width => (PieceBit(Split(x, n), p) <=> p <= 64 /\ x[p - 1])
  BY <1>7, Zenon
<1>9. \A n \in 2 .. 4 : \A p \in 1 .. 111 :
         p <= n * width => (PieceBit(Split(key, n), p) <=> p <= 64 /\ key[p - 1])
  BY ONLY <1>1, <1>8, Zenon
<1>10. \A n \in 2 .. 4 : \A p \in 1 .. 111 :
         p <= n * width => (PieceBit(Split(iv, n), p) <=> p <= 64 /\ iv[p - 1])
  BY ONLY <1>1, <1>8, Zenon
<1>11. ASSUME NEW p \in 1 .. 111 PROVE PieceBit(s[3], p) <=> p \in 109 .. 111
  <2>1. CASE width = 32
    <3> DEFINE k == ((p - 1) \div 32) + 1
               j == (p - 1) % 32
    <3>1. PieceBit(s[3], p) = s[3][k][j]
      BY <2>1 DEF PieceBit
    <3>2. k \in 1 .. 4 /\ j \in 0 .. 31 /\ (p \in 109 .. 111 <=> k = 4 /\ j \in 12 .. 14)
      OBVIOUS
    <3> HIDE DEF k, j
    <3>3. s[3][k] = IF k = 4 THEN LastThree ELSE ZeroWord
      BY <1>3, <2>1, <3>2 DEF Zeros, Sizes
    <3>4. LastThree[j] = (j \in 12 .. 14) /\ ZeroWord[j] = FALSE
      BY <2>1, <3>2 DEF LastThree, ZeroWord, WordBits
    <3>5. s[3][k][j] <=> k = 4 /\ j \in 12 .. 14
      BY ONLY <3>2, <3>3, <3>4
    <3> QED BY ONLY <3>1, <3>2, <3>5, Zenon
  <2>2. CASE width = 64
    <3> DEFINE k == ((p - 1) \div 64) + 1
               j == (p - 1) % 64
    <3>1. PieceBit(s[3], p) = s[3][k][j]
      BY <2>2 DEF PieceBit
    <3>2. k \in 1 .. 2 /\ j \in 0 .. 63 /\ (p \in 109 .. 111 <=> k = 2 /\ j \in 44 .. 46)
      OBVIOUS
    <3> HIDE DEF k, j
    <3>3. s[3][k] = IF k = 2 THEN LastThree ELSE ZeroWord
      BY <1>3, <2>2, <3>2 DEF Zeros, Sizes
    <3>4. LastThree[j] = (j \in 44 .. 46) /\ ZeroWord[j] = FALSE
      BY <2>2, <3>2 DEF LastThree, ZeroWord, WordBits
    <3>5. s[3][k][j] <=> k = 2 /\ j \in 44 .. 46
      BY ONLY <3>2, <3>3, <3>4, ZenonT(60)
    <3> QED BY ONLY <3>1, <3>2, <3>5, Zenon
  <2> QED BY <2>1, <2>2
<1>12. /\ \A p \in 1 .. 93 : p \in 1 .. 111 /\ p <= Sizes[1] * width
      /\ \A p \in 1 .. 84 : p \in 1 .. 111 /\ p <= Sizes[2] * width
  BY DEF Sizes
<1>13. ASSUME NEW p \in 1 .. 288 PROVE Register(s)[p] <=> Cipher!Load(key, iv)[p]
  <2>0. Cipher!Load(key, iv)[p] <=> (\/ p \in 1 .. 64 /\ key[p - 1]
                                     \/ p \in 94 .. 157 /\ iv[p - 94]
                                     \/ p \in 286 .. 288)
    BY DEF Cipher!Load
  <2>1. CASE p <= 93
    <3>1. PieceBit(s[1], p) <=> p <= 64 /\ key[p - 1]
      <4>1. p \in 1 .. 111 /\ p <= Sizes[1] * width
        <5>1. p \in 1 .. 93
          BY <2>1
        <5> QED BY <1>12, <5>1
      <4>2. \A n \in 2 .. 4 : p <= n * width => (PieceBit(Split(key, n), p) <=> p <= 64 /\ key[p - 1])
        BY ONLY <1>9, <4>1, Zenon
      <4> QED BY ONLY <1>3, <1>5, <4>1, <4>2
    <3>2. Register(s)[p] <=> PieceBit(s[1], p)
      BY <2>1 DEF Register
    <3>3. ~(p \in 94 .. 157) /\ ~(p \in 286 .. 288) /\ (p \in 1 .. 64 <=> p <= 64)
      BY <2>1
    <3> QED BY ONLY <2>0, <3>1, <3>2, <3>3, Zenon
  <2>2. CASE p > 93 /\ p <= 177
    <3>1. PieceBit(s[2], p - 93) <=> p - 93 <= 64 /\ iv[(p - 93) - 1]
      <4>1. p - 93 \in 1 .. 111 /\ p - 93 <= Sizes[2] * width
        <5>1. p - 93 \in 1 .. 84
          BY <2>2
        <5> QED BY <1>12, <5>1
      <4>2. \A n \in 2 .. 4 :
              p - 93 <= n * width =>
                (PieceBit(Split(iv, n), p - 93) <=> p - 93 <= 64 /\ iv[(p - 93) - 1])
        <5> DEFINE q == p - 93
        <5>1. q \in 1 .. 111
          BY <4>1
        <5> HIDE DEF q
        <5>2. \A n \in 2 .. 4 :
                q <= n * width => (PieceBit(Split(iv, n), q) <=> q <= 64 /\ iv[q - 1])
          BY ONLY <1>10, <5>1, Zenon
        <5> QED BY ONLY <5>2 DEF q
      <4> QED BY ONLY <1>3, <1>5, <4>1, <4>2
    <3>2. Register(s)[p] <=> PieceBit(s[2], p - 93)
      BY <2>2 DEF Register
    <3>3. /\ ~(p \in 1 .. 64) /\ ~(p \in 286 .. 288) /\ (p \in 94 .. 157 <=> p - 93 <= 64)
          /\ (p - 93) - 1 = p - 94
      BY <2>2
    <3> QED BY ONLY <2>0, <3>1, <3>2, <3>3, Zenon
  <2>3. CASE p > 177
    <3>1. PieceBit(s[3], p - 177) <=> p - 177 \in 109 .. 111
      <4>1. p - 177 \in 1 .. 111
        BY <2>3
      <4> QED BY <1>11, <4>1
    <3>2. Register(s)[p] <=> PieceBit(s[3], p - 177)
      BY <2>3 DEF Register
    <3>3. ~(p \in 1 .. 64) /\ ~(p \in 94 .. 157) /\ (p \in 286 .. 288 <=> p - 177 \in 109 .. 111)
      BY <2>3
    <3> QED BY ONLY <2>0, <3>1, <3>2, <3>3, Zenon
  <2> QED BY <2>1, <2>2, <2>3
<1>14. /\ Register(s) = [p \in 1 .. 288 |-> Register(s)[p]]
       /\ Cipher!Load(key, iv) = [p \in 1 .. 288 |-> Cipher!Load(key, iv)[p]]
  BY DEF Register, Cipher!Load
<1>15. Register(s) = Cipher!Load(key, iv)
  <2>1. \A p \in 1 .. 288 : Register(s)[p] \in BOOLEAN
    BY <1>6, RegisterIn DEF Registers
  <2>2. \A p \in 1 .. 288 : Cipher!Load(key, iv)[p] \in BOOLEAN
    BY DEF Cipher!Load
  <2>3. \A p \in 1 .. 288 : Register(s)[p] = Cipher!Load(key, iv)[p]
    BY ONLY <1>13, <2>1, <2>2
  <2> QED BY ONLY <1>14, <2>3
<1> QED BY <1>6, <1>15 DEF s, key, iv

\* What an invariant must say for a call to be the clocks of a register: the
\* pieces are arrays of the header's sizes, and a blank round is left to make
\* exactly when clocks are.
TriviumIInv == width \in {32, 64} /\ IsPieces(pieces) /\ blank \in Nat

\* It is inductive.
LEMMA TriviumInvariant == trivium_spec => []TriviumIInv
<1>1. trivium_init => TriviumIInv
  <2> SUFFICES ASSUME trivium_init PROVE TriviumIInv
    OBVIOUS
  <2>1. ZeroWord \in TriviumWord
    BY DEF ZeroWord, TriviumWord
  <2>2. \A n \in Nat : Zeros(n) \in [1 .. n -> TriviumWord]
    BY <2>1 DEF Zeros
  <2>3. Sizes[1] \in Nat /\ Sizes[2] \in Nat /\ Sizes[3] \in Nat
    BY DEF Sizes, trivium_init
  <2>4. pieces[1] = Zeros(Sizes[1]) /\ pieces[2] = Zeros(Sizes[2]) /\ pieces[3] = Zeros(Sizes[3])
    BY DEF trivium_init
  <2>5. IsPieces(pieces)
    <3>1. pieces[1] \in [1 .. Sizes[1] -> TriviumWord]
      BY <2>2, <2>3, <2>4
    <3>2. pieces[2] \in [1 .. Sizes[2] -> TriviumWord]
      BY <2>2, <2>3, <2>4
    <3>3. pieces[3] \in [1 .. Sizes[3] -> TriviumWord]
      BY <2>2, <2>3, <2>4
    <3> QED BY <3>1, <3>2, <3>3 DEF IsPieces
  <2> QED BY <2>5 DEF TriviumIInv, trivium_init
<1>2. ASSUME TriviumIInv, [trivium_next]_trivium_vars PROVE TriviumIInv'
  <2>0. width' = width
    BY <1>2 DEF trivium_next, trivium_vars, trivium_seed, BlankRound, trivium
  <2>1. Sizes' = Sizes /\ TriviumWord' = TriviumWord
    BY <2>0 DEF Sizes, TriviumWord, WordBits
  <2>2. ASSUME NEW s, IsPieces(s), pieces' = s PROVE IsPieces(pieces)'
    BY <2>1, <2>2 DEF IsPieces
  <2>3. width \in {32, 64} /\ IsPieces(pieces) /\ blank \in Nat
    BY <1>2 DEF TriviumIInv
  <2>4. ASSUME NEW pair \in TriviumSeeds, trivium_seed(pair[1], pair[2]) PROVE TriviumIInv'
    <3>1. IsPieces(Loaded(pair[1], pair[2]))
      BY <2>3, LoadedRegister
    <3>2. pieces' = Loaded(pair[1], pair[2]) /\ blank' \in Nat
      BY <2>4 DEF trivium_seed
    <3> QED BY <2>0, <2>2, <2>3, <3>1, <3>2 DEF TriviumIInv
  <2>5. ASSUME pieces' = Rotated(pieces), blank' \in Nat PROVE TriviumIInv'
    BY <2>0, <2>2, <2>3, <2>5, RotatedIsPieces DEF TriviumIInv
  <2>6. CASE BlankRound
    BY <2>3, <2>5, <2>6 DEF BlankRound
  <2>7. CASE trivium
    BY <2>3, <2>5, <2>7 DEF trivium
  <2>8. CASE UNCHANGED trivium_vars
    BY <2>0, <2>2, <2>3, <2>8 DEF TriviumIInv, trivium_vars
  <2> QED BY <1>2, <2>4, <2>6, <2>7, <2>8 DEF trivium_next
<1> QED BY <1>1, <1>2, PTL DEF trivium_spec

\* ImplementsCipher for any seeds and any number of calls: with 32 or 64 bits,
\* a call of the header is as many clocks of the cipher (trivium32.h:24,
\* trivium64.h:23).
THEOREM CipherCorrect == trivium_spec => ImplementsCipher
<1>1. trivium_init => Cipher!Init
  <2> SUFFICES ASSUME trivium_init PROVE Cipher!Init
    OBVIOUS
  <2>1. Register(pieces) = [p \in 1 .. 288 |-> FALSE]
    <3>1. ASSUME NEW n \in 2 .. 4, NEW p \in 1 .. 111, p <= n * width
          PROVE  PieceBit(Zeros(n), p) = FALSE
      <4> DEFINE k == ((p - 1) \div width) + 1
                 j == (p - 1) % width
      <4>1. k \in 1 .. n /\ j \in WordBits
        <5>1. CASE width = 32
          <6>1. ((p - 1) \div 32) + 1 \in Nat \ {0} /\ ((p - 1) \div 32) + 1 <= n
            BY <3>1, <5>1
          <6> QED BY <5>1, <6>1 DEF WordBits
        <5>2. CASE width = 64
          <6>1. ((p - 1) \div 64) + 1 \in Nat \ {0} /\ ((p - 1) \div 64) + 1 <= n
            BY <3>1, <5>2
          <6> QED BY <5>2, <6>1 DEF WordBits
        <5> QED BY <5>1, <5>2 DEF trivium_init
      <4>2. PieceBit(Zeros(n), p) = Zeros(n)[k][j]
        BY DEF PieceBit
      <4> HIDE DEF k, j
      <4> QED BY <4>1, <4>2 DEF Zeros, ZeroWord
    <3>2. /\ Sizes[1] \in 2 .. 4 /\ Sizes[2] \in 2 .. 4 /\ Sizes[3] \in 2 .. 4
          /\ \A p \in 1 .. 93 : p \in 1 .. 111 /\ p <= Sizes[1] * width
          /\ \A p \in 1 .. 84 : p \in 1 .. 111 /\ p <= Sizes[2] * width
          /\ \A p \in 1 .. 111 : p <= Sizes[3] * width
      BY DEF Sizes, trivium_init
    <3>3. pieces[1] = Zeros(Sizes[1]) /\ pieces[2] = Zeros(Sizes[2]) /\ pieces[3] = Zeros(Sizes[3])
      BY DEF trivium_init
    <3>4. ASSUME NEW p \in 1 .. 288 PROVE Register(pieces)[p] = FALSE
      <4>1. CASE p <= 93
        <5>1. PieceBit(Zeros(Sizes[1]), p) = FALSE
          <6>1. p \in 1 .. 93
            BY <4>1
          <6>2. p \in 1 .. 111 /\ p <= Sizes[1] * width
            BY <3>2, <6>1
          <6> QED BY <3>1, <3>2, <6>2
        <5> QED BY <3>3, <4>1, <5>1 DEF Register
      <4>2. CASE p > 93 /\ p <= 177
        <5>1. p - 93 \in 1 .. 111 /\ p - 93 <= Sizes[2] * width
          <6>1. p - 93 \in 1 .. 84
            BY <4>2
          <6> QED BY <3>2, <6>1
        <5>2. PieceBit(Zeros(Sizes[2]), p - 93) = FALSE
          BY <3>1, <3>2, <5>1
        <5> QED BY <3>3, <4>2, <5>2 DEF Register
      <4>3. CASE p > 177
        <5>1. p - 177 \in 1 .. 111 /\ p - 177 <= Sizes[3] * width
          <6>1. p - 177 \in 1 .. 111
            BY <4>3
          <6> QED BY <3>2, <6>1
        <5>2. PieceBit(Zeros(Sizes[3]), p - 177) = FALSE
          BY <3>1, <3>2, <5>1
        <5> QED BY <3>3, <4>3, <5>2 DEF Register
      <4>4. p <= 93 \/ (p > 93 /\ p <= 177) \/ p > 177
        OBVIOUS
      <4> QED BY ONLY <4>1, <4>2, <4>3, <4>4
    <3> QED BY <3>4, ZenonT(60) DEF Register
  <2>2. width * 0 = 0
    BY DEF trivium_init
  <2> QED BY <2>1, <2>2 DEF trivium_init, Cipher!Init, ZeroWord, Cipher!NoWord, WordBits
<1>2. ASSUME TriviumIInv, [trivium_next]_trivium_vars PROVE [Cipher!Next]_(Cipher!vars)
  <2> DEFINE r == Register(pieces)
  <2>1. width \in {32, 64} /\ IsPieces(pieces) /\ blank \in Nat
    BY <1>2 DEF TriviumIInv
  <2>2. r \in Registers
    BY <2>1, RegisterIn
  <2>3. ASSUME width' = width PROVE \A s : (pieces' = s) => Register(pieces)' = Register(s)
    BY <2>3 DEF Register, PieceBit
  <2>4. ASSUME NEW pair \in TriviumSeeds, trivium_seed(pair[1], pair[2]) PROVE Cipher!Seed
    <3>1. width' = width /\ pieces' = Loaded(pair[1], pair[2]) /\ z' = ZeroWord /\ blank = 0
      BY <2>4 DEF trivium_seed
    <3>2. Register(pieces)' = Cipher!Load(pair[1], pair[2])
      BY <2>1, <2>3, <3>1, LoadedRegister
    <3>3. width * blank = 0 /\ (width * blank)' = 1152
      BY <2>1, <2>4 DEF trivium_seed
    <3>4. z' = Cipher!NoWord
      BY <3>1 DEF ZeroWord, WordBits, Cipher!NoWord
    <3> QED BY <3>1, <3>2, <3>3, <3>4 DEF Cipher!Seed
  <2>5. ASSUME width' = width, pieces' = Rotated(pieces)
        PROVE  Register(pieces)' = Cipher!After(r)[width]
    <3>1. Register(pieces)' = Register(Rotated(pieces))
      BY <2>3, <2>5
    <3>2. Register(Rotated(pieces)) = Clocked(r, width)
      BY <2>1, RotatedIsClocked
    <3>3. Cipher!After(r)[width] = Clocked(r, width)
      BY <2>1, <2>2, AfterClocks
    <3> QED BY <3>1, <3>2, <3>3
  <2>6. CASE BlankRound
    <3>1. /\ width' = width /\ z' = z /\ pieces' = Rotated(pieces)
          /\ blank > 0 /\ blank' = blank - 1
      BY <2>6 DEF BlankRound
    <3>2. width * blank > 0 /\ (width * blank)' = width * blank - width
      BY <2>1, <3>1
    <3> QED BY <2>5, <3>1, <3>2 DEF Cipher!Next, Cipher!WarmUp
  <2>7. CASE trivium
    <3>1. /\ width' = width /\ z' = Returned(pieces) /\ pieces' = Rotated(pieces)
          /\ blank = 0 /\ blank' = blank
      BY <2>7 DEF trivium
    <3>2. width * blank = 0 /\ (width * blank)' = width * blank
      BY <2>1, <3>1
    <3>3. z' = [i \in 0 .. (width - 1) |-> Cipher!OutputBit(Cipher!After(r)[width - 1 - i])]
      <4>1. z' = [i \in 0 .. (width - 1) |-> Cipher!OutputBit(Clocked(r, width - 1 - i))]
        BY <2>1, <3>1, ReturnedBits DEF WordBits
      <4>2. \A i \in 0 .. (width - 1) : Cipher!After(r)[width - 1 - i] = Clocked(r, width - 1 - i)
        <5> SUFFICES ASSUME NEW i \in 0 .. (width - 1)
                     PROVE  Cipher!After(r)[width - 1 - i] = Clocked(r, width - 1 - i)
          OBVIOUS
        <5>1. width - 1 - i \in 0 .. width
          BY <2>1
        <5> QED BY <2>1, <2>2, <5>1, AfterClocks
      <4> HIDE DEF r
      <4> QED BY <4>1, <4>2
    <3> QED BY <2>5, <3>1, <3>2, <3>3 DEF Cipher!Next, Cipher!Generate
  <2>8. CASE UNCHANGED trivium_vars
    <3>1. width' = width /\ pieces' = pieces /\ z' = z /\ blank' = blank
      BY <2>8 DEF trivium_vars
    <3>2. Register(pieces)' = Register(pieces)
      BY <2>3, <3>1
    <3> QED BY <3>1, <3>2 DEF Cipher!vars
  <2> QED BY <1>2, <2>4, <2>6, <2>7, <2>8 DEF trivium_next, Cipher!Next
<1> QED BY <1>1, <1>2, TriviumInvariant, PTL DEF trivium_spec, ImplementsCipher, Cipher!Spec
=============================================================================
