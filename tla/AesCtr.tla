------------------------------- MODULE AesCtr -------------------------------
(***************************************************************************)
(* aesctr.h: AES in counter mode.  AESCTR_UNROLL counters are encrypted at *)
(* a time into a buffer that is then handed out eight bytes per call.      *)
(***************************************************************************)
EXTENDS Integers

CONSTANTS AESCTR_UNROLL,      \* 4
          AESCTR_ROUNDS,      \* 10
          Counters,           \* 2^64: only the low lane of a counter is added to
          Block,              \* the 128-bit values
          ZeroBlock,          \* the block of zeros
          BlockOf(_),         \* the block a counter is: its high lane is 0
          InitialKey(_),      \* _mm_set_epi64x(0, seed)
          RoundKey(_, _),     \* AES_ROUND: the next round key, by its number
          xor(_, _),          \* _mm_xor_si128
          aesenc(_, _),       \* _mm_aesenc_si128
          aesenclast(_, _),   \* _mm_aesenclast_si128
          Half(_, _),         \* the low (0) or high (1) eight bytes of a block
          Seeds

Lane == 0 .. (AESCTR_UNROLL - 1)
Counter == 0 .. (Counters - 1)
Round == 0 .. AESCTR_ROUNDS
BufferSize == 16 * AESCTR_UNROLL

Outputs == {Half(b, h) : b \in Block, h \in {0, 1}}

ASSUME SizesAssumption ==
  /\ AESCTR_UNROLL \in Nat \ {0}
  /\ AESCTR_ROUNDS \in Nat \ {0}
  /\ Counters \in Nat \ {0}
  /\ AESCTR_UNROLL <= Counters

VARIABLES state,    \* the buffer: one encrypted block per lane
          ctr,      \* the counter each lane encrypts next
          seed,     \* the round keys
          offset,   \* the bytes of the buffer already handed out
          output    \* the value the last call returned

vars == <<state, ctr, seed, offset, output>>

-----------------------------------------------------------------------------
\* The round keys made from a seed: AES_ROUND, ten times.
KeySchedule(s) ==
  LET k[r \in Round] == IF r = 0 THEN InitialKey(s) ELSE RoundKey(k[r - 1], r)
  IN  [r \in Round |-> k[r]]

\* One lane of the refill: what its counter is encrypted to.
Encrypt(keys, c) ==
  LET work[r \in 0 .. (AESCTR_ROUNDS - 1)] ==
        IF r = 0 THEN xor(BlockOf(c), keys[0]) ELSE aesenc(work[r - 1], keys[r])
  IN  aesenclast(work[AESCTR_ROUNDS - 1], keys[AESCTR_ROUNDS])

\* Static storage: before seeding everything is zero, the round keys too.
ZeroKeys == [r \in Round |-> ZeroBlock]

RoundKeys == {KeySchedule(s) : s \in Seeds}

\* Encryption maps blocks to blocks, and no seed expands to round keys that
\* are all zero.
ASSUME BlockAssumption ==
  /\ ZeroBlock \in Block
  /\ \A k \in RoundKeys \cup {ZeroKeys}, c \in Counter : Encrypt(k, c) \in Block
  /\ ZeroKeys \notin RoundKeys

Init == /\ state = [i \in Lane |-> ZeroBlock]
        /\ ctr = [i \in Lane |-> 0]
        /\ seed = ZeroKeys
        /\ offset = 0
        /\ output = Half(ZeroBlock, 0)

\* Mutant: the buffer of the previous seed is still handed out.
aesctr_seed_KeepBuffer(s) ==
  /\ seed' = KeySchedule(s)
  /\ ctr' = [i \in Lane |-> i]
  /\ UNCHANGED <<state, offset, output>>

\* aesctr_seed: the buffer keeps its bytes, and counts as handed out.
aesctr_seed(s) ==
  /\ seed' = KeySchedule(s)
  /\ ctr' = [i \in Lane |-> i]
  /\ offset' = BufferSize
  /\ UNCHANGED <<state, output>>

\* Mutant: counters that do not wrap.
Refill_NoWrap ==
  /\ state' = [i \in Lane |-> Encrypt(seed, ctr[i])]
  /\ ctr' = [i \in Lane |-> ctr[i] + AESCTR_UNROLL]

\* The refill encrypts all lanes' counters and then moves each of them on.
Refill ==
  /\ state' = [i \in Lane |-> Encrypt(seed, ctr[i])]
  /\ ctr' = [i \in Lane |-> (ctr[i] + AESCTR_UNROLL) % Counters]

\* The eight bytes at an offset of a buffer.
BytesAt(buffer, at) == Half(buffer[at \div 16], (at % 16) \div 8)

aesctr ==
  /\ IF offset >= BufferSize
     THEN /\ Refill
          /\ output' = BytesAt(state', 0)
          /\ offset' = 8
     ELSE /\ output' = BytesAt(state, offset)
          /\ offset' = offset + 8
          /\ UNCHANGED <<state, ctr>>
  /\ UNCHANGED seed

Next == (\E s \in Seeds : aesctr_seed(s)) \/ aesctr

Spec == Init /\ [][Next]_vars

-----------------------------------------------------------------------------
TypeOK == /\ state \in [Lane -> Block]
          /\ ctr \in [Lane -> Counter]
          /\ seed \in RoundKeys \cup {ZeroKeys}
          /\ \E n \in 0 .. (2 * AESCTR_UNROLL) : offset = 8 * n
          /\ output \in Outputs

(***************************************************************************)
(* The unbuffered stream this implements.  The counter whose encryption is *)
(* handed out next is lane 0's when the buffer is used up; otherwise the   *)
(* buffer was filled AESCTR_UNROLL counters ago, and holds one block per   *)
(* counter since.                                                          *)
(***************************************************************************)
Seeded == seed # ZeroKeys

NextCounter ==
  IF ~Seeded THEN 0
  ELSE IF offset >= BufferSize THEN ctr[0]
  ELSE (ctr[0] - AESCTR_UNROLL + (offset \div 16)) % Counters

NextHalf == IF Seeded THEN (offset % 16) \div 8 ELSE 0

CM == INSTANCE CounterMode WITH
        Keys <- RoundKeys,
        seeded <- Seeded, key <- seed,
        counter <- NextCounter,
        Parts <- 2, Part <- Half, part <- NextHalf

\* However seeding, buffering, refilling and the wrap of the counter fall
\* together, every call returns the next half block of the counter stream: no
\* counter is skipped, none is encrypted twice, no buffered block outlives a
\* seeding.
ImplementsCounterMode == CM!Spec
=============================================================================
