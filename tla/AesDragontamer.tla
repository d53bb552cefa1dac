--------------------------- MODULE AesDragontamer ---------------------------
(***************************************************************************)
(* aesdragontamer.h: a 128-bit value to which a constant is added, lane by *)
(* lane, and two AES rounds of it, which fill a buffer of four words.      *)
(* Unlike aesctr, seeding fills the buffer.                                *)
(***************************************************************************)
EXTENDS Integers

CONSTANTS LaneModulus,      \* 2^64, of one lane of a block
          INCREMENT,        \* the constant of _mm_set_epi8, as two lanes
          mm_aesenc(_, _), mm_aesdec(_, _),   \* the rounds, by a block's lanes
          mm_storeu(_, _),  \* the low (0) or high (1) word a block is stored as
          StartOf(_),       \* splitmix64_stateless(seed, 0) and (seed, 1)
          StreamSeeds

Block128 == (0 .. (LaneModulus - 1)) \X (0 .. (LaneModulus - 1))
Zero128 == <<0, 0>>

\* Both lanes of the constant are odd, so that it is not zero.
ASSUME IncrementAssumption ==
  /\ LaneModulus \in Nat \ {0}
  /\ INCREMENT \in Block128 /\ INCREMENT # Zero128

ASSUME RoundsAssumption ==
  /\ \A x, y \in Block128 : mm_aesenc(x, y) \in Block128 /\ mm_aesdec(x, y) \in Block128
  /\ \A seed \in StreamSeeds : StartOf(seed) \in Block128

VARIABLES g_state, g_increment, g_buffer, g_offset,   \* g_aesdragontamer_state
          g_output,   \* the value the last call returned
          g_start,    \* history: the state the seed stands for
          g_filled    \* history: how often the buffer was filled since

aesdragontamer_vars ==
  <<g_state, g_increment, g_buffer, g_offset, g_output, g_start, g_filled>>

-----------------------------------------------------------------------------
\* _mm_add_epi64: no carry from the low lane to the high one.
add_epi64(x, y) == <<(x[1] + y[1]) % LaneModulus, (x[2] + y[2]) % LaneModulus>>

\* The four words aesdragontamer_tobuffer_r makes of a state just moved on.
BufferWords(state, increment) ==
  LET penultimate  == mm_aesenc(state, increment)
      penultimate1 == mm_aesenc(penultimate, increment)
      penultimate2 == mm_aesdec(penultimate, increment)
  IN  [i \in 0 .. 3 |-> mm_storeu(IF i < 2 THEN penultimate1 ELSE penultimate2, i % 2)]

aesdragontamer_tobuffer(state, increment) ==
  /\ g_state' = add_epi64(state, increment)
  /\ g_buffer' = BufferWords(g_state', increment)

\* Mutant: the last word is left in the buffer.
NeedsFill_OneEarly == g_offset = 3

\* if (state->offset == 4).
NeedsFill == g_offset = 4

-----------------------------------------------------------------------------
\* Static storage: zeros.  The buffer is not empty then.
aesdragontamer_init ==
  /\ g_state = Zero128 /\ g_increment = Zero128
  /\ g_buffer = [i \in 0 .. 3 |-> mm_storeu(Zero128, 0)]
  /\ g_offset = 0
  /\ g_output = mm_storeu(Zero128, 0)
  /\ g_start = Zero128
  /\ g_filled = 0

aesdragontamer_seed(seed) ==
  /\ g_increment' = INCREMENT
  /\ aesdragontamer_tobuffer(StartOf(seed), INCREMENT)
  /\ g_offset' = 0
  /\ g_start' = StartOf(seed)
  /\ g_filled' = 1
  /\ UNCHANGED g_output

\* "Every 4 calls, we generate 4 new uint64_t."
aesdragontamer ==
  /\ IF NeedsFill
     THEN /\ aesdragontamer_tobuffer(g_state, g_increment)
          /\ g_output' = g_buffer'[0]
          /\ g_offset' = 1
          /\ g_filled' = (g_filled + 1) % LaneModulus
     ELSE /\ g_output' = g_buffer[g_offset]
          /\ g_offset' = g_offset + 1
          /\ UNCHANGED <<g_state, g_buffer, g_filled>>
  /\ UNCHANGED <<g_increment, g_start>>

aesdragontamer_next ==
  (\E seed \in StreamSeeds : aesdragontamer_seed(seed)) \/ aesdragontamer

aesdragontamer_spec ==
  aesdragontamer_init /\ [][aesdragontamer_next]_aesdragontamer_vars

-----------------------------------------------------------------------------
(***************************************************************************)
(* The stream this implements: the n-th state after a start is the start   *)
(* plus n + 1 increments, until both lanes come back together.             *)
(***************************************************************************)
Moved(start, n) == <<(start[1] + n * INCREMENT[1]) % LaneModulus,
                     (start[2] + n * INCREMENT[2]) % LaneModulus>>

Enciphered(key, n) == BufferWords(Moved(key[2], n + 1), INCREMENT)

IncrementSet == g_increment = INCREMENT

\* The buffer's state is number g_filled - 1; used up, the next one's turn has come.
NextState == IF ~IncrementSet THEN 0
             ELSE IF NeedsFill THEN g_filled ELSE (g_filled - 1) % LaneModulus

NextWord == IF IncrementSet THEN g_offset % 4 ELSE 0

StreamKeys == {<<INCREMENT, StartOf(seed)>> : seed \in StreamSeeds}
StreamWords == {mm_storeu(b, h) : b \in Block128, h \in {0, 1}}
WordOf(words, n) == words[n]

BS == INSTANCE CounterMode WITH
        Counters <- LaneModulus, Keys <- StreamKeys, Encrypt <- Enciphered,
        Parts <- 4, Part <- WordOf, Outputs <- StreamWords,
        seeded <- IncrementSet, key <- <<g_increment, g_start>>,
        counter <- NextState, part <- NextWord, output <- g_output

\* However seedings, refills and the wrap of the two lanes fall together, every
\* call returns the next of the four words of the next state: no word is
\* handed out twice, none is skipped, and none outlives a seeding.
ImplementsBlockStream == BS!Spec
=============================================================================
