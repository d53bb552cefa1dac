------------------------------ MODULE Trivium -------------------------------
(****************************************************************************)
(* trivium32.h and trivium64.h: Trivium, 32 or 64 of its clocks in one      *)
(* call.  The three pieces of its register are arrays of words, newest      *)
(* first; the successive values of a bit of a piece are a window across two *)
(* neighbouring words.                                                      *)
(****************************************************************************)
EXTENDS Integers

CONSTANTS TriviumSeeds,      \* pairs <<seed, seq>> of 64-bit words
          MaxTriviumCalls    \* bound on the calls after a seeding

ASSUME TriviumSeedsAssumption ==
  \A seed \in TriviumSeeds : /\ seed[1] \in [0 .. 63 -> BOOLEAN]
                            /\ seed[2] \in [0 .. 63 -> BOOLEAN]

VARIABLES width,      \* 32 or 64, by the header the program includes
          pieces,     \* <<s11, s12, ...>>, <<s21, s22, ...>>, <<s31, s32, ...>>
          z,          \* the word the last call since seeding returned
          blank,      \* the blank rounds left in a seeding under way
          z_calls     \* the calls since seeding

trivium_vars == <<width, pieces, z, blank, z_calls>>

\* A word, bit 0 its lowest, and C's operators on unsigned words.
WordBits == 0 .. (width - 1)
ZeroWord == [i \in WordBits |-> FALSE]

ShiftedLeft(x, n)  == [i \in WordBits |-> i >= n /\ x[i - n]]
ShiftedRight(x, n) == [i \in WordBits |-> i + n < width /\ x[i + n]]
BitwiseXor(x, y)   == [i \in WordBits |-> x[i] # y[i]]
BitwiseAnd(x, y)   == [i \in WordBits |-> x[i] /\ y[i]]

-----------------------------------------------------------------------------
(***************************************************************************)
(* The windows of the two headers: in s13 << 30 ^ s12 >> 2, the piece, the *)
(* older of the two words, its left shift and the other's right shift.     *)
(***************************************************************************)
trivium32 == [s66  |-> <<1, 3, 30, 2>>,  s93  |-> <<1, 3, 3, 29>>,
              s162 |-> <<2, 3, 27, 5>>,  s177 |-> <<2, 3, 12, 20>>,
              s243 |-> <<3, 3, 30, 2>>,  s288 |-> <<3, 4, 17, 15>>,
              s91  |-> <<1, 3, 5, 27>>,  s92  |-> <<1, 3, 4, 28>>,
              s171 |-> <<2, 3, 18, 14>>, s175 |-> <<2, 3, 14, 18>>,
              s176 |-> <<2, 3, 13, 19>>, s264 |-> <<3, 3, 9, 23>>,
              s286 |-> <<3, 4, 19, 13>>, s287 |-> <<3, 4, 18, 14>>,
              s69  |-> <<1, 3, 27, 5>>]

trivium64 == [s66  |-> <<1, 2, 62, 2>>,  s93  |-> <<1, 2, 35, 29>>,
              s162 |-> <<2, 2, 59, 5>>,  s177 |-> <<2, 2, 44, 20>>,
              s243 |-> <<3, 2, 62, 2>>,  s288 |-> <<3, 2, 17, 47>>,
              s91  |-> <<1, 2, 37, 27>>, s92  |-> <<1, 2, 36, 28>>,
              s171 |-> <<2, 2, 50, 14>>, s175 |-> <<2, 2, 46, 18>>,
              s176 |-> <<2, 2, 45, 19>>, s264 |-> <<3, 2, 41, 23>>,
              s286 |-> <<3, 2, 19, 45>>, s287 |-> <<3, 2, 18, 46>>,
              s69  |-> <<1, 2, 59, 5>>]

Windows == IF width = 32 THEN trivium32 ELSE trivium64

\* Mutant: the two words of a window are exchanged.
Window_Exchanged(s, name) ==
  LET w == Windows[name]
  IN  BitwiseXor(ShiftedLeft(s[w[1]][w[2] - 1], w[3]), ShiftedRight(s[w[1]][w[2]], w[4]))

Window(s, name) ==
  LET w == Windows[name]
  IN  BitwiseXor(ShiftedLeft(s[w[1]][w[2]], w[3]), ShiftedRight(s[w[1]][w[2] - 1], w[4]))

\* t1, t2, t3: the sum of the windows a, b, and of c & d and e.
Sum(s, a, b) == BitwiseXor(Window(s, a), Window(s, b))
Update(s, a, b, c, d, e) ==
  BitwiseXor(BitwiseXor(Sum(s, a, b), BitwiseAnd(Window(s, c), Window(s, d))), Window(s, e))

\* The words move by one place: word comes in, and the last is lost.
Rotate(words, word) == [k \in DOMAIN words |-> IF k = 1 THEN word ELSE words[k - 1]]

\* The pieces a call leaves, and the word it returns.
Rotated(s) ==
  <<Rotate(s[1], Update(s, "s243", "s288", "s286", "s287", "s69")),
    Rotate(s[2], Update(s, "s66", "s93", "s91", "s92", "s171")),
    Rotate(s[3], Update(s, "s162", "s177", "s175", "s176", "s264"))>>

Returned(s) ==
  BitwiseXor(BitwiseXor(Sum(s, "s66", "s93"), Sum(s, "s162", "s177")), Sum(s, "s243", "s288"))

-----------------------------------------------------------------------------
\* The words of the pieces: 3, 3 and 4 of 32 bits, or 2 each of 64.
Sizes == IF width = 32 THEN <<3, 3, 4>> ELSE <<2, 2, 2>>

Zeros(n) == [k \in 1 .. n |-> ZeroWord]

\* The 64 bits of seed or seq, low bits first, and a word of zeros.
Split(x, n) ==
  [k \in 1 .. n |-> [i \in WordBits |-> (k - 1) * width + i < 64 /\ x[(k - 1) * width + i]]]

\* 0x7000, or 0x700000000000, in the last word of the third piece.
LastThree == [i \in WordBits |-> i \in IF width = 32 THEN 12 .. 14 ELSE 44 .. 46]

Loaded(seed, seq) ==
  <<Split(seed, Sizes[1]), Split(seq, Sizes[2]), [Zeros(Sizes[3]) EXCEPT ![Sizes[3]] = LastThree]>>

trivium_init == /\ width \in {32, 64}
                /\ pieces = <<Zeros(Sizes[1]), Zeros(Sizes[2]), Zeros(Sizes[3])>>
                /\ z = ZeroWord
                /\ blank = 0
                /\ z_calls = 0

trivium_seed(seed, seq) == /\ blank = 0
                           /\ pieces' = Loaded(seed, seq)
                           /\ blank' = IF width = 32 THEN 36 ELSE 18
                           /\ z' = ZeroWord
                           /\ z_calls' = 0
                           /\ UNCHANGED width

\* An iteration of the loop at the end of seeding.
BlankRound == /\ blank > 0
              /\ pieces' = Rotated(pieces)
              /\ blank' = blank - 1
              /\ UNCHANGED <<width, z, z_calls>>

trivium == /\ blank = 0
           /\ z_calls < MaxTriviumCalls
           /\ pieces' = Rotated(pieces)
           /\ z' = Returned(pieces)
           /\ z_calls' = z_calls + 1
           /\ UNCHANGED <<width, blank>>

trivium_next ==
  (\E seed \in TriviumSeeds : trivium_seed(seed[1], seed[2])) \/ BlankRound \/ trivium

trivium_spec == trivium_init /\ [][trivium_next]_trivium_vars

-----------------------------------------------------------------------------
\* Bit p of a piece, from 1: the words keep some bits more than Trivium uses.
PieceBit(words, p) == words[((p - 1) \div width) + 1][(p - 1) % width]

Register(s) == [p \in 1 .. 288 |-> IF p <= 93 THEN PieceBit(s[1], p)
                                   ELSE IF p <= 177 THEN PieceBit(s[2], p - 93)
                                   ELSE PieceBit(s[3], p - 177)]

Cipher == INSTANCE TriviumCipher WITH s <- Register(pieces), silent <- width * blank

\* "This code generates the same output as trivium's reference
\* implementation" (trivium32.h:12): with the fifteen windows, the words the
\* pieces are cut into, the loading and the blank rounds of the header, a call
\* is 32, or 64, clocks of the cipher.
ImplementsCipher == Cipher!Spec
=============================================================================
