------------------------- MODULE PractRandPrograms --------------------------
(***************************************************************************)
(* practrand/src/*.c: the programs whose standard output RNG_test reads.   *)
(* They differ in four things: how many bits the generator returns (word), *)
(* whether main reads the -H option (high), how wide the buffer's elements  *)
(* are without it (element; they are 32 bits wide with it), and whether    *)
(* main does anything when the compiler has no AES instructions (aes).     *)
(***************************************************************************)
EXTENDS Integers, Sequences

testaesctr           == [word |-> 64, high |-> FALSE, element |-> 64, aes |-> TRUE]
testaesdragontamer   == [word |-> 64, high |-> FALSE, element |-> 64, aes |-> TRUE]
testlehmer64         == [word |-> 64, high |-> TRUE,  element |-> 64, aes |-> FALSE]
testmersennetwister  == [word |-> 32, high |-> FALSE, element |-> 32, aes |-> FALSE]
testmitchellmoore    == [word |-> 32, high |-> FALSE, element |-> 32, aes |-> FALSE]
testpcg32            == [word |-> 32, high |-> FALSE, element |-> 32, aes |-> FALSE]
testpcg64            == [word |-> 64, high |-> TRUE,  element |-> 64, aes |-> FALSE]
testsplitmix64       == [word |-> 64, high |-> TRUE,  element |-> 64, aes |-> FALSE]
testv8xorshift128plus == [word |-> 64, high |-> TRUE, element |-> 64, aes |-> FALSE]
testw1rand           == [word |-> 64, high |-> TRUE,  element |-> 32, aes |-> FALSE]
testwidynski         == [word |-> 32, high |-> FALSE, element |-> 32, aes |-> FALSE]
testwyhash           == [word |-> 64, high |-> FALSE, element |-> 32, aes |-> FALSE]
testwyrand           == [word |-> 64, high |-> TRUE,  element |-> 32, aes |-> FALSE]
testxoroshiro128plus == [word |-> 64, high |-> TRUE,  element |-> 64, aes |-> FALSE]
testxorshift_k4      == [word |-> 32, high |-> FALSE, element |-> 32, aes |-> FALSE]
testxorshift_k5      == [word |-> 32, high |-> FALSE, element |-> 32, aes |-> FALSE]
testxorshift1024plus == [word |-> 64, high |-> TRUE,  element |-> 64, aes |-> FALSE]
testxorshift1024star == [word |-> 64, high |-> TRUE,  element |-> 64, aes |-> FALSE]
testxorshift128plus  == [word |-> 64, high |-> TRUE,  element |-> 64, aes |-> FALSE]
testxorshift32       == [word |-> 32, high |-> FALSE, element |-> 32, aes |-> FALSE]

\* Some of the commands of runtests.sh: a program, and whether it is given -H.
Plain(program) == [program |-> program, H |-> FALSE]
WithH(program) == [program |-> program, H |-> TRUE]

Widths == {32, 64}
Program == [word : Widths, high : BOOLEAN, element : Widths, aes : BOOLEAN]
Command == [program : Program, H : BOOLEAN]

-----------------------------------------------------------------------------
(***************************************************************************)
(* Output n of a generator is <<n, "low">> and <<n, "high">>, its two       *)
(* 32-bit halves; a 32-bit generator's is <<n, "low">> alone.              *)
(***************************************************************************)
castingtohigh32(c) == c.H /\ c.program.high

\* The halves of one output that its element of the buffer holds, in the order
\* of their addresses on a little-endian machine.
Halves(c) == IF castingtohigh32(c) THEN <<"high">>
             ELSE IF c.program.element = 64 THEN <<"low", "high">>
             ELSE <<"low">>

\* The j-th 32 bits the program writes, from 1.
Unit(c, j) == LET h == Halves(c)
              IN  <<((j - 1) \div Len(h)) + 1, h[((j - 1) % Len(h)) + 1]>>
=============================================================================
