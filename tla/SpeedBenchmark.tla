--------------------------- MODULE SpeedBenchmark ---------------------------
(***************************************************************************)
(* speed/src/rng.cpp: each generator fills one buffer, over and over, and  *)
(* the time it takes is divided by the size of the buffer.  What is in the *)
(* buffer is written <<generator, call>>, byte by byte.  counters::bench,  *)
(* which repeats the filling as long as it sees fit, is external.          *)
(***************************************************************************)
EXTENDS Integers, Sequences

CONSTANTS size,            \* the size of the buffer in bytes, 4096
          generators32, generators64, generators128,
          Repetitions      \* bound on the fillings of a measurement

VARIABLES g,               \* the number of the generator being measured
          i,               \* populate's loop variable
          calls,           \* the calls to the generator in this measurement
          repetitions,     \* the fillings it has been through
          buf,
          phase            \* "bench", "populate", "printed" or "returned"

vars == <<g, i, calls, repetitions, buf, phase>>

-----------------------------------------------------------------------------
\* The three loops of run_benchmark, one after another.
generators == generators32 \o generators64 \o generators128

Width(n) == IF n <= Len(generators32) THEN 4
            ELSE IF n <= Len(generators32) + Len(generators64) THEN 8 ELSE 16

Elements == size \div Width(g)

Init == /\ g = 1
        /\ i = 0
        /\ calls = 0
        /\ repetitions = 0
        /\ buf = [b \in 0 .. (size - 1) |-> <<"malloc", 0>>]
        /\ phase = "bench"

\* bench calls populate32, populate64 or populate128.
Begin == /\ phase = "bench"
         /\ repetitions < Repetitions
         /\ i' = Elements
         /\ phase' = "populate"
         /\ UNCHANGED <<g, calls, repetitions, buf>>

Stored(element) ==
  [b \in 0 .. (size - 1) |->
     IF b \div Width(g) = element THEN <<generators[g], calls + 1>> ELSE buf[b]]

\* Mutant: answer[i] instead of answer[size - i].
Populate_FromAbove == /\ phase = "populate" /\ i # 0
                      /\ buf' = Stored(i)
                      /\ calls' = calls + 1
                      /\ i' = i - 1
                      /\ UNCHANGED <<g, repetitions, phase>>

\* answer[size - i] = f()
Populate == /\ phase = "populate" /\ i # 0
            /\ buf' = Stored(Elements - i)
            /\ calls' = calls + 1
            /\ i' = i - 1
            /\ UNCHANGED <<g, repetitions, phase>>

End == /\ phase = "populate" /\ i = 0
       /\ repetitions' = repetitions + 1
       /\ phase' = "bench"
       /\ UNCHANGED <<g, i, calls, buf>>

\* pretty_print: the time of a filling is divided by size.
PrintTime == /\ phase = "bench"
             /\ repetitions > 0
             /\ phase' = "printed"
             /\ UNCHANGED <<g, i, calls, repetitions, buf>>

\* The next generator of the lists, which no one has seeded; in the end the
\* buffer is freed.
Continue == /\ phase = "printed"
            /\ IF g < Len(generators)
               THEN g' = g + 1 /\ phase' = "bench"
               ELSE UNCHANGED g /\ phase' = "returned"
            /\ calls' = 0
            /\ repetitions' = 0
            /\ UNCHANGED <<i, buf>>

Next == Begin \/ Populate \/ End \/ PrintTime \/ Continue

Spec == Init /\ [][Next]_vars

-----------------------------------------------------------------------------
\* What is printed as ns/byte is the time of so many bytes: when a measurement
\* is printed, the generator's words of the last filling lie in the buffer in
\* the order of the calls, from its first byte to its last, none is left of
\* another generator, and every filling made as many calls.  The assertion on
\* the size, a multiple of 8, would not do for the 128-bit generators
\* (rng.cpp:91-103, 130).
WholeBufferIsTimed ==
  phase = "printed" =>
    /\ calls * Width(g) = repetitions * size
    /\ \A b \in 0 .. (size - 1) :
         buf[b] = <<generators[g], calls - Elements + 1 + (b \div Width(g))>>
=============================================================================
