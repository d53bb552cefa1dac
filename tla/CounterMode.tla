---------------------------- MODULE CounterMode -----------------------------
(***************************************************************************)
(* What a generator that enciphers a counter promises, without the buffer  *)
(* and the parallel lanes it does it with: after seeding, the stream is    *)
(* the parts of what 0 is enciphered to, then those of 1, and so on, until  *)
(* the counter wraps.  Of a generator nobody seeded it promises nothing.   *)
(***************************************************************************)
EXTENDS Integers

CONSTANTS Counters,       \* how many counters there are before they wrap
          Keys,           \* what the seeds make
          Encrypt(_, _),  \* what a counter is enciphered to under a key
          Parts,          \* the calls that one counter is enough for
          Part(_, _),     \* the output of one of them, from 0
          Outputs

VARIABLES seeded, key, counter, part, output

vars == <<seeded, key, counter, part, output>>

Init == /\ seeded = FALSE
        /\ key \notin Keys
        /\ counter = 0
        /\ part = 0
        /\ output \in Outputs

Seed == /\ seeded' = TRUE
        /\ key' \in Keys
        /\ counter' = 0
        /\ part' = 0
        /\ UNCHANGED output

Generate == /\ seeded
            /\ output' = Part(Encrypt(key, counter), part)
            /\ part' = (part + 1) % Parts
            /\ counter' = IF part = Parts - 1 THEN (counter + 1) % Counters
                                              ELSE counter
            /\ UNCHANGED <<seeded, key>>

GenerateUnseeded == /\ ~seeded
                    /\ output' \in Outputs
                    /\ UNCHANGED <<seeded, key, counter, part>>

Next == Seed \/ Generate \/ GenerateUnseeded

Spec == Init /\ [][Next]_vars
=============================================================================
