--------------------------- MODULE TriviumCipher ----------------------------
(***************************************************************************)
(* Trivium as it is specified: a register of 288 bits, clocked one bit at  *)
(* a time, and 1152 clocks without output after the key and the initial    *)
(* value are loaded.  A call of the generator is width clocks; the first   *)
(* bit out of them is the highest of the word it returns.                  *)
(***************************************************************************)
EXTENDS Integers

CONSTANTS TriviumSeeds    \* pairs of a key and an initial value, bits 0 .. 63

VARIABLES width,    \* the clocks of a call
          s,        \* the register, its bits 1 .. 288
          silent,   \* clocks still to be made before there is output
          z         \* the word the last call since seeding returned

vars == <<width, s, silent, z>>

\* One clock: each of the three pieces of the register moves by one place
\* and takes in the sum (# is the sum of two bits) of bits of two pieces.
Clock(r) ==
  [p \in 1 .. 288 |->
     IF p = 1        THEN (r[69] # (r[286] /\ r[287])) # (r[243] # r[288])
     ELSE IF p = 94  THEN (r[171] # (r[91] /\ r[92])) # (r[66] # r[93])
     ELSE IF p = 178 THEN (r[264] # (r[175] /\ r[176])) # (r[162] # r[177])
     ELSE r[p - 1]]

\* The bit that is output before a clock.
OutputBit(r) == ((r[66] # r[93]) # (r[162] # r[177])) # (r[243] # r[288])

\* The register after every number of the clocks of a call.
After(r) ==
  LET register[n \in 0 .. width] == IF n = 0 THEN r ELSE Clock(register[n - 1])
  IN  register

Load(key, iv) ==
  [p \in 1 .. 288 |-> \/ p \in 1 .. 64 /\ key[p - 1]
                      \/ p \in 94 .. 157 /\ iv[p - 94]
                      \/ p \in 286 .. 288]

NoWord == [i \in 0 .. (width - 1) |-> FALSE]

Init == /\ width \in {32, 64}
        /\ s = [p \in 1 .. 288 |-> FALSE]
        /\ silent = 0
        /\ z = NoWord

Seed == /\ silent = 0
        /\ \E seed \in TriviumSeeds : s' = Load(seed[1], seed[2])
        /\ silent' = 1152
        /\ z' = NoWord
        /\ UNCHANGED width

WarmUp == /\ silent > 0
          /\ s' = After(s)[width]
          /\ silent' = silent - width
          /\ UNCHANGED <<width, z>>

Generate == /\ silent = 0
            /\ s' = After(s)[width]
            /\ z' = [i \in 0 .. (width - 1) |-> OutputBit(After(s)[width - 1 - i])]
            /\ UNCHANGED <<width, silent>>

Next == Seed \/ WarmUp \/ Generate

Spec == Init /\ [][Next]_vars
=============================================================================
