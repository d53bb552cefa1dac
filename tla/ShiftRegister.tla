--------------------------- MODULE ShiftRegister ----------------------------
(***************************************************************************)
(* What a generator on a shift register promises, without the array and    *)
(* the moving pointer it does it with: after seeding, the register holds   *)
(* the seed's words; every call computes one new word from the oldest and  *)
(* the newest, returns a value made from the three, and drops the oldest.  *)
(***************************************************************************)
EXTENDS Integers

CONSTANTS Size,             \* the words in the register
          Words,
          Recur(_, _),      \* the new word, of the newest and the oldest
          Output(_, _, _),  \* what is returned, of the newest, the oldest, the new
          Registers         \* the registers the seeds make

VARIABLES register,         \* oldest word first
          output

vars == <<register, output>>

Index == 0 .. (Size - 1)

Init == /\ register \in [Index -> Words]
        /\ output \in {Output(newest, oldest, new) :
                          newest \in Words, oldest \in Words, new \in Words}

Seed == /\ register' \in Registers
        /\ UNCHANGED output

Generate ==
  LET newest == register[Size - 1]
      oldest == register[0]
      new    == Recur(newest, oldest)
  IN  /\ register' = [i \in Index |-> IF i = Size - 1 THEN new ELSE register[i + 1]]
      /\ output' = Output(newest, oldest, new)

Next == Seed \/ Generate

Spec == Init /\ [][Next]_vars
=============================================================================
