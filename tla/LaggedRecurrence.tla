-------------------------- MODULE LaggedRecurrence --------------------------
(***************************************************************************)
(* What a generator built on a recurrence x[n] = F(x[n-N], ..., x[n-1])    *)
(* promises, without the array, the pointer and the loops it does it with. *)
(*                                                                         *)
(* window holds the last N words of the recurrence, oldest first.  The     *)
(* generator may compute ahead of its caller, by at most the window:       *)
(* ahead is the number of words in the window nobody was given yet.        *)
(* Words are handed out in the order of the recurrence, each exactly once. *)
(***************************************************************************)
EXTENDS Integers

CONSTANTS N,            \* the recurrence's order
          Words,        \* what the words are
          Recur(_),     \* the next word, of the last N
          Output(_),    \* the value handed out for a word
          Windows       \* the windows a seed makes

VARIABLES window, ahead, output,
          seeding       \* the generator is being seeded: it has no window yet

vars == <<window, ahead, output, seeding>>

Index == 0 .. (N - 1)

\* What the window is while the generator is being seeded.
NoWindow == [i \in {} |-> 0]

\* The window moved on by one word.
Slide(w) == [i \in Index |-> IF i = N - 1 THEN Recur(w) ELSE w[i + 1]]

Init == /\ window \in [Index -> Words]
        /\ ahead = 0
        /\ output \in Words
        /\ seeding = FALSE

Extend == /\ ~seeding
          /\ ahead < N
          /\ window' = Slide(window)
          /\ ahead' = ahead + 1
          /\ UNCHANGED <<output, seeding>>

Take == /\ ~seeding
        /\ ahead > 0
        /\ output' = Output(window[N - ahead])
        /\ ahead' = ahead - 1
        /\ UNCHANGED <<window, seeding>>

\* Seeding forgets everything: the words that were computed ahead too.
BeginSeed == /\ ~seeding
             /\ seeding' = TRUE
             /\ window' = NoWindow
             /\ ahead' = 0
             /\ UNCHANGED output

EndSeed == /\ seeding
           /\ seeding' = FALSE
           /\ window' \in Windows
           /\ ahead' = 0
           /\ UNCHANGED output

Next == Extend \/ Take \/ BeginSeed \/ EndSeed

Spec == Init /\ [][Next]_vars
=============================================================================
