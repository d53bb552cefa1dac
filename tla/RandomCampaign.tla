--------------------------- MODULE RandomCampaign ---------------------------
(***************************************************************************)
(* testu01/rand*.sh: a hundred tests of one generator, each with a seed    *)
(* drawn from $RANDOM and a log in ./longresults that is named after it.   *)
(* randxoroshiro128plusone.sh is the same for one test, and writes where   *)
(* randxoroshiro128plus.sh wrote.                                          *)
(*                                                                         *)
(* The repository has the directory longresults beside the scripts; the    *)
(* build copies the scripts only (testu01/CMakeLists.txt:69).              *)
(***************************************************************************)
EXTENDS Integers, Sequences, FiniteSets, TLC

CONSTANTS Hundred,       \* 100
          RANDOM,        \* what $RANDOM may be: 15 bits
          MaxScripts     \* bound on the scripts run, one after another

VARIABLES directory,     \* is ./longresults there?
          script,        \* the script being run: its command and its tests
          scripts,       \* how many have been run
          i,             \* its loop variable
          running,       \* the seed of the test at hand, or <<>>
          longresults,   \* the logs by their names: "partial" or "complete"
          tests          \* history: the <<command, seed>> of the tests that the
                         \* scripts have printed, "Outputting result to "

vars == <<directory, script, scripts, i, running, longresults, tests>>

-----------------------------------------------------------------------------
randv8xorshift128plus   == [t |-> "testv8xorshift128plus", tests |-> Hundred]
randxoroshiro128plus    == [t |-> "testxoroshiro128plus", tests |-> Hundred]
randxoroshiro128plusone == [t |-> "testxoroshiro128plus", tests |-> 1]
randxorshift1024plus    == [t |-> "testxorshift1024plus", tests |-> Hundred]
randxorshift1024star    == [t |-> "testxorshift1024star", tests |-> Hundred]
randxorshift128plus     == [t |-> "testxorshift128plus", tests |-> Hundred]

Scripts == {randv8xorshift128plus, randxoroshiro128plus, randxoroshiro128plusone,
            randxorshift1024plus, randxorshift1024star, randxorshift128plus}

\* The words of the command line without the spaces.
filelog(seed) == <<script.t, seed>>

Init == /\ directory \in BOOLEAN
        /\ script \in Scripts
        /\ scripts = 1
        /\ i = 0
        /\ running = << >>
        /\ longresults = << >>
        /\ tests = << >>

Log(seed, content) == longresults' = (filelog(seed) :> content) @@ longresults

\* The lines of the loop up to the redirection, ./longresults/$filelog.
Announce(seed) == /\ running = << >>
                  /\ i < script.tests
                  /\ tests' = Append(tests, filelog(seed))
                  /\ UNCHANGED <<directory, script, scripts>>

\* The log is emptied and the program started.
Start(seed) == /\ Announce(seed)
               /\ directory
               /\ running' = <<seed>>
               /\ Log(seed, "partial")
               /\ UNCHANGED i

\* The redirection fails: the shell starts no program, and goes on.
NoRedirection(seed) == /\ Announce(seed)
                       /\ ~directory
                       /\ i' = i + 1
                       /\ UNCHANGED <<running, longresults>>

\* The program comes to its end, or does not; the script goes on.
End(content) == /\ running # << >>
                /\ Log(running[1], content)
                /\ i' = i + 1
                /\ running' = << >>
                /\ UNCHANGED <<directory, script, scripts, tests>>

NextScript == /\ scripts < MaxScripts
              /\ running = << >>
              /\ i = script.tests
              /\ script' \in Scripts
              /\ scripts' = scripts + 1
              /\ i' = 0
              /\ UNCHANGED <<directory, running, longresults, tests>>

Next == \/ \E seed \in RANDOM : Start(seed) \/ NoRedirection(seed)
        \/ \E content \in {"partial", "complete"} : End(content)
        \/ NextScript

Spec == Init /\ [][Next]_vars

-----------------------------------------------------------------------------
\* What does not hold: between two tests, each test whose result the scripts
\* said they were outputting (randxoroshiro128plus.sh:18) has a log of its own.
\* It has none if ./longresults is missing, as it is where the scripts are
\* copied to be run; and two tests have one log if $RANDOM returns a seed again.
EveryTestHasItsLog ==
  running = << >> => Cardinality(DOMAIN longresults) = Len(tests)
=============================================================================
