-------------------------- MODULE TestU01Campaign ---------------------------
(***************************************************************************)
(* The scripts that run the TestU01 programs: bigcrushall.sh (one          *)
(* bigcrush.sh after another), bigcrushallparallel.sh (as many of them at  *)
(* a time as xargs has slots), runtests.sh and linearcomplexity.sh.        *)
(*                                                                         *)
(* A test is a command line, the sequence of its words; its log is named   *)
(* after it (the words without the spaces), so a test also stands for its  *)
(* log.  A job is a sequence of tests one shell runs; a script that is one *)
(* shell takes its jobs one by one.  The programs are external here: a     *)
(* program passes, fails or crashes.                                       *)
(***************************************************************************)
EXTENDS Integers, Sequences

CONSTANTS jobs,           \* a sequence of jobs
          Slots,          \* the shells running side by side
          Scripts         \* the scripts that may be run

TestsOf(job) == {jobs[job][n] : n \in 1 .. Len(jobs[job])}
Tests == UNION {TestsOf(job) : job \in 1 .. Len(jobs)}

\* What grep can find in a log: the line "All tests were passed", the stars
\* of a suspect p-value, or neither.
Logs == {"passed", "stars", "neither"}

\* No command line is in two jobs, or twice in one: no two tests share a log.
ASSUME JobsAssumption ==
  /\ jobs \in Seq(Seq(Tests))
  /\ \A j, k \in 1 .. Len(jobs) : j # k => TestsOf(j) \cap TestsOf(k) = {}
  /\ \A j \in 1 .. Len(jobs) : \A m, n \in 1 .. Len(jobs[j]) :
       m # n => jobs[j][m] # jobs[j][n]

BigCrushScripts == {"bigcrushall", "bigcrushallparallel"}

ASSUME ScriptsAssumption ==
  Scripts \subseteq BigCrushScripts \cup {"runtests", "linearcomplexity"}

VARIABLES script,    \* the script that runs
          next,      \* the first job nobody has taken
          job,       \* the job of each slot, 0 when it has none
          test,      \* where each slot is in its job
          program,   \* "none", "running" or "exited", of each slot
          code,      \* the exit code ($?) in each slot
          log,       \* the log files
          verdict,   \* what was printed for each test
          outcome    \* history: how each test's program ended in this campaign

vars == <<script, next, job, test, program, code, log, verdict, outcome>>

Current(s) == jobs[job[s]][test[s]]

-----------------------------------------------------------------------------
(***************************************************************************)
(* The jobs of the scripts, and their verdicts.                            *)
(***************************************************************************)
\* testlist.sh: the commands of bigcrushall.sh and bigcrushallparallel.sh.
HighFirst(prog) == <<<<prog, "-H">>, <<prog>>>>
HighLast(prog) == <<<<prog>>, <<prog, "-H">>>>

testlist ==
  HighFirst("testsplitmix64") \o <<<<"testpcg32">>>> \o HighFirst("testpcg64")
    \o HighFirst("testxoroshiro128plus") \o HighFirst("testv8xorshift128plus")
    \o HighFirst("testxorshift128plus") \o HighLast("testlehmer64")
    \o <<<<"testxorshift32">>, <<"testmersennetwister">>>>
    \o HighLast("testxorshift1024star") \o HighLast("testxorshift1024plus")
    \o HighLast("testwyhash") \o HighLast("testwyrand")

\* bigcrush.sh: for SEEDCMD in seeds, for order in "-z" "-r" "".
BigCrushTests(command, seeds, orders) ==
  [n \in 1 .. (Len(seeds) * Len(orders)) |->
     command \o seeds[((n - 1) \div Len(orders)) + 1]
             \o orders[((n - 1) % Len(orders)) + 1] \o <<"-b">>]

\* bigcrushall.sh and bigcrushallparallel.sh: one bigcrush.sh per command.
BigCrushJobs(commands, seeds, orders) ==
  [c \in 1 .. Len(commands) |-> BigCrushTests(commands[c], seeds, orders)]

\* runtests.sh: for f in "-s" "-c" "-b", for order, for t, all in one shell.
RunTestsJobs(commands, batteries, orders) ==
  LET C == Len(commands)
      CO == C * Len(orders)
  IN  <<[n \in 1 .. (CO * Len(batteries)) |->
           commands[((n - 1) % C) + 1]
             \o batteries[((n - 1) \div CO) + 1]
             \o orders[(((n - 1) % CO) \div C) + 1]]>>

\* linearcomplexity.sh: the one battery -l, for order, for t.
LinearComplexityJobs(commands, orders) ==
  RunTestsJobs(commands, <<<<"-l">>>>, orders)

\* Mutant: the log is looked at even if the program failed.
BigCrushVerdict_NoCode(exit, l) == IF l = "passed" THEN "Success" ELSE "Failure"

BigCrushVerdict(exit, l) ==
  IF exit # 0 THEN "suspect" ELSE IF l = "passed" THEN "Success" ELSE "Failure"

\* runtests.sh does not look at the exit code.
RunTestsVerdict(exit, l) == IF l = "passed" THEN "Success" ELSE "Failure"

\* Nor does linearcomplexity.sh; it looks for stars.
LinearComplexityVerdict(exit, l) == IF l = "stars" THEN "Failure" ELSE "Success"

\* What is printed, of the exit code and the log.
Verdict(exit, l) ==
  CASE script \in BigCrushScripts -> BigCrushVerdict(exit, l)
    [] script = "runtests" -> RunTestsVerdict(exit, l)
    [] script = "linearcomplexity" -> LinearComplexityVerdict(exit, l)

-----------------------------------------------------------------------------
\* Logs of earlier campaigns may be there, whatever they say.
Init == /\ script \in Scripts
        /\ next = 1
        /\ job = [s \in Slots |-> 0]
        /\ test = [s \in Slots |-> 1]
        /\ program = [s \in Slots |-> "none"]
        /\ code = [s \in Slots |-> 0]
        /\ \E old \in Logs : log = [n \in Tests |-> old]
        /\ verdict = [n \in Tests |-> "none"]
        /\ outcome = [n \in Tests |-> "none"]

\* Mutant: the job stays in the queue.
Take_Again(s) ==
  /\ job[s] = 0
  /\ script = "bigcrushallparallel" \/ \A r \in Slots : job[r] = 0
  /\ next <= Len(jobs)
  /\ job' = [job EXCEPT ![s] = next]
  /\ test' = [test EXCEPT ![s] = 1]
  /\ next' \in {next, next + 1}
  /\ UNCHANGED <<script, program, code, log, verdict, outcome>>

\* xargs starts the next job in a free slot, the other scripts when the last
\* job is done.
Take(s) ==
  /\ job[s] = 0
  /\ script = "bigcrushallparallel" \/ \A r \in Slots : job[r] = 0
  /\ next <= Len(jobs)
  /\ job' = [job EXCEPT ![s] = next]
  /\ test' = [test EXCEPT ![s] = 1]
  /\ next' = next + 1
  /\ UNCHANGED <<script, program, code, log, verdict, outcome>>

\* Mutant: the program writes after what is in the log.
Launch_Append(s) ==
  /\ job[s] # 0 /\ test[s] <= Len(jobs[job[s]])
  /\ program[s] = "none"
  /\ program' = [program EXCEPT ![s] = "running"]
  /\ UNCHANGED <<script, next, job, test, code, log, verdict, outcome>>

\* ./$thiscommand > $filelog: the shell empties the log and starts the program.
Launch(s) ==
  /\ job[s] # 0 /\ test[s] <= Len(jobs[job[s]])
  /\ program[s] = "none"
  /\ program' = [program EXCEPT ![s] = "running"]
  /\ log' = [log EXCEPT ![Current(s)] = "neither"]
  /\ UNCHANGED <<script, next, job, test, code, verdict, outcome>>

\* The program comes to its end; failing tests or not, main returns 0.  (With
\* -l a log without stars counts as "passed": its battery prints no last line.)
Pass(s) ==
  /\ program[s] = "running"
  /\ program' = [program EXCEPT ![s] = "exited"]
  /\ code' = [code EXCEPT ![s] = 0]
  /\ log' = [log EXCEPT ![Current(s)] = "passed"]
  /\ outcome' = [outcome EXCEPT ![Current(s)] = "passed"]
  /\ UNCHANGED <<script, next, job, test, verdict>>

Fail(s) ==
  /\ program[s] = "running"
  /\ program' = [program EXCEPT ![s] = "exited"]
  /\ code' = [code EXCEPT ![s] = 0]
  /\ log' = [log EXCEPT ![Current(s)] = "stars"]
  /\ outcome' = [outcome EXCEPT ![Current(s)] = "failed"]
  /\ UNCHANGED <<script, next, job, test, verdict>>

\* It is not there, aborts or is killed: "All tests were passed" is the last
\* thing a battery prints, so that line is not there yet; stars may be.
Crash(s) ==
  /\ program[s] = "running"
  /\ program' = [program EXCEPT ![s] = "exited"]
  /\ code' = [code EXCEPT ![s] = 1]
  /\ \E l \in {log[Current(s)], "stars"} : log' = [log EXCEPT ![Current(s)] = l]
  /\ outcome' = [outcome EXCEPT ![Current(s)] = "crashed"]
  /\ UNCHANGED <<script, next, job, test, verdict>>

\* Mutant: the next test is judged without being run.
Judge_NoLaunch(s) ==
  /\ program[s] = "exited"
  /\ verdict' = [verdict EXCEPT ![Current(s)] = Verdict(code[s], log[Current(s)])]
  /\ test' = [test EXCEPT ![s] = @ + 1]
  /\ UNCHANGED <<script, next, job, program, code, log, outcome>>

\* The script greps the log, prints its verdict and goes on to the next test
\* ($? is that of echo then).
Judge(s) ==
  /\ program[s] = "exited"
  /\ verdict' = [verdict EXCEPT ![Current(s)] = Verdict(code[s], log[Current(s)])]
  /\ program' = [program EXCEPT ![s] = "none"]
  /\ code' = [code EXCEPT ![s] = 0]
  /\ test' = [test EXCEPT ![s] = @ + 1]
  /\ UNCHANGED <<script, next, job, log, outcome>>

\* Mutant: the shell runs its loop over again.
Leave_Restart(s) ==
  /\ job[s] # 0 /\ test[s] > Len(jobs[job[s]])
  /\ test' = [test EXCEPT ![s] = 1]
  /\ UNCHANGED <<script, next, job, program, code, log, verdict, outcome>>

\* The shell has run all the tests of its job, and exits.
Leave(s) ==
  /\ job[s] # 0 /\ test[s] > Len(jobs[job[s]])
  /\ job' = [job EXCEPT ![s] = 0]
  /\ UNCHANGED <<script, next, test, program, code, log, verdict, outcome>>

Shell(s) == Take(s) \/ Launch(s) \/ Judge(s) \/ Leave(s)
Program(s) == Pass(s) \/ Fail(s) \/ Crash(s)

Next == \E s \in Slots : Shell(s) \/ Program(s)

\* Every shell goes on when it can, and every program comes to an end.
Spec == Init /\ [][Next]_vars /\ \A s \in Slots : WF_vars(Shell(s) \/ Program(s))

-----------------------------------------------------------------------------
TypeOK ==
  /\ script \in Scripts
  /\ next \in 1 .. (Len(jobs) + 1)
  /\ job \in [Slots -> 0 .. Len(jobs)]
  /\ test \in [Slots -> Nat]
  /\ \A s \in Slots : job[s] # 0 => test[s] \in 1 .. (Len(jobs[job[s]]) + 1)
  /\ program \in [Slots -> {"none", "running", "exited"}]
  /\ \A s \in Slots : program[s] # "none" => job[s] # 0 /\ test[s] <= Len(jobs[job[s]])
  /\ code \in [Slots -> {0, 1}]
  /\ log \in [Tests -> Logs]
  /\ verdict \in [Tests -> {"none", "Success", "Failure", "suspect"}]
  /\ outcome \in [Tests -> {"none", "passed", "failed", "crashed"}]

\* Shells that run side by side never have the same test at hand: no log is
\* emptied or written by one while another writes or greps it.
OneWriterPerLog ==
  \A r, s \in Slots :
    r # s /\ program[r] # "none" /\ program[s] # "none" => Current(r) # Current(s)

\* "Success!" is printed for the tests whose program passed in this campaign
\* and for no other: not on the word of an old log, not after a crash; by
\* bigcrush.sh (line 29) and by runtests.sh (line 17), which has only the log.
SuccessMeansPassed ==
  \A n \in Tests : verdict[n] # "none" => (verdict[n] = "Success" <=> outcome[n] = "passed")

\* bigcrush.sh: "log file is suspect" is printed when the program crashed.
CrashesAreSuspect ==
  script \in BigCrushScripts =>
    \A n \in Tests : verdict[n] # "none" => (verdict[n] = "suspect" <=> outcome[n] = "crashed")

\* Every test of every job comes to a verdict.
EveryTestIsJudged == <>(\A n \in Tests : verdict[n] # "none")
=============================================================================
