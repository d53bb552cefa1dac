----------------------- MODULE TestU01CampaignProofs ------------------------
(***************************************************************************)
(* For any number of slots and jobs: shells that run side by side never    *)
(* share a log, and the verdicts tell how the programs ended.              *)
(*                                                                         *)
(* The shells do not synchronise.  What keeps them apart is that each job  *)
(* is handed out once, that no command line is in two jobs, and that       *)
(* within a job each is run once; so a test that is running has no verdict *)
(* yet, and the log it leaves is still its own when it is judged.          *)
(*                                                                         *)
(* Then of what the programs are and what becomes of the logs: summaries   *)
(* report what the logs say; and main, for whatever command lines of the   *)
(* kind the scripts write, gives TestU01 the words that its log names, and *)
(* tests no two lines alike.                                               *)
(***************************************************************************)
EXTENDS CampaignResults, FiniteSetTheorems, SequenceTheorems, TLAPS

\* Slots hold different jobs, of those handed out.
JobsApart ==
  /\ \A s \in Slots : job[s] < next
  /\ \A r, s \in Slots : r # s /\ job[r] # 0 => job[r] # job[s]

\* What is still to be judged has no verdict: the tests of the jobs in the
\* queue, and of each slot's job those from the one at hand on.
NoVerdictYet ==
  /\ \A s \in Slots : job[s] # 0 =>
       \A n \in test[s] .. Len(jobs[job[s]]) : verdict[jobs[job[s]][n]] = "none"
  /\ \A j \in next .. Len(jobs) : \A n \in 1 .. Len(jobs[j]) : verdict[jobs[j][n]] = "none"

\* While its program runs, a test's log has none of the lines grep looks for;
\* when it has exited, the exit code and the log tell how.
LogsTell ==
  \A s \in Slots :
    /\ program[s] = "running" => log[Current(s)] = "neither"
    /\ program[s] = "exited" =>
         \/ outcome[Current(s)] = "passed" /\ code[s] = 0 /\ log[Current(s)] = "passed"
         \/ outcome[Current(s)] = "failed" /\ code[s] = 0 /\ log[Current(s)] = "stars"
         \/ outcome[Current(s)] = "crashed" /\ code[s] = 1 /\ log[Current(s)] # "passed"

IInv == /\ TypeOK
        /\ JobsApart
        /\ NoVerdictYet
        /\ LogsTell
        /\ script # "linearcomplexity" => SuccessMeansPassed
        /\ CrashesAreSuspect

-----------------------------------------------------------------------------
LEMMA JobFacts ==
  /\ Len(jobs) \in Nat
  /\ \A j \in 1 .. Len(jobs) : Len(jobs[j]) \in Nat
  /\ \A j \in 1 .. Len(jobs) : \A n \in 1 .. Len(jobs[j]) : jobs[j][n] \in Tests
  /\ \A j, k \in 1 .. Len(jobs) : \A m \in 1 .. Len(jobs[j]), n \in 1 .. Len(jobs[k]) :
       j # k \/ m # n => jobs[j][m] # jobs[k][n]
<1>1. Len(jobs) \in Nat /\ \A j \in 1 .. Len(jobs) : jobs[j] \in Seq(Tests)
  BY JobsAssumption
<1>2. \A j \in 1 .. Len(jobs) : Len(jobs[j]) \in Nat
  BY <1>1
<1>3. \A j \in 1 .. Len(jobs) : \A n \in 1 .. Len(jobs[j]) : jobs[j][n] \in Tests
  BY <1>1
<1>4. ASSUME NEW j \in 1 .. Len(jobs), NEW k \in 1 .. Len(jobs),
             NEW m \in 1 .. Len(jobs[j]), NEW n \in 1 .. Len(jobs[k]), j # k \/ m # n
      PROVE  jobs[j][m] # jobs[k][n]
  <2>1. CASE j # k
    <3>1. jobs[j][m] \in TestsOf(j) /\ jobs[k][n] \in TestsOf(k)
      BY DEF TestsOf
    <3>2. TestsOf(j) \cap TestsOf(k) = {}
      BY <2>1, JobsAssumption
    <3> QED BY <3>1, <3>2
  <2>2. CASE j = k
    <3>1. m # n
      BY <1>4, <2>2
    <3> QED BY <2>2, <3>1, JobsAssumption
  <2> QED BY <2>1, <2>2
<1> QED BY <1>1, <1>2, <1>3, <1>4

\* The test at hand of a slot whose program runs, or has exited: it is one of
\* its job's, has no verdict, and is at hand nowhere else.
LEMMA CurrentFacts ==
  ASSUME IInv, NEW s \in Slots, program[s] # "none"
  PROVE  /\ job[s] \in 1 .. Len(jobs) /\ job[s] < next
         /\ test[s] \in 1 .. Len(jobs[job[s]])
         /\ Current(s) = jobs[job[s]][test[s]]
         /\ Current(s) \in Tests
         /\ verdict[Current(s)] = "none"
         /\ \A r \in Slots : r # s /\ program[r] # "none" => Current(r) # Current(s)
<1> USE DEF IInv, TypeOK
<1>1. job[s] \in 1 .. Len(jobs) /\ job[s] < next
  BY JobFacts DEF JobsApart
<1>2. test[s] \in 1 .. Len(jobs[job[s]])
  BY <1>1, JobFacts
<1>3. Current(s) \in Tests
  BY <1>1, <1>2, JobFacts DEF Current
<1>4. verdict[Current(s)] = "none"
  BY <1>1, <1>2, JobFacts DEF Current, NoVerdictYet
<1>5. ASSUME NEW r \in Slots, r # s, program[r] # "none" PROVE Current(r) # Current(s)
  <2>1. job[r] \in 1 .. Len(jobs) /\ job[r] # job[s]
    BY <1>1, <1>5, JobFacts DEF JobsApart
  <2>2. test[r] \in 1 .. Len(jobs[job[r]])
    BY <1>5, <2>1, JobFacts
  <2> QED BY <1>1, <1>2, <2>1, <2>2, JobFacts DEF Current
<1>6. Current(s) = jobs[job[s]][test[s]]
  BY DEF Current
<1> HIDE DEF IInv, TypeOK
<1> QED BY <1>1, <1>2, <1>3, <1>4, <1>5, <1>6

LEMMA InitIInv == Init => IInv
<1> SUFFICES ASSUME Init PROVE IInv
  OBVIOUS
<1> USE JobFacts DEF Init
<1>1. TypeOK
  BY DEF TypeOK, Logs
<1>2. JobsApart
  BY DEF JobsApart
<1>3. NoVerdictYet
  BY DEF NoVerdictYet
<1>4. LogsTell
  BY DEF LogsTell
<1>5. SuccessMeansPassed /\ CrashesAreSuspect
  BY DEF SuccessMeansPassed, CrashesAreSuspect
<1> QED BY <1>1, <1>2, <1>3, <1>4, <1>5 DEF IInv

-----------------------------------------------------------------------------
(***************************************************************************)
(* One lemma for each kind of step: a shell takes or leaves a job, starts  *)
(* a program, the program ends, the shell judges.                          *)
(***************************************************************************)
LEMMA TakeIInv ==
  ASSUME IInv, NEW s \in Slots, Take(s)
  PROVE  IInv'
<1> USE JobFacts DEF IInv, Take
<1>1. /\ job' = [job EXCEPT ![s] = next] /\ test' = [test EXCEPT ![s] = 1]
      /\ next' = next + 1 /\ job[s] = 0 /\ next \in 1 .. Len(jobs)
      /\ UNCHANGED <<script, program, code, log, verdict, outcome>>
  BY DEF TypeOK
<1>2. program[s] = "none"
  BY DEF TypeOK
<1>3. TypeOK'
  BY <1>1, <1>2 DEF TypeOK
<1>4. JobsApart'
  BY <1>1 DEF TypeOK, JobsApart
<1>5. NoVerdictYet'
  <2>1. ASSUME NEW r \in Slots, job'[r] # 0, NEW n \in test'[r] .. Len(jobs[job'[r]])
        PROVE  verdict[jobs[job'[r]][n]] = "none"
    <3>1. CASE r = s
      BY <1>1, <2>1, <3>1 DEF TypeOK, NoVerdictYet
    <3>2. CASE r # s
      BY <1>1, <2>1, <3>2 DEF TypeOK, NoVerdictYet
    <3> QED BY <3>1, <3>2
  <2>2. \A j \in next' .. Len(jobs) : \A n \in 1 .. Len(jobs[j]) : verdict[jobs[j][n]] = "none"
    BY <1>1, SMTT(30) DEF NoVerdictYet
  <2> QED BY <1>1, <2>1, <2>2, SMTT(30) DEF NoVerdictYet
<1>6. LogsTell'
  <2>1. \A r \in Slots : program[r] # "none" => Current(r)' = Current(r)
    BY <1>1, <1>2 DEF TypeOK, Current
  <2> QED BY <1>1, <2>1 DEF LogsTell
<1>7. (script # "linearcomplexity" => SuccessMeansPassed)' /\ CrashesAreSuspect'
  BY <1>1 DEF SuccessMeansPassed, CrashesAreSuspect
<1> QED BY <1>3, <1>4, <1>5, <1>6, <1>7

LEMMA LeaveIInv ==
  ASSUME IInv, NEW s \in Slots, Leave(s)
  PROVE  IInv'
<1> USE JobFacts DEF IInv, Leave
<1>1. program[s] = "none"
  BY DEF TypeOK
<1>2. /\ job' = [job EXCEPT ![s] = 0]
      /\ UNCHANGED <<script, next, test, program, code, log, verdict, outcome>>
  OBVIOUS
<1>3. TypeOK'
  BY <1>1, <1>2, SMTT(30) DEF TypeOK
<1>4. JobsApart'
  BY <1>2 DEF TypeOK, JobsApart
<1>5. NoVerdictYet'
  BY <1>2, SMTT(30) DEF TypeOK, NoVerdictYet
<1>6. LogsTell'
  <2>1. \A r \in Slots : program[r] # "none" => Current(r)' = Current(r)
    BY <1>1, <1>2 DEF TypeOK, Current
  <2> QED BY <1>2, <2>1 DEF LogsTell
<1>7. (script # "linearcomplexity" => SuccessMeansPassed)' /\ CrashesAreSuspect'
  BY <1>2 DEF SuccessMeansPassed, CrashesAreSuspect
<1> QED BY <1>3, <1>4, <1>5, <1>6, <1>7

LEMMA LaunchIInv ==
  ASSUME IInv, NEW s \in Slots, Launch(s)
  PROVE  IInv'
<1> USE JobFacts DEF IInv
<1>1. /\ program' = [program EXCEPT ![s] = "running"]
      /\ log' = [log EXCEPT ![Current(s)] = "neither"]
      /\ UNCHANGED <<script, next, job, test, code, verdict, outcome>>
      /\ program[s] = "none" /\ job[s] # 0 /\ test[s] <= Len(jobs[job[s]])
  BY DEF Launch
<1>2. job[s] \in 1 .. Len(jobs) /\ test[s] \in 1 .. Len(jobs[job[s]]) /\ Current(s) \in Tests
  BY <1>1 DEF TypeOK, Current
<1>3. TypeOK'
  BY <1>1, <1>2 DEF TypeOK, Logs
<1>4. JobsApart' /\ NoVerdictYet'
  BY <1>1 DEF JobsApart, NoVerdictYet
<1>5. LogsTell'
  <2>1. \A r \in Slots : Current(r)' = Current(r)
    BY <1>1 DEF Current
  <2>2. ASSUME NEW r \in Slots, r # s, program[r] # "none" PROVE Current(r) # Current(s)
    <3>1. job[r] \in 1 .. Len(jobs) /\ test[r] \in 1 .. Len(jobs[job[r]]) /\ job[r] # job[s]
      BY <1>2, <2>2, CurrentFacts DEF JobsApart
    <3> QED BY <1>2, <3>1 DEF Current
  <2>3. ASSUME NEW r \in Slots, r # s, program[r] # "none"
        PROVE  log'[Current(r)] = log[Current(r)] /\ program'[r] = program[r]
    BY <1>1, <2>2, <2>3 DEF TypeOK
  <2>4. log'[Current(s)] = "neither" /\ program'[s] = "running"
    BY <1>1, <1>2 DEF TypeOK
  <2>5. \A r \in Slots : r # s => program'[r] = program[r]
    BY <1>1 DEF TypeOK
  <2> QED BY <1>1, <2>1, <2>3, <2>4, <2>5 DEF LogsTell
<1>6. (script # "linearcomplexity" => SuccessMeansPassed)' /\ CrashesAreSuspect'
  BY <1>1 DEF SuccessMeansPassed, CrashesAreSuspect
<1> QED BY <1>3, <1>4, <1>5, <1>6

\* A program ends, in a way (o), with an exit code (c) and a log (l) that tell.
Ends(s, o, c, l) ==
  /\ program[s] = "running"
  /\ program' = [program EXCEPT ![s] = "exited"]
  /\ code' = [code EXCEPT ![s] = c]
  /\ log' = [log EXCEPT ![Current(s)] = l]
  /\ outcome' = [outcome EXCEPT ![Current(s)] = o]
  /\ UNCHANGED <<script, next, job, test, verdict>>

Ending(o, c, l) ==
  \/ o = "passed" /\ c = 0 /\ l = "passed"
  \/ o = "failed" /\ c = 0 /\ l = "stars"
  \/ o = "crashed" /\ c = 1 /\ l \in {"stars", "neither"}

LEMMA ProgramEnds ==
  ASSUME IInv, NEW s \in Slots, Program(s)
  PROVE  \E o, c, l : Ends(s, o, c, l) /\ Ending(o, c, l)
<1>1. CASE Pass(s)
  <2>1. Ends(s, "passed", 0, "passed") /\ Ending("passed", 0, "passed")
    BY <1>1 DEF Pass, Ends, Ending
  <2> QED BY <2>1
<1>2. CASE Fail(s)
  <2>1. Ends(s, "failed", 0, "stars") /\ Ending("failed", 0, "stars")
    BY <1>2 DEF Fail, Ends, Ending
  <2> QED BY <2>1
<1>3. CASE Crash(s)
  <2>1. PICK l \in {log[Current(s)], "stars"} : log' = [log EXCEPT ![Current(s)] = l]
    BY <1>3 DEF Crash
  <2>2. l \in {"stars", "neither"}
    BY <1>3 DEF Crash, IInv, LogsTell
  <2>3. Ends(s, "crashed", 1, l) /\ Ending("crashed", 1, l)
    BY <1>3, <2>1, <2>2 DEF Crash, Ends, Ending
  <2> QED BY <2>3
<1> QED BY <1>1, <1>2, <1>3 DEF Program

LEMMA EndsIInv ==
  ASSUME IInv, NEW s \in Slots, NEW o, NEW c, NEW l, Ends(s, o, c, l), Ending(o, c, l)
  PROVE  IInv'
<1> USE JobFacts DEF IInv
<1>1. /\ Current(s) \in Tests /\ verdict[Current(s)] = "none"
      /\ \A r \in Slots : r # s /\ program[r] # "none" => Current(r) # Current(s)
  BY CurrentFacts DEF Ends
<1>2. /\ program' = [program EXCEPT ![s] = "exited"] /\ code' = [code EXCEPT ![s] = c]
      /\ log' = [log EXCEPT ![Current(s)] = l]
      /\ outcome' = [outcome EXCEPT ![Current(s)] = o]
      /\ UNCHANGED <<script, next, job, test, verdict>> /\ program[s] = "running"
  BY DEF Ends
<1>3. o \in {"passed", "failed", "crashed"} /\ c \in {0, 1} /\ l \in Logs
  BY DEF Ending, Logs
<1>4. TypeOK'
  BY <1>1, <1>2, <1>3 DEF TypeOK
<1>5. JobsApart' /\ NoVerdictYet'
  BY <1>2 DEF JobsApart, NoVerdictYet
<1>6. LogsTell'
  <2>1. \A r \in Slots : Current(r)' = Current(r)
    BY <1>2 DEF Current
  <2>2. \A r \in Slots : r # s /\ program[r] # "none" =>
          /\ log'[Current(r)] = log[Current(r)] /\ outcome'[Current(r)] = outcome[Current(r)]
    BY <1>1, <1>2 DEF TypeOK
  <2>3. \A r \in Slots : r # s => program'[r] = program[r] /\ code'[r] = code[r]
    BY <1>2 DEF TypeOK
  <2>4. /\ log'[Current(s)] = l /\ outcome'[Current(s)] = o
        /\ program'[s] = "exited" /\ code'[s] = c
    BY <1>1, <1>2 DEF TypeOK
  <2>5. ASSUME NEW r \in Slots, r # s PROVE LogsTell!(r)'
    BY <2>1, <2>2, <2>3, <2>5 DEF LogsTell
  <2>6. LogsTell!(s)'
    BY <2>1, <2>4 DEF LogsTell, Ending
  <2> QED BY <2>5, <2>6 DEF LogsTell
<1>7. \A n \in Tests : verdict'[n] # "none" => verdict'[n] = verdict[n] /\ outcome'[n] = outcome[n]
  BY <1>1, <1>2 DEF TypeOK
<1>8. (script # "linearcomplexity" => SuccessMeansPassed)' /\ CrashesAreSuspect'
  BY <1>2, <1>7 DEF SuccessMeansPassed, CrashesAreSuspect
<1> QED BY <1>4, <1>5, <1>6, <1>8

\* The verdicts of bigcrush.sh and of runtests.sh tell a success from
\* everything else, and that of bigcrush.sh a crash.
LEMMA Verdicts ==
  ASSUME script \in Scripts
  PROVE  /\ \A exit \in {0, 1}, l \in Logs :
              Verdict(exit, l) \in {"Success", "Failure", "suspect"}
         /\ script # "linearcomplexity" =>
              /\ Verdict(0, "passed") = "Success"
              /\ Verdict(0, "stars") # "Success"
              /\ \A l \in Logs \ {"passed"} : Verdict(1, l) # "Success"
         /\ script \in BigCrushScripts =>
              /\ \A l \in Logs : Verdict(1, l) = "suspect"
              /\ Verdict(0, "passed") # "suspect"
              /\ Verdict(0, "stars") # "suspect"
BY ScriptsAssumption
DEF Verdict, BigCrushVerdict, RunTestsVerdict, LinearComplexityVerdict, BigCrushScripts, Logs

LEMMA JudgeIInv ==
  ASSUME IInv, NEW s \in Slots, Judge(s)
  PROVE  IInv'
<1> USE JobFacts DEF IInv
<1>1. /\ program[s] = "exited"
      /\ verdict' = [verdict EXCEPT ![Current(s)] = Verdict(code[s], log[Current(s)])]
      /\ program' = [program EXCEPT ![s] = "none"] /\ code' = [code EXCEPT ![s] = 0]
      /\ test' = [test EXCEPT ![s] = test[s] + 1]
      /\ UNCHANGED <<script, next, job, log, outcome>>
  BY DEF Judge
<1>2. /\ job[s] \in 1 .. Len(jobs) /\ job[s] < next /\ test[s] \in 1 .. Len(jobs[job[s]])
      /\ Current(s) = jobs[job[s]][test[s]] /\ Current(s) \in Tests
  BY <1>1, CurrentFacts
<1>3. code[s] \in {0, 1} /\ log[Current(s)] \in Logs
  BY <1>2 DEF TypeOK
<1>4. TypeOK'
  BY <1>1, <1>2, <1>3, Verdicts, SMTT(30) DEF TypeOK
<1>5. JobsApart'
  BY <1>1 DEF JobsApart
<1>6. NoVerdictYet'
  <2>1. ASSUME NEW j \in 1 .. Len(jobs), NEW n \in 1 .. Len(jobs[j]),
               j # job[s] \/ n # test[s], verdict[jobs[j][n]] = "none"
        PROVE  verdict'[jobs[j][n]] = "none"
    <3>1. jobs[j][n] # Current(s)
      BY <1>2, <2>1
    <3> QED BY <1>1, <2>1, <3>1 DEF TypeOK
  <2>2. ASSUME NEW r \in Slots, job[r] # 0, NEW n \in test'[r] .. Len(jobs[job[r]])
        PROVE  verdict'[jobs[job[r]][n]] = "none"
    <3>1. job[r] \in 1 .. Len(jobs) /\ n \in 1 .. Len(jobs[job[r]]) /\ n \in test[r] .. Len(jobs[job[r]])
      BY <1>1, <2>2 DEF TypeOK
    <3>2. verdict[jobs[job[r]][n]] = "none"
      BY <2>2, <3>1 DEF NoVerdictYet
    <3>3. job[r] # job[s] \/ n # test[s]
      BY <1>1, <1>2, <2>2 DEF TypeOK, JobsApart
    <3> QED BY <2>1, <3>1, <3>2, <3>3
  <2>3. ASSUME NEW j \in next .. Len(jobs), NEW n \in 1 .. Len(jobs[j])
        PROVE  verdict'[jobs[j][n]] = "none"
    <3>1. j \in 1 .. Len(jobs) /\ j # job[s]
      BY <1>2 DEF TypeOK
    <3> QED BY <2>1, <2>3, <3>1 DEF NoVerdictYet
  <2> QED BY <1>1, <2>2, <2>3 DEF NoVerdictYet
<1>7. LogsTell'
  <2>1. \A r \in Slots : r # s =>
          program'[r] = program[r] /\ code'[r] = code[r] /\ Current(r)' = Current(r)
    BY <1>1 DEF TypeOK, Current
  <2>2. program'[s] = "none"
    BY <1>1 DEF TypeOK
  <2> QED BY <1>1, <2>1, <2>2 DEF LogsTell
<1>8. verdict'[Current(s)] = Verdict(code[s], log[Current(s)])
  BY <1>1, <1>2 DEF TypeOK
<1>9. \A n \in Tests : n # Current(s) => verdict'[n] = verdict[n]
  BY <1>1 DEF TypeOK
<1>10. \/ outcome[Current(s)] = "passed" /\ code[s] = 0 /\ log[Current(s)] = "passed"
       \/ outcome[Current(s)] = "failed" /\ code[s] = 0 /\ log[Current(s)] = "stars"
       \/ outcome[Current(s)] = "crashed" /\ code[s] = 1 /\ log[Current(s)] # "passed"
  BY <1>1 DEF LogsTell
<1>11. ASSUME script # "linearcomplexity", SuccessMeansPassed PROVE SuccessMeansPassed'
  <2>1. verdict'[Current(s)] = "Success" <=> outcome[Current(s)] = "passed"
    <3>1. script \in Scripts
      BY DEF TypeOK
    <3>2. /\ Verdict(0, "passed") = "Success" /\ Verdict(0, "stars") # "Success"
          /\ \A l \in Logs \ {"passed"} : Verdict(1, l) # "Success"
      BY <1>11, <3>1, Verdicts
    <3> QED BY <1>3, <1>8, <1>10, <3>2
  <2> QED BY <1>1, <1>9, <1>11, <2>1 DEF SuccessMeansPassed
<1>12. ASSUME script \in BigCrushScripts PROVE CrashesAreSuspect'
  <2>1. verdict'[Current(s)] = "suspect" <=> outcome[Current(s)] = "crashed"
    <3>1. script \in Scripts
      BY DEF TypeOK
    <3>2. /\ Verdict(0, "passed") # "suspect" /\ Verdict(0, "stars") # "suspect"
          /\ \A l \in Logs : Verdict(1, l) = "suspect"
      BY <1>12, <3>1, Verdicts
    <3> QED BY <1>3, <1>8, <1>10, <3>2
  <2> QED BY <1>1, <1>9, <1>12, <2>1 DEF CrashesAreSuspect
<1>13. script' = script
  BY <1>1
<1> QED BY <1>4, <1>5, <1>6, <1>7, <1>11, <1>12, <1>13 DEF CrashesAreSuspect

LEMMA StepIInv == IInv /\ [Next]_vars => IInv'
<1> SUFFICES ASSUME IInv, [Next]_vars PROVE IInv'
  OBVIOUS
<1>1. ASSUME NEW s \in Slots, Shell(s) PROVE IInv'
  BY <1>1, TakeIInv, LaunchIInv, JudgeIInv, LeaveIInv DEF Shell
<1>2. ASSUME NEW s \in Slots, Program(s) PROVE IInv'
  BY <1>2, ProgramEnds, EndsIInv
<1>3. CASE UNCHANGED vars
  <2>1. \A s \in Slots : Current(s)' = Current(s)
    BY <1>3 DEF vars, Current
  <2> QED BY <1>3, <2>1 DEF vars, IInv, TypeOK, JobsApart, NoVerdictYet, LogsTell, SuccessMeansPassed, CrashesAreSuspect
<1> QED BY <1>1, <1>2, <1>3 DEF Next

-----------------------------------------------------------------------------
\* Every variable keeps its type, whatever the jobs and the verdict.
THEOREM TypeCorrect == Spec => []TypeOK
<1>1. IInv => TypeOK
  BY DEF IInv
<1> QED BY <1>1, InitIInv, StepIInv, PTL DEF Spec

\* No two shells of bigcrushallparallel.sh ever have one log at hand.
THEOREM OneWriterCorrect == Spec => []OneWriterPerLog
<1>1. IInv => OneWriterPerLog
  BY CurrentFacts DEF OneWriterPerLog
<1> QED BY <1>1, InitIInv, StepIInv, PTL DEF Spec

\* bigcrush.sh and runtests.sh print "Success!" for the tests that passed in
\* this campaign, and for no other.
THEOREM SuccessCorrect ==
  ASSUME "linearcomplexity" \notin Scripts
  PROVE  Spec => []SuccessMeansPassed
<1>1. IInv => SuccessMeansPassed
  BY DEF IInv, TypeOK
<1> QED BY <1>1, InitIInv, StepIInv, PTL DEF Spec

\* bigcrush.sh calls a log suspect when its program crashed, and no other.
THEOREM SuspectCorrect == Spec => []CrashesAreSuspect
<1>1. IInv => CrashesAreSuspect
  BY DEF IInv
<1> QED BY <1>1, InitIInv, StepIInv, PTL DEF Spec

-----------------------------------------------------------------------------
(***************************************************************************)
(* The summary.  What has been read of a log is the part before what is    *)
(* unread; the tables hold the p-values of what has been read, all of      *)
(* them and no others, and count the logs that have been read to the end.  *)
(***************************************************************************)
LinesRead(n) ==
  IF n < file THEN Len(ARGV[n])
  ELSE IF n = file /\ stage \in {"reading", "died"} THEN Len(ARGV[n]) - Len(unread)
  ELSE 0

FileIsRead ==
  stage = "reading" =>
    /\ file \in 1 .. Len(ARGV)
    /\ unread \in Seq(LogLine) /\ Len(unread) <= Len(ARGV[file])
    /\ \A k \in 1 .. Len(unread) : unread[k] = ARGV[file][LinesRead(file) + k]
    /\ generator = IF LinesRead(file) = 0 THEN Undefined ELSE ARGV[file][1].name
    /\ LinesRead(file) > 0 => ARGV[file][1].kind = "generator"

Collected ==
  \A key \in DOMAIN nonpassesFor :
    /\ key \in STRING \X (1 .. 106)
    /\ nonpassesFor[key] \in Seq(PValue)
    /\ Len(nonpassesFor[key]) > 0
    /\ \A m \in 1 .. Len(nonpassesFor[key]) :
         \E n \in Summary!LogsOf(key[1]) : \E k \in 2 .. LinesRead(n) :
           ARGV[n][k].testNo = key[2] /\ ARGV[n][k].pValue = nonpassesFor[key][m]

IsCollected(key, pValue) ==
  /\ key \in DOMAIN nonpassesFor
  /\ \E m \in 1 .. Len(nonpassesFor[key]) : nonpassesFor[key][m] = pValue

NothingLost ==
  \A n \in 1 .. Len(ARGV) : \A k \in 2 .. LinesRead(n) :
    IsCollected(<<ARGV[n][1].name, ARGV[n][k].testNo>>, ARGV[n][k].pValue)

Closed(name) == {n \in Summary!LogsOf(name) : n < file}

Counted ==
  /\ \A n \in 1 .. Len(ARGV) : n < file /\ Len(ARGV[n]) > 0 =>
       ARGV[n][1].kind = "generator" /\ ARGV[n][1].name \in DOMAIN crushCountFor
  /\ \A name \in DOMAIN crushCountFor :
       name \in STRING /\ crushCountFor[name] = Cardinality(Closed(name))

Reported ==
  stage = "done" =>
    /\ file > Len(ARGV)
    /\ report = {Summary!Review(key[1], key[2]) : key \in DOMAIN nonpassesFor}

SummaryIInv ==
  /\ ARGV \in ArgumentLists /\ file \in Nat \ {0}
  /\ stage \in {"opening", "reading", "done", "died"}
  /\ FileIsRead /\ Collected /\ NothingLost /\ Counted /\ Reported

LEMMA LogFacts ==
  ASSUME ARGV \in ArgumentLists
  PROVE  /\ Len(ARGV) \in Nat
         /\ \A n \in 1 .. Len(ARGV) :
              /\ ARGV[n] \in Seq(LogLine) /\ Len(ARGV[n]) \in Nat
              /\ \A k \in 1 .. Len(ARGV[n]) : ARGV[n][k] \in LogLine
              /\ \A k \in 2 .. Len(ARGV[n]) : ARGV[n][k].kind # "generator"
              /\ ARGV[n] # << >> <=> Len(ARGV[n]) > 0
<1>1. /\ ARGV \in Seq(Seq(LogLine))
      /\ \A n \in 1 .. Len(ARGV) : \A k \in 2 .. Len(ARGV[n]) : ARGV[n][k].kind # "generator"
  BY LogsAssumption
<1> DEFINE L == LogLine
<1>2. ARGV \in Seq(Seq(L))
  BY <1>1
<1> HIDE DEF L
<1>3. Len(ARGV) \in Nat /\ \A n \in 1 .. Len(ARGV) : ARGV[n] \in Seq(L)
  BY <1>2
<1>4. \A f \in Seq(L) : /\ Len(f) \in Nat
                        /\ \A k \in 1 .. Len(f) : f[k] \in L
                        /\ f # << >> <=> Len(f) > 0
  OBVIOUS
<1> QED BY <1>1, <1>3, <1>4, Zenon DEF L

\* What the logs of a generator are.
LEMMA LogsOfFacts ==
  ASSUME ARGV \in ArgumentLists, NEW name
  PROVE  /\ Summary!LogsOf(name) =
              {n \in 1 .. Len(ARGV) : /\ Len(ARGV[n]) > 0 /\ ARGV[n][1].kind = "generator"
                                      /\ ARGV[n][1].name = name}
         /\ IsFiniteSet(Closed(name))
<1>1. \A n \in 1 .. Len(ARGV) : ARGV[n] # << >> <=> Len(ARGV[n]) > 0
  BY LogFacts
<1>2. \A n \in 1 .. Len(ARGV) : ARGV[n] # << >> => Head(ARGV[n]) = ARGV[n][1]
  BY LogFacts
<1>3. Summary!LogsOf(name) =
        {n \in 1 .. Len(ARGV) : /\ Len(ARGV[n]) > 0 /\ ARGV[n][1].kind = "generator"
                                /\ ARGV[n][1].name = name}
  BY <1>1, <1>2 DEF Summary!LogsOf
<1>4. IsFiniteSet(1 .. Len(ARGV)) /\ Closed(name) \in SUBSET (1 .. Len(ARGV))
  BY LogFacts, FS_Interval, <1>3 DEF Closed
<1>5. IsFiniteSet(Closed(name))
  BY <1>4, FS_Subset
<1> QED BY <1>3, <1>5

\* A line is one of the three kinds, with the fields of its kind.
LEMMA LineFacts ==
  ASSUME NEW entry \in LogLine
  PROVE  /\ entry.kind = "generator" => entry.name \in STRING
         /\ entry.kind = "test" => entry.testNo \in 1 .. 106 /\ entry.pValue \in PValue
         /\ entry.kind \in {"generator", "test", "cut"}
BY DEF LogLine

LEMMA SummaryInitIInv == Summary!Init => SummaryIInv
<1> SUFFICES ASSUME Summary!Init PROVE SummaryIInv
  OBVIOUS
<1>1. /\ ARGV \in ArgumentLists /\ file = 1 /\ stage = "opening"
      /\ nonpassesFor = << >> /\ crushCountFor = << >>
  BY DEF Summary!Init
<1>2. \A n \in 1 .. Len(ARGV) : LinesRead(n) = 0
  BY <1>1, LogFacts DEF LinesRead
<1>3. FileIsRead /\ Reported
  BY <1>1 DEF FileIsRead, Reported
<1>4. Collected
  BY <1>1 DEF Collected
<1>5. NothingLost
  BY <1>2 DEF NothingLost
<1>6. Counted
  BY <1>1, LogFacts DEF Counted
<1> QED BY <1>1, <1>3, <1>4, <1>5, <1>6 DEF SummaryIInv

\* The tables hold what they held: a step that reads no line of the table and
\* leaves the tables alone.
LEMMA TablesStay ==
  ASSUME SummaryIInv, ARGV' = ARGV, nonpassesFor' = nonpassesFor,
         \A n \in 1 .. Len(ARGV) : \/ LinesRead(n)' = LinesRead(n)
                                   \/ LinesRead(n) = 0 /\ LinesRead(n)' \in {0, 1}
  PROVE  Collected' /\ NothingLost'
<1>1. \A n \in 1 .. Len(ARGV) : 2 .. LinesRead(n)' = 2 .. LinesRead(n)
  OBVIOUS
<1>2. \A name : Summary!LogsOf(name)' = Summary!LogsOf(name) /\ Summary!LogsOf(name) \subseteq 1 .. Len(ARGV)
  BY DEF Summary!LogsOf
<1>3. Collected'
  <2>1. ASSUME NEW key \in DOMAIN nonpassesFor, NEW m \in 1 .. Len(nonpassesFor[key])
        PROVE  \E n \in Summary!LogsOf(key[1]) : \E k \in 2 .. LinesRead(n)' :
                 ARGV[n][k].testNo = key[2] /\ ARGV[n][k].pValue = nonpassesFor[key][m]
    <3>1. PICK n \in Summary!LogsOf(key[1]) : \E k \in 2 .. LinesRead(n) :
            ARGV[n][k].testNo = key[2] /\ ARGV[n][k].pValue = nonpassesFor[key][m]
      BY DEF SummaryIInv, Collected
    <3>2. 2 .. LinesRead(n)' = 2 .. LinesRead(n)
      BY <1>1, <1>2
    <3> QED BY <3>1, <3>2
  <2>2. PValue' = PValue
    BY DEF PValue
  <2> QED BY <1>2, <2>1, <2>2 DEF SummaryIInv, Collected
<1>4. NothingLost'
  BY <1>1 DEF SummaryIInv, NothingLost, IsCollected
<1> QED BY <1>3, <1>4

LEMMA CountsStay ==
  ASSUME SummaryIInv, ARGV' = ARGV, file' = file, crushCountFor' = crushCountFor
  PROVE  Counted'
<1>1. \A name : Closed(name)' = Closed(name)
  BY DEF Closed, Summary!LogsOf
<1> QED BY <1>1 DEF SummaryIInv, Counted

LEMMA OpenIInv == SummaryIInv /\ Summary!Open => SummaryIInv'
<1> SUFFICES ASSUME SummaryIInv, Summary!Open PROVE SummaryIInv'
  OBVIOUS
<1>1. /\ stage = "opening" /\ file <= Len(ARGV) /\ unread' = ARGV[file]
      /\ generator' = Undefined /\ stage' = "reading"
      /\ UNCHANGED <<ARGV, file, nonpassesFor, crushCountFor, report>>
      /\ ARGV \in ArgumentLists /\ file \in Nat \ {0}
  BY DEF Summary!Open, SummaryIInv
<1>2. file \in 1 .. Len(ARGV) /\ Len(ARGV[file]) \in Nat /\ ARGV[file] \in Seq(LogLine)
  BY <1>1, LogFacts
<1>4. LinesRead(file)' = 0 /\ LinesRead(file) = 0
  BY <1>1, <1>2 DEF LinesRead
<1>6. \A n \in 1 .. Len(ARGV) : n # file => LinesRead(n)' = LinesRead(n)
  BY <1>1, <1>2 DEF LinesRead
<1>3. \A n \in 1 .. Len(ARGV) : LinesRead(n)' = LinesRead(n)
  BY <1>1, <1>4, <1>6
<1>5. FileIsRead'
  BY <1>1, <1>2, <1>4 DEF FileIsRead
<1> QED BY <1>1, <1>3, <1>5, TablesStay, CountsStay DEF SummaryIInv, Reported

\* A line is read: the lines read of the log at hand are one more.
LEMMA OneLine ==
  ASSUME SummaryIInv, stage = "reading", unread # << >>,
         UNCHANGED <<ARGV, file, stage>>, unread' = Tail(unread)
  PROVE  /\ file \in 1 .. Len(ARGV) /\ LinesRead(file) \in 0 .. (Len(ARGV[file]) - 1)
         /\ Head(unread) = ARGV[file][LinesRead(file) + 1] /\ Head(unread) \in LogLine
         /\ LinesRead(file)' = LinesRead(file) + 1
         /\ \A n \in 1 .. Len(ARGV) : n # file => LinesRead(n)' = LinesRead(n)
         /\ unread' \in Seq(LogLine) /\ Len(unread') <= Len(ARGV[file])
         /\ \A k \in 1 .. Len(unread') : unread'[k] = ARGV[file][LinesRead(file)' + k]
         /\ LinesRead(file) > 0 => Head(unread).kind # "generator"
<1>1. /\ file \in 1 .. Len(ARGV) /\ unread \in Seq(LogLine) /\ Len(unread) <= Len(ARGV[file])
      /\ \A k \in 1 .. Len(unread) : unread[k] = ARGV[file][LinesRead(file) + k]
      /\ Len(ARGV[file]) \in Nat /\ ARGV \in ArgumentLists
  BY LogFacts DEF SummaryIInv, FileIsRead
<1>2. /\ Len(unread) \in Nat \ {0} /\ Len(unread') = Len(unread) - 1
      /\ unread' \in Seq(LogLine) /\ Head(unread) = unread[1] /\ unread[1] \in LogLine
      /\ \A k \in 1 .. Len(unread') : unread'[k] = unread[k + 1]
  BY <1>1
<1>3. LinesRead(file) = Len(ARGV[file]) - Len(unread)
  BY <1>1 DEF LinesRead
<1>4. LinesRead(file)' = LinesRead(file) + 1
  BY <1>1, <1>2, <1>3 DEF LinesRead
<1>5. \A n \in 1 .. Len(ARGV) : n # file => LinesRead(n)' = LinesRead(n)
  BY <1>1 DEF LinesRead
<1>6. \A k \in 1 .. Len(unread') : unread'[k] = ARGV[file][LinesRead(file)' + k]
  <2> SUFFICES ASSUME NEW k \in 1 .. Len(unread')
               PROVE  unread'[k] = ARGV[file][LinesRead(file)' + k]
    OBVIOUS
  <2>1. k + 1 \in 1 .. Len(unread) /\ unread'[k] = unread[k + 1]
    BY <1>2
  <2>2. k \in Int /\ LinesRead(file) \in Int
    BY <1>1, <1>2, <1>3
  <2>3. LinesRead(file)' + k = LinesRead(file) + (k + 1)
    BY <1>4, <2>2
  <2> QED BY <1>1, <2>1, <2>3
<1>7. Head(unread) = ARGV[file][LinesRead(file) + 1]
  BY <1>1, <1>2
<1>8. LinesRead(file) \in 0 .. (Len(ARGV[file]) - 1)
  BY <1>1, <1>2, <1>3
<1>9. LinesRead(file) > 0 => Head(unread).kind # "generator"
  <2> SUFFICES ASSUME LinesRead(file) > 0 PROVE Head(unread).kind # "generator"
    OBVIOUS
  <2>1. LinesRead(file) + 1 \in 2 .. Len(ARGV[file])
    BY <1>1, <1>8
  <2> QED BY <1>1, <1>7, <2>1, LogFacts
<1> QED BY <1>1, <1>2, <1>4, <1>5, <1>6, <1>7, <1>8, <1>9

LEMMA ReadGeneratorIInv == SummaryIInv /\ Summary!ReadGenerator => SummaryIInv'
<1> SUFFICES ASSUME SummaryIInv, Summary!ReadGenerator PROVE SummaryIInv'
  OBVIOUS
<1>1. /\ stage = "reading" /\ unread # << >> /\ Head(unread).kind = "generator"
      /\ generator' = Head(unread).name /\ unread' = Tail(unread)
      /\ UNCHANGED <<ARGV, file, nonpassesFor, crushCountFor, stage, report>>
      /\ ARGV \in ArgumentLists /\ file \in Nat \ {0}
  BY DEF Summary!ReadGenerator, Summary!Line, SummaryIInv
<1>2. /\ file \in 1 .. Len(ARGV) /\ LinesRead(file) = 0 /\ LinesRead(file)' = 1
      /\ Head(unread) = ARGV[file][1]
      /\ \A n \in 1 .. Len(ARGV) : n # file => LinesRead(n)' = LinesRead(n)
      /\ unread' \in Seq(LogLine) /\ Len(unread') <= Len(ARGV[file])
      /\ \A k \in 1 .. Len(unread') : unread'[k] = ARGV[file][LinesRead(file)' + k]
  <2>1. LinesRead(file) \in Nat /\ ~(LinesRead(file) > 0)
    BY <1>1, OneLine
  <2> QED BY <1>1, <2>1, OneLine
<1>3. FileIsRead'
  BY <1>1, <1>2 DEF FileIsRead
<1> QED BY <1>1, <1>2, <1>3, TablesStay, CountsStay DEF SummaryIInv, Reported

\* A p-value is pushed: it is added to those of its generator and test.
Pushed(key) == IF key \in DOMAIN nonpassesFor THEN nonpassesFor[key] ELSE << >>

LEMMA PushFacts ==
  ASSUME Collected, NEW key \in STRING \X (1 .. 106), NEW pValue \in PValue,
         nonpassesFor' = Summary!With(nonpassesFor, key, Append(Pushed(key), pValue))
  PROVE  /\ DOMAIN nonpassesFor' = DOMAIN nonpassesFor \cup {key}
         /\ \A other \in DOMAIN nonpassesFor : other # key => nonpassesFor'[other] = nonpassesFor[other]
         /\ Pushed(key) \in Seq(PValue) /\ nonpassesFor'[key] \in Seq(PValue)
         /\ Len(Pushed(key)) \in Nat /\ Len(nonpassesFor'[key]) = Len(Pushed(key)) + 1
         /\ nonpassesFor'[key][Len(Pushed(key)) + 1] = pValue
         /\ \A m \in 1 .. Len(Pushed(key)) : /\ nonpassesFor'[key][m] = Pushed(key)[m]
                                     /\ key \in DOMAIN nonpassesFor /\ Pushed(key) = nonpassesFor[key]
<1>1. Pushed(key) \in Seq(PValue) /\ Len(Pushed(key)) \in Nat
  BY DEF Collected, Pushed
<1>2. \A m \in 1 .. Len(Pushed(key)) : key \in DOMAIN nonpassesFor /\ Pushed(key) = nonpassesFor[key]
  <2>1. CASE key \in DOMAIN nonpassesFor
    BY <2>1 DEF Pushed
  <2>2. CASE key \notin DOMAIN nonpassesFor
    BY <2>2 DEF Pushed
  <2> QED BY <2>1, <2>2
<1>3. /\ DOMAIN nonpassesFor' = DOMAIN nonpassesFor \cup {key}
      /\ \A other \in DOMAIN nonpassesFor : other # key => nonpassesFor'[other] = nonpassesFor[other]
      /\ nonpassesFor'[key] = Append(Pushed(key), pValue)
  BY DEF Summary!With
<1>4. /\ Append(Pushed(key), pValue) \in Seq(PValue) /\ Len(Append(Pushed(key), pValue)) = Len(Pushed(key)) + 1
      /\ Append(Pushed(key), pValue)[Len(Pushed(key)) + 1] = pValue
      /\ \A m \in 1 .. Len(Pushed(key)) : Append(Pushed(key), pValue)[m] = Pushed(key)[m]
  BY <1>1
<1> QED BY <1>1, <1>2, <1>3, <1>4

LEMMA ReadTestIInv == SummaryIInv /\ Summary!ReadTest => SummaryIInv'
<1> SUFFICES ASSUME SummaryIInv, Summary!ReadTest PROVE SummaryIInv'
  OBVIOUS
<1> DEFINE last == LinesRead(file) + 1
           entry == ARGV[file][last]
           key == <<generator, entry.testNo>>
           old == Pushed(key)
<1>1. /\ stage = "reading" /\ unread # << >> /\ Head(unread).kind = "test"
      /\ generator # Undefined /\ unread' = Tail(unread)
      /\ UNCHANGED <<ARGV, file, generator, crushCountFor, stage, report>>
      /\ ARGV \in ArgumentLists /\ file \in Nat \ {0}
  BY DEF Summary!ReadTest, Summary!Line, SummaryIInv
<1>2. /\ file \in 1 .. Len(ARGV) /\ LinesRead(file) \in 0 .. (Len(ARGV[file]) - 1)
      /\ Head(unread) = entry /\ entry \in LogLine
      /\ LinesRead(file)' = last
      /\ \A n \in 1 .. Len(ARGV) : n # file => LinesRead(n)' = LinesRead(n)
      /\ unread' \in Seq(LogLine) /\ Len(unread') <= Len(ARGV[file])
      /\ \A k \in 1 .. Len(unread') : unread'[k] = ARGV[file][LinesRead(file)' + k]
  BY <1>1, OneLine
<1>3. /\ LinesRead(file) > 0 /\ generator = ARGV[file][1].name
      /\ ARGV[file][1].kind = "generator" /\ Len(ARGV[file]) \in Nat
      /\ last \in 2 .. Len(ARGV[file])
  BY <1>1, <1>2, LogFacts, SMTT(30) DEF SummaryIInv, FileIsRead
<1>4. generator \in STRING /\ entry.testNo \in 1 .. 106 /\ entry.pValue \in PValue
  <2>1. ARGV[file][1] \in LogLine
    BY <1>1, <1>2, <1>3, LogFacts
  <2> QED BY <1>1, <1>2, <1>3, <2>1, LineFacts
<1>5. nonpassesFor' = Summary!With(nonpassesFor, key, Append(old, entry.pValue))
  BY <1>2 DEF Summary!ReadTest, Pushed
<1>6. FileIsRead'
  BY <1>1, <1>2, <1>3 DEF FileIsRead
<1>7. key \in STRING \X (1 .. 106) /\ key[1] = generator /\ key[2] = entry.testNo
  BY <1>4
<1>8. last \in Nat /\ last = LinesRead(file) + 1 /\ LinesRead(file) \in Nat
  BY <1>2, <1>3
<1> HIDE DEF last, entry, key, old
<1>9. /\ DOMAIN nonpassesFor' = DOMAIN nonpassesFor \cup {key}
      /\ \A other \in DOMAIN nonpassesFor : other # key => nonpassesFor'[other] = nonpassesFor[other]
      /\ old \in Seq(PValue) /\ nonpassesFor'[key] \in Seq(PValue)
      /\ Len(old) \in Nat /\ Len(nonpassesFor'[key]) = Len(old) + 1
      /\ nonpassesFor'[key][Len(old) + 1] = entry.pValue
      /\ \A m \in 1 .. Len(old) : /\ nonpassesFor'[key][m] = old[m]
                                  /\ key \in DOMAIN nonpassesFor /\ old = nonpassesFor[key]
  <2>1. Collected
    BY DEF SummaryIInv
  <2>2. nonpassesFor' = Summary!With(nonpassesFor, key, Append(Pushed(key), entry.pValue))
    BY <1>5 DEF old
  <2> QED BY ONLY <1>4, <1>7, <2>1, <2>2, PushFacts, ZenonT(60) DEF old
<1>10. file \in Summary!LogsOf(generator)
  BY <1>1, <1>2, <1>3, LogsOfFacts, SMTT(30)
<1>11. \A n \in 1 .. Len(ARGV) : \A k \in 2 .. LinesRead(n) : k \in 2 .. LinesRead(n)'
  BY <1>1, <1>2, <1>8, SMTT(30)
<1>12. \A name : Summary!LogsOf(name)' = Summary!LogsOf(name) /\ Summary!LogsOf(name) \subseteq 1 .. Len(ARGV)
  BY <1>1 DEF Summary!LogsOf
<1>13. ASSUME NEW other \in DOMAIN nonpassesFor, NEW m \in 1 .. Len(nonpassesFor[other])
       PROVE  \E n \in Summary!LogsOf(other[1]) : \E k \in 2 .. LinesRead(n)' :
                ARGV[n][k].testNo = other[2] /\ ARGV[n][k].pValue = nonpassesFor[other][m]
  <2>1. PICK n \in Summary!LogsOf(other[1]) : \E k \in 2 .. LinesRead(n) :
          ARGV[n][k].testNo = other[2] /\ ARGV[n][k].pValue = nonpassesFor[other][m]
    BY DEF SummaryIInv, Collected
  <2> QED BY <1>11, <1>12, <2>1
<1>14. Collected'
  <2>1. ASSUME NEW other \in DOMAIN nonpassesFor'
        PROVE  /\ other \in STRING \X (1 .. 106)
               /\ nonpassesFor'[other] \in Seq(PValue)
               /\ Len(nonpassesFor'[other]) > 0
    BY <1>7, <1>9, <2>1 DEF SummaryIInv, Collected
  <2>2. ASSUME NEW other \in DOMAIN nonpassesFor', NEW m \in 1 .. Len(nonpassesFor'[other])
        PROVE  \E n \in Summary!LogsOf(other[1]) : \E k \in 2 .. LinesRead(n)' :
                 ARGV[n][k].testNo = other[2] /\ ARGV[n][k].pValue = nonpassesFor'[other][m]
    <3>1. CASE other # key
      BY <1>9, <1>13, <2>2, <3>1
    <3>2. CASE other = key /\ m \in 1 .. Len(old)
      BY <1>9, <1>13, <3>2
    <3>3. CASE other = key /\ m = Len(old) + 1
      <4>1. last \in 2 .. LinesRead(file)'
        BY <1>2, <1>3, <1>8
      <4> QED BY <1>1, <1>7, <1>9, <1>10, <3>3, <4>1 DEF entry
    <3> QED BY <1>9, <2>2, <3>1, <3>2, <3>3
  <2>3. PValue' = PValue
    BY DEF PValue
  <2> QED BY <1>1, <1>12, <2>1, <2>2, <2>3 DEF Collected
<1>15. NothingLost'
  <2>1. ASSUME NEW n \in 1 .. Len(ARGV), NEW k \in 2 .. LinesRead(n)',
               NEW its, its = <<ARGV[n][1].name, ARGV[n][k].testNo>>,
               NEW p, p = ARGV[n][k].pValue
        PROVE  /\ its \in DOMAIN nonpassesFor'
               /\ \E m \in 1 .. Len(nonpassesFor'[its]) : nonpassesFor'[its][m] = p
    <3>1. CASE n = file /\ k = last
      <4>1. its = key /\ p = entry.pValue
        BY <1>3, <2>1, <3>1 DEF entry, key
      <4>2. Len(old) + 1 \in 1 .. Len(nonpassesFor'[key])
        BY <1>9
      <4> QED BY <1>9, <4>1, <4>2
    <3>2. CASE ~(n = file /\ k = last)
      <4>1. k \in 2 .. LinesRead(n)
        <5>1. CASE n = file
          <6>1. k \in 2 .. last
            BY <1>1, <1>2, <5>1
          <6> QED BY <1>8, <3>2, <5>1, <6>1
        <5>2. CASE n # file
          BY <1>2, <2>1, <5>2
        <5> QED BY <5>1, <5>2
      <4>2. IsCollected(its, p)
        BY <2>1, <4>1 DEF SummaryIInv, NothingLost
      <4>3. PICK m \in 1 .. Len(nonpassesFor[its]) : nonpassesFor[its][m] = p
        BY <4>2 DEF IsCollected
      <4>4. its \in DOMAIN nonpassesFor /\ its \in DOMAIN nonpassesFor'
        BY <1>9, <4>2 DEF IsCollected
      <4>5. CASE its # key
        BY <1>9, <4>3, <4>4, <4>5
      <4>6. CASE its = key
        <5>1. old = nonpassesFor[key]
          BY <4>4, <4>6 DEF old, Pushed
        <5>2. m \in 1 .. Len(old) /\ m \in 1 .. Len(nonpassesFor'[key])
          BY <1>9, <4>3, <4>6, <5>1
        <5> QED BY <1>9, <4>3, <4>4, <4>6, <5>1, <5>2
      <4> QED BY <4>5, <4>6
    <3> QED BY <3>1, <3>2
  <2> QED BY <1>1, <2>1 DEF NothingLost, IsCollected
<1> QED BY <1>1, <1>6, <1>14, <1>15, CountsStay DEF SummaryIInv, Reported

LEMMA DieIInv == SummaryIInv /\ Summary!Die => SummaryIInv'
<1> SUFFICES ASSUME SummaryIInv, Summary!Die PROVE SummaryIInv'
  OBVIOUS
<1>1. /\ stage = "reading" /\ stage' = "died"
      /\ UNCHANGED <<ARGV, file, unread, generator, nonpassesFor, crushCountFor, report>>
  BY DEF Summary!Die, Summary!Line
<1>2. \A n \in 1 .. Len(ARGV) : LinesRead(n)' = LinesRead(n)
  BY <1>1 DEF LinesRead
<1> QED BY <1>1, <1>2, TablesStay, CountsStay DEF SummaryIInv, FileIsRead, Reported

\* A log that has been read to its end is counted, unless it is empty.
LEMMA CloseIInv == SummaryIInv /\ Summary!Close => SummaryIInv'
<1> SUFFICES ASSUME SummaryIInv, Summary!Close PROVE SummaryIInv'
  OBVIOUS
<1>1. /\ stage = "reading" /\ unread = << >> /\ file' = file + 1 /\ stage' = "opening"
      /\ UNCHANGED <<ARGV, unread, generator, nonpassesFor, report>>
      /\ ARGV \in ArgumentLists /\ file \in Nat \ {0}
      /\ crushCountFor' =
           IF generator = Undefined THEN crushCountFor
           ELSE Summary!With(crushCountFor, generator,
                  1 + (IF generator \in DOMAIN crushCountFor THEN crushCountFor[generator] ELSE 0))
  BY DEF Summary!Close, SummaryIInv
<1>2. /\ file \in 1 .. Len(ARGV) /\ LinesRead(file) = Len(ARGV[file]) /\ Len(ARGV[file]) \in Nat
      /\ generator = IF LinesRead(file) = 0 THEN Undefined ELSE ARGV[file][1].name
      /\ LinesRead(file) > 0 => ARGV[file][1].kind = "generator"
      /\ ARGV[file] \in Seq(LogLine)
  BY <1>1, LogFacts DEF SummaryIInv, FileIsRead, LinesRead
<1>3. \A n \in 1 .. Len(ARGV) : LinesRead(n)' = LinesRead(n)
  <2>2. \A n \in 1 .. Len(ARGV) : n < file => LinesRead(n) = Len(ARGV[n]) /\ LinesRead(n)' = Len(ARGV[n])
    BY <1>1, <1>2 DEF LinesRead
  <2>3. \A n \in 1 .. Len(ARGV) : n > file => LinesRead(n) = 0 /\ LinesRead(n)' = 0
    BY <1>1, <1>2 DEF LinesRead
  <2>4. \A n \in 1 .. Len(ARGV) : n = file => LinesRead(n)' = Len(ARGV[n])
    BY <1>1, <1>2 DEF LinesRead
  <2> QED BY <1>1, <1>2, <2>2, <2>3, <2>4
<1>4. CASE Len(ARGV[file]) = 0
  <2>1. \A name : Closed(name)' = Closed(name)
    <3> SUFFICES ASSUME NEW name PROVE Closed(name)' = Closed(name)
      OBVIOUS
    <3>1. Summary!LogsOf(name)' = Summary!LogsOf(name)
      BY <1>1 DEF Summary!LogsOf
    <3>2. Summary!LogsOf(name) \subseteq 1 .. Len(ARGV) /\ file \notin Summary!LogsOf(name)
      BY <1>1, <1>4, LogsOfFacts
    <3>3. \A n \in Summary!LogsOf(name) : n < file + 1 <=> n < file
      BY <1>1, <3>2
    <3> QED BY <1>1, <3>1, <3>3 DEF Closed
  <2>2. crushCountFor' = crushCountFor
    BY <1>1, <1>2, <1>4
  <2>3. Counted'
    BY <1>1, <1>4, <2>1, <2>2 DEF SummaryIInv, Counted
  <2> QED BY <1>1, <1>3, <2>3, TablesStay DEF SummaryIInv, FileIsRead, Reported
<1>5. CASE Len(ARGV[file]) > 0
  <2>1. /\ generator = ARGV[file][1].name /\ generator \in STRING /\ generator # Undefined
        /\ ARGV[file][1].kind = "generator"
    <3>1. ARGV[file][1] \in LogLine
      BY <1>1, <1>2, <1>5, LogFacts
    <3> QED BY <1>2, <1>5, <3>1, LineFacts, UnlikelyAssumption
  <2> DEFINE old == IF generator \in DOMAIN crushCountFor THEN crushCountFor[generator] ELSE 0
  <2>2. /\ DOMAIN crushCountFor' = DOMAIN crushCountFor \cup {generator}
        /\ crushCountFor'[generator] = 1 + old
        /\ \A name \in DOMAIN crushCountFor :
             name # generator => crushCountFor'[name] = crushCountFor[name]
    BY <1>1, <2>1 DEF Summary!With
  <2>3. \A name : /\ Summary!LogsOf(name)' = Summary!LogsOf(name)
                  /\ Summary!LogsOf(name) \subseteq 1 .. Len(ARGV)
                  /\ file \in Summary!LogsOf(name) <=> name = generator
    BY <1>1, <1>2, <1>5, <2>1, LogsOfFacts DEF Summary!LogsOf
  <2>4. \A name : Closed(name)' = Closed(name) \cup (IF name = generator THEN {file} ELSE {})
    <3> SUFFICES ASSUME NEW name
                 PROVE  Closed(name)' = Closed(name) \cup (IF name = generator THEN {file} ELSE {})
      OBVIOUS
    <3>1. \A n \in Summary!LogsOf(name) : n < file + 1 <=> n < file \/ n = file
      BY <1>1, <2>3
    <3> QED BY <1>1, <2>3, <3>1 DEF Closed
  <2>5. file \notin Closed(generator) /\ IsFiniteSet(Closed(generator))
    BY <1>1, LogsOfFacts DEF Closed
  <2>6. old = Cardinality(Closed(generator))
    <3>1. CASE generator \in DOMAIN crushCountFor
      BY <3>1 DEF SummaryIInv, Counted
    <3>2. CASE generator \notin DOMAIN crushCountFor
      <4>1. Closed(generator) = {}
        <5> SUFFICES ASSUME NEW n \in Closed(generator) PROVE FALSE
          OBVIOUS
        <5>1. /\ n \in 1 .. Len(ARGV) /\ n < file /\ Len(ARGV[n]) > 0
              /\ ARGV[n][1].name = generator
          BY <1>1, LogsOfFacts DEF Closed
        <5> QED BY <3>2, <5>1 DEF SummaryIInv, Counted
      <4> QED BY <3>2, <4>1, FS_EmptySet
    <3> QED BY <3>1, <3>2
  <2>7. Cardinality(Closed(generator)') = 1 + old
    <3>1. Cardinality(Closed(generator) \cup {file}) = Cardinality(Closed(generator)) + 1
      BY <2>5, FS_AddElement
    <3>2. Cardinality(Closed(generator)) \in Nat
      BY <2>5, FS_CardinalityType
    <3>3. Closed(generator)' = Closed(generator) \cup {file}
      BY <1>1, <2>4
    <3> QED BY <2>6, <3>1, <3>2, <3>3
  <2> HIDE DEF old
  <2>8. Counted'
    <3>1. ASSUME NEW n \in 1 .. Len(ARGV), n < file + 1, Len(ARGV[n]) > 0
          PROVE  ARGV[n][1].kind = "generator" /\ ARGV[n][1].name \in DOMAIN crushCountFor'
      <4>1. CASE n = file
        BY <2>1, <2>2, <4>1
      <4>2. CASE n < file
        BY <2>2, <3>1, <4>2 DEF SummaryIInv, Counted
      <4> QED BY <1>1, <3>1, <4>1, <4>2
    <3>2. ASSUME NEW name \in DOMAIN crushCountFor'
          PROVE  name \in STRING /\ crushCountFor'[name] = Cardinality(Closed(name)')
      <4>1. CASE name = generator
        BY <1>1, <2>1, <2>2, <2>7, <4>1
      <4>2. CASE name # generator
        <5>1. name \in DOMAIN crushCountFor /\ crushCountFor'[name] = crushCountFor[name]
          BY <2>2, <3>2, <4>2
        <5>2. Closed(name)' = Closed(name)
          BY <2>4, <4>2
        <5> QED BY <5>1, <5>2 DEF SummaryIInv, Counted
      <4> QED BY <4>1, <4>2
    <3> QED BY <1>1, <3>1, <3>2 DEF Counted
  <2> QED BY <1>1, <1>3, <2>8, TablesStay DEF SummaryIInv, FileIsRead, Reported
<1> QED BY <1>2, <1>4, <1>5

LEMMA ReportIInv == SummaryIInv /\ Summary!Report => SummaryIInv'
<1> SUFFICES ASSUME SummaryIInv, Summary!Report PROVE SummaryIInv'
  OBVIOUS
<1>1. /\ stage = "opening" /\ stage' = "done" /\ file > Len(ARGV)
      /\ report' = {Summary!Review(key[1], key[2]) : key \in DOMAIN nonpassesFor}
      /\ UNCHANGED <<ARGV, file, unread, generator, nonpassesFor, crushCountFor>>
  BY DEF Summary!Report
<1>2. \A n \in 1 .. Len(ARGV) : LinesRead(n)' = LinesRead(n)
  BY <1>1 DEF LinesRead
<1>3. Reported'
  BY <1>1 DEF Reported, Summary!Review
<1> QED BY <1>1, <1>2, <1>3, TablesStay, CountsStay DEF SummaryIInv, FileIsRead

LEMMA SummaryStepIInv == SummaryIInv /\ [Summary!Next]_(Summary!vars) => SummaryIInv'
<1>1. SummaryIInv /\ UNCHANGED Summary!vars => SummaryIInv'
  <2> SUFFICES ASSUME SummaryIInv, UNCHANGED Summary!vars PROVE SummaryIInv'
    OBVIOUS
  <2>1. UNCHANGED <<ARGV, file, unread, generator, nonpassesFor, crushCountFor, stage, report>>
    BY DEF Summary!vars
  <2>2. \A n \in 1 .. Len(ARGV) : LinesRead(n)' = LinesRead(n)
    BY <2>1 DEF LinesRead
  <2>3. Reported'
    <3>1. \A name, testNo : Summary!Review(name, testNo)' = Summary!Review(name, testNo)
      BY <2>1 DEF Summary!Review
    <3> QED BY <2>1, <3>1 DEF SummaryIInv, Reported
  <2>4. LinesRead(file)' = LinesRead(file)
    BY <2>1 DEF LinesRead
  <2>5. FileIsRead'
    BY <2>1, <2>4 DEF SummaryIInv, FileIsRead
  <2> QED BY <2>1, <2>2, <2>3, <2>5, TablesStay, CountsStay DEF SummaryIInv
<1> QED BY <1>1, OpenIInv, ReadGeneratorIInv, ReadTestIInv, DieIInv, CloseIInv, ReportIInv
        DEF Summary!Next

\* Taking a number above a half from one finds the extreme p-values of both
\* sides, and no others.
LEMMA LowIsExtreme ==
  ASSUME NEW pValue \in PValue
  PROVE  Summary!IsLow(pValue) <=> Summary!Extreme(pValue)
<1> DEFINE number == IF pValue.number = eps THEN 0 ELSE pValue.number
<1>1. number \in 0 .. Ones /\ pValue.oneMinus \in BOOLEAN
  BY UnlikelyAssumption DEF PValue
<1>2. Summary!IsLow(pValue) <=>
        (IF 2 * number > Ones THEN Ones - number ELSE number) < Unlikely
  BY DEF Summary!IsLow, Summary!Normalized
<1>3. Summary!Extreme(pValue) <=>
        LET meant == IF pValue.oneMinus THEN Ones - number ELSE number
        IN  meant < Unlikely \/ meant > Ones - Unlikely
  BY DEF Summary!Extreme, Summary!Meant
<1> HIDE DEF number
<1>4. CASE pValue.oneMinus
  BY <1>1, <1>2, <1>3, <1>4, UnlikelyAssumption
<1>5. CASE ~pValue.oneMinus
  BY <1>1, <1>2, <1>3, <1>5, UnlikelyAssumption
<1> QED BY <1>4, <1>5

LEMMA ReviewName ==
  ASSUME NEW name, NEW testNo
  PROVE  Summary!Review(name, testNo).generator = name
BY DEF Summary!Review

LEMMA ReviewTest ==
  ASSUME NEW name, NEW testNo
  PROVE  Summary!Review(name, testNo).testNo = testNo
BY DEF Summary!Review

LEMMA ReviewCrushes ==
  ASSUME NEW name, NEW testNo
  PROVE  Summary!Review(name, testNo).crushes = crushCountFor[name]
BY DEF Summary!Review

LEMMA ReviewFails ==
  ASSUME NEW name, NEW testNo
  PROVE  Summary!Review(name, testNo).verdict = "FAIL!!" <=>
           \E m \in 1 .. Len(nonpassesFor[<<name, testNo>>]) :
             Summary!IsLow(nonpassesFor[<<name, testNo>>][m])
BY DEF Summary!Review

LEMMA SameCardinality == \A S : Summary!Cardinality(S) = Cardinality(S)
BY DEF Summary!Cardinality, Cardinality

LEMMA SummaryIsRight == SummaryIInv => LogsAreSummarized
<1> SUFFICES ASSUME SummaryIInv, stage = "done"
             PROVE  Summary!FailuresAreSummarized /\ Summary!CrushesAreComplete
  BY DEF LogsAreSummarized, Summary!FailuresAreSummarized, Summary!CrushesAreComplete
<1>1. /\ ARGV \in ArgumentLists /\ file \in Nat /\ file > Len(ARGV) /\ Len(ARGV) \in Nat
      /\ report = {Summary!Review(key[1], key[2]) : key \in DOMAIN nonpassesFor}
  BY LogFacts DEF SummaryIInv, Reported
<1>2. \A n \in 1 .. Len(ARGV) : n < file /\ LinesRead(n) = Len(ARGV[n]) /\ Len(ARGV[n]) \in Nat
  BY <1>1, LogFacts DEF LinesRead
<1>3. ASSUME NEW n \in 1 .. Len(ARGV), NEW k \in 2 .. Len(ARGV[n])
      PROVE  /\ n \in Summary!LogsOf(ARGV[n][1].name)
             /\ IsCollected(<<ARGV[n][1].name, ARGV[n][k].testNo>>, ARGV[n][k].pValue)
  <2>1. Len(ARGV[n]) > 0 /\ ARGV[n][1].kind = "generator"
    BY <1>2, <1>3 DEF SummaryIInv, Counted
  <2> QED BY <1>1, <1>2, <2>1, LogsOfFacts DEF SummaryIInv, NothingLost
<1>4. ASSUME NEW key \in DOMAIN nonpassesFor, NEW m \in 1 .. Len(nonpassesFor[key])
      PROVE  /\ nonpassesFor[key][m] \in PValue /\ key = <<key[1], key[2]>>
             /\ \E n \in Summary!LogsOf(key[1]) : \E k \in 2 .. Len(ARGV[n]) :
                  ARGV[n][k].testNo = key[2] /\ ARGV[n][k].pValue = nonpassesFor[key][m]
  <2>1. \A n \in Summary!LogsOf(key[1]) : n \in 1 .. Len(ARGV)
    BY DEF Summary!LogsOf
  <2>2. key \in STRING \X (1 .. 106) /\ nonpassesFor[key] \in Seq(PValue)
    BY DEF SummaryIInv, Collected
  <2>3. PICK n \in Summary!LogsOf(key[1]) : \E k \in 2 .. LinesRead(n) :
          ARGV[n][k].testNo = key[2] /\ ARGV[n][k].pValue = nonpassesFor[key][m]
    BY DEF SummaryIInv, Collected
  <2> QED BY <1>2, <2>1, <2>2, <2>3
<1>5. \A key \in DOMAIN nonpassesFor : key = <<key[1], key[2]>> /\ 1 \in 1 .. Len(nonpassesFor[key])
  BY DEF SummaryIInv, Collected
<1>11. ASSUME NEW entry \in report
       PROVE  \E key \in DOMAIN nonpassesFor :
                /\ entry.generator = key[1] /\ entry.testNo = key[2]
                /\ entry.crushes = crushCountFor[key[1]]
                /\ entry.verdict = "FAIL!!" =>
                     \E m \in 1 .. Len(nonpassesFor[key]) : Summary!IsLow(nonpassesFor[key][m])
  <2>1. PICK key \in DOMAIN nonpassesFor : entry = Summary!Review(key[1], key[2])
    BY <1>1, <1>11
  <2>2. entry.generator = key[1]
    BY <2>1, ReviewName
  <2>3. entry.testNo = key[2]
    BY <2>1, ReviewTest
  <2>4. entry.crushes = crushCountFor[key[1]]
    BY <2>1, ReviewCrushes
  <2>5. entry.verdict = "FAIL!!" =>
          \E m \in 1 .. Len(nonpassesFor[<<key[1], key[2]>>]) :
             Summary!IsLow(nonpassesFor[<<key[1], key[2]>>][m])
    BY <2>1, ReviewFails
  <2> QED BY <1>5, <2>2, <2>3, <2>4, <2>5
<1>6. Summary!CrushesAreComplete
  <2> SUFFICES ASSUME NEW entry \in report
               PROVE  entry.crushes = Cardinality(Summary!LogsOf(entry.generator))
    BY SameCardinality DEF Summary!CrushesAreComplete
  <2>0. PICK key \in DOMAIN nonpassesFor :
          entry.generator = key[1] /\ entry.crushes = crushCountFor[key[1]]
    BY <1>11
  <2>1. PICK n : n \in Summary!LogsOf(key[1])
    BY <1>4, <1>5
  <2>2. key[1] \in DOMAIN crushCountFor
    <3>1. n \in 1 .. Len(ARGV) /\ Len(ARGV[n]) > 0 /\ ARGV[n][1].name = key[1]
      BY <1>1, <2>1, LogsOfFacts
    <3> QED BY <1>2, <3>1 DEF SummaryIInv, Counted
  <2>3. Closed(key[1]) = Summary!LogsOf(key[1])
    <3>1. \A l \in Summary!LogsOf(key[1]) : l < file
      BY <1>2 DEF Summary!LogsOf
    <3> QED BY <3>1 DEF Closed
  <2>4. crushCountFor[key[1]] = Cardinality(Summary!LogsOf(key[1]))
    BY <2>2, <2>3 DEF SummaryIInv, Counted
  <2> QED BY <2>0, <2>4
<1>7. ASSUME NEW name, NEW testNo \in 1 .. 106, NEW n \in Summary!LogsOf(name),
             NEW p \in Summary!PValues(n, testNo), Summary!Extreme(p)
      PROVE  \E entry \in report : /\ entry.generator = name
                                   /\ entry.testNo = testNo
                                   /\ entry.verdict = "FAIL!!"
  <2>1. n \in 1 .. Len(ARGV) /\ ARGV[n][1].name = name
    BY <1>1, LogsOfFacts
  <2>2. PICK k \in 2 .. Len(ARGV[n]) : ARGV[n][k].testNo = testNo /\ p = ARGV[n][k].pValue
    BY <1>7 DEF Summary!PValues
  <2>3. IsCollected(<<name, testNo>>, p)
    BY <1>3, <2>1, <2>2
  <2>4. PICK m \in 1 .. Len(nonpassesFor[<<name, testNo>>]) : nonpassesFor[<<name, testNo>>][m] = p
    BY <2>3 DEF IsCollected
  <2>5. <<name, testNo>> \in DOMAIN nonpassesFor
    BY <2>3 DEF IsCollected
  <2>6. Summary!IsLow(p)
    BY <1>4, <1>7, <2>4, <2>5, LowIsExtreme
  <2>7. Summary!Review(name, testNo).verdict = "FAIL!!"
    BY <2>4, <2>6, ReviewFails
  <2>8. Summary!Review(name, testNo) \in report
    BY <1>1, <2>5
  <2> QED BY <2>7, <2>8, ReviewName, ReviewTest
<1>8. ASSUME NEW entry \in report, entry.verdict = "FAIL!!"
      PROVE  \E n \in Summary!LogsOf(entry.generator) :
               \E p \in Summary!PValues(n, entry.testNo) : Summary!Extreme(p)
  <2>1. PICK key \in DOMAIN nonpassesFor :
          /\ entry.generator = key[1] /\ entry.testNo = key[2]
          /\ \E m \in 1 .. Len(nonpassesFor[key]) : Summary!IsLow(nonpassesFor[key][m])
    BY <1>8, <1>11
  <2>2. entry.generator = key[1] /\ entry.testNo = key[2]
    BY <2>1
  <2>3. PICK m \in 1 .. Len(nonpassesFor[key]) : Summary!IsLow(nonpassesFor[key][m])
    BY <2>1
  <2>4. Summary!Extreme(nonpassesFor[key][m])
    BY <1>4, <2>3, LowIsExtreme
  <2>5. PICK n \in Summary!LogsOf(key[1]) : \E k \in 2 .. Len(ARGV[n]) :
          ARGV[n][k].testNo = key[2] /\ ARGV[n][k].pValue = nonpassesFor[key][m]
    BY <1>4
  <2>6. nonpassesFor[key][m] \in Summary!PValues(n, key[2])
    BY <2>5 DEF Summary!PValues
  <2> QED BY <2>2, <2>4, <2>5, <2>6
<1>9. ASSUME NEW n \in 1 .. Len(ARGV), Len(ARGV[n]) > 1
      PROVE  \E entry \in report : n \in Summary!LogsOf(entry.generator)
  <2>1. 2 \in 2 .. Len(ARGV[n])
    BY <1>2, <1>9
  <2> DEFINE name == ARGV[n][1].name
             testNo == ARGV[n][2].testNo
  <2>2. n \in Summary!LogsOf(name) /\ <<name, testNo>> \in DOMAIN nonpassesFor
    BY <1>3, <2>1 DEF IsCollected
  <2> HIDE DEF name, testNo
  <2>3. Summary!Review(name, testNo) \in report
    BY <1>1, <2>2
  <2> QED BY <2>2, <2>3, ReviewName
<1>10. Summary!FailuresAreSummarized
  <2> DEFINE fails(name, testNo) ==
               \E n \in Summary!LogsOf(name) : \E p \in Summary!PValues(n, testNo) : Summary!Extreme(p)
             reported(name, testNo) ==
               \E entry \in report : /\ entry.generator = name
                                     /\ entry.testNo = testNo
                                     /\ entry.verdict = "FAIL!!"
  <2>1. \A name : \A testNo \in 1 .. 106 : fails(name, testNo) => reported(name, testNo)
    BY <1>7
  <2>2. ASSUME NEW name, NEW testNo, reported(name, testNo) PROVE fails(name, testNo)
    <3>1. PICK entry \in report : /\ entry.generator = name
                                  /\ entry.testNo = testNo
                                  /\ entry.verdict = "FAIL!!"
      BY <2>2
    <3>2. fails(entry.generator, entry.testNo)
      BY <1>8, <3>1
    <3> QED BY <3>1, <3>2
  <2>3. \A n \in 1 .. Len(ARGV) :
          Len(ARGV[n]) > 1 => \E entry \in report : n \in Summary!LogsOf(entry.generator)
    BY <1>9
  <2>5. \A name \in {entry.generator : entry \in report}, testNo \in 1 .. 106 :
          fails(name, testNo) <=> reported(name, testNo)
    <3> HIDE DEF fails, reported
    <3> QED BY <2>1, <2>2
  <2> QED BY ONLY <2>3, <2>5 DEF Summary!FailuresAreSummarized
<1> QED BY <1>6, <1>10

\* The report lists as failures the tests with an extreme p-value in one of
\* their generator's logs, and no others, and sets them against the complete
\* logs, for any logs in any order.
THEOREM SummaryCorrect == Summary!Spec => []LogsAreSummarized
BY SummaryInitIInv, SummaryStepIInv, SummaryIsRight, PTL DEF Summary!Spec
-----------------------------------------------------------------------------
(***************************************************************************)
(* The main function of the programs.  What it has understood of a command *)
(* line is what the words that getopt has passed say; a line's words are   *)
(* the same as another's when they say the same.  That the words of the    *)
(* generator are folded as the log says is a fact about a table, and about *)
(* the number of the folding, which tells the half and the order.          *)
(***************************************************************************)
\* Option w is among the words before the n-th; what those words ask for.
Holds(words, n, w) == \E k \in 2 .. (n - 1) : words[k] = w

OrderOf(words, n) == IF Holds(words, n, "-r") THEN 1
                     ELSE IF Holds(words, n, "-z") THEN 2 ELSE 0

BatteryOf(words, n) == IF Holds(words, n, "-c") THEN "CRUSH"
                       ELSE IF Holds(words, n, "-b") THEN "BIGCRUSH"
                       ELSE IF Holds(words, n, "-l") THEN "LINEARCOMP"
                       ELSE "SMALLCRUSH"

SeedRead(words, n, seed) ==
  /\ \A k \in 2 .. (n - 1) : words[k] = "-S" =>
       k + 1 < n /\ seed = Main!atoi(words[k + 1])
  /\ ~Holds(words, n, "-S") => seed = Main!DefaultSeed

MainTypeOK ==
  /\ line \in 1 .. (Len(lines) + 1)
  /\ optind \in Nat \ {0, 1}
  /\ z \in 0 .. 5
  /\ use_msb \in BOOLEAN
  /\ phase \in {"options", "testing"}

\* The number of the folding, the name in the log and the words that were
\* folded belong together.
FoldingIInv ==
  /\ phase = "options" => z \in 0 .. 2 /\ folded = << >>
  /\ use_msb => line <= Len(lines) /\ "-H" \in WordsOf(lines[line])
  /\ phase = "testing" => /\ line <= Len(lines)
                          /\ announced = Main!our_name[z + 1]
                          /\ use_msb <=> z >= 3
  /\ folded # << >> => /\ phase = "testing"
                       /\ rng \in [1 .. 8 -> 0 .. 255]
                       /\ folded = Main!our_rng(z, rng)

\* The options are what the words before the n-th ask for.
OptionsSay(words, n, seed, battery, order, high) ==
  /\ n <= Len(words) + 1
  /\ IsTest(words) => /\ ~IsSeed(words, n)
                      /\ high <=> Holds(words, n, "-H")
                      /\ order = OrderOf(words, n)
                      /\ battery = BatteryOf(words, n)
                      /\ SeedRead(words, n, seed)
  /\ IsNoTest(words) => \A k \in 2 .. (n - 1) : words[k] \in Main!Options

OptionsRead ==
  line <= Len(lines) /\ phase = "options" =>
    OptionsSay(lines[line], optind, seedvalue, testroutine, z, use_msb)

\* An experiment is what all the words of its line ask for.
IsExperiment(e) ==
  LET n == Len(e.line) + 1
  IN  /\ e.line \in CommandLines /\ IsTest(e.line)
      /\ e.folding = OrderOf(e.line, n) + (IF Holds(e.line, n, "-H") THEN 3 ELSE 0)
      /\ e.battery = BatteryOf(e.line, n)
      /\ SeedRead(e.line, n, e.seed)

ExperimentsIInv ==
  \A e, f \in experiments : IsExperiment(e) /\ e.line[1] = f.line[1]

MainIInv == MainTypeOK /\ FoldingIInv /\ OptionsRead /\ ExperimentsIInv

LEMMA LinesFacts ==
  ASSUME NEW n \in 1 .. Len(lines)
  PROVE  /\ lines[n] \in Seq(STRING) /\ Len(lines[n]) \in Nat \ {0}
         /\ lines[n] \in CommandLines
         /\ IsTest(lines[n]) \/ IsNoTest(lines[n])
         /\ lines[n][1] \in Main!Narrow => "-H" \notin WordsOf(lines[n])
<1>1. lines[n] \in Seq(STRING) \ {<< >>}
  BY LinesAssumption
<1>2. lines[n] \in CommandLines
  BY DEF CommandLines
<1>3. Len(lines[n]) \in Nat \ {0}
  BY <1>1, EmptySeq
<1>4. /\ IsTest(lines[n]) \/ IsNoTest(lines[n])
      /\ lines[n][1] \in Main!Narrow => "-H" \notin WordsOf(lines[n])
  BY <1>2, LinesAssumption DEF Main!Narrow
<1> QED BY <1>1, <1>2, <1>3, <1>4

\* getopt passes a word of a test that is not -S: what the words ask for is what
\* they asked for, and what this one asks for.
LEMMA HoldsNext ==
  ASSUME NEW words, NEW n \in Nat \ {0, 1}, NEW w
  PROVE  Holds(words, n + 1, w) <=> Holds(words, n, w) \/ words[n] = w
<1>1. n \in 2 .. ((n + 1) - 1) /\ \A k \in Nat : k \in 2 .. ((n + 1) - 1) <=> k \in 2 .. (n - 1) \/ k = n
  OBVIOUS
<1> QED BY <1>1 DEF Holds

LEMMA WordOfTest ==
  ASSUME NEW words \in Seq(STRING), NEW n \in 2 .. Len(words),
         IsTest(words), ~IsSeed(words, n)
  PROVE  /\ words[n] \in Orders \cup Batteries \cup {"-H", "-S"}
         /\ \A k \in 2 .. (n - 1) : words[n] \in Orders => words[k] \notin Orders
         /\ \A k \in 2 .. (n - 1) : words[n] \in Batteries => words[k] \notin Batteries
         /\ \A k \in 2 .. (n - 1) : words[n] = "-S" => words[k] # "-S"
<1>1. \A k \in 2 .. (n - 1) : k \in 2 .. Len(words) /\ k # n
  OBVIOUS
<1> QED BY <1>1 DEF IsTest

LEMMA OrderNext ==
  ASSUME NEW words \in Seq(STRING), NEW n \in 2 .. Len(words),
         IsTest(words), ~IsSeed(words, n)
  PROVE  OrderOf(words, n + 1) = IF words[n] = "-r" THEN 1
                                 ELSE IF words[n] = "-z" THEN 2 ELSE OrderOf(words, n)
<1>1. \A w : Holds(words, n + 1, w) <=> Holds(words, n, w) \/ words[n] = w
  BY HoldsNext
<1>2. words[n] \in Orders => ~Holds(words, n, "-r") /\ ~Holds(words, n, "-z")
  BY WordOfTest DEF Holds, Orders
<1> QED BY <1>1, <1>2 DEF OrderOf, Orders

LEMMA BatteryNext ==
  ASSUME NEW words \in Seq(STRING), NEW n \in 2 .. Len(words),
         IsTest(words), ~IsSeed(words, n)
  PROVE  BatteryOf(words, n + 1)
           = IF words[n] = "-c" THEN "CRUSH"
             ELSE IF words[n] = "-b" THEN "BIGCRUSH"
             ELSE IF words[n] = "-l" THEN "LINEARCOMP"
             ELSE IF words[n] = "-s" THEN "SMALLCRUSH" ELSE BatteryOf(words, n)
<1>1. \A w : Holds(words, n + 1, w) <=> Holds(words, n, w) \/ words[n] = w
  BY HoldsNext
<1>2. words[n] \in Batteries =>
        ~Holds(words, n, "-c") /\ ~Holds(words, n, "-b") /\ ~Holds(words, n, "-l")
  BY WordOfTest DEF Holds, Batteries
<1> QED BY <1>1, <1>2 DEF BatteryOf, Batteries

LEMMA SeedNext ==
  ASSUME NEW words \in Seq(STRING), NEW n \in 2 .. Len(words), NEW seed,
         SeedRead(words, n, seed), words[n] # "-S"
  PROVE  SeedRead(words, n + 1, seed)
<1>1. \A k \in 2 .. ((n + 1) - 1) : k \in 2 .. (n - 1) \/ k = n
  OBVIOUS
<1>2. Holds(words, n + 1, "-S") <=> Holds(words, n, "-S")
  BY HoldsNext
<1> QED BY <1>1, <1>2 DEF SeedRead

\* getopt passes -S and the seed, which is none of the other options.
LEMMA SeedPassed ==
  ASSUME NEW words \in Seq(STRING), NEW n \in 2 .. (Len(words) - 1),
         IsTest(words), ~IsSeed(words, n), words[n] = "-S"
  PROVE  /\ ~IsSeed(words, n + 2)
         /\ \A w \in Orders \cup Batteries \cup {"-H"} :
              Holds(words, n + 2, w) <=> Holds(words, n, w)
         /\ SeedRead(words, n + 2, Main!atoi(words[n + 1]))
<1>1. /\ IsSeed(words, n + 1) /\ n + 1 \in 2 .. Len(words)
      /\ (n + 1) - 1 = n /\ (n + 1) + 1 = n + 2 /\ n + 1 \in Nat \ {0, 1}
  BY DEF IsSeed
<1>2. words[n + 1] \notin Orders \cup Batteries \cup {"-H", "-S"}
  BY <1>1 DEF IsTest
<1>3. \A w : Holds(words, n + 2, w) <=> Holds(words, n, w) \/ words[n] = w \/ words[n + 1] = w
  <2>1. \A w : Holds(words, (n + 1) + 1, w) <=> Holds(words, n + 1, w) \/ words[n + 1] = w
    BY <1>1, HoldsNext
  <2>2. \A w : Holds(words, n + 1, w) <=> Holds(words, n, w) \/ words[n] = w
    BY HoldsNext
  <2> QED BY <1>1, <2>1, <2>2
<1>4. "-S" \notin Orders \cup Batteries \cup {"-H"}
  BY DEF Orders, Batteries
<1>5. SeedRead(words, n + 2, Main!atoi(words[n + 1]))
  <2>1. \A k \in 2 .. ((n + 2) - 1) : k \in 2 .. (n - 1) \/ k = n \/ k = n + 1
    OBVIOUS
  <2>2. \A k \in 2 .. (n - 1) : words[k] # "-S"
    BY WordOfTest
  <2>3. Holds(words, n + 2, "-S")
    BY <1>3
  <2>4. \A k \in 2 .. ((n + 2) - 1) : words[k] = "-S" => k = n
    BY <1>2, <2>1, <2>2
  <2> QED BY <2>3, <2>4 DEF SeedRead
<1>6. ~IsSeed(words, n + 2)
  BY <1>1, <1>2 DEF IsSeed
<1> QED BY <1>2, <1>3, <1>4, <1>5, <1>6

\* No word has been passed yet.
LEMMA FreshOptions ==
  ASSUME NEW n \in 1 .. Len(lines)
  PROVE  OptionsSay(lines[n], 2, Main!DefaultSeed, "SMALLCRUSH", 0, FALSE)
<1>1. Len(lines[n]) \in Nat \ {0}
  BY LinesFacts
<1>2. 2 .. (2 - 1) = {}
  OBVIOUS
<1>3. \A w : ~Holds(lines[n], 2, w)
  BY <1>2 DEF Holds
<1>4. ~IsSeed(lines[n], 2)
  BY DEF IsSeed
<1>5. SeedRead(lines[n], 2, Main!DefaultSeed)
  BY <1>2 DEF SeedRead
<1> QED BY <1>1, <1>2, <1>3, <1>4, <1>5 DEF OptionsSay, OrderOf, BatteryOf

LEMMA ExperimentsStay == ExperimentsIInv /\ UNCHANGED experiments => ExperimentsIInv'
  BY DEF ExperimentsIInv, IsExperiment

LEMMA MainInitIInv == Main!Init => MainIInv
<1> SUFFICES ASSUME Main!Init PROVE MainIInv
  OBVIOUS
<1> USE DEF Main!Init
<1>1. Len(lines) \in Nat
  BY LinesAssumption
<1>2. MainTypeOK
  <2>1. use_msb \in BOOLEAN
    OBVIOUS
  <2> QED BY <1>1, <2>1 DEF MainTypeOK
<1>3. FoldingIInv
  BY DEF FoldingIInv
<1>4. ExperimentsIInv
  BY DEF ExperimentsIInv
<1>5. OptionsRead
  <2>1. line = 1 /\ (line <= Len(lines) => line \in 1 .. Len(lines))
    BY <1>1
  <2>2. line <= Len(lines) => OptionsSay(lines[line], 2, Main!DefaultSeed, "SMALLCRUSH", 0, FALSE)
    BY <2>1, FreshOptions
  <2> QED BY <2>2 DEF OptionsRead
<1> QED BY <1>2, <1>3, <1>4, <1>5 DEF MainIInv

LEMMA LeaveMainIInv == MainIInv /\ Main!Leave => MainIInv'
<1> SUFFICES ASSUME MainIInv, Main!Leave PROVE MainIInv'
  OBVIOUS
<1>1. Len(lines) \in Nat
  BY LinesAssumption
<1>2. /\ line <= Len(lines) /\ line' = line + 1
      /\ optind' = 2 /\ seedvalue' = Main!DefaultSeed /\ testroutine' = "SMALLCRUSH"
      /\ z' = 0 /\ use_msb' = FALSE /\ phase' = "options" /\ folded' = << >>
      /\ UNCHANGED experiments
  BY DEF Main!Leave, Main!Started
<1>3. MainTypeOK'
  <2>1. use_msb' \in BOOLEAN
    BY <1>2
  <2> QED BY <1>1, <1>2, <2>1 DEF MainIInv, MainTypeOK
<1>4. FoldingIInv'
  BY <1>2 DEF FoldingIInv
<1>5. ExperimentsIInv'
  BY <1>2, ExperimentsStay DEF MainIInv
<1>6. OptionsRead'
  <2>1. line' <= Len(lines) => line' \in 1 .. Len(lines)
    BY <1>1, <1>3 DEF MainTypeOK
  <2>2. line' <= Len(lines) => OptionsSay(lines[line'], 2, Main!DefaultSeed, "SMALLCRUSH", 0, FALSE)
    BY <2>1, FreshOptions
  <2> QED BY <1>2, <2>2 DEF OptionsRead
<1> QED BY <1>3, <1>4, <1>5, <1>6 DEF MainIInv

\* What holds when getopt passes an option.
LEMMA OptionFacts ==
  ASSUME MainIInv, NEW W, Main!Option(W)
  PROVE  /\ line \in 1 .. Len(lines) /\ optind \in 2 .. Len(lines[line])
         /\ Len(lines[line]) \in Nat /\ lines[line] \in Seq(STRING)
         /\ phase = "options" /\ lines[line][optind] \in W
         /\ optind' = optind + (IF lines[line][optind] = "-S" THEN 2 ELSE 1)
         /\ UNCHANGED <<line, phase, announced, rng, folded, experiments>>
<1>1. line \in 1 .. Len(lines)
  BY LinesAssumption DEF MainIInv, MainTypeOK, Main!Option
<1>2. Len(lines[line]) \in Nat /\ lines[line] \in Seq(STRING)
  BY <1>1, LinesFacts
<1> QED BY <1>1, <1>2 DEF MainIInv, MainTypeOK, Main!Option, Main!Current

\* An option that is not -S is passed.
LEMMA SayNext ==
  ASSUME NEW words \in Seq(STRING), NEW n \in 2 .. Len(words),
         NEW seed, NEW battery, NEW order, NEW high, NEW battery2, NEW order2, NEW high2,
         OptionsSay(words, n, seed, battery, order, high),
         words[n] \in Main!Options \ {"-S"},
         order2 = IF words[n] = "-r" THEN 1
                  ELSE IF words[n] \in {"-R", "-z"} THEN 2 ELSE order,
         battery2 = IF words[n] = "-c" THEN "CRUSH"
                    ELSE IF words[n] = "-b" THEN "BIGCRUSH"
                    ELSE IF words[n] = "-l" THEN "LINEARCOMP"
                    ELSE IF words[n] = "-s" THEN "SMALLCRUSH" ELSE battery,
         high2 <=> high \/ words[n] = "-H"
  PROVE  OptionsSay(words, n + 1, seed, battery2, order2, high2)
<1>1. n + 1 <= Len(words) + 1
  OBVIOUS
<1>2. ASSUME IsTest(words)
      PROVE  /\ ~IsSeed(words, n + 1)
             /\ high2 <=> Holds(words, n + 1, "-H")
             /\ order2 = OrderOf(words, n + 1)
             /\ battery2 = BatteryOf(words, n + 1)
             /\ SeedRead(words, n + 1, seed)
  <2>1. /\ ~IsSeed(words, n)
        /\ high <=> Holds(words, n, "-H")
        /\ order = OrderOf(words, n)
        /\ battery = BatteryOf(words, n)
        /\ SeedRead(words, n, seed)
    BY <1>2 DEF OptionsSay
  <2>2. words[n] # "-R"
    BY <1>2, <2>1, WordOfTest DEF Orders, Batteries
  <2>3. ~IsSeed(words, n + 1)
    BY DEF IsSeed
  <2>4. high2 <=> Holds(words, n + 1, "-H")
    BY <2>1, HoldsNext
  <2>5. order2 = OrderOf(words, n + 1)
    BY <1>2, <2>1, <2>2, OrderNext
  <2>6. battery2 = BatteryOf(words, n + 1)
    BY <1>2, <2>1, BatteryNext
  <2>7. SeedRead(words, n + 1, seed)
    BY <2>1, SeedNext
  <2> QED BY <2>3, <2>4, <2>5, <2>6, <2>7
<1>3. IsNoTest(words) => \A k \in 2 .. ((n + 1) - 1) : words[k] \in Main!Options
  <2>1. words[n] \in Main!Options
    OBVIOUS
  <2>2. \A k \in 2 .. ((n + 1) - 1) : k \in 2 .. (n - 1) \/ k = n
    OBVIOUS
  <2> QED BY <2>1, <2>2 DEF OptionsSay
<1> QED BY <1>1, <1>2, <1>3, Zenon DEF OptionsSay

LEMMA OrderIInv == MainIInv /\ Main!OptionOrder => MainIInv'
<1> SUFFICES ASSUME MainIInv, Main!OptionOrder PROVE MainIInv'
  OBVIOUS
<1> DEFINE words == lines[line]
<1>1. /\ line \in 1 .. Len(lines) /\ optind \in 2 .. Len(words)
      /\ Len(words) \in Nat /\ words \in Seq(STRING)
      /\ phase = "options" /\ words[optind] \in {"-r", "-R", "-z"}
      /\ optind' = optind + 1
      /\ UNCHANGED <<line, phase, announced, rng, folded, experiments>>
  BY OptionFacts DEF Main!OptionOrder
<1>2. /\ z' = IF words[optind] = "-r" THEN 1 ELSE 2
      /\ UNCHANGED <<seedvalue, testroutine, use_msb>>
  BY DEF Main!OptionOrder, Main!Current
<1> HIDE DEF words
<1>3. MainTypeOK' /\ FoldingIInv'
  BY <1>1, <1>2 DEF MainIInv, MainTypeOK, FoldingIInv
<1>4. ExperimentsIInv'
  BY <1>1, ExperimentsStay DEF MainIInv
<1>5. OptionsRead'
  <2>1. OptionsSay(words, optind, seedvalue, testroutine, z, use_msb)
    BY <1>1 DEF MainIInv, OptionsRead, words
  <2>2. words[optind] \in Main!Options \ {"-S"}
    BY <1>1 DEF Main!Options
  <2>3. OptionsSay(words, optind + 1, seedvalue, testroutine, z', use_msb)
    BY <1>1, <1>2, <2>1, <2>2, SayNext
  <2> QED BY <1>1, <1>2, <2>3 DEF OptionsRead, words
<1> QED BY <1>3, <1>4, <1>5 DEF MainIInv

LEMMA BatteryIInv == MainIInv /\ Main!OptionBattery => MainIInv'
<1> SUFFICES ASSUME MainIInv, Main!OptionBattery PROVE MainIInv'
  OBVIOUS
<1> DEFINE words == lines[line]
<1>1. /\ line \in 1 .. Len(lines) /\ optind \in 2 .. Len(words)
      /\ Len(words) \in Nat /\ words \in Seq(STRING)
      /\ phase = "options" /\ words[optind] \in {"-s", "-c", "-b", "-l"}
      /\ optind' = optind + 1
      /\ UNCHANGED <<line, phase, announced, rng, folded, experiments>>
  BY OptionFacts DEF Main!OptionBattery
<1>2. /\ testroutine' = IF words[optind] = "-c" THEN "CRUSH"
                        ELSE IF words[optind] = "-b" THEN "BIGCRUSH"
                        ELSE IF words[optind] = "-l" THEN "LINEARCOMP" ELSE "SMALLCRUSH"
      /\ UNCHANGED <<seedvalue, z, use_msb>>
  BY <1>1 DEF Main!OptionBattery, Main!Current
<1> HIDE DEF words
<1>3. MainTypeOK' /\ FoldingIInv'
  BY <1>1, <1>2 DEF MainIInv, MainTypeOK, FoldingIInv
<1>4. ExperimentsIInv'
  BY <1>1, ExperimentsStay DEF MainIInv
<1>5. OptionsRead'
  <2>1. OptionsSay(words, optind, seedvalue, testroutine, z, use_msb)
    BY <1>1 DEF MainIInv, OptionsRead, words
  <2>2. words[optind] \in Main!Options \ {"-S"}
    BY <1>1 DEF Main!Options
  <2>3. OptionsSay(words, optind + 1, seedvalue, testroutine', z, use_msb)
    BY <1>1, <1>2, <2>1, <2>2, SayNext
  <2> QED BY <1>1, <1>2, <2>3 DEF OptionsRead, words
<1> QED BY <1>3, <1>4, <1>5 DEF MainIInv

LEMMA HighIInv == MainIInv /\ Main!OptionHigh => MainIInv'
<1> SUFFICES ASSUME MainIInv, Main!OptionHigh PROVE MainIInv'
  OBVIOUS
<1> DEFINE words == lines[line]
<1>1. /\ line \in 1 .. Len(lines) /\ optind \in 2 .. Len(words)
      /\ Len(words) \in Nat /\ words \in Seq(STRING)
      /\ phase = "options" /\ words[optind] = "-H"
      /\ optind' = optind + 1
      /\ UNCHANGED <<line, phase, announced, rng, folded, experiments>>
  BY OptionFacts DEF Main!OptionHigh
<1>2. use_msb' = TRUE /\ UNCHANGED <<seedvalue, z, testroutine>>
  BY DEF Main!OptionHigh
<1>3. line' <= Len(lines) /\ "-H" \in WordsOf(lines[line'])
  BY <1>1 DEF WordsOf
<1> HIDE DEF words
<1>4. MainTypeOK'
  <2>1. use_msb' \in BOOLEAN
    BY <1>2
  <2> QED BY <1>1, <1>2, <2>1 DEF MainIInv, MainTypeOK
<1>5. FoldingIInv'
  BY <1>1, <1>2, <1>3 DEF MainIInv, FoldingIInv
<1>6. ExperimentsIInv'
  BY <1>1, ExperimentsStay DEF MainIInv
<1>7. OptionsRead'
  <2>1. OptionsSay(words, optind, seedvalue, testroutine, z, use_msb)
    BY <1>1 DEF MainIInv, OptionsRead, words
  <2>2. words[optind] \in Main!Options \ {"-S"}
    BY <1>1 DEF Main!Options
  <2>3. OptionsSay(words, optind + 1, seedvalue, testroutine, z, use_msb')
    BY <1>1, <1>2, <2>1, <2>2, SayNext
  <2> QED BY <1>1, <1>2, <2>3 DEF OptionsRead, words
<1> QED BY <1>4, <1>5, <1>6, <1>7 DEF MainIInv

LEMMA SeedOptionIInv == MainIInv /\ Main!OptionSeed => MainIInv'
<1> SUFFICES ASSUME MainIInv, Main!OptionSeed PROVE MainIInv'
  OBVIOUS
<1> DEFINE words == lines[line]
<1>1. /\ line \in 1 .. Len(lines) /\ optind \in 2 .. Len(words)
      /\ Len(words) \in Nat /\ words \in Seq(STRING)
      /\ phase = "options" /\ words[optind] = "-S"
      /\ optind' = optind + 2
      /\ UNCHANGED <<line, phase, announced, rng, folded, experiments>>
  BY OptionFacts DEF Main!OptionSeed
<1>2. /\ optind < Len(words)
      /\ seedvalue' = Main!atoi(words[optind + 1]) /\ UNCHANGED <<z, use_msb, testroutine>>
  BY DEF Main!OptionSeed
<1> HIDE DEF words
<1>3. MainTypeOK' /\ FoldingIInv'
  BY <1>1, <1>2 DEF MainIInv, MainTypeOK, FoldingIInv
<1>4. ExperimentsIInv'
  BY <1>1, ExperimentsStay DEF MainIInv
<1>5. OptionsRead'
  <2>1. OptionsSay(words, optind, seedvalue, testroutine, z, use_msb)
    BY <1>1 DEF MainIInv, OptionsRead, words
  <2>2. optind + 2 <= Len(words) + 1 /\ optind \in 2 .. (Len(words) - 1)
    BY <1>1, <1>2
  <2>3. ~IsNoTest(words)
    <3>1. "-S" \notin (Main!Options \ {"-S"}) \cup {"-h"} \cup Invalid
      BY OutputsAssumption DEF Main!Options
    <3> QED BY <1>1, <3>1 DEF IsNoTest
  <2>4. ASSUME IsTest(words)
        PROVE  /\ ~IsSeed(words, optind + 2)
               /\ use_msb <=> Holds(words, optind + 2, "-H")
               /\ z = OrderOf(words, optind + 2)
               /\ testroutine = BatteryOf(words, optind + 2)
               /\ SeedRead(words, optind + 2, seedvalue')
    <3>1. /\ ~IsSeed(words, optind)
          /\ use_msb <=> Holds(words, optind, "-H")
          /\ z = OrderOf(words, optind)
          /\ testroutine = BatteryOf(words, optind)
      BY <2>1, <2>4 DEF OptionsSay
    <3>2. /\ ~IsSeed(words, optind + 2)
          /\ \A w \in Orders \cup Batteries \cup {"-H"} :
               Holds(words, optind + 2, w) <=> Holds(words, optind, w)
          /\ SeedRead(words, optind + 2, seedvalue')
      BY <1>1, <1>2, <2>2, <2>4, <3>1, SeedPassed
    <3>3. use_msb <=> Holds(words, optind + 2, "-H")
      BY <3>1, <3>2
    <3>4. z = OrderOf(words, optind + 2)
      BY <3>1, <3>2 DEF OrderOf, Orders
    <3>5. testroutine = BatteryOf(words, optind + 2)
      BY <3>1, <3>2 DEF BatteryOf, Batteries
    <3> QED BY <3>2, <3>3, <3>4, <3>5
  <2>5. OptionsSay(words, optind + 2, seedvalue', testroutine, z, use_msb)
    BY <2>2, <2>3, <2>4, Zenon DEF OptionsSay
  <2> QED BY <1>1, <1>2, <2>5 DEF OptionsRead, words
<1> QED BY <1>3, <1>4, <1>5 DEF MainIInv

\* All options have been passed: they are an experiment that the line asks for, and
\* a line that was to end early has not come here.
LEMMA AnnounceIInv == MainIInv /\ Main!Announce => MainIInv'
<1> SUFFICES ASSUME MainIInv, Main!Announce PROVE MainIInv'
  OBVIOUS
<1> DEFINE words == lines[line]
           new == [line |-> words, seed |-> seedvalue, folding |-> z', battery |-> testroutine]
<1>1. /\ line <= Len(lines) /\ phase = "options" /\ optind > Len(words)
      /\ z' = IF use_msb THEN z + 3 ELSE z
      /\ announced' = Main!our_name[z' + 1]
      /\ phase' = "testing"
      /\ experiments' = {e \in experiments : e.line[1] = words[1]} \cup {new}
      /\ UNCHANGED <<line, optind, seedvalue, testroutine, use_msb, rng, folded>>
  BY DEF Main!Announce, Main!SameProgram
<1>2. /\ line \in 1 .. Len(lines) /\ words \in Seq(STRING) /\ Len(words) \in Nat \ {0}
      /\ words \in CommandLines /\ (IsTest(words) \/ IsNoTest(words))
  <2>1. line \in 1 .. Len(lines)
    BY <1>1, LinesAssumption DEF MainIInv, MainTypeOK
  <2> QED BY <2>1, LinesFacts
<1> HIDE DEF words
<1>3. OptionsSay(words, optind, seedvalue, testroutine, z, use_msb)
  BY <1>1 DEF MainIInv, OptionsRead, words
<1>4. optind = Len(words) + 1
  BY <1>1, <1>2, <1>3 DEF OptionsSay, MainIInv, MainTypeOK
<1>5. IsTest(words)
  <2>1. SUFFICES ASSUME IsNoTest(words) PROVE FALSE
    BY <1>2
  <2>2. optind - 1 = Len(words)
    BY <1>2, <1>4
  <2>3. \A k \in 2 .. Len(words) : words[k] \in Main!Options
    BY <1>3, <2>1, <2>2 DEF OptionsSay
  <2>4. PICK k \in 2 .. Len(words) : words[k] \in {"-h"} \cup Invalid
    BY <2>1 DEF IsNoTest
  <2>5. words[k] \in Main!Options
    BY <2>3
  <2>6. words[k] = "-h"
    BY <2>4, <2>5, OutputsAssumption
  <2> QED BY <2>5, <2>6 DEF Main!Options
<1>6. /\ use_msb <=> Holds(words, optind, "-H")
      /\ z = OrderOf(words, optind)
      /\ testroutine = BatteryOf(words, optind)
      /\ SeedRead(words, optind, seedvalue)
  BY <1>3, <1>5 DEF OptionsSay
<1>7. z \in 0 .. 2 /\ use_msb \in BOOLEAN /\ folded = << >>
  BY <1>1 DEF MainIInv, MainTypeOK, FoldingIInv
<1>8. z' \in 0 .. 5 /\ (use_msb <=> z' >= 3)
  BY <1>1, <1>7
<1>9. MainTypeOK'
  BY <1>1, <1>2, <1>8 DEF MainIInv, MainTypeOK
<1>10. FoldingIInv'
  BY <1>1, <1>7, <1>8, Zenon DEF MainIInv, FoldingIInv
<1>11. ExperimentsIInv'
  <2>1. IsExperiment(new)
    <3>1. /\ new.line = words /\ new.seed = seedvalue /\ new.folding = z'
          /\ new.battery = testroutine
      OBVIOUS
    <3> HIDE DEF new
    <3>2. z' = OrderOf(words, Len(words) + 1)
                 + (IF Holds(words, Len(words) + 1, "-H") THEN 3 ELSE 0)
      BY <1>1, <1>4, <1>6, <1>7
    <3> QED BY <1>2, <1>4, <1>5, <1>6, <3>1, <3>2 DEF IsExperiment
  <2>2. new.line[1] = words[1]
    OBVIOUS
  <2> HIDE DEF new
  <2>3. \A e \in experiments' : IsExperiment(e) /\ e.line[1] = words[1]
    BY <1>1, <2>1, <2>2 DEF MainIInv, ExperimentsIInv
  <2> QED BY <2>3 DEF ExperimentsIInv, IsExperiment
<1>12. OptionsRead'
  BY <1>1 DEF OptionsRead
<1> QED BY <1>9, <1>10, <1>11, <1>12 DEF MainIInv

LEMMA BytesAreSeq ==
  ASSUME NEW n \in Nat, NEW x \in [1 .. n -> 0 .. 255]
  PROVE  x \in Seq(0 .. 255) /\ Len(x) = n
<1>1. x \in Seq(0 .. 255)
  BY SeqDef
<1>2. Len(x) \in Nat /\ 1 .. n = 1 .. Len(x)
  BY <1>1, LenProperties
<1> QED BY <1>1, <1>2

LEMMA HalfFacts ==
  ASSUME NEW x \in [1 .. 8 -> 0 .. 255]
  PROVE  /\ Main!lsb64(x) \in [1 .. 4 -> 0 .. 255]
         /\ Main!msb64(x) \in [1 .. 4 -> 0 .. 255]
         /\ \A b \in 1 .. 4 : Main!lsb64(x)[b] = x[b] /\ Main!msb64(x)[b] = x[b + 4]
<1>1. x \in Seq(0 .. 255) /\ Len(x) = 8
  BY BytesAreSeq
<1>2. Main!lsb64(x) \in Seq(0 .. 255) /\ Len(Main!lsb64(x)) = 4
  BY <1>1 DEF Main!lsb64
<1>3. Main!msb64(x) \in Seq(0 .. 255) /\ Len(Main!msb64(x)) = 4
  BY <1>1 DEF Main!msb64
<1>4. \A b \in 1 .. 4 : Main!lsb64(x)[b] = x[b] /\ Main!msb64(x)[b] = x[b + 4]
  BY <1>1 DEF Main!lsb64, Main!msb64
<1> QED BY <1>2, <1>3, <1>4

LEMMA DrawIInv ==
  ASSUME MainIInv, NEW x \in Outputs, Main!Draw(x)
  PROVE  MainIInv'
<1>1. /\ phase = "testing"
      /\ rng' = Main!thisrng(x) /\ folded' = Main!our_rng(z, rng')
      /\ UNCHANGED <<line, optind, seedvalue, testroutine, z, use_msb, phase,
                     announced, experiments>>
  BY DEF Main!Draw, Main!options
<1>2. x \in [1 .. 8 -> 0 .. 255]
  BY OutputsAssumption
<1>3. rng' \in [1 .. 8 -> 0 .. 255]
  <2>1. Main!lsb64(x) \in Seq(0 .. 255) /\ Len(Main!lsb64(x)) = 4
    BY <1>2, HalfFacts, BytesAreSeq, ZenonT(60)
  <2>2. <<0, 0, 0, 0>> \in Seq(0 .. 255) /\ Len(<<0, 0, 0, 0>>) = 4
    OBVIOUS
  <2>3. Main!lsb64(x) \o <<0, 0, 0, 0>> \in [1 .. 8 -> 0 .. 255]
    <3> DEFINE zeros == <<0, 0, 0, 0>>
               t == Main!lsb64(x) \o zeros
    <3>1. zeros \in Seq(0 .. 255) /\ Len(zeros) = 4
      BY <2>2
    <3> HIDE DEF zeros
    <3>2. t \in Seq(0 .. 255) /\ Len(t) = Len(Main!lsb64(x)) + Len(zeros)
      BY <2>1, <3>1, ConcatProperties, ZenonT(60)
    <3> HIDE DEF t
    <3>3. Len(t) = 8
      BY <2>1, <3>1, <3>2
    <3>4. t \in [1 .. Len(t) -> 0 .. 255]
      BY <3>2, LenProperties, Zenon
    <3> QED BY <3>3, <3>4 DEF t, zeros
  <2> QED BY <1>1, <1>2, <2>3 DEF Main!thisrng
<1>4. MainTypeOK' /\ OptionsRead'
  BY <1>1 DEF MainIInv, MainTypeOK, OptionsRead
<1>5. FoldingIInv'
  BY <1>1, <1>3 DEF MainIInv, FoldingIInv
<1>6. ExperimentsIInv'
  BY <1>1, ExperimentsStay DEF MainIInv
<1> QED BY <1>4, <1>5, <1>6 DEF MainIInv

LEMMA MainStepIInv == MainIInv /\ [Main!Next]_(Main!vars) => MainIInv'
<1> SUFFICES ASSUME MainIInv, [Main!Next]_(Main!vars) PROVE MainIInv'
  OBVIOUS
<1>1. CASE UNCHANGED Main!vars
  <2>1. UNCHANGED <<line, optind, seedvalue, testroutine, z, use_msb, phase,
                    announced, rng, folded, experiments>>
    BY <1>1 DEF Main!vars, Main!options
  <2>2. ExperimentsIInv'
    BY <2>1, ExperimentsStay DEF MainIInv
  <2> QED BY <2>1, <2>2 DEF MainIInv, MainTypeOK, FoldingIInv, OptionsRead
<1>2. CASE \E x \in Outputs : Main!Draw(x)
  BY <1>2, DrawIInv
<1> QED BY <1>1, <1>2, OrderIInv, BatteryIInv, HighIInv, SeedOptionIInv, LeaveMainIInv,
           AnnounceIInv DEF Main!Next

LEMMA MainInvariant == Main!Spec => []MainIInv
  BY MainInitIInv, MainStepIInv, PTL DEF Main!Spec

\* The table has the bits of every byte in reverse.
LEMMA ReversedByte ==
  ASSUME NEW b \in 0 .. 255, NEW r \in 0 .. 7
  PROVE  (Main!BitReverseTable256[b + 1] \div 2^r) % 2 = (b \div 2^(7 - r)) % 2
<1>1. Main!BitReverseTable256[b + 1] % 2 = (b \div 128) % 2
  BY SMTT(60) DEF Main!BitReverseTable256
<1>2. (Main!BitReverseTable256[b + 1] \div 2) % 2 = (b \div 64) % 2
  BY SMTT(60) DEF Main!BitReverseTable256
<1>3. (Main!BitReverseTable256[b + 1] \div 4) % 2 = (b \div 32) % 2
  BY SMTT(60) DEF Main!BitReverseTable256
<1>4. (Main!BitReverseTable256[b + 1] \div 8) % 2 = (b \div 16) % 2
  BY SMTT(60) DEF Main!BitReverseTable256
<1>5. (Main!BitReverseTable256[b + 1] \div 16) % 2 = (b \div 8) % 2
  BY SMTT(60) DEF Main!BitReverseTable256
<1>6. (Main!BitReverseTable256[b + 1] \div 32) % 2 = (b \div 4) % 2
  BY SMTT(60) DEF Main!BitReverseTable256
<1>7. (Main!BitReverseTable256[b + 1] \div 64) % 2 = (b \div 2) % 2
  BY SMTT(60) DEF Main!BitReverseTable256
<1>8. (Main!BitReverseTable256[b + 1] \div 128) % 2 = b % 2
  BY SMTT(60) DEF Main!BitReverseTable256
<1>9. /\ 2^0 = 1 /\ 2^1 = 2 /\ 2^2 = 4 /\ 2^3 = 8
      /\ 2^4 = 16 /\ 2^5 = 32 /\ 2^6 = 64 /\ 2^7 = 128
  OBVIOUS
<1>10. Main!BitReverseTable256[b + 1] \in Nat
  BY SMTT(60) DEF Main!BitReverseTable256
<1> DEFINE t == Main!BitReverseTable256[b + 1]
<1> HIDE DEF t
<1>11. /\ t \div 2^0 = t /\ b \div 2^0 = b
  BY <1>9, <1>10 DEF t
<1>12. CASE r = 0
  <2>1. 7 - r = 7
    BY <1>12
  <2> QED BY <1>1, <1>9, <1>11, <1>12, <2>1 DEF t
<1>13. CASE r = 1
  <2>1. 7 - r = 6
    BY <1>13
  <2> QED BY <1>2, <1>9, <1>11, <1>13, <2>1 DEF t
<1>14. CASE r = 2
  <2>1. 7 - r = 5
    BY <1>14
  <2> QED BY <1>3, <1>9, <1>11, <1>14, <2>1 DEF t
<1>15. CASE r = 3
  <2>1. 7 - r = 4
    BY <1>15
  <2> QED BY <1>4, <1>9, <1>11, <1>15, <2>1 DEF t
<1>16. CASE r = 4
  <2>1. 7 - r = 3
    BY <1>16
  <2> QED BY <1>5, <1>9, <1>11, <1>16, <2>1 DEF t
<1>17. CASE r = 5
  <2>1. 7 - r = 2
    BY <1>17
  <2> QED BY <1>6, <1>9, <1>11, <1>17, <2>1 DEF t
<1>18. CASE r = 6
  <2>1. 7 - r = 1
    BY <1>18
  <2> QED BY <1>7, <1>9, <1>11, <1>18, <2>1 DEF t
<1>19. CASE r = 7
  <2>1. 7 - r = 0
    BY <1>19
  <2> QED BY <1>8, <1>9, <1>11, <1>19, <2>1 DEF t
<1> QED BY <1>12, <1>13, <1>14, <1>15, <1>16, <1>17, <1>18, <1>19

\* Where a bit is, in a byte and in the words the byte is in.
LEMMA BitOfByte ==
  ASSUME NEW v, NEW q \in Nat, NEW r \in 0 .. 7
  PROVE  Main!Bit(v, 8 * q + r) = (v[q + 1] \div 2^r) % 2
<1>1. (8 * q + r) \div 8 = q /\ (8 * q + r) % 8 = r
  OBVIOUS
<1> QED BY <1>1 DEF Main!Bit

LEMMA FoldedBits ==
  ASSUME NEW w \in [1 .. 4 -> 0 .. 255], NEW p \in 0 .. 31
  PROVE  /\ Main!Bit(Main!bytereverse32(w), p) = Main!Bit(w, Main!Place("byte reverse", p))
         /\ Main!Bit(Main!bitreverse32(w), p) = Main!Bit(w, Main!Place("bit reverse", p))
<1> DEFINE q == p \div 8
           r == p % 8
<1>1. q \in 0 .. 3 /\ r \in 0 .. 7 /\ p = 8 * q + r
  OBVIOUS
<1>2. Main!Place("byte reverse", p) = 8 * (3 - q) + r
  BY DEF Main!Place
<1> HIDE DEF q, r
<1>3. Main!Place("bit reverse", p) = 8 * (3 - q) + (7 - r)
  BY <1>1 DEF Main!Place
<1>4. /\ 3 - q \in Nat /\ (3 - q) + 1 = 4 - q /\ 7 - r \in 0 .. 7 /\ q \in Nat
      /\ q + 1 \in 1 .. 4 /\ 5 - (q + 1) = 4 - q /\ 4 - q \in 1 .. 4
  BY <1>1
<1>5. Main!bytereverse32(w)[q + 1] = w[4 - q]
  <2>1. w \in Seq(0 .. 255) /\ Len(w) = 4
    BY BytesAreSeq
  <2> QED BY <1>4, <2>1 DEF Main!bytereverse32, Main!Reverse
<1>6. Main!Bit(Main!bytereverse32(w), p) = Main!Bit(w, Main!Place("byte reverse", p))
  <2>1. Main!Bit(Main!bytereverse32(w), p) = (Main!bytereverse32(w)[q + 1] \div 2^r) % 2
    BY <1>1, <1>4, BitOfByte
  <2>2. Main!Bit(w, 8 * (3 - q) + r) = (w[(3 - q) + 1] \div 2^r) % 2
    BY <1>1, <1>4, BitOfByte
  <2> QED BY <1>2, <1>4, <1>5, <2>1, <2>2
<1>7. Main!bitreverse32(w)[q + 1] = Main!BitReverseTable256[w[4 - q] + 1]
  BY <1>4 DEF Main!bitreverse32
<1>8. Main!Bit(Main!bitreverse32(w), p) = Main!Bit(w, Main!Place("bit reverse", p))
  <2>1. Main!Bit(Main!bitreverse32(w), p) = (Main!bitreverse32(w)[q + 1] \div 2^r) % 2
    BY <1>1, <1>4, BitOfByte
  <2>2. Main!Bit(w, 8 * (3 - q) + (7 - r)) = (w[(3 - q) + 1] \div 2^(7 - r)) % 2
    BY <1>1, <1>4, BitOfByte
  <2>3. w[4 - q] \in 0 .. 255
    BY <1>4
  <2>4. (Main!BitReverseTable256[w[4 - q] + 1] \div 2^r) % 2 = (w[4 - q] \div 2^(7 - r)) % 2
    BY <1>1, <2>3, ReversedByte
  <2> QED BY <1>3, <1>4, <1>7, <2>1, <2>2, <2>4
<1> QED BY <1>6, <1>8

LEMMA HalvesBits ==
  ASSUME NEW x \in [1 .. 8 -> 0 .. 255], NEW p \in 0 .. 31
  PROVE  /\ Main!Bit(Main!lsb64(x), p) = Main!Bit(x, p)
         /\ Main!Bit(Main!msb64(x), p) = Main!Bit(x, p + 32)
<1>1. PICK q \in 0 .. 3, r \in 0 .. 7 : p = 8 * q + r
  <2>1. p \div 8 \in 0 .. 3 /\ p % 8 \in 0 .. 7 /\ p = 8 * (p \div 8) + (p % 8)
    OBVIOUS
  <2> QED BY <2>1
<1>2. /\ q \in Nat /\ q + 4 \in Nat /\ p + 32 = 8 * (q + 4) + r
      /\ q + 1 \in 1 .. 4 /\ (q + 4) + 1 = (q + 1) + 4
  BY <1>1
<1>3. Main!lsb64(x)[q + 1] = x[q + 1] /\ Main!msb64(x)[q + 1] = x[(q + 4) + 1]
  <2>1. \A b \in 1 .. 4 : Main!lsb64(x)[b] = x[b] /\ Main!msb64(x)[b] = x[b + 4]
    BY HalfFacts, Zenon
  <2> QED BY ONLY <1>2, <2>1
<1>4. /\ Main!Bit(Main!lsb64(x), p) = (Main!lsb64(x)[q + 1] \div 2^r) % 2
      /\ Main!Bit(Main!msb64(x), p) = (Main!msb64(x)[q + 1] \div 2^r) % 2
      /\ Main!Bit(x, p) = (x[q + 1] \div 2^r) % 2
  BY <1>1, <1>2, BitOfByte
<1>5. Main!Bit(x, p + 32) = (x[(q + 4) + 1] \div 2^r) % 2
  BY <1>1, <1>2, BitOfByte, ZenonT(60)
<1> QED BY <1>3, <1>4, <1>5

LEMMA NameFacts ==
  /\ Main!our_name[0 + 1][1] = "lsb" /\ Main!our_name[0 + 1][2] = "as it is"
  /\ Main!our_name[1 + 1][1] = "lsb" /\ Main!our_name[1 + 1][2] = "byte reverse"
  /\ Main!our_name[2 + 1][1] = "lsb" /\ Main!our_name[2 + 1][2] = "bit reverse"
  /\ Main!our_name[3 + 1][1] = "msb" /\ Main!our_name[3 + 1][2] = "as it is"
  /\ Main!our_name[4 + 1][1] = "msb" /\ Main!our_name[4 + 1][2] = "byte reverse"
  /\ Main!our_name[5 + 1][1] = "msb" /\ Main!our_name[5 + 1][2] = "bit reverse"
  BY DEF Main!our_name

LEMMA RngFacts ==
  ASSUME NEW x
  PROVE   /\ Main!our_rng(0, x) = Main!lsb64(x)
         /\ Main!our_rng(1, x) = Main!bytereverse32(Main!lsb64(x))
         /\ Main!our_rng(2, x) = Main!bitreverse32(Main!lsb64(x))
         /\ Main!our_rng(3, x) = Main!msb64(x)
         /\ Main!our_rng(4, x) = Main!bytereverse32(Main!msb64(x))
         /\ Main!our_rng(5, x) = Main!bitreverse32(Main!msb64(x))
  BY DEF Main!our_rng

LEMMA OurRngBits ==
  ASSUME NEW x \in [1 .. 8 -> 0 .. 255], NEW n \in 0 .. 5, NEW p \in 0 .. 31
  PROVE  Main!Bit(Main!our_rng(n, x), p)
           = Main!Bit(x, Main!Place(Main!our_name[n + 1][2], p)
                           + (IF Main!our_name[n + 1][1] = "msb" THEN 32 ELSE 0))
<1> DEFINE place(order) == Main!Place(order, p)
           bit(order, high) == Main!Bit(x, place(order) + (IF high = "msb" THEN 32 ELSE 0))
<1>1. /\ place("as it is") = p /\ p \in Nat
      /\ place("byte reverse") \in 0 .. 31 /\ place("bit reverse") \in 0 .. 31
  BY DEF Main!Place
<1>2. Main!lsb64(x) \in [1 .. 4 -> 0 .. 255] /\ Main!msb64(x) \in [1 .. 4 -> 0 .. 255]
  BY HalfFacts
<1>3. \A k \in 0 .. 31 : Main!Bit(x, k + (IF "lsb" = "msb" THEN 32 ELSE 0)) = Main!Bit(x, k)
  <2>1. \A k \in 0 .. 31 : k + (IF "lsb" = "msb" THEN 32 ELSE 0) = k
    OBVIOUS
  <2> QED BY <2>1
<1>4. \A k \in 0 .. 31 :
        /\ Main!Bit(x, k + (IF "lsb" = "msb" THEN 32 ELSE 0)) = Main!Bit(Main!lsb64(x), k)
        /\ Main!Bit(x, k + (IF "msb" = "msb" THEN 32 ELSE 0)) = Main!Bit(Main!msb64(x), k)
  BY <1>3, HalvesBits
<1>5. \A w \in [1 .. 4 -> 0 .. 255] :
        /\ Main!Bit(Main!bytereverse32(w), p) = Main!Bit(w, place("byte reverse"))
        /\ Main!Bit(Main!bitreverse32(w), p) = Main!Bit(w, place("bit reverse"))
  BY FoldedBits
<1> HIDE DEF place
<1>6. /\ bit("as it is", "lsb") = Main!Bit(Main!our_rng(0, x), p)
      /\ bit("byte reverse", "lsb") = Main!Bit(Main!our_rng(1, x), p)
      /\ bit("bit reverse", "lsb") = Main!Bit(Main!our_rng(2, x), p)
  BY <1>1, <1>2, <1>4, <1>5, RngFacts, ZenonT(60)
<1>7. /\ bit("as it is", "msb") = Main!Bit(Main!our_rng(3, x), p)
      /\ bit("byte reverse", "msb") = Main!Bit(Main!our_rng(4, x), p)
      /\ bit("bit reverse", "msb") = Main!Bit(Main!our_rng(5, x), p)
  BY <1>1, <1>2, <1>4, <1>5, RngFacts, ZenonT(60)
<1>8. n = 0 \/ n = 1 \/ n = 2 \/ n = 3 \/ n = 4 \/ n = 5
  OBVIOUS
<1> HIDE DEF bit
<1>9. Main!Bit(Main!our_rng(n, x), p) = bit(Main!our_name[n + 1][2], Main!our_name[n + 1][1])
  BY <1>6, <1>7, <1>8, NameFacts, ZenonT(60)
<1> QED BY <1>9 DEF bit, place

LEMMA FoldingSuffices == MainIInv => FoldedAsAnnounced
<1> SUFFICES ASSUME MainIInv, folded # << >> PROVE FoldedAsAnnounced
  BY DEF FoldedAsAnnounced, Main!FoldedAsAnnounced
<1>1. /\ line \in 1 .. Len(lines) /\ z \in 0 .. 5 /\ (use_msb <=> z >= 3)
      /\ announced = Main!our_name[z + 1]
      /\ rng \in [1 .. 8 -> 0 .. 255] /\ folded = Main!our_rng(z, rng)
      /\ use_msb => "-H" \in WordsOf(lines[line])
  BY LinesAssumption, SMTT(30) DEF MainIInv, MainTypeOK, FoldingIInv
<1>2. \A p \in 0 .. 31 :
        Main!Bit(folded, p)
          = Main!Bit(rng, Main!Place(announced[2], p) + (IF announced[1] = "msb" THEN 32 ELSE 0))
  BY <1>1, OurRngBits
<1>3. lines[line][1] \in Main!Narrow => announced[1] = "lsb"
  <2>1. lines[line][1] \in Main!Narrow => z \in 0 .. 2
    BY <1>1, LinesFacts
  <2>2. z \in 0 .. 2 => Main!our_name[z + 1][1] = "lsb"
    <3>1. z \in 0 .. 2 => z = 0 \/ z = 1 \/ z = 2
      OBVIOUS
    <3> QED BY <3>1, NameFacts, Zenon
  <2> QED BY <1>1, <2>1, <2>2
<1> QED BY <1>2, <1>3 DEF FoldedAsAnnounced, Main!FoldedAsAnnounced

\* FoldedAsAnnounced of the main function: what a log says was tested was tested,
\* for every command line of the scripts and all words of the generators.
THEOREM FoldingCorrect == Main!Spec => []FoldedAsAnnounced
<1>1. Main!Spec => []MainIInv
  BY MainInvariant
<1>2. MainIInv => FoldedAsAnnounced
  BY FoldingSuffices
<1> QED BY <1>1, <1>2, PTL

\* The seed a test asks for: there is one place for it.
LEMMA SeedOfExperiment ==
  ASSUME NEW e, IsExperiment(e), Len(e.line) \in Nat,
         NEW k \in 2 .. Len(e.line), e.line[k] = "-S"
  PROVE  /\ k + 1 \in 2 .. Len(e.line) /\ IsSeed(e.line, k + 1)
         /\ Main!GivenSeed(e.line) = Number(e.line[k + 1])
         /\ Number(e.line[k + 1]) \in Nat \ {Main!DefaultSeed}
         /\ e.seed = Main!atoi(e.line[k + 1])
<1> DEFINE words == e.line
           places == {n \in 2 .. Len(words) : words[n] = "-S"}
<1>1. k \in 2 .. ((Len(words) + 1) - 1)
  OBVIOUS
<1>2. k + 1 < Len(words) + 1 /\ e.seed = Main!atoi(words[k + 1])
  BY <1>1, Zenon DEF IsExperiment, SeedRead
<1>3. k + 1 \in 2 .. Len(words) /\ (k + 1) - 1 = k /\ k + 1 > 2
  BY <1>2
<1>4. IsSeed(words, k + 1)
  BY <1>3 DEF IsSeed
<1>5. Number(words[k + 1]) \in Nat /\ Number(words[k + 1]) # Main!DefaultSeed
  BY <1>3, <1>4 DEF IsExperiment, IsTest
<1>6. Main!GivenSeed(words) = Number(words[k + 1])
  <2>1. \A n \in places : n = k
    BY DEF IsExperiment, IsTest
  <2>2. places = {k}
    BY <2>1
  <2>3. (CHOOSE n \in {k} : TRUE) = k
    OBVIOUS
  <2> QED BY <2>2, <2>3, Zenon DEF Main!GivenSeed
<1> QED BY <1>2, <1>3, <1>4, <1>5, <1>6

LEMMA NoSeedOfExperiment ==
  ASSUME NEW e, IsExperiment(e), Len(e.line) \in Nat,
         \A k \in 2 .. Len(e.line) : e.line[k] # "-S"
  PROVE  /\ Main!GivenSeed(e.line) = Main!DefaultSeed
         /\ e.seed = Main!DefaultSeed
<1>1. {n \in 2 .. Len(e.line) : e.line[n] = "-S"} = {}
  OBVIOUS
<1>2. ~Holds(e.line, Len(e.line) + 1, "-S")
  <2>1. (Len(e.line) + 1) - 1 = Len(e.line)
    OBVIOUS
  <2> QED BY <2>1, Zenon DEF Holds
<1> QED BY <1>1, <1>2, Zenon DEF Main!GivenSeed, IsExperiment, SeedRead

\* atoi takes two numbers for one another, or one for the default seed, only when
\* they are the same modulo 2^32.
LEMMA AtoiFacts ==
  ASSUME NEW v, NEW w, Number(v) \in Nat, Number(w) \in Nat
  PROVE  /\ Main!atoi(v) = Main!atoi(w) =>
              Number(v) % IntModulus = Number(w) % IntModulus
         /\ Main!atoi(v) = Main!DefaultSeed =>
              Number(v) % IntModulus = Main!DefaultSeed % IntModulus
<1>1. \A m \in Nat, n \in Nat \ {0} : m % n \in 0 .. (n - 1)
  OBVIOUS
<1>2. \A m \in Nat, n \in Nat \ {0} : 2 * m < n => m % n = m
  OBVIOUS
<1> DEFINE low(x) == Number(x) % IntModulus
<1>3. /\ low(v) \in 0 .. (IntModulus - 1) /\ low(w) \in 0 .. (IntModulus - 1)
      /\ IntModulus \in Nat \ {0}
  BY <1>1, OutputsAssumption
<1>4. \A x : Main!atoi(x) = IF 2 * low(x) < IntModulus THEN low(x) ELSE low(x) - IntModulus
  BY DEF Main!atoi
<1> HIDE DEF low
<1>5. Main!atoi(v) = Main!atoi(w) => low(v) = low(w)
  BY <1>3, <1>4
<1>6. ASSUME Main!atoi(v) = Main!DefaultSeed
      PROVE  low(v) = Main!DefaultSeed % IntModulus
  <2>1. Main!DefaultSeed \in Nat
    BY DEF Main!DefaultSeed
  <2>2. low(v) = Main!DefaultSeed /\ 2 * Main!DefaultSeed < IntModulus
    BY <1>3, <1>4, <1>6, <2>1
  <2> QED BY <1>2, <1>3, <2>1, <2>2
<1> QED BY <1>5, <1>6 DEF low

LEMMA SeedsSuffice ==
  ASSUME NEW e, NEW f, IsExperiment(e), IsExperiment(f),
         Len(e.line) \in Nat, Len(f.line) \in Nat, e.seed = f.seed
  PROVE  Main!GivenSeed(e.line) % IntModulus = Main!GivenSeed(f.line) % IntModulus
<1> DEFINE Given(d) == \E k \in 2 .. Len(d.line) : d.line[k] = "-S"
<1>1. CASE Given(e) /\ Given(f)
  <2>1. PICK j \in 2 .. Len(e.line) : e.line[j] = "-S"
    BY <1>1
  <2>2. PICK k \in 2 .. Len(f.line) : f.line[k] = "-S"
    BY <1>1
  <2>3. /\ Main!GivenSeed(e.line) = Number(e.line[j + 1])
        /\ Number(e.line[j + 1]) \in Nat /\ e.seed = Main!atoi(e.line[j + 1])
    BY <2>1, SeedOfExperiment
  <2>4. /\ Main!GivenSeed(f.line) = Number(f.line[k + 1])
        /\ Number(f.line[k + 1]) \in Nat /\ f.seed = Main!atoi(f.line[k + 1])
    BY <2>2, SeedOfExperiment
  <2> QED BY <2>3, <2>4, AtoiFacts
<1>2. ASSUME NEW c, NEW d, IsExperiment(c), IsExperiment(d), c.seed = d.seed,
             Len(c.line) \in Nat, Len(d.line) \in Nat, Given(c), ~Given(d)
      PROVE  Main!GivenSeed(c.line) % IntModulus = Main!GivenSeed(d.line) % IntModulus
  <2>1. PICK j \in 2 .. Len(c.line) : c.line[j] = "-S"
    BY <1>2
  <2>2. /\ Main!GivenSeed(c.line) = Number(c.line[j + 1])
        /\ Number(c.line[j + 1]) \in Nat /\ c.seed = Main!atoi(c.line[j + 1])
    BY <1>2, <2>1, SeedOfExperiment
  <2>3. Main!GivenSeed(d.line) = Main!DefaultSeed /\ d.seed = Main!DefaultSeed
    BY <1>2, NoSeedOfExperiment
  <2> QED BY <1>2, <2>2, <2>3, AtoiFacts
<1>3. CASE Given(e) /\ ~Given(f)
  BY <1>2, <1>3
<1>4. CASE ~Given(e) /\ Given(f)
  BY <1>2, <1>4
<1>5. CASE ~Given(e) /\ ~Given(f)
  BY <1>5, NoSeedOfExperiment
<1> QED BY <1>1, <1>3, <1>4, <1>5

LEMMA HoldsAll ==
  ASSUME NEW words, Len(words) \in Nat, NEW w
  PROVE  Holds(words, Len(words) + 1, w) <=> \E k \in 2 .. Len(words) : words[k] = w
<1>1. (Len(words) + 1) - 1 = Len(words)
  OBVIOUS
<1> QED BY <1>1, Zenon DEF Holds

\* The seed a test asks for, its folding and its battery tell the words of its
\* line but the first.
LEMMA SameWords ==
  ASSUME NEW e, NEW f, IsExperiment(e), IsExperiment(f), e.line[1] = f.line[1],
         Main!GivenSeed(e.line) = Main!GivenSeed(f.line),
         e.folding = f.folding, e.battery = f.battery
  PROVE  WordsOf(e.line) \subseteq WordsOf(f.line)
<1> DEFINE first == e.line
           second == f.line
           Says(words, w) == Holds(words, Len(words) + 1, w)
<1>1. /\ first \in CommandLines /\ second \in CommandLines
      /\ IsTest(first) /\ IsTest(second)
  BY DEF IsExperiment
<1>2. /\ Len(first) \in Nat \ {0} /\ Len(second) \in Nat \ {0}
      /\ first \in Seq(STRING) /\ second \in Seq(STRING)
  BY <1>1, LinesFacts DEF CommandLines
<1>3. /\ OrderOf(first, Len(first) + 1) \in 0 .. 2
      /\ OrderOf(second, Len(second) + 1) \in 0 .. 2
  BY DEF OrderOf
<1>4. /\ Says(first, "-H") <=> Says(second, "-H")
      /\ OrderOf(first, Len(first) + 1) = OrderOf(second, Len(second) + 1)
  BY <1>3 DEF IsExperiment
<1>5. BatteryOf(first, Len(first) + 1) = BatteryOf(second, Len(second) + 1)
  BY DEF IsExperiment
<1> HIDE DEF first, second, Says
<1>6. \A w : /\ Says(first, w) <=> \E k \in 2 .. Len(first) : first[k] = w
             /\ Says(second, w) <=> \E k \in 2 .. Len(second) : second[k] = w
  BY <1>2, HoldsAll, SMTT(30) DEF Says
<1>7. \A w \in Orders : Says(first, w) => Says(second, w)
  <2>1. ~(Says(first, "-r") /\ Says(first, "-z"))
    <3>1. SUFFICES ASSUME NEW j \in 2 .. Len(first), NEW k \in 2 .. Len(first),
                          first[j] = "-r", first[k] = "-z"
                   PROVE  FALSE
      BY <1>6
    <3>2. j # k /\ first[j] \in Orders /\ first[k] \in Orders
      BY <3>1 DEF Orders
    <3> QED BY <1>1, <3>2 DEF IsTest
  <2> QED BY <1>4, <2>1 DEF OrderOf, Orders, Says
<1>8. \A w \in Batteries : Says(first, w) => Says(second, w)
  <2>1. \A v, w \in Batteries : Says(first, v) /\ Says(first, w) => v = w
    <3>1. SUFFICES ASSUME NEW j \in 2 .. Len(first), NEW k \in 2 .. Len(first),
                          first[j] \in Batteries, first[k] \in Batteries
                   PROVE  first[j] = first[k]
      BY <1>6
    <3> QED BY <1>1, <3>1 DEF IsTest
  <2>2. \E w \in Batteries : Says(second, w)
    BY <1>1, <1>6 DEF IsTest
  <2> QED BY <1>5, <2>1, <2>2 DEF BatteryOf, Batteries, Says
<1>9. SUFFICES ASSUME NEW k \in 1 .. Len(first)
               PROVE  first[k] \in WordsOf(second)
  BY DEF WordsOf, first, second
<1>10. CASE k = 1
  <2>1. 1 \in 1 .. Len(second)
    BY <1>2
  <2> QED BY <1>10, <2>1 DEF WordsOf, first, second
<1>11. \A w : Says(second, w) => w \in WordsOf(second)
  <2>1. \A j \in 2 .. Len(second) : j \in 1 .. Len(second)
    BY <1>2
  <2> QED BY <1>6, <2>1 DEF WordsOf
<1>12. ASSUME NEW j \in 2 .. Len(first), first[j] = "-S"
       PROVE  /\ "-S" \in WordsOf(second) /\ first[j + 1] \in WordsOf(second)
  <2>1. /\ j + 1 \in 2 .. Len(first) /\ IsSeed(first, j + 1)
        /\ Main!GivenSeed(e.line) = Number(first[j + 1])
        /\ Main!GivenSeed(e.line) # Main!DefaultSeed
    BY <1>2, <1>12, SeedOfExperiment DEF first
  <2>2. Says(second, "-S")
    BY <1>2, <1>6, <2>1, NoSeedOfExperiment DEF second
  <2>3. PICK l \in 2 .. Len(second) : second[l] = "-S"
    BY <1>6, <2>2
  <2>4. /\ l + 1 \in 2 .. Len(second) /\ IsSeed(second, l + 1)
        /\ Main!GivenSeed(f.line) = Number(second[l + 1])
    BY <1>2, <2>3, SeedOfExperiment DEF second
  <2>5. j + 1 \in 1 .. Len(first) /\ l + 1 \in 1 .. Len(second)
    BY <2>1, <2>4
  <2>6. first[j + 1] = second[l + 1]
    <3>1. \A a, b \in CommandLines : \A m \in 1 .. Len(a), n \in 1 .. Len(b) :
            IsSeed(a, m) /\ IsSeed(b, n) /\ Number(a[m]) = Number(b[n]) => a[m] = b[n]
      BY LinesAssumption, Zenon
    <3>2. Number(first[j + 1]) = Number(second[l + 1])
      BY <2>1, <2>4
    <3> QED BY <1>1, <2>1, <2>4, <2>5, <3>1, <3>2, Zenon
  <2>7. "-S" \in WordsOf(second)
    BY <1>11, <2>2
  <2> QED BY <2>5, <2>6, <2>7 DEF WordsOf
<1>13. CASE k # 1 /\ IsSeed(first, k)
  <2>1. k - 1 \in 2 .. Len(first) /\ first[k - 1] = "-S" /\ (k - 1) + 1 = k
    BY <1>2, <1>13 DEF IsSeed
  <2> QED BY <1>12, <2>1
<1>14. CASE k # 1 /\ ~IsSeed(first, k)
  <2>1. k \in 2 .. Len(first)
    BY <1>14
  <2>2. first[k] \in Orders \cup Batteries \cup {"-H", "-S"} /\ Says(first, first[k])
    BY <1>1, <1>6, <1>14, <2>1 DEF IsTest
  <2> QED BY <1>4, <1>7, <1>8, <1>11, <1>12, <2>1, <2>2
<1> QED BY <1>10, <1>13, <1>14

LEMMA ExperimentsSuffice == MainIInv => DifferentTestsDiffer
<1> SUFFICES ASSUME MainIInv, NEW e \in experiments, NEW f \in experiments
             PROVE  /\ /\ Main!GivenSeed(e.line) = Main!GivenSeed(f.line)
                       /\ e.folding = f.folding /\ e.battery = f.battery
                       => e.line = f.line
                    /\ e.seed = f.seed =>
                         Main!GivenSeed(e.line) % IntModulus
                           = Main!GivenSeed(f.line) % IntModulus
  BY Zenon DEF DifferentTestsDiffer, Main!DifferentTestsDiffer
<1>1. IsExperiment(e) /\ IsExperiment(f) /\ e.line[1] = f.line[1]
  BY DEF MainIInv, ExperimentsIInv
<1>2. e.line \in CommandLines /\ f.line \in CommandLines
  BY <1>1 DEF IsExperiment
<1>3. ASSUME Main!GivenSeed(e.line) = Main!GivenSeed(f.line),
             e.folding = f.folding, e.battery = f.battery
      PROVE  e.line = f.line
  <2>1. WordsOf(e.line) \subseteq WordsOf(f.line)
    BY <1>1, <1>3, SameWords
  <2>2. WordsOf(f.line) \subseteq WordsOf(e.line)
    <3>1. /\ Main!GivenSeed(f.line) = Main!GivenSeed(e.line)
          /\ f.folding = e.folding /\ f.battery = e.battery /\ f.line[1] = e.line[1]
      BY <1>1, <1>3
    <3> QED BY <1>1, <3>1, SameWords
  <2>3. WordsOf(e.line) = WordsOf(f.line)
    BY <2>1, <2>2
  <2> QED BY <1>2, <2>3, LinesAssumption, Zenon
<1>4. e.seed = f.seed =>
        Main!GivenSeed(e.line) % IntModulus = Main!GivenSeed(f.line) % IntModulus
  <2>1. Len(e.line) \in Nat /\ Len(f.line) \in Nat
    BY <1>2, LinesFacts DEF CommandLines
  <2> QED BY <1>1, <2>1, SeedsSuffice
<1> QED BY <1>3, <1>4

\* DifferentTestsDiffer of the main function: whatever the command lines, as long
\* as they are made as the scripts make them, and whatever the seeds.
THEOREM ExperimentsCorrect == Main!Spec => []DifferentTestsDiffer
<1>1. Main!Spec => []MainIInv
  BY MainInvariant
<1>2. MainIInv => DifferentTestsDiffer
  BY ExperimentsSuffice
<1> QED BY <1>1, <1>2, PTL
=============================================================================
