--------------------------- MODULE PractRandPipe ----------------------------
(***************************************************************************)
(* practrand/runtests.sh: for every command, "./$t | ./RNG_test > log" and *)
(* then a verdict from a grep of the log.  The program writes its buffer   *)
(* to the pipe for ever; what ends it is the signal it gets when RNG_test, *)
(* at the other end, has gone.  RNG_test is external: it reads, reports,   *)
(* may find a failure, and may crash (the README warns of it).             *)
(***************************************************************************)
EXTENDS PractRandPrograms

CONSTANTS commands,      \* the commands, a sequence
          Missing,       \* the numbers of those whose executable is not there
          AES,           \* __AES__ was defined when the programs were built
          buffer_size,   \* 512 elements
          PipeSize,      \* the pipe's capacity, in units of 32 bits
          TLMAX          \* RNG_test's -tlmax, 512GB, in units of 32 bits

ASSUME CommandsAssumption == commands \in Seq(Command)

ASSUME SizesAssumption ==
  /\ AES \in BOOLEAN
  /\ buffer_size \in Nat \ {0} /\ PipeSize \in Nat \ {0} /\ TLMAX \in Nat \ {0}

VARIABLES t,           \* the command at hand
          program,     \* "off", "filling", "writing" or "ended"
          RNG_test,    \* "off", "reading" or "ended"
          generated,   \* the outputs the program has drawn from its generator
          buffer,      \* the part of the buffer fwrite has still to write
          pipe,
          received,    \* what RNG_test has read
          log,         \* the log file of each command: "FAIL" is in it, or not
          verdict,     \* what the script printed for each command
          found,       \* history: the commands RNG_test reported a failure for
          crashed,     \* history: the commands RNG_test crashed on
          tested       \* history: how much of each command RNG_test has read

script == <<t, verdict>>
history == <<found, crashed, tested>>
vars == <<t, program, RNG_test, generated, buffer, pipe, received, log, verdict,
          found, crashed, tested>>

Index == 1 .. Len(commands)

Units(c, from, to) == [j \in 1 .. (to - from) |-> Unit(c, from + j)]

-----------------------------------------------------------------------------
\* Logs of an earlier campaign may be there.
Init == /\ t = 1
        /\ program = "off" /\ RNG_test = "off"
        /\ generated = 0
        /\ buffer = << >> /\ pipe = << >> /\ received = << >>
        /\ log \in [Index -> SUBSET {"FAIL"}]
        /\ verdict = [c \in Index |-> "none"]
        /\ found = {} /\ crashed = {}
        /\ tested = [c \in Index |-> 0]

\* if [ ! -x "./$exe" ]: the log is left alone.
Skip ==
  /\ t \in Index /\ t \in Missing
  /\ program = "off"
  /\ verdict' = [verdict EXCEPT ![t] = "SKIPPING"]
  /\ t' = t + 1
  /\ UNCHANGED <<program, RNG_test, generated, buffer, pipe, received, log, history>>

\* Mutants: ">> $filelog"; the executable is not looked for.
Launch_Append ==
  /\ t \in Index /\ t \notin Missing
  /\ program = "off"
  /\ program' = IF commands[t].program.aes /\ ~AES THEN "ended" ELSE "filling"
  /\ RNG_test' = "reading"
  /\ generated' = 0
  /\ buffer' = << >> /\ pipe' = << >> /\ received' = << >>
  /\ UNCHANGED <<log, script, history>>

Launch_Unchecked ==
  /\ t \in Index
  /\ program = "off"
  /\ log' = [log EXCEPT ![t] = {}]
  /\ program' = "filling"
  /\ RNG_test' = "reading"
  /\ generated' = 0
  /\ buffer' = << >> /\ pipe' = << >> /\ received' = << >>
  /\ UNCHANGED <<script, history>>

\* ./$t | ./RNG_test stdin64 -tlmax $MEM > $filelog: the log is emptied.  A
\* program that is all inside #ifdef __AES__ returns at once without it.
Launch ==
  /\ t \in Index /\ t \notin Missing
  /\ program = "off"
  /\ log' = [log EXCEPT ![t] = {}]
  /\ program' = IF commands[t].program.aes /\ ~AES THEN "ended" ELSE "filling"
  /\ RNG_test' = "reading"
  /\ generated' = 0
  /\ buffer' = << >> /\ pipe' = << >> /\ received' = << >>
  /\ UNCHANGED <<script, history>>

-----------------------------------------------------------------------------
\* Mutant: k <= buffer_size, with the extra element lost.
Fill_OneMore ==
  /\ program = "filling"
  /\ generated' = generated + buffer_size + 1
  /\ LET width == Len(Halves(commands[t]))
     IN  buffer' = Units(commands[t], generated * width, (generated + buffer_size) * width)
  /\ program' = "writing"
  /\ UNCHANGED <<RNG_test, pipe, received, log, script, history>>

\* for (k = 0; k < buffer_size; k++) buffer[k] = ...: the next outputs.
Fill ==
  /\ program = "filling"
  /\ generated' = generated + buffer_size
  /\ LET width == Len(Halves(commands[t]))
     IN  buffer' = Units(commands[t], generated * width, generated' * width)
  /\ program' = "writing"
  /\ UNCHANGED <<RNG_test, pipe, received, log, script, history>>

\* Mutant: the program stops after the first buffer.
Write_Once ==
  /\ program = "writing" /\ RNG_test = "reading"
  /\ Len(pipe) < PipeSize
  /\ pipe' = Append(pipe, Head(buffer))
  /\ buffer' = Tail(buffer)
  /\ program' = IF buffer' = << >> THEN "ended" ELSE "writing"
  /\ UNCHANGED <<RNG_test, generated, received, log, script, history>>

\* fwrite blocks while the pipe is full; when all is written the program fills
\* its buffer again.
Write ==
  /\ program = "writing" /\ RNG_test = "reading"
  /\ Len(pipe) < PipeSize
  /\ pipe' = Append(pipe, Head(buffer))
  /\ buffer' = Tail(buffer)
  /\ program' = IF buffer' = << >> THEN "filling" ELSE "writing"
  /\ UNCHANGED <<RNG_test, generated, received, log, script, history>>

\* Mutant: the write waits for a reader until everything is written.
BrokenPipe_Waits ==
  /\ program = "writing" /\ RNG_test = "ended"
  /\ buffer = << >>
  /\ program' = "ended"
  /\ UNCHANGED <<RNG_test, generated, buffer, pipe, received, log, script, history>>

\* Nobody reads the pipe any more: SIGPIPE ends the program.
BrokenPipe ==
  /\ program = "writing" /\ RNG_test = "ended"
  /\ program' = "ended"
  /\ UNCHANGED <<RNG_test, generated, buffer, pipe, received, log, script, history>>

-----------------------------------------------------------------------------
Read ==
  /\ RNG_test = "reading"
  /\ pipe # << >> /\ Len(received) < TLMAX
  /\ received' = Append(received, Head(pipe))
  /\ pipe' = Tail(pipe)
  /\ tested' = [tested EXCEPT ![t] = @ + 1]
  /\ UNCHANGED <<program, RNG_test, generated, buffer, log, script, found, crashed>>

\* It reports a failure, and stops or goes on.
Report ==
  /\ RNG_test = "reading"
  /\ received # << >> /\ t \notin found
  /\ log' = [log EXCEPT ![t] = @ \cup {"FAIL"}]
  /\ found' = found \cup {t}
  /\ RNG_test' \in {"reading", "ended"}
  /\ UNCHANGED <<program, generated, buffer, pipe, received, script, crashed, tested>>

\* It stops when it has read as much as it was told to, or all there is.
Stop ==
  /\ RNG_test = "reading"
  /\ \/ Len(received) = TLMAX
     \/ program = "ended" /\ pipe = << >>
  /\ RNG_test' = "ended"
  /\ UNCHANGED <<program, generated, buffer, pipe, received, log, script, history>>

\* It crashes, or is not there at all: the pipe has no reader.
Crash ==
  /\ RNG_test = "reading"
  /\ RNG_test' = "ended"
  /\ crashed' = crashed \cup {t}
  /\ UNCHANGED <<program, generated, buffer, pipe, received, log, script, found, tested>>

-----------------------------------------------------------------------------
\* The script waits for both programs.  grep finds FAIL in the log, or it does
\* not; the exit codes of the two programs are not looked at.
Judge ==
  /\ program = "ended" /\ RNG_test = "ended"
  /\ verdict' = [verdict EXCEPT ![t] = IF "FAIL" \in log[t] THEN "Failure" ELSE "Success"]
  /\ t' = t + 1
  /\ program' = "off" /\ RNG_test' = "off"
  /\ buffer' = << >> /\ pipe' = << >> /\ received' = << >>
  /\ UNCHANGED <<generated, log, history>>

Script  == Skip \/ Launch \/ Judge
Running == Fill \/ Write \/ BrokenPipe
Testing == Read \/ Stop

Next == Script \/ Running \/ Testing \/ Report \/ Crash

\* Each of the three processes goes on when it can.  RNG_test need not find a
\* failure, and need not crash.
Spec == Init /\ [][Next]_vars
             /\ WF_vars(Script) /\ WF_vars(Running) /\ WF_vars(Testing)

-----------------------------------------------------------------------------
TypeOK ==
  /\ t \in 1 .. (Len(commands) + 1)
  /\ program \in {"off", "filling", "writing", "ended"}
  /\ RNG_test \in {"off", "reading", "ended"}
  /\ program # "off" => t \in Index \ Missing
  /\ RNG_test = "off" <=> program = "off"
  /\ program = "writing" <=> buffer # << >> /\ program # "ended"
  /\ generated \in Nat
  /\ Len(pipe) <= PipeSize
  /\ Len(received) <= TLMAX
  /\ log \in [Index -> SUBSET {"FAIL"}]
  /\ verdict \in [Index -> {"none", "SKIPPING", "Success", "Failure"}]
  /\ found \subseteq Index /\ crashed \subseteq Index
  /\ tested \in [Index -> 0 .. TLMAX]

\* However filling, blocking writes and reads interleave, what RNG_test has
\* read, what is in the pipe and what is left of the buffer are the program's
\* stream from its beginning: nothing is lost or repeated between two buffers.
StreamIntact ==
  LET stream == received \o pipe \o buffer
  IN  \A j \in 1 .. Len(stream) : stream[j] = Unit(commands[t], j)

\* "Failure!" is printed for the commands RNG_test reported a failure for in
\* this campaign, whatever an old log says and even when RNG_test crashed later.
FailuresAreReported ==
  \A c \in Index : verdict[c] \in {"Success", "Failure"} =>
                     (verdict[c] = "Failure" <=> c \in found)

\* "Success!" is printed for commands that were tested to the end, except when
\* RNG_test crashed or the program had nothing to run.
SuccessMeansTested ==
  \A c \in Index : verdict[c] = "Success" =>
    \/ tested[c] = TLMAX
    \/ c \in crashed
    \/ commands[c].program.aes /\ ~AES

\* The campaign comes to its end: programs that write for ever are ended.
CampaignEnds == <>(t > Len(commands))

-----------------------------------------------------------------------------
\* runtests.sh announces so much "of data per run".  What does not hold:
\* "Success!" means that RNG_test read that much.
SuccessMeansTestedInFull ==
  \A c \in Index : verdict[c] = "Success" => tested[c] = TLMAX

\* The README: "For PractRand, we do not need to truncate the produced random
\* bits", and the -H flag tests the most significant bits.  What does not hold:
\* RNG_test is given all the bits of every output without -H, and the high ones
\* of every output with it.
Asked(c) == IF c.H THEN <<"high">>
            ELSE IF c.program.word = 64 THEN <<"low", "high">> ELSE <<"low">>

AskedBitsAreTested ==
  t \in Index =>
    LET halves == Asked(commands[t])
        n == Len(halves)
    IN  \A j \in 1 .. Len(received) :
          received[j] = <<((j - 1) \div n) + 1, halves[((j - 1) % n) + 1]>>
=============================================================================
