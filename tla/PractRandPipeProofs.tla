------------------------ MODULE PractRandPipeProofs -------------------------
(***************************************************************************)
(* For every list of commands, size of buffer, capacity of the pipe and    *)
(* length of a test: RNG_test is given the program's stream as the program *)
(* wrote it, and the verdicts that runtests.sh prints are those of the     *)
(* tests it ran.                                                           *)
(***************************************************************************)
EXTENDS ProgramCampaigns, SequenceTheorems, TLAPS

HalfWord == Nat \X {"low", "high"}

-----------------------------------------------------------------------------
\* An element of a program's buffer has one half or two.
LEMMA HalvesFacts ==
  ASSUME NEW c \in Command
  PROVE  /\ Len(Halves(c)) \in {1, 2}
         /\ \A n \in 1 .. Len(Halves(c)) : Halves(c)[n] \in {"low", "high"}
BY DEF Halves

\* What a program writes are halves of its generator's outputs.
LEMMA UnitType ==
  ASSUME NEW c \in Command, NEW j \in Nat \ {0}
  PROVE  Unit(c, j) \in HalfWord
<1> DEFINE n == Len(Halves(c))
<1>1. n \in {1, 2} /\ \A k \in 1 .. n : Halves(c)[k] \in {"low", "high"}
  BY HalvesFacts
<1> HIDE DEF n
<1>2. ((j - 1) \div n) + 1 \in Nat /\ ((j - 1) % n) + 1 \in 1 .. n
  BY <1>1
<1> QED BY <1>1, <1>2 DEF Unit, HalfWord, n

\* The units that fill a buffer are a sequence of as many.
LEMMA UnitsFacts ==
  ASSUME NEW c \in Command, NEW from \in Nat, NEW to \in Nat, from <= to
  PROVE  /\ Units(c, from, to) \in Seq(HalfWord)
         /\ Len(Units(c, from, to)) = to - from
         /\ \A j \in 1 .. (to - from) : Units(c, from, to)[j] = Unit(c, from + j)
<1>1. to - from \in Nat /\ \A j \in 1 .. (to - from) : from + j \in Nat \ {0}
  OBVIOUS
<1>2. \A j \in 1 .. (to - from) : Unit(c, from + j) \in HalfWord
  BY <1>1, UnitType
<1> QED BY <1>1, <1>2 DEF Units

-----------------------------------------------------------------------------
(***************************************************************************)
(* The stream, in its three places: each of them goes on where the one     *)
(* before it ends, and together they are all that was generated, as long   *)
(* as the program runs.                                                    *)
(***************************************************************************)
StreamTypes ==
  /\ received \in Seq(HalfWord) /\ pipe \in Seq(HalfWord) /\ buffer \in Seq(HalfWord)
  /\ program = "off" => received = << >> /\ pipe = << >> /\ buffer = << >>

InPlace ==
  /\ \A j \in 1 .. Len(received) : received[j] = Unit(commands[t], j)
  /\ \A j \in 1 .. Len(pipe) : pipe[j] = Unit(commands[t], Len(received) + j)
  /\ \A j \in 1 .. Len(buffer) :
       buffer[j] = Unit(commands[t], Len(received) + Len(pipe) + j)

AllGenerated ==
  program \in {"filling", "writing"} =>
    generated * Len(Halves(commands[t])) = Len(received) + Len(pipe) + Len(buffer)

\* The log and the histories of the command at hand, and that nothing is known
\* yet of the commands after it.
Current ==
  program # "off" => /\ verdict[t] = "none"
                     /\ tested[t] = Len(received)
                     /\ "FAIL" \in log[t] <=> t \in found

Untouched ==
  \A c \in Index : c > t \/ (c = t /\ program = "off") =>
    verdict[c] = "none" /\ tested[c] = 0 /\ c \notin found

\* Why a test that reads its input has a program that still writes, and why one
\* that is over is over.
NoAES(c) == commands[c].program.aes /\ ~AES

Reasons ==
  /\ program = "ended" /\ RNG_test = "reading" => NoAES(t)
  /\ RNG_test = "ended" => \/ Len(received) = TLMAX
                           \/ t \in found
                           \/ t \in crashed
                           \/ NoAES(t)

IInv == /\ TypeOK
        /\ StreamTypes /\ InPlace /\ AllGenerated
        /\ Current /\ Untouched /\ Reasons
        /\ FailuresAreReported /\ SuccessMeansTested

-----------------------------------------------------------------------------
LEMMA InitIInv == Init => IInv
<1> SUFFICES ASSUME Init PROVE IInv
  OBVIOUS
<1> USE CommandsAssumption, SizesAssumption DEF Init, Index
<1>1. Len(commands) \in Nat
  OBVIOUS
<1>2. TypeOK
  BY <1>1 DEF TypeOK
<1>3. StreamTypes /\ InPlace /\ AllGenerated
  BY DEF StreamTypes, InPlace, AllGenerated
<1>4. Current /\ Untouched /\ Reasons
  BY DEF Current, Untouched, Reasons
<1>5. FailuresAreReported /\ SuccessMeansTested
  BY DEF FailuresAreReported, SuccessMeansTested
<1> QED BY <1>2, <1>3, <1>4, <1>5 DEF IInv

\* What the proofs about the actions use of the types: the command at hand is
\* a command, and the lengths are numbers.
LEMMA TypeFacts ==
  ASSUME TypeOK, StreamTypes
  PROVE  /\ Len(commands) \in Nat /\ t \in Nat
         /\ t \in Index => commands[t] \in Command
         /\ program # "off" => t \in Index /\ t \notin Missing
         /\ Len(received) \in Nat /\ Len(pipe) \in Nat /\ Len(buffer) \in Nat
         /\ PipeSize \in Nat /\ TLMAX \in Nat \ {0} /\ buffer_size \in Nat \ {0}
BY CommandsAssumption, SizesAssumption DEF TypeOK, StreamTypes, Index

\* A command that is skipped or judged is done with: the histories say nothing
\* of it that its verdict does not.
LEMMA SkipIInv == IInv /\ Skip => IInv'
<1> SUFFICES ASSUME IInv, Skip PROVE IInv'
  OBVIOUS
<1> USE TypeFacts DEF IInv, Skip, Index, history
<1>1. TypeOK'
  BY DEF TypeOK
<1>2. StreamTypes' /\ InPlace' /\ AllGenerated'
  BY DEF StreamTypes, InPlace, AllGenerated
<1>3. Current' /\ Untouched' /\ Reasons'
  BY DEF Current, Untouched, Reasons, TypeOK
<1>4. FailuresAreReported' /\ SuccessMeansTested'
  BY DEF FailuresAreReported, SuccessMeansTested, TypeOK
<1> QED BY <1>1, <1>2, <1>3, <1>4

LEMMA LaunchIInv == IInv /\ Launch => IInv'
<1> SUFFICES ASSUME IInv, Launch PROVE IInv'
  OBVIOUS
<1> USE TypeFacts DEF IInv, Launch, Index, history, script
<1>1. TypeOK'
  BY DEF TypeOK
<1>2. StreamTypes' /\ InPlace' /\ AllGenerated'
  BY HalvesFacts DEF StreamTypes, InPlace, AllGenerated
<1>3. Current' /\ Untouched' /\ Reasons'
  BY DEF Current, Untouched, Reasons, TypeOK, NoAES
<1>4. FailuresAreReported' /\ SuccessMeansTested'
  BY DEF FailuresAreReported, SuccessMeansTested, TypeOK
<1> QED BY <1>1, <1>2, <1>3, <1>4

\* The new buffer goes on where the old one ended: all of it was written.
LEMMA FillIInv == IInv /\ Fill => IInv'
<1> SUFFICES ASSUME IInv, Fill PROVE IInv'
  OBVIOUS
<1> DEFINE c == commands[t]
           width == Len(Halves(c))
           from == generated * width
           to == generated' * width
<1>1. /\ program = "filling" /\ program' = "writing" /\ RNG_test # "off"
      /\ generated \in Nat /\ generated' = generated + buffer_size
      /\ buffer = << >> /\ buffer' = Units(c, from, to)
      /\ UNCHANGED <<t, RNG_test, pipe, received, log, verdict, found, crashed, tested>>
  BY DEF IInv, TypeOK, Fill, script, history
<1>2. c \in Command /\ width \in {1, 2}
  BY <1>1, TypeFacts, HalvesFacts DEF IInv
<1>3. from \in Nat /\ to \in Nat /\ from < to /\ generated' \in Nat
  <2>1. \A n \in Nat, w \in {1, 2} : n * w = IF w = 1 THEN n ELSE 2 * n
    OBVIOUS
  <2>2. generated' \in Nat /\ generated < generated'
    BY <1>1, SizesAssumption
  <2>3. /\ from = IF width = 1 THEN generated ELSE 2 * generated
        /\ to = IF width = 1 THEN generated' ELSE 2 * generated'
    BY ONLY <1>1, <1>2, <2>1, <2>2
  <2> HIDE DEF width, from, to
  <2> QED BY <1>1, <2>2, <2>3
<1>4. from = Len(received) + Len(pipe)
  BY <1>1, TypeFacts DEF IInv, AllGenerated
<1> HIDE DEF c, width, from, to
<1>5. /\ buffer' \in Seq(HalfWord) /\ Len(buffer') = to - from
      /\ \A j \in 1 .. Len(buffer') : buffer'[j] = Unit(c, from + j)
  <2>1. from <= to
    BY <1>3
  <2>2. /\ Units(c, from, to) \in Seq(HalfWord)
        /\ Len(Units(c, from, to)) = to - from
        /\ \A j \in 1 .. (to - from) : Units(c, from, to)[j] = Unit(c, from + j)
    BY <1>2, <1>3, <2>1, UnitsFacts
  <2> QED BY <1>1, <2>2
<1>6. TypeOK'
  BY <1>1, <1>3, <1>5 DEF IInv, TypeOK
<1>7. StreamTypes' /\ InPlace' /\ AllGenerated'
  <2>1. to = generated' * Len(Halves(commands'[t'])) /\ c = commands[t]
    BY <1>1 DEF to, width, c
  <2>2. Len(received) \in Nat /\ Len(pipe) \in Nat
    BY TypeFacts DEF IInv
  <2>3. StreamTypes'
    BY <1>1, <1>5 DEF IInv, StreamTypes
  <2>4. InPlace'
    BY <1>1, <1>4, <1>5, <2>1, <2>2 DEF IInv, InPlace
  <2>5. AllGenerated'
    <3>1. Len(received') + Len(pipe') + Len(buffer') = to
      BY <1>1, <1>3, <1>4, <1>5, <2>2
    <3> QED BY <2>1, <3>1 DEF AllGenerated
  <2> QED BY <2>3, <2>4, <2>5
<1>8. Current' /\ Untouched' /\ Reasons'
  BY <1>1 DEF IInv, Current, Untouched, Reasons, NoAES
<1>9. FailuresAreReported' /\ SuccessMeansTested'
  BY <1>1 DEF IInv, FailuresAreReported, SuccessMeansTested
<1> QED BY <1>6, <1>7, <1>8, <1>9 DEF IInv

\* One unit moves from the head of the buffer to the end of the pipe, and so
\* keeps its place in the stream; so do those behind it.
LEMMA WriteIInv == IInv /\ Write => IInv'
<1> SUFFICES ASSUME IInv, Write PROVE IInv'
  OBVIOUS
<1>1. /\ program = "writing" /\ RNG_test = "reading" /\ buffer # << >>
      /\ Len(pipe) < PipeSize
      /\ pipe' = Append(pipe, Head(buffer)) /\ buffer' = Tail(buffer)
      /\ program' = IF buffer' = << >> THEN "filling" ELSE "writing"
      /\ UNCHANGED <<t, RNG_test, generated, received, log, verdict, found, crashed, tested>>
  BY DEF IInv, TypeOK, Write, script, history
<1>2. /\ t \in Index /\ t \notin Missing
      /\ Len(received) \in Nat /\ Len(pipe) \in Nat /\ Len(buffer) \in Nat \ {0}
      /\ pipe \in Seq(HalfWord) /\ buffer \in Seq(HalfWord) /\ received \in Seq(HalfWord)
  BY <1>1, TypeFacts DEF IInv, StreamTypes
<1>3. /\ pipe' \in Seq(HalfWord) /\ Len(pipe') = Len(pipe) + 1
      /\ \A j \in 1 .. Len(pipe) : pipe'[j] = pipe[j]
      /\ pipe'[Len(pipe) + 1] = buffer[1]
  BY <1>1, <1>2, HeadTailProperties, AppendProperties
<1>4. /\ buffer' \in Seq(HalfWord) /\ Len(buffer') = Len(buffer) - 1
      /\ \A j \in 1 .. Len(buffer') : buffer'[j] = buffer[j + 1]
  BY <1>1, <1>2, HeadTailProperties
<1>5. buffer' = << >> <=> Len(buffer') = 0
  BY <1>4
<1>6. TypeOK'
  <2>1. program' = "writing" <=> buffer' # << >> /\ program' # "ended"
    BY <1>1
  <2>2. Len(pipe') <= PipeSize
    BY <1>1, <1>2, <1>3, SizesAssumption
  <2> QED BY <1>1, <1>2, <2>1, <2>2 DEF IInv, TypeOK
<1>7. InPlace'
  <2>1. \A j \in 1 .. Len(pipe') : pipe'[j] = Unit(commands[t], Len(received) + j)
    <3> SUFFICES ASSUME NEW j \in 1 .. Len(pipe')
                 PROVE  pipe'[j] = Unit(commands[t], Len(received) + j)
      OBVIOUS
    <3>1. CASE j = Len(pipe) + 1
      <4>1. buffer[1] = Unit(commands[t], Len(received) + Len(pipe) + 1)
        BY <1>2 DEF IInv, InPlace
      <4>2. Len(received) + j = Len(received) + Len(pipe) + 1
        BY <1>2, <3>1
      <4> QED BY <1>3, <3>1, <4>1, <4>2
    <3>2. CASE j # Len(pipe) + 1
      <4>1. j \in 1 .. Len(pipe)
        BY <1>2, <1>3, <3>2
      <4> QED BY <1>3, <4>1 DEF IInv, InPlace
    <3> QED BY <3>1, <3>2
  <2>2. ASSUME NEW j \in 1 .. Len(buffer')
        PROVE  buffer'[j] = Unit(commands[t], Len(received) + Len(pipe') + j)
    <3>1. j + 1 \in 1 .. Len(buffer)
      BY <1>2, <1>4
    <3>2. buffer[j + 1] = Unit(commands[t], Len(received) + Len(pipe) + (j + 1))
      BY <3>1 DEF IInv, InPlace
    <3>3. Len(received) + Len(pipe) + (j + 1) = Len(received) + Len(pipe') + j
      BY <1>2, <1>3, <3>1
    <3> QED BY <1>4, <3>2, <3>3
  <2> QED BY <1>1, <2>1, <2>2 DEF IInv, InPlace
<1>8. StreamTypes' /\ AllGenerated'
  BY <1>1, <1>2, <1>3, <1>4 DEF IInv, StreamTypes, AllGenerated
<1>9. Current' /\ Untouched' /\ Reasons'
  BY <1>1 DEF IInv, Current, Untouched, Reasons, NoAES
<1>10. FailuresAreReported' /\ SuccessMeansTested'
  BY <1>1 DEF IInv, FailuresAreReported, SuccessMeansTested
<1> QED BY <1>6, <1>7, <1>8, <1>9, <1>10 DEF IInv

\* Nothing moves any more.
LEMMA BrokenPipeIInv == IInv /\ BrokenPipe => IInv'
<1> SUFFICES ASSUME IInv, BrokenPipe PROVE IInv'
  OBVIOUS
<1>1. /\ program = "writing" /\ RNG_test = "ended" /\ program' = "ended"
      /\ UNCHANGED <<t, RNG_test, generated, buffer, pipe, received, log, verdict,
                     found, crashed, tested>>
  BY DEF BrokenPipe, script, history
<1>2. TypeOK'
  BY <1>1 DEF IInv, TypeOK
<1>3. StreamTypes' /\ InPlace' /\ AllGenerated'
  BY <1>1 DEF IInv, StreamTypes, InPlace, AllGenerated
<1>4. Current' /\ Untouched' /\ Reasons'
  BY <1>1 DEF IInv, Current, Untouched, Reasons, NoAES
<1>5. FailuresAreReported' /\ SuccessMeansTested'
  BY <1>1 DEF IInv, FailuresAreReported, SuccessMeansTested
<1> QED BY <1>2, <1>3, <1>4, <1>5 DEF IInv

-----------------------------------------------------------------------------
\* One unit moves from the head of the pipe to the end of what was read.
LEMMA ReadIInv == IInv /\ Read => IInv'
<1> SUFFICES ASSUME IInv, Read PROVE IInv'
  OBVIOUS
<1>1. /\ RNG_test = "reading" /\ pipe # << >> /\ Len(received) < TLMAX
      /\ program # "off"
      /\ received' = Append(received, Head(pipe)) /\ pipe' = Tail(pipe)
      /\ tested' = [tested EXCEPT ![t] = @ + 1]
      /\ UNCHANGED <<t, program, RNG_test, generated, buffer, log, verdict, found, crashed>>
  BY DEF IInv, TypeOK, Read, script
<1>2. /\ t \in Index /\ t \in Nat
      /\ Len(received) \in Nat /\ Len(pipe) \in Nat \ {0} /\ Len(buffer) \in Nat
      /\ received \in Seq(HalfWord) /\ pipe \in Seq(HalfWord) /\ buffer \in Seq(HalfWord)
  BY <1>1, TypeFacts DEF IInv, StreamTypes
<1>3. /\ received' \in Seq(HalfWord) /\ Len(received') = Len(received) + 1
      /\ \A j \in 1 .. Len(received) : received'[j] = received[j]
      /\ received'[Len(received) + 1] = pipe[1]
  BY <1>1, <1>2, HeadTailProperties, AppendProperties
<1>4. /\ pipe' \in Seq(HalfWord) /\ Len(pipe') = Len(pipe) - 1
      /\ \A j \in 1 .. Len(pipe') : pipe'[j] = pipe[j + 1]
  BY <1>1, <1>2, HeadTailProperties
<1>5. /\ tested[t] = Len(received) /\ tested'[t] = Len(received')
      /\ \A c \in Index : c # t => tested'[c] = tested[c]
      /\ tested' \in [Index -> 0 .. TLMAX]
  BY <1>1, <1>2, <1>3, SizesAssumption, SMTT(30) DEF IInv, TypeOK, Current
<1>6. TypeOK'
  BY <1>1, <1>2, <1>3, <1>4, <1>5, SizesAssumption DEF IInv, TypeOK
<1>7. InPlace'
  <2>1. ASSUME NEW j \in 1 .. Len(received')
        PROVE  received'[j] = Unit(commands[t], j)
    <3>1. CASE j = Len(received) + 1
      <4>1. pipe[1] = Unit(commands[t], Len(received) + 1)
        BY <1>2 DEF IInv, InPlace
      <4> QED BY <1>3, <3>1, <4>1
    <3>2. CASE j # Len(received) + 1
      <4>1. j \in 1 .. Len(received)
        BY <1>2, <1>3, <3>2
      <4> QED BY <1>3, <4>1 DEF IInv, InPlace
    <3> QED BY <3>1, <3>2
  <2>2. ASSUME NEW j \in 1 .. Len(pipe')
        PROVE  pipe'[j] = Unit(commands[t], Len(received') + j)
    <3>1. j + 1 \in 1 .. Len(pipe)
      BY <1>2, <1>4
    <3>2. pipe[j + 1] = Unit(commands[t], Len(received) + (j + 1))
      BY <3>1 DEF IInv, InPlace
    <3>3. Len(received) + (j + 1) = Len(received') + j
      BY <1>2, <1>3, <3>1
    <3> QED BY <1>4, <3>2, <3>3
  <2>3. Len(received') + Len(pipe') = Len(received) + Len(pipe)
    BY <1>2, <1>3, <1>4
  <2> QED BY <1>1, <2>1, <2>2, <2>3 DEF IInv, InPlace
<1>8. StreamTypes' /\ AllGenerated'
  BY <1>1, <1>2, <1>3, <1>4 DEF IInv, StreamTypes, AllGenerated
<1>9. Current'
  BY <1>1, <1>5 DEF IInv, Current
<1>10. Untouched'
  BY <1>1, <1>2, <1>5 DEF IInv, Untouched
<1>11. Reasons'
  BY <1>1 DEF IInv, TypeOK, Reasons, NoAES
<1>12. FailuresAreReported' /\ SuccessMeansTested'
  BY <1>1, <1>5 DEF IInv, Current, FailuresAreReported, SuccessMeansTested
<1> QED BY <1>6, <1>7, <1>8, <1>9, <1>10, <1>11, <1>12 DEF IInv

LEMMA ReportIInv == IInv /\ Report => IInv'
<1> SUFFICES ASSUME IInv, Report PROVE IInv'
  OBVIOUS
<1>1. /\ RNG_test = "reading" /\ program # "off" /\ received # << >>
      /\ log' = [log EXCEPT ![t] = @ \cup {"FAIL"}]
      /\ found' = found \cup {t}
      /\ RNG_test' \in {"reading", "ended"}
      /\ UNCHANGED <<t, program, generated, buffer, pipe, received, verdict, crashed, tested>>
  BY DEF IInv, TypeOK, Report, script
<1>2. t \in Index /\ t \in Nat
  BY <1>1, TypeFacts DEF IInv
<1>3. TypeOK'
  BY <1>1, <1>2 DEF IInv, TypeOK
<1>4. StreamTypes' /\ InPlace' /\ AllGenerated'
  BY <1>1 DEF IInv, StreamTypes, InPlace, AllGenerated
<1>5. Current' /\ Untouched' /\ Reasons'
  BY <1>1, <1>2 DEF IInv, TypeOK, Current, Untouched, Reasons, NoAES, Index
<1>6. FailuresAreReported' /\ SuccessMeansTested'
  BY <1>1, <1>2 DEF IInv, Current, FailuresAreReported, SuccessMeansTested
<1> QED BY <1>3, <1>4, <1>5, <1>6 DEF IInv

LEMMA StopIInv == IInv /\ Stop => IInv'
<1> SUFFICES ASSUME IInv, Stop PROVE IInv'
  OBVIOUS
<1>1. /\ RNG_test = "reading" /\ RNG_test' = "ended" /\ program # "off"
      /\ Len(received) = TLMAX \/ program = "ended"
      /\ UNCHANGED <<t, program, generated, buffer, pipe, received, log, verdict,
                     found, crashed, tested>>
  BY DEF IInv, TypeOK, Stop, script, history
<1>2. TypeOK'
  BY <1>1 DEF IInv, TypeOK
<1>3. StreamTypes' /\ InPlace' /\ AllGenerated'
  BY <1>1 DEF IInv, StreamTypes, InPlace, AllGenerated
<1>4. Current' /\ Untouched' /\ Reasons'
  BY <1>1 DEF IInv, Current, Untouched, Reasons, NoAES
<1>5. FailuresAreReported' /\ SuccessMeansTested'
  BY <1>1 DEF IInv, FailuresAreReported, SuccessMeansTested
<1> QED BY <1>2, <1>3, <1>4, <1>5 DEF IInv

LEMMA CrashIInv == IInv /\ Crash => IInv'
<1> SUFFICES ASSUME IInv, Crash PROVE IInv'
  OBVIOUS
<1>1. /\ RNG_test = "reading" /\ RNG_test' = "ended" /\ program # "off"
      /\ crashed' = crashed \cup {t}
      /\ UNCHANGED <<t, program, generated, buffer, pipe, received, log, verdict,
                     found, tested>>
  BY DEF IInv, TypeOK, Crash, script
<1>2. t \in Index
  BY <1>1, TypeFacts DEF IInv
<1>3. TypeOK'
  BY <1>1, <1>2 DEF IInv, TypeOK
<1>4. StreamTypes' /\ InPlace' /\ AllGenerated'
  BY <1>1 DEF IInv, StreamTypes, InPlace, AllGenerated
<1>5. Current' /\ Untouched' /\ Reasons'
  BY <1>1 DEF IInv, Current, Untouched, Reasons, NoAES
<1>6. FailuresAreReported' /\ SuccessMeansTested'
  BY <1>1 DEF IInv, FailuresAreReported, SuccessMeansTested
<1> QED BY <1>3, <1>4, <1>5, <1>6 DEF IInv

\* The log tells what was found, and a test that is over has its reason.
LEMMA JudgeIInv == IInv /\ Judge => IInv'
<1> SUFFICES ASSUME IInv, Judge PROVE IInv'
  OBVIOUS
<1>1. /\ program = "ended" /\ RNG_test = "ended"
      /\ verdict' = [verdict EXCEPT
                       ![t] = IF "FAIL" \in log[t] THEN "Failure" ELSE "Success"]
      /\ t' = t + 1 /\ program' = "off" /\ RNG_test' = "off"
      /\ buffer' = << >> /\ pipe' = << >> /\ received' = << >>
      /\ UNCHANGED <<generated, log, found, crashed, tested>>
  BY DEF Judge, history
<1>2. t \in Index /\ t \in Nat /\ Len(commands) \in Nat 
      /\ verdict \in [Index -> {"none", "SKIPPING", "Success", "Failure"}]
  BY <1>1, TypeFacts DEF IInv, TypeOK
<1>3. /\ verdict'[t] = IF t \in found THEN "Failure" ELSE "Success"
      /\ \A c \in Index : c # t => verdict'[c] = verdict[c]
  BY <1>1, <1>2 DEF IInv, Current
<1>4. TypeOK'
  BY <1>1, <1>2, SizesAssumption DEF IInv, TypeOK, Index
<1>5. StreamTypes' /\ InPlace' /\ AllGenerated'
  BY <1>1 DEF StreamTypes, InPlace, AllGenerated
<1>6. Current' /\ Reasons'
  BY <1>1 DEF Current, Reasons
<1>7. Untouched'
  BY <1>1, <1>2, <1>3 DEF IInv, Untouched, Index
<1>8. FailuresAreReported'
  BY <1>1, <1>3 DEF IInv, FailuresAreReported
<1>9. SuccessMeansTested'
  BY <1>1, <1>2, <1>3 DEF IInv, Current, Reasons, NoAES, SuccessMeansTested
<1> QED BY <1>4, <1>5, <1>6, <1>7, <1>8, <1>9 DEF IInv

LEMMA StepIInv == IInv /\ [Next]_vars => IInv'
<1>1. IInv /\ UNCHANGED vars => IInv'
  BY DEF IInv, TypeOK, StreamTypes, InPlace, AllGenerated, Current, Untouched, Reasons,
         NoAES, FailuresAreReported, SuccessMeansTested, vars
<1> QED BY <1>1, SkipIInv, LaunchIInv, JudgeIInv, FillIInv, WriteIInv, BrokenPipeIInv,
           ReadIInv, StopIInv, ReportIInv, CrashIInv
        DEF Next, Script, Running, Testing

-----------------------------------------------------------------------------
\* The script's position, the two processes, the pipe and the logs keep their
\* types; the pipe never holds more than its capacity.
THEOREM TypeCorrect == Spec => []TypeOK
<1>1. IInv => TypeOK
  BY DEF IInv
<1> QED BY <1>1, InitIInv, StepIInv, PTL DEF Spec

\* RNG_test reads the stream from its beginning, nothing lost or repeated
\* between two buffers, whatever part of it is in the pipe or still to write.
THEOREM StreamCorrect == Spec => []StreamIntact
<1>1. IInv => StreamIntact
  <2> SUFFICES ASSUME IInv PROVE StreamIntact
    OBVIOUS
  <2> DEFINE n == Len(received)
             m == Len(pipe)
             k == Len(buffer)
             stream == (received \o pipe) \o buffer
  <2>1. /\ received \in Seq(HalfWord) /\ pipe \in Seq(HalfWord) /\ buffer \in Seq(HalfWord)
        /\ received \o pipe \in Seq(HalfWord)
        /\ n \in Nat /\ m \in Nat /\ k \in Nat /\ Len(received \o pipe) = n + m
    BY ConcatProperties DEF IInv, StreamTypes
  <2>2. Len(stream) = n + m + k
    BY <2>1, ConcatProperties
  <2> SUFFICES ASSUME NEW j \in 1 .. (n + m + k)
               PROVE  stream[j] = Unit(commands[t], j)
    BY <2>2 DEF StreamIntact
  <2> HIDE DEF n, m, k
  <2>3. CASE j <= n
    <3>1. stream[j] = received[j]
      BY <2>1, <2>3, ConcatProperties DEF n, m, k
    <3> QED BY <2>1, <2>3, <3>1 DEF IInv, InPlace, n
  <2>4. CASE n < j /\ j <= n + m
    <3>1. stream[j] = pipe[j - n] /\ j - n \in 1 .. m /\ n + (j - n) = j
      BY <2>1, <2>4, ConcatProperties DEF n, m, k
    <3> QED BY <3>1 DEF IInv, InPlace, n, m
  <2>5. CASE n + m < j
    <3>1. j - (n + m) \in 1 .. k /\ n + m + (j - (n + m)) = j
      BY <2>1, <2>5
    <3>2. stream[j] = buffer[j - (n + m)]
      BY <2>1, <2>5, ConcatProperties DEF n, m, k
    <3> QED BY <3>1, <3>2 DEF IInv, InPlace, n, m, k
  <2>6. j <= n \/ (n < j /\ j <= n + m) \/ n + m < j
    BY <2>1
  <2> QED BY <2>3, <2>4, <2>5, <2>6
<1> QED BY <1>1, InitIInv, StepIInv, PTL DEF Spec

\* "Failure!" means that RNG_test reported a failure in this campaign.
THEOREM FailuresCorrect == Spec => []FailuresAreReported
<1>1. IInv => FailuresAreReported
  BY DEF IInv
<1> QED BY <1>1, InitIInv, StepIInv, PTL DEF Spec

\* "Success!" means that the command was tested to the end, that RNG_test
\* crashed, or that there was nothing to run.
THEOREM SuccessCorrect == Spec => []SuccessMeansTested
<1>1. IInv => SuccessMeansTested
  BY DEF IInv
<1> QED BY <1>1, InitIInv, StepIInv, PTL DEF Spec

-----------------------------------------------------------------------------
(***************************************************************************)
(* The entropy campaign.  dd counts blocks, full or not; but what is in    *)
(* the pipe is always a number of whole blocks, so that every block it     *)
(* reads is full, and count of them are the beginning of the stream.       *)
(***************************************************************************)
\* A multiple, as a multiple.
LEMMA WholeNumberOf ==
  ASSUME NEW a \in Nat, NEW m \in Nat \ {0}, a % m = 0
  PROVE  \E n \in Nat : a = n * m
<1> DEFINE q == a \div m
<1>1. q \in Int /\ a = m * q
  OBVIOUS
<1> HIDE DEF q
<1>2. q >= 0
  <2> SUFFICES ASSUME q <= -1 PROVE FALSE
    BY <1>1
  <2>1. m * q <= m * (-1)
    BY <1>1
  <2> QED BY <1>1, <2>1
<1>3. a = q * m
  BY <1>1
<1> QED BY <1>1, <1>2, <1>3

\* The instance has the same programs.
LEMMA EntUnitIsUnit == \A c, j : E!Unit(c, j) = Unit(c, j)
BY DEF E!Unit, Unit, E!Halves, Halves, E!castingtohigh32, castingtohigh32

EntTypes ==
  /\ ent_t \in 1 .. (Len(ent_commands) + 1)
  /\ ent_program \in {"off", "writing", "ended"} /\ dd \in {"off", "reading", "ended"}
  /\ ent_program = "off" <=> dd = "off"
  /\ dd # "off" => ent_t \in 1 .. Len(ent_commands)
  /\ ent_written \in Nat /\ blocks \in 0 .. count
  /\ ent_pipe \in Seq(HalfWord) /\ scratchfile \in Seq(HalfWord)

\* A command that writes nothing leaves an empty file.
EntSilent ==
  dd # "off" /\ ent_t \in Silent =>
    ent_program = "ended" /\ ent_pipe = << >> /\ scratchfile = << >>

\* The file and the pipe are the stream so far, in whole blocks, and dd leaves
\* only when it has count of them.
EntStream ==
  dd # "off" /\ ent_t \notin Silent =>
    /\ Len(scratchfile) = blocks * bs
    /\ \E n \in Nat : Len(ent_pipe) = n * bs
    /\ ent_written = Len(scratchfile) + Len(ent_pipe)
    /\ \A j \in 1 .. Len(scratchfile) : scratchfile[j] = Unit(ent_commands[ent_t], j)
    /\ \A j \in 1 .. Len(ent_pipe) :
         ent_pipe[j] = Unit(ent_commands[ent_t], Len(scratchfile) + j)
    /\ ent_program = "ended" => dd = "ended"
    /\ dd = "ended" => blocks = count

EntIInv == EntTypes /\ EntSilent /\ EntStream /\ SampleIsTheBeginning

LEMMA EntInitIInv == E!Init => EntIInv
<1> SUFFICES ASSUME E!Init PROVE EntIInv
  OBVIOUS
<1>1. Len(ent_commands) \in Nat /\ count \in Nat
  BY EntropyAssumption
<1>2. << >> \in Seq(HalfWord) /\ <<<<0, "low">>>> \in Seq(HalfWord)
  BY DEF HalfWord
<1>3. scratchfile \in Seq(HalfWord) /\ ent_pipe \in Seq(HalfWord)
  BY <1>2 DEF E!Init
<1>4. EntTypes
  BY <1>1, <1>3 DEF E!Init, EntTypes
<1> QED BY <1>4 DEF E!Init, EntIInv, EntSilent, EntStream, SampleIsTheBeginning,
                    E!SampleIsTheBeginning

LEMMA EntLaunchIInv == EntIInv /\ E!Launch => EntIInv'
<1> SUFFICES ASSUME EntIInv, E!Launch PROVE EntIInv'
  OBVIOUS
<1>1. /\ ent_t \in 1 .. Len(ent_commands)
      /\ ent_program' = IF ent_t \in Silent THEN "ended" ELSE "writing"
      /\ dd' = "reading" /\ ent_written' = 0 /\ blocks' = 0
      /\ ent_pipe' = << >> /\ scratchfile' = << >>
      /\ UNCHANGED <<ent_t, sampled>>
  BY DEF E!Launch, E!Index
<1>2. EntTypes'
  BY <1>1, EntropyAssumption DEF EntIInv, EntTypes
<1>3. EntSilent'
  BY <1>1 DEF EntSilent
<1>4. EntStream'
  <2>1. 0 * bs = 0 /\ 0 \in Nat
    BY EntropyAssumption
  <2> QED BY <1>1, <2>1 DEF EntStream
<1>5. SampleIsTheBeginning'
  BY <1>1 DEF EntIInv, SampleIsTheBeginning, E!SampleIsTheBeginning, E!Unit
<1> QED BY <1>2, <1>3, <1>4, <1>5 DEF EntIInv

\* What is written is some whole blocks, the next ones.
LEMMA EntWriteIInv == EntIInv /\ E!Write => EntIInv'
<1> SUFFICES ASSUME EntIInv, E!Write PROVE EntIInv'
  OBVIOUS
<1> DEFINE c == ent_commands[ent_t]
           new == [j \in 1 .. Writes |-> Unit(c, ent_written + j)]
<1>1. /\ ent_program = "writing" /\ dd = "reading"
      /\ ent_written' = ent_written + Writes
      /\ ent_pipe' = ent_pipe \o new
      /\ UNCHANGED <<ent_t, ent_program, dd, blocks, scratchfile, sampled>>
  BY EntUnitIsUnit DEF E!Write
<1>2. /\ ent_t \in 1 .. Len(ent_commands) /\ ent_t \notin Silent /\ c \in Command
      /\ ent_written \in Nat /\ Writes \in Nat /\ bs \in Nat \ {0}
      /\ ent_pipe \in Seq(HalfWord) /\ scratchfile \in Seq(HalfWord)
      /\ Len(ent_pipe) \in Nat /\ Len(scratchfile) \in Nat
      /\ ent_written = Len(scratchfile) + Len(ent_pipe)
  BY <1>1, EntropyAssumption DEF EntIInv, EntTypes, EntSilent, EntStream
<1> HIDE DEF c
<1>3. /\ new \in Seq(HalfWord) /\ Len(new) = Writes
      /\ \A j \in 1 .. Writes : new[j] = Unit(c, ent_written + j)
  <2>1. \A j \in 1 .. Writes : ent_written + j \in Nat \ {0}
    BY <1>2
  <2>2. \A j \in 1 .. Writes : Unit(c, ent_written + j) \in HalfWord
    BY <1>2, <2>1, UnitType
  <2> QED BY <1>2, <2>2
<1> HIDE DEF new
<1>4. /\ ent_pipe' \in Seq(HalfWord) /\ Len(ent_pipe') = Len(ent_pipe) + Writes
      /\ \A j \in 1 .. (Len(ent_pipe) + Writes) :
           ent_pipe'[j] = IF j <= Len(ent_pipe) THEN ent_pipe[j] ELSE new[j - Len(ent_pipe)]
  BY <1>1, <1>2, <1>3, ConcatProperties, ZenonT(60)
<1>5. \E n \in Nat : Len(ent_pipe') = n * bs
  <2>1. PICK n \in Nat : Len(ent_pipe) = n * bs
    BY <1>1, <1>2 DEF EntIInv, EntStream
  <2>2. PICK m \in Nat : Writes = m * bs
    BY EntropyAssumption, WholeNumberOf
  <2>3. n + m \in Nat /\ (n + m) * bs = Len(ent_pipe')
    BY <1>2, <1>4, <2>1, <2>2
  <2> QED BY <2>3
<1>6. \A j \in 1 .. Len(ent_pipe') : ent_pipe'[j] = Unit(c, Len(scratchfile) + j)
  <2> SUFFICES ASSUME NEW j \in 1 .. Len(ent_pipe')
               PROVE  ent_pipe'[j] = Unit(c, Len(scratchfile) + j)
    OBVIOUS
  <2>1. CASE j <= Len(ent_pipe)
    <3>1. j \in 1 .. Len(ent_pipe) /\ ent_pipe'[j] = ent_pipe[j]
      BY <1>2, <1>4, <2>1
    <3> QED BY <1>1, <1>2, <3>1 DEF EntIInv, EntStream, c
  <2>2. CASE j > Len(ent_pipe)
    <3>1. j - Len(ent_pipe) \in 1 .. Writes
      BY <1>2, <1>4, <2>2
    <3>2. ent_written + (j - Len(ent_pipe)) = Len(scratchfile) + j
      BY <1>2
    <3>3. ent_pipe'[j] = new[j - Len(ent_pipe)]
      BY <1>2, <1>4, <2>2
    <3> QED BY <1>3, <3>1, <3>2, <3>3
  <2> QED BY <1>2, <2>1, <2>2
<1>7. EntTypes'
  BY <1>1, <1>2, <1>4 DEF EntIInv, EntTypes
<1>8. EntSilent'
  BY <1>1, <1>2 DEF EntSilent
<1>9. EntStream'
  <2>1. ent_written' = Len(scratchfile') + Len(ent_pipe')
    BY <1>1, <1>2, <1>4
  <2> QED BY <1>1, <1>2, <1>5, <1>6, <2>1 DEF EntIInv, EntStream, c
<1>10. SampleIsTheBeginning'
  BY <1>1 DEF EntIInv, SampleIsTheBeginning, E!SampleIsTheBeginning, E!Unit
<1> QED BY <1>7, <1>8, <1>9, <1>10 DEF EntIInv

LEMMA EntBrokenPipeIInv == EntIInv /\ E!BrokenPipe => EntIInv'
<1> SUFFICES ASSUME EntIInv, E!BrokenPipe PROVE EntIInv'
  OBVIOUS
<1>1. /\ ent_program = "writing" /\ dd = "ended" /\ ent_program' = "ended"
      /\ UNCHANGED <<ent_t, ent_written, ent_pipe, dd, blocks, scratchfile, sampled>>
  BY DEF E!BrokenPipe
<1> QED BY <1>1 DEF EntIInv, EntTypes, EntSilent, EntStream, SampleIsTheBeginning,
                    E!SampleIsTheBeginning, E!Unit

\* The pipe is not empty, so that a whole block is there.
LEMMA EntReadIInv == EntIInv /\ E!Read => EntIInv'
<1> SUFFICES ASSUME EntIInv, E!Read PROVE EntIInv'
  OBVIOUS
<1> DEFINE c == ent_commands[ent_t]
           file == SubSeq(ent_pipe, 1, bs)
<1>1. /\ dd = "reading" /\ ent_pipe # << >> /\ blocks < count
      /\ blocks' = blocks + 1
      /\ UNCHANGED <<ent_t, ent_program, ent_written, dd, sampled>>
  BY DEF E!Read
<1>2. /\ ent_t \in 1 .. Len(ent_commands) /\ ent_t \notin Silent
      /\ ent_written \in Nat /\ bs \in Nat \ {0} /\ blocks \in Nat /\ count \in Nat
      /\ ent_pipe \in Seq(HalfWord) /\ scratchfile \in Seq(HalfWord)
      /\ Len(ent_pipe) \in Nat \ {0} /\ Len(scratchfile) \in Nat
      /\ ent_written = Len(scratchfile) + Len(ent_pipe)
  BY <1>1, EntropyAssumption DEF EntIInv, EntTypes, EntSilent, EntStream
<1>3. PICK n \in Nat \ {0} : Len(ent_pipe) = n * bs
  <2>1. PICK n \in Nat : Len(ent_pipe) = n * bs
    BY <1>1, <1>2 DEF EntIInv, EntStream
  <2>2. 0 * bs = 0
    BY <1>2
  <2> QED BY <1>2, <2>1, <2>2
<1>4. n - 1 \in Nat /\ Len(ent_pipe) = (n - 1) * bs + bs /\ (n - 1) * bs \in Nat
  BY <1>2, <1>3
<1>5. Len(ent_pipe) >= bs
  <2> DEFINE rest == (n - 1) * bs
  <2>1. rest \in Nat /\ Len(ent_pipe) = rest + bs
    BY <1>4
  <2> HIDE DEF rest
  <2> QED BY <1>2, <2>1
<1>6. /\ scratchfile' = scratchfile \o file
      /\ ent_pipe' = SubSeq(ent_pipe, bs + 1, Len(ent_pipe))
  <2>1. (IF Len(ent_pipe) < bs THEN Len(ent_pipe) ELSE bs) = bs
    BY <1>2, <1>5
  <2> QED BY <2>1 DEF E!Read
<1> HIDE DEF c
<1>7. /\ file \in Seq(HalfWord) /\ Len(file) = bs
      /\ \A j \in 1 .. bs : file[j] = ent_pipe[j]
  <2>1. \A j \in 1 .. bs : ent_pipe[j] \in HalfWord
    BY <1>2, <1>5
  <2> QED BY <1>2, <2>1, SubSeqProperties
<1> HIDE DEF file
<1>8. /\ ent_pipe' \in Seq(HalfWord) /\ Len(ent_pipe') = Len(ent_pipe) - bs
      /\ \A j \in 1 .. (Len(ent_pipe) - bs) : ent_pipe'[j] = ent_pipe[j + bs]
  <2>1. \A j \in (bs + 1) .. Len(ent_pipe) : ent_pipe[j] \in HalfWord
    BY <1>2
  <2>2. /\ ent_pipe' \in Seq(HalfWord)
        /\ Len(ent_pipe') = IF bs + 1 <= Len(ent_pipe) THEN Len(ent_pipe) - (bs + 1) + 1 ELSE 0
        /\ \A j \in 1 .. Len(ent_pipe) - (bs + 1) + 1 :
             ent_pipe'[j] = ent_pipe[(bs + 1) + j - 1]
    BY <1>2, <1>6, <2>1, SubSeqProperties
  <2>3. Len(ent_pipe') = Len(ent_pipe) - bs
    BY <1>2, <1>5, <2>2
  <2>4. ASSUME NEW j \in 1 .. (Len(ent_pipe) - bs)
        PROVE  ent_pipe'[j] = ent_pipe[j + bs]
    <3>1. j \in 1 .. Len(ent_pipe) - (bs + 1) + 1 /\ (bs + 1) + j - 1 = j + bs
      BY <1>2
    <3> QED BY <2>2, <3>1
  <2> QED BY <2>2, <2>3, <2>4
<1>9. /\ scratchfile' \in Seq(HalfWord) /\ Len(scratchfile') = Len(scratchfile) + bs
      /\ \A j \in 1 .. (Len(scratchfile) + bs) :
           scratchfile'[j] = IF j <= Len(scratchfile) THEN scratchfile[j]
                             ELSE file[j - Len(scratchfile)]
  BY <1>2, <1>6, <1>7, ConcatProperties, ZenonT(60)
<1>10. Len(scratchfile') = blocks' * bs
  <2>1. Len(scratchfile) = blocks * bs
    BY <1>1, <1>2 DEF EntIInv, EntStream
  <2>2. (blocks + 1) * bs = blocks * bs + bs
    BY <1>2
  <2> QED BY <1>1, <1>2, <1>9, <2>1, <2>2
<1>11. \A j \in 1 .. Len(ent_pipe) : ent_pipe[j] = Unit(c, Len(scratchfile) + j)
  BY <1>1, <1>2 DEF EntIInv, EntStream, c
<1>12. \A j \in 1 .. Len(scratchfile') : scratchfile'[j] = Unit(c, j)
  <2> SUFFICES ASSUME NEW j \in 1 .. Len(scratchfile') PROVE scratchfile'[j] = Unit(c, j)
    OBVIOUS
  <2>1. CASE j <= Len(scratchfile)
    BY <1>1, <1>2, <1>9, <2>1 DEF EntIInv, EntStream, c
  <2>2. CASE j > Len(scratchfile)
    <3>0. j \in Int /\ j <= Len(scratchfile) + bs
      BY <1>2, <1>9
    <3>1. /\ j - Len(scratchfile) \in 1 .. bs /\ j - Len(scratchfile) \in 1 .. Len(ent_pipe)
          /\ Len(scratchfile) + (j - Len(scratchfile)) = j
      BY <1>2, <1>5, <2>2, <3>0
    <3>2. scratchfile'[j] = file[j - Len(scratchfile)]
      BY <1>2, <1>9, <2>2
    <3>3. ent_pipe[j - Len(scratchfile)] = Unit(c, Len(scratchfile) + (j - Len(scratchfile)))
      BY <1>11, <3>1
    <3> QED BY <1>7, <3>1, <3>2, <3>3
  <2> QED BY <1>2, <2>1, <2>2
<1>13. \A j \in 1 .. Len(ent_pipe') : ent_pipe'[j] = Unit(c, Len(scratchfile') + j)
  <2> SUFFICES ASSUME NEW j \in 1 .. Len(ent_pipe')
               PROVE  ent_pipe'[j] = Unit(c, Len(scratchfile') + j)
    OBVIOUS
  <2>1. /\ j + bs \in 1 .. Len(ent_pipe)
        /\ Len(scratchfile) + (j + bs) = Len(scratchfile') + j
    BY <1>2, <1>8, <1>9
  <2> QED BY <1>8, <1>11, <2>1
<1>14. \E m \in Nat : Len(ent_pipe') = m * bs
  <2> DEFINE rest == (n - 1) * bs
  <2>1. rest \in Nat /\ Len(ent_pipe) = rest + bs
    BY <1>4
  <2> HIDE DEF rest
  <2>2. Len(ent_pipe') = rest
    BY <1>2, <1>8, <2>1
  <2> QED BY <1>4, <2>2 DEF rest
<1>15. EntTypes'
  BY <1>1, <1>2, <1>8, <1>9 DEF EntIInv, EntTypes
<1>16. EntSilent'
  BY <1>1, <1>2 DEF EntSilent
<1>17. EntStream'
  <2>1. ent_written' = Len(scratchfile') + Len(ent_pipe')
    BY <1>1, <1>2, <1>8, <1>9
  <2>2. ent_program' # "ended" /\ dd' = "reading"
    BY <1>1, <1>2 DEF EntIInv, EntStream
  <2> QED BY <1>1, <1>10, <1>12, <1>13, <1>14, <2>1, <2>2 DEF EntStream, c
<1>18. SampleIsTheBeginning'
  BY <1>1 DEF EntIInv, SampleIsTheBeginning, E!SampleIsTheBeginning, E!Unit
<1> QED BY <1>15, <1>16, <1>17, <1>18 DEF EntIInv

LEMMA EntStopIInv == EntIInv /\ E!Stop => EntIInv'
<1> SUFFICES ASSUME EntIInv, E!Stop PROVE EntIInv'
  OBVIOUS
<1>1. /\ dd = "reading" /\ dd' = "ended"
      /\ blocks = count \/ ent_program = "ended"
      /\ UNCHANGED <<ent_t, ent_program, ent_written, ent_pipe, blocks, scratchfile, sampled>>
  BY DEF E!Stop
<1> QED BY <1>1 DEF EntIInv, EntTypes, EntSilent, EntStream, SampleIsTheBeginning,
                    E!SampleIsTheBeginning, E!Unit

\* dd has left: with nothing of a silent command, with count blocks of another.
LEMMA EntEntIInv == EntIInv /\ E!Ent => EntIInv'
<1> SUFFICES ASSUME EntIInv, E!Ent PROVE EntIInv'
  OBVIOUS
<1>1. /\ ent_program = "ended" /\ dd = "ended"
      /\ sampled' = <<ent_t, scratchfile>>
      /\ scratchfile' = IF ent_t = Len(ent_commands) THEN << >> ELSE scratchfile
      /\ ent_t' = ent_t + 1 /\ ent_program' = "off" /\ dd' = "off"
      /\ UNCHANGED <<ent_written, ent_pipe, blocks>>
  BY DEF E!Ent
<1>2. ent_t \in 1 .. Len(ent_commands) /\ Len(ent_commands) \in Nat
  BY <1>1, EntropyAssumption DEF EntIInv, EntTypes
<1>3. EntTypes' /\ EntSilent' /\ EntStream'
  BY <1>1, <1>2 DEF EntIInv, EntTypes, EntSilent, EntStream
<1>4. ent_t \in Silent => scratchfile = << >>
  BY <1>1 DEF EntIInv, EntSilent
<1>5. ASSUME ent_t \notin Silent
      PROVE  scratchfile = [j \in 1 .. (bs * count) |-> Unit(ent_commands[ent_t], j)]
  <2>1. /\ scratchfile \in Seq(HalfWord) /\ Len(scratchfile) = count * bs
        /\ \A j \in 1 .. Len(scratchfile) : scratchfile[j] = Unit(ent_commands[ent_t], j)
    BY <1>1, <1>5 DEF EntIInv, EntTypes, EntStream
  <2>2. count * bs = bs * count
    BY EntropyAssumption
  <2>3. scratchfile = [j \in 1 .. Len(scratchfile) |-> scratchfile[j]]
    BY <2>1
  <2> QED BY <2>1, <2>2, <2>3
<1>6. sampled'[1] = ent_t /\ sampled'[2] = scratchfile
  BY <1>1
<1>7. SampleIsTheBeginning'
  BY <1>4, <1>5, <1>6, EntUnitIsUnit DEF SampleIsTheBeginning, E!SampleIsTheBeginning
<1> QED BY <1>3, <1>7 DEF EntIInv

LEMMA EntStepIInv == EntIInv /\ [E!Next]_(E!vars) => EntIInv'
<1>1. EntIInv /\ UNCHANGED E!vars => EntIInv'
  BY DEF EntIInv, EntTypes, EntSilent, EntStream, SampleIsTheBeginning,
         E!SampleIsTheBeginning, E!Unit, E!vars
<1> QED BY <1>1, EntLaunchIInv, EntEntIInv, EntWriteIInv, EntBrokenPipeIInv, EntReadIInv,
           EntStopIInv
        DEF E!Next, E!Script, E!Running, E!Sampling

\* What ent is given is the beginning of the command's stream, all of the
\* count blocks of it and nothing else, or nothing if the command wrote nothing.
THEOREM SampleCorrect == E!Spec => []SampleIsTheBeginning
<1>1. EntIInv => SampleIsTheBeginning
  BY DEF EntIInv
<1> QED BY <1>1, EntInitIInv, EntStepIInv, PTL DEF E!Spec

-----------------------------------------------------------------------------
(***************************************************************************)
(* The speed benchmark.  In a measurement every filling makes as many      *)
(* calls as the buffer has elements, from its first to its last, so that   *)
(* after a filling the buffer holds the last so many calls in order.       *)
(***************************************************************************)
\* The elements are 4, 8 or 16 bytes wide, and fill the buffer.
LEMMA ElementsFacts ==
  /\ B!Width(g) \in {4, 8, 16}
  /\ B!Elements \in Nat
  /\ B!Elements * B!Width(g) = size
  /\ \A b \in 0 .. (size - 1) : b \div B!Width(g) \in 0 .. (B!Elements - 1)
<1>1. B!Width(g) \in {4, 8, 16}
  BY DEF B!Width
<1>2. size \in Nat /\ size % 16 = 0
  BY SizeAssumption
<1>3. B!Elements = size \div B!Width(g)
  BY DEF B!Elements
<1> DEFINE w == B!Width(g)
<1> HIDE DEF w
<1>4. w \in {4, 8, 16} /\ B!Elements = size \div w
  BY <1>1, <1>3 DEF w
<1>5. CASE w = 4
  BY <1>2, <1>4, <1>5 DEF w
<1>6. CASE w = 8
  BY <1>2, <1>4, <1>6 DEF w
<1>7. CASE w = 16
  BY <1>2, <1>4, <1>7 DEF w
<1> QED BY <1>4, <1>5, <1>6, <1>7

\* The calls of the measurement so far, and where in the buffer the last of
\* them lie: in phase "populate" the filling has come to element Elements - i.
Filled(from, upto) ==
  \A b \in 0 .. (size - 1) : b \div B!Width(g) < upto =>
    buf[b] = <<B!generators[g], from + 1 + (b \div B!Width(g))>>

BenchIInv ==
  /\ phase \in {"bench", "populate", "printed", "returned"}
  /\ repetitions \in Nat
  /\ phase = "bench" => /\ calls = repetitions * B!Elements
                        /\ repetitions > 0 => Filled(calls - B!Elements, B!Elements)
  /\ phase = "populate" => /\ i \in 0 .. B!Elements
                           /\ calls = repetitions * B!Elements + (B!Elements - i)
                           /\ Filled(repetitions * B!Elements, B!Elements - i)
  /\ phase = "printed" => /\ calls = repetitions * B!Elements
                          /\ Filled(calls - B!Elements, B!Elements)

LEMMA BenchInitIInv == B!Init => BenchIInv
<1> SUFFICES ASSUME B!Init PROVE BenchIInv
  OBVIOUS
<1>1. 0 * B!Elements = 0
  BY ElementsFacts
<1> QED BY <1>1 DEF B!Init, BenchIInv

LEMMA BeginIInv == BenchIInv /\ B!Begin => BenchIInv'
<1> SUFFICES ASSUME BenchIInv, B!Begin PROVE BenchIInv'
  OBVIOUS
<1>1. /\ phase = "bench" /\ phase' = "populate" /\ i' = B!Elements
      /\ UNCHANGED <<g, calls, repetitions, buf>>
  BY DEF B!Begin
<1>2. B!Elements' = B!Elements /\ B!Elements \in Nat
  BY <1>1, ElementsFacts DEF B!Elements, B!Width
<1>3. i' \in 0 .. B!Elements' /\ B!Elements' - i' = 0
  BY <1>1, <1>2
<1>4. calls' = repetitions' * B!Elements' + (B!Elements' - i')
  BY <1>1, <1>2, <1>3 DEF BenchIInv
<1>5. Filled(repetitions * B!Elements, B!Elements - i)'
  <2>1. \A b \in 0 .. (size - 1) : ~ (b \div B!Width(g) < 0)
    BY ElementsFacts
  <2>2. B!Width(g)' = B!Width(g)
    BY <1>1 DEF B!Width
  <2> QED BY <1>3, <2>1, <2>2 DEF Filled
<1> QED BY <1>1, <1>3, <1>4, <1>5 DEF BenchIInv

\* Element Elements - i gets the next call's word, and no other changes.
LEMMA PopulateIInv == BenchIInv /\ B!Populate => BenchIInv'
<1> SUFFICES ASSUME BenchIInv, B!Populate PROVE BenchIInv'
  OBVIOUS
<1> DEFINE done == B!Elements - i
           base == repetitions * B!Elements
<1>1. /\ phase = "populate" /\ i # 0 /\ buf' = B!Stored(done)
      /\ calls' = calls + 1 /\ i' = i - 1
      /\ UNCHANGED <<g, repetitions, phase>>
  BY DEF B!Populate
<1>2. /\ B!Elements' = B!Elements /\ B!Width(g)' = B!Width(g)
      /\ B!generators' = B!generators
  BY <1>1 DEF B!Elements, B!Width, B!generators
<1>3. /\ B!Elements \in Nat /\ i \in 1 .. B!Elements
      /\ repetitions \in Nat /\ base \in Nat /\ done \in Nat
      /\ calls = base + done
      /\ Filled(base, done)
  BY <1>1, ElementsFacts DEF BenchIInv
<1>4. base' = base /\ done' = done + 1
  BY <1>1, <1>2, <1>3
<1> HIDE DEF done, base
<1>5. \A b \in 0 .. (size - 1) :
        buf'[b] = IF b \div B!Width(g) = done THEN <<B!generators[g], calls + 1>> ELSE buf[b]
  BY <1>1 DEF B!Stored
<1>6. Filled(base, done)'
  <2> SUFFICES ASSUME NEW b \in 0 .. (size - 1), b \div B!Width(g) < done + 1
               PROVE  buf'[b] = <<B!generators[g], base + 1 + (b \div B!Width(g))>>
    BY <1>1, <1>2, <1>4 DEF Filled
  <2>0. b \div B!Width(g) \in Nat
    BY ElementsFacts
  <2>1. CASE b \div B!Width(g) = done
    <3>1. calls + 1 = base + 1 + (b \div B!Width(g))
      BY <1>3, <2>1
    <3> QED BY <1>5, <2>1, <3>1
  <2>2. CASE b \div B!Width(g) # done
    <3>1. b \div B!Width(g) < done
      BY <1>3, <2>0, <2>2
    <3> QED BY <1>3, <1>5, <2>2, <3>1 DEF Filled
  <2> QED BY <2>1, <2>2
<1>7. i' \in 0 .. B!Elements' /\ calls' = base' + done'
  BY <1>1, <1>2, <1>3, <1>4
<1> QED BY <1>1, <1>3, <1>6, <1>7 DEF BenchIInv, done, base

\* All the elements have been stored to.
LEMMA EndIInv == BenchIInv /\ B!End => BenchIInv'
<1> SUFFICES ASSUME BenchIInv, B!End PROVE BenchIInv'
  OBVIOUS
<1> DEFINE n == B!Elements
           base == repetitions * n
<1>1. /\ phase = "populate" /\ i = 0 /\ phase' = "bench"
      /\ repetitions' = repetitions + 1
      /\ UNCHANGED <<g, i, calls, buf>>
  BY DEF B!End
<1>2. n' = n /\ B!Width(g)' = B!Width(g) /\ B!generators' = B!generators
  BY <1>1 DEF B!Elements, B!Width, B!generators
<1>3. n \in Nat /\ repetitions \in Nat /\ base \in Nat
  BY ElementsFacts DEF BenchIInv
<1>4. calls = base + n /\ Filled(base, n)
  BY <1>1, <1>3 DEF BenchIInv
<1>5. (repetitions + 1) * n = base + n
  BY <1>3
<1> HIDE DEF base
<1>6. calls' = repetitions' * n'
  BY <1>1, <1>2, <1>4, <1>5
<1>7. calls' - n' = base
  BY <1>1, <1>2, <1>3, <1>4
<1>8. Filled(calls - n, n)'
  BY <1>1, <1>2, <1>4, <1>7 DEF Filled
<1> QED BY <1>1, <1>3, <1>6, <1>8 DEF BenchIInv

LEMMA PrintIInv == BenchIInv /\ B!PrintTime => BenchIInv'
<1> SUFFICES ASSUME BenchIInv, B!PrintTime PROVE BenchIInv'
  OBVIOUS
<1>1. /\ phase = "bench" /\ repetitions > 0 /\ phase' = "printed"
      /\ UNCHANGED <<g, i, calls, repetitions, buf>>
  BY DEF B!PrintTime
<1> QED BY <1>1 DEF BenchIInv, Filled, B!Elements, B!Width, B!generators

LEMMA ContinueIInv == BenchIInv /\ B!Continue => BenchIInv'
<1> SUFFICES ASSUME BenchIInv, B!Continue PROVE BenchIInv'
  OBVIOUS
<1>1. phase' \in {"bench", "returned"} /\ calls' = 0 /\ repetitions' = 0
  BY DEF B!Continue
<1>2. 0 * B!Elements' = 0
  <2>1. size \div B!Width(g)' \in Int
    BY SizeAssumption DEF B!Width
  <2> QED BY <2>1 DEF B!Elements
<1> QED BY <1>1, <1>2 DEF BenchIInv

LEMMA BenchStepIInv == BenchIInv /\ [B!Next]_(B!vars) => BenchIInv'
<1>1. BenchIInv /\ UNCHANGED B!vars => BenchIInv'
  BY DEF BenchIInv, Filled, B!Elements, B!Width, B!generators, B!vars
<1> QED BY <1>1, BeginIInv, PopulateIInv, EndIInv, PrintIInv, ContinueIInv DEF B!Next

\* When a time is printed, the fillings made one call for every element, and
\* the last of them covered the buffer from its first byte to its last.
THEOREM WholeBufferCorrect == B!Spec => []WholeBufferIsTimed
<1>1. BenchIInv => WholeBufferIsTimed
  <2> SUFFICES ASSUME BenchIInv, phase = "printed"
               PROVE  /\ calls * B!Width(g) = repetitions * size
                      /\ \A b \in 0 .. (size - 1) :
                           buf[b] = <<B!generators[g],
                                      calls - B!Elements + 1 + (b \div B!Width(g))>>
    BY DEF WholeBufferIsTimed, B!WholeBufferIsTimed
  <2> DEFINE n == B!Elements
             w == B!Width(g)
  <2>1. n \in Nat /\ w \in Nat /\ n * w = size /\ repetitions \in Nat
    BY ElementsFacts DEF BenchIInv
  <2>2. calls = repetitions * n /\ Filled(calls - n, n)
    BY DEF BenchIInv
  <2>3. \A b \in 0 .. (size - 1) : b \div w < n
    BY ElementsFacts
  <2>4. (repetitions * n) * w = repetitions * (n * w)
    <3> HIDE DEF n, w
    <3> QED BY <2>1
  <2> QED BY <2>1, <2>2, <2>3, <2>4 DEF Filled
<1> QED BY <1>1, BenchInitIInv, BenchStepIInv, PTL DEF B!Spec
=============================================================================
