----------------------------- MODULE Summarize ------------------------------
(***************************************************************************)
(* testu01/results/summarize.pl: what it reports of the logs it is given.  *)
(* A log is what follows the line "Summary results" in it: a sequence of   *)
(* the line that names the generator and of the lines of the table of      *)
(* unusual p-values; nothing, if the program was ended before, and the     *)
(* last line may be cut before its p-value.  A test of the battery may     *)
(* have several lines, one for each of its statistics.                     *)
(*                                                                         *)
(* A p-value is what is printed: eps, or a number of Ones, on its own or   *)
(* after "1 - ".                                                           *)
(***************************************************************************)
EXTENDS Integers, Sequences, FiniteSets

CONSTANTS ArgumentLists,  \* the sequences of logs it may be called with
          Ones,           \* the probability 1
          Unlikely,       \* the probability 1e-10
          eps,            \* printed for less than that can be written
          Undefined       \* perl's undef

VARIABLES ARGV,           \* the logs
          file,           \* the number of the log being read
          unread,         \* what is still to be read of it
          generator, nonpassesFor, crushCountFor,
          stage,          \* "opening", "reading", "done" or "died"
          report          \* the lines printed

vars == <<ARGV, file, unread, generator, nonpassesFor, crushCountFor, stage, report>>

-----------------------------------------------------------------------------
Init == /\ ARGV \in ArgumentLists
        /\ file = 1
        /\ unread = << >>
        /\ generator = Undefined
        /\ nonpassesFor = << >>
        /\ crushCountFor = << >>
        /\ stage = "opening"
        /\ report = {}

\* Mutant: the generator of the log before is still there.
Open_NoReset == /\ stage = "opening"
                /\ file <= Len(ARGV)
                /\ unread' = ARGV[file]
                /\ stage' = "reading"
                /\ UNCHANGED <<ARGV, file, generator, nonpassesFor, crushCountFor, report>>

\* The next log, up to the summary in it.
Open == /\ stage = "opening"
        /\ file <= Len(ARGV)
        /\ unread' = ARGV[file]
        /\ generator' = Undefined
        /\ stage' = "reading"
        /\ UNCHANGED <<ARGV, file, nonpassesFor, crushCountFor, report>>

Line(kind) == stage = "reading" /\ unread # << >> /\ Head(unread).kind = kind

ReadGenerator == /\ Line("generator")
                 /\ generator' = Head(unread).name
                 /\ unread' = Tail(unread)
                 /\ UNCHANGED <<ARGV, file, nonpassesFor, crushCountFor, stage, report>>

With(table, key, value) ==
  [k \in DOMAIN table \cup {key} |-> IF k = key THEN value ELSE table[k]]

\* push @{$nonpassesFor{$generator}{$testNo}}, $pValue
ReadTest ==
  /\ Line("test")
  /\ generator # Undefined
  /\ LET key == <<generator, Head(unread).testNo>>
         old == IF key \in DOMAIN nonpassesFor THEN nonpassesFor[key] ELSE << >>
     IN  nonpassesFor' = With(nonpassesFor, key, Append(old, Head(unread).pValue))
  /\ unread' = Tail(unread)
  /\ UNCHANGED <<ARGV, file, generator, crushCountFor, stage, report>>

\* die "No generator defined?", die "No p-value found!"
Die == /\ (Line("test") /\ generator = Undefined) \/ Line("cut")
       /\ stage' = "died"
       /\ UNCHANGED <<ARGV, file, unread, generator, nonpassesFor, crushCountFor, report>>

\* A log without a generator is not counted.
Close ==
  /\ stage = "reading"
  /\ unread = << >>
  /\ crushCountFor' =
       IF generator = Undefined THEN crushCountFor
       ELSE With(crushCountFor, generator,
                 1 + (IF generator \in DOMAIN crushCountFor
                      THEN crushCountFor[generator] ELSE 0))
  /\ file' = file + 1
  /\ stage' = "opening"
  /\ UNCHANGED <<ARGV, unread, generator, nonpassesFor, report>>

-----------------------------------------------------------------------------
\* "1 - " and "eps" are replaced, and a number above a half is taken from one.
Normalized(pValue) ==
  LET number == IF pValue.number = eps THEN 0 ELSE pValue.number
  IN  IF 2 * number > Ones THEN Ones - number ELSE number

IsLow(pValue) == Normalized(pValue) < Unlikely

\* ceil(1 + $crushCountFor{$generator}/10)
tooManyThreshold(crushes) == 1 + ((crushes + 9) \div 10)

\* What is printed of a test: a failure, that it has too many unusual values,
\* or blips.  Of the low values it matters how many there are.
Review(name, testNo) ==
  LET nonpassList == nonpassesFor[<<name, testNo>>]
      crushes == crushCountFor[name]
      lowValues == {n \in 1 .. Len(nonpassList) : IsLow(nonpassList[n])}
      verdict == IF lowValues # {} THEN "FAIL!!"
                 ELSE IF Len(nonpassList) > tooManyThreshold(crushes) THEN "investigate"
                 ELSE "blips"
  IN  [generator |-> name, testNo |-> testNo, crushes |-> crushes, verdict |-> verdict,
       isAll |-> crushes > 1 /\ Cardinality(lowValues) = crushes]

Report == /\ stage = "opening"
          /\ file > Len(ARGV)
          /\ report' = {Review(key[1], key[2]) : key \in DOMAIN nonpassesFor}
          /\ stage' = "done"
          /\ UNCHANGED <<ARGV, file, unread, generator, nonpassesFor, crushCountFor>>

Next == Open \/ ReadGenerator \/ ReadTest \/ Die \/ Close \/ Report

Spec == Init /\ [][Next]_vars

-----------------------------------------------------------------------------
\* The logs of a generator, by their numbers, and the p-values that one of them
\* has for a test.
LogsOf(name) ==
  {n \in 1 .. Len(ARGV) : /\ ARGV[n] # << >>
                          /\ Head(ARGV[n]).kind = "generator"
                          /\ Head(ARGV[n]).name = name}

PValues(n, testNo) ==
  {ARGV[n][k].pValue : k \in {i \in 2 .. Len(ARGV[n]) : ARGV[n][i].testNo = testNo}}

\* The p-value that is meant, in [0, Ones], and the one that cannot be told
\* from zero or one.
Meant(pValue) ==
  LET number == IF pValue.number = eps THEN 0 ELSE pValue.number
  IN  IF pValue.oneMinus THEN Ones - number ELSE number

Extreme(pValue) == Meant(pValue) < Unlikely \/ Meant(pValue) > Ones - Unlikely

\* A test of a generator is reported to fail exactly if one of the generator's
\* logs has an extreme p-value for it, on either side, whatever logs are read
\* before and after; and no log's table is left out (summarize.pl:52-65).
FailuresAreSummarized ==
  stage = "done" =>
    /\ \A name \in {entry.generator : entry \in report}, testNo \in 1 .. 106 :
         (\E n \in LogsOf(name) : \E p \in PValues(n, testNo) : Extreme(p))
           <=> \E entry \in report : /\ entry.generator = name
                                     /\ entry.testNo = testNo
                                     /\ entry.verdict = "FAIL!!"
    /\ \A n \in 1 .. Len(ARGV) :
         Len(ARGV[n]) > 1 => \E entry \in report : n \in LogsOf(entry.generator)

\* The number of crushes a test is set against is that of the generator's
\* complete logs: a log that was cut short counts for no generator, whichever
\* log is read before it (summarize.pl:33).
CrushesAreComplete ==
  stage = "done" =>
    \A entry \in report : entry.crushes = Cardinality(LogsOf(entry.generator))

\* summarize.pl:66-67, " -- ALL CRUSHES FAIL!!".  What does not hold: it is
\* printed of a test when that test fails in every crush of the generator.
AllCrushesFail ==
  stage = "done" =>
    \A entry \in report :
      entry.isAll <=>
        /\ Cardinality(LogsOf(entry.generator)) > 1
        /\ \A n \in LogsOf(entry.generator) : \E p \in PValues(n, entry.testNo) : Extreme(p)
=============================================================================
