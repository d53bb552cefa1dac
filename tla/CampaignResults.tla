--------------------------- MODULE CampaignResults --------------------------
(***************************************************************************)
(* The TestU01 campaigns with what they run and what becomes of their      *)
(* logs: the main function of the programs, and the summary of the logs.   *)
(* They are looked at one at a time and share nothing but the logs.        *)
(***************************************************************************)
EXTENDS TestU01Campaign

CONSTANTS ArgumentLists, Ones, Unlikely, eps, Undefined,
          lines, Number(_), IntModulus, Invalid, Outputs

PValue == [number : (0 .. Ones) \cup {eps}, oneMinus : BOOLEAN]

LogLine == [kind : {"generator"}, name : STRING]
             \cup [kind : {"test"}, testNo : 1 .. 106, pValue : PValue]
             \cup [kind : {"cut"}]

\* TestU01 names the generator once, before the table of its p-values.
ASSUME LogsAssumption ==
  \A logs \in ArgumentLists :
    /\ logs \in Seq(Seq(LogLine))
    /\ \A n \in 1 .. Len(logs) : \A k \in 2 .. Len(logs[n]) :
         logs[n][k].kind # "generator"

ASSUME UnlikelyAssumption ==
  /\ Ones \in Nat /\ Unlikely \in Nat /\ 2 * Unlikely <= Ones
  /\ eps \notin Int /\ Undefined \notin STRING

VARIABLES ARGV, file, unread, generator, nonpassesFor, crushCountFor, stage, report,
          line, optind, seedvalue, testroutine, z, use_msb, phase, announced,
          rng, folded, experiments

Main == INSTANCE TestU01Main
Summary == INSTANCE Summarize

summary_vars == <<ARGV, file, unread, generator, nonpassesFor, crushCountFor, stage, report>>
main_vars == <<line, optind, seedvalue, testroutine, z, use_msb, phase,
               announced, rng, folded, experiments>>

-----------------------------------------------------------------------------
\* The words of a command line: the k-th is a seed; options that are alternatives.
IsSeed(words, k) == k > 2 /\ words[k - 1] = "-S"
Orders == {"-r", "-z"}
Batteries == {"-s", "-c", "-b", "-l"}

\* What the scripts ask for: at most one order, at most one seed, which is not
\* the default, and one battery; or, if main is to end early, no seed and a word
\* after which it ends.
IsTest(words) ==
  /\ \A k \in 2 .. Len(words) :
       IF IsSeed(words, k)
         THEN /\ words[k] \notin Orders \cup Batteries \cup {"-H", "-S"}
              /\ Number(words[k]) \in Nat
              /\ Number(words[k]) # Main!DefaultSeed
         ELSE words[k] \in Orders \cup Batteries \cup {"-H", "-S"}
  /\ \A j, k \in 2 .. Len(words) : j # k =>
       \A kind \in {Orders, Batteries, {"-S"}} : ~(words[j] \in kind /\ words[k] \in kind)
  /\ \E k \in 2 .. Len(words) : words[k] \in Batteries

IsNoTest(words) ==
  /\ \A k \in 2 .. Len(words) :
       words[k] \in (Main!Options \ {"-S"}) \cup {"-h"} \cup Invalid
  /\ \E k \in 2 .. Len(words) : words[k] \in {"-h"} \cup Invalid

WordsOf(words) == {words[k] : k \in 1 .. Len(words)}

CommandLines == {lines[n] : n \in 1 .. Len(lines)}

\* The scripts never ask for the upper half of 32 bits (testlist.sh:4); no two of
\* their lines are made of the same words; and they write a seed in one way.
ASSUME LinesAssumption ==
  /\ lines \in Seq(Seq(STRING) \ {<< >>})
  /\ \A words \in CommandLines :
       /\ IsTest(words) \/ IsNoTest(words)
       /\ words[1] \in Main!Narrow => "-H" \notin WordsOf(words)
  /\ \A first, second \in CommandLines :
       /\ WordsOf(first) = WordsOf(second) => first = second
       /\ \A j \in 1 .. Len(first), k \in 1 .. Len(second) :
            /\ IsSeed(first, j) /\ IsSeed(second, k)
            /\ Number(first[j]) = Number(second[k])
            => first[j] = second[k]

ASSUME OutputsAssumption ==
  /\ Outputs \subseteq [1 .. 8 -> 0 .. 255] /\ IntModulus \in Nat \ {0}
  /\ Invalid \cap (Main!Options \cup {"-h"}) = {}

-----------------------------------------------------------------------------
\* Of TestU01Main: the log names the words that were tested (main.h:23).
FoldedAsAnnounced == Main!FoldedAsAnnounced

\* Of TestU01Main: no two tests of a campaign are the same (main.h:77).
DifferentTestsDiffer == Main!DifferentTestsDiffer

\* Of Summarize: every extreme p-value is a failure in the report, and no
\* other; and the crushes it is set against are the complete logs
\* (summarize.pl:33, 52).
LogsAreSummarized == Summary!FailuresAreSummarized /\ Summary!CrushesAreComplete
=============================================================================
