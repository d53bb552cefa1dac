------------------------- MODULE MCTestU01Campaign --------------------------
(***************************************************************************)
(* Three commands, two of them of the same program, and some of the seeds  *)
(* and bit orders; and, of the programs themselves, one after another with *)
(* all the command lines of the scripts.                                   *)
(***************************************************************************)
EXTENDS CampaignResults, SequencesExt

MCCommands == <<<<"testlehmer64">>, <<"testlehmer64", "-H">>, <<"testxorshift32">>>>
MCSeeds == <<<< >>, <<"-S", "987654">>>>
MCOrders == <<<<"-z">>, << >>>>

\* One bigcrush.sh with two seeds, and two with a single seed.
MCBigCrush == BigCrushJobs(SubSeq(MCCommands, 1, 1), MCSeeds, <<<< >>>>)
                \o BigCrushJobs(SubSeq(MCCommands, 2, 3), SubSeq(MCSeeds, 1, 1), <<<<"-z">>>>)

MCLinearComplexity == LinearComplexityJobs(SubSeq(MCCommands, 1, 2), MCOrders)

-----------------------------------------------------------------------------
VARIABLE part    \* what is checked: the campaign, main or the summary

MCNumber(w) == CASE w = "987654" -> 987654 [] w = "848432" -> 848432
                 [] w = "412451" -> 412451 [] w = "5181958" -> 5181958
                 [] w = "3000000" -> 3000000

\* The bytes of the words run through all values.
MCOutputs == {[b \in 1 .. 8 |-> (64 * b + 37 * (b \div 5) + n) % 256] : n \in 0 .. 63}

\* The 276 command lines of bigcrushall.sh; three more seeds, two of which do not
\* fit an int, of 22 bits here, and of these one is taken for 987654; options in
\* another order; and two lines that make main end early.
MCLines ==
  FlattenSeq(BigCrushJobs(testlist,
               <<<< >>, <<"-S", "987654">>, <<"-S", "848432">>, <<"-S", "412451">>>>,
               <<<<"-z">>, <<"-r">>, << >>>>))
    \o << <<"testlehmer64", "-S", "987654", "-c">>,
          <<"testlehmer64", "-S", "5181958", "-c">>,
          <<"testlehmer64", "-c", "-S", "3000000">>,
          <<"testlehmer64", "-H", "-r", "-l">>,
          <<"testlehmer64", "-b", "-h">>, <<"testlehmer64", "-x">> >>

\* One and two p-values of the same test, on either side; values that are no
\* more than unusual; a log without any, one that was cut before its summary, a
\* text that is not a log, and a log that was cut in its last line.
Names(name) == [kind |-> "generator", name |-> name]
Lists(testNo, pValue) == [kind |-> "test", testNo |-> testNo, pValue |-> pValue]
P(number) == [number |-> number, oneMinus |-> FALSE]
OneMinus(number) == [number |-> number, oneMinus |-> TRUE]

MCLogs == { <<Names("pcg32"), Lists(22, P(eps)), Lists(22, P(1))>>,
            <<Names("pcg32"), Lists(22, P(1)), Lists(80, OneMinus(5))>>,
            <<Names("pcg32"), Lists(22, OneMinus(5)), Lists(80, OneMinus(eps))>>,
            <<Names("lehmer64"), Lists(22, P(9995)), Lists(22, P(5)), Lists(22, P(5))>>,
            <<Names("lehmer64")>>,
            << >>,
            <<Lists(22, P(5))>>,
            <<Names("lehmer64"), Lists(22, P(1)), [kind |-> "cut"]>> }

MCArgumentLists == UNION {[1 .. n -> MCLogs] : n \in 1 .. 3}

-----------------------------------------------------------------------------
\* The parts that are not checked stay as they are, at one of their beginnings.
MCInit == /\ part \in {"campaign", "main", "summary"}
          /\ Init
          /\ Main!Init
          /\ Summary!Init
          /\ part # "campaign" => \A n \in Tests : log[n] = "neither"
          /\ part # "campaign" => script = CHOOSE s \in Scripts : TRUE
          /\ part # "summary" => ARGV = << << >> >>

MCNext ==
  \/ /\ part = "campaign" /\ Next
     /\ UNCHANGED <<part, main_vars, summary_vars>>
  \/ /\ part = "main" /\ Main!Next
     /\ UNCHANGED <<part, vars, summary_vars>>
  \/ /\ part = "summary" /\ Summary!Next
     /\ UNCHANGED <<part, vars, main_vars>>

MCFairness ==
  \A s \in Slots :
    WF_vars(/\ part = "campaign"
            /\ Shell(s) \/ Program(s)
            /\ UNCHANGED <<part, main_vars, summary_vars>>)

MCSpec ==
  MCInit /\ [][MCNext]_<<part, vars, main_vars, summary_vars>> /\ MCFairness

\* Of TestU01Campaign: every test comes to a verdict (bigcrush.sh:35).
CampaignIsJudged == part = "campaign" => EveryTestIsJudged

\* Of Summarize: "ALL CRUSHES FAIL!!" (summarize.pl:66).
AllCrushesFail == part = "summary" => Summary!AllCrushesFail
=============================================================================
