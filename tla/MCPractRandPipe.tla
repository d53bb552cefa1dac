-------------------------- MODULE MCPractRandPipe ---------------------------
(***************************************************************************)
(* Short campaigns of commands of different kinds.                         *)
(***************************************************************************)
EXTENDS ProgramCampaigns

\* A 32-bit generator, one that is missing, a 64-bit generator with and
\* without -H, and one that does nothing without AES.
MCCommands == <<Plain(testmersennetwister), Plain(testpcg32), WithH(testsplitmix64),
                Plain(testsplitmix64), Plain(testaesctr)>>

\* A program that tests what it is asked to, and the three whose buffer is
\* narrower than their generator's output.
MCNarrow == <<WithH(testsplitmix64), WithH(testwyhash), Plain(testwyhash),
              Plain(testwyrand), Plain(testw1rand)>>

MCEntropy == <<Plain(testmersennetwister), Plain(testpcg32), WithH(testsplitmix64),
               Plain(testsplitmix64)>>

\* The lists without aesdragontamer and aesctr.
MCGenerators32 == <<"trivium", "xorshift_k4", "xorshift_k5", "mersennetwister",
                    "mitchellmoore", "widynski", "xorshift32", "pcg32", "rand">>
MCGenerators64 == <<"trivium64", "lehmer64", "xorshift128plus", "xoroshiro128plus",
                    "splitmix64", "splitmix63", "pcg64", "xorshift1024star",
                    "xorshift1024plus", "wyhash64", "wyrand", "w1rand",
                    "jenkinssmall", "CG64">>
MCGenerators128 == <<"CG128", "CG128_64">>

VARIABLE part       \* what is checked: PractRand, the entropy or the speed

\* The parts that are not checked stay as they are, at one of their beginnings.
MCInit == /\ part \in {"practrand", "entropy", "speed"}
          /\ Init /\ E!Init /\ B!Init
          /\ part # "practrand" => \A c \in Index : log[c] = {}
          /\ part # "entropy" => scratchfile = << >>

MCNext == \/ part = "practrand" /\ Next /\ UNCHANGED <<part, ent_vars, speed_vars>>
          \/ part = "entropy" /\ E!Next /\ UNCHANGED <<part, vars, speed_vars>>
          \/ part = "speed" /\ B!Next /\ UNCHANGED <<part, vars, ent_vars>>

InPipe(A) == part = "practrand" /\ A /\ UNCHANGED <<part, ent_vars, speed_vars>>
InEntropy(A) == part = "entropy" /\ A /\ UNCHANGED <<part, vars, speed_vars>>

\* As PractRandPipe has it; and in the same way for the script, the programs
\* and dd.
MCFairness == /\ WF_vars(InPipe(Script)) /\ WF_vars(InPipe(Running)) /\ WF_vars(InPipe(Testing))
              /\ WF_ent_vars(InEntropy(E!Script)) /\ WF_ent_vars(InEntropy(E!Running))
              /\ WF_ent_vars(InEntropy(E!Sampling))

MCSpec == MCInit /\ [][MCNext]_<<part, vars, ent_vars, speed_vars>> /\ MCFairness

\* Of PractRandPipe, and of the entropy campaign: the campaign comes to its end
\* although the programs write for ever (testsplitmix64.c:31).
CampaignsEnd == /\ part = "practrand" => CampaignEnds
                /\ part = "entropy" => <>(ent_t = 5)
=============================================================================
