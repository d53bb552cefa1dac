-------------------------- MODULE ProgramCampaigns --------------------------
(***************************************************************************)
(* What the repository does with the output of its generators outside      *)
(* TestU01: the PractRand campaign, the entropy campaign and the speed     *)
(* benchmark.  They are run one at a time and share nothing but the        *)
(* programs.                                                               *)
(***************************************************************************)
EXTENDS PractRandPipe

CONSTANTS ent_commands, Silent, Writes, ent_PipeSize, bs, count,
          size, generators32, generators64, generators128, Repetitions

\* A program writes four of dd's blocks at a time: 4096 bytes, of 1024.
ASSUME EntropyAssumption ==
  /\ ent_commands \in Seq(Command)
  /\ bs \in Nat \ {0} /\ count \in Nat
  /\ Writes \in Nat /\ Writes % bs = 0

\* The size is a number of the largest elements, 16 bytes: 4096 bytes.
ASSUME SizeAssumption ==
  size \in Nat /\ size % 16 = 0

VARIABLES ent_t, ent_program, ent_written, ent_pipe, dd, blocks, scratchfile, sampled,
          g, i, calls, repetitions, buf, phase

E == INSTANCE EntropyCampaign WITH
       commands <- ent_commands, PipeSize <- ent_PipeSize,
       t <- ent_t, program <- ent_program, written <- ent_written, pipe <- ent_pipe

B == INSTANCE SpeedBenchmark

ent_vars == <<ent_t, ent_program, ent_written, ent_pipe, dd, blocks, scratchfile, sampled>>
speed_vars == <<g, i, calls, repetitions, buf, phase>>

\* Of EntropyCampaign: ent is given the program's first 1024 kB (runtests.sh:7).
SampleIsTheBeginning == E!SampleIsTheBeginning

\* Of SpeedBenchmark: the time per byte is that of every byte (rng.cpp:91).
WholeBufferIsTimed == B!WholeBufferIsTimed
=============================================================================
