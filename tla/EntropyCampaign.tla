-------------------------- MODULE EntropyCampaign ---------------------------
(***************************************************************************)
(* entropy/runtests.sh: for every command, "./$t | dd of=scratchfile       *)
(* bs=1024 count=1024" and then "./ent scratchfile".  A program writes its *)
(* stream for ever; dd reads 1024 times what there is in the pipe, but not *)
(* more than a block, and leaves.  dd and ent are external.                *)
(***************************************************************************)
EXTENDS PractRandPrograms

CONSTANTS commands,      \* some of the commands of the script
          Silent,        \* the numbers of those that write nothing: not there,
                         \* or testaesctr without __AES__
          Writes,        \* the units of 32 bits a program writes at a time, 1024
          PipeSize,      \* the pipe's capacity, in units
          bs, count      \* the units in a block (256), and the blocks (1024)

VARIABLES t,             \* the command at hand
          program,       \* "off", "writing" or "ended"
          written,       \* the units the program has written
          pipe,
          dd,            \* "off", "reading" or "ended"
          blocks,        \* the blocks dd has read
          scratchfile,
          sampled        \* what ent was given for the last command: <<>>, or
                         \* the command's number and the file

vars == <<t, program, written, pipe, dd, blocks, scratchfile, sampled>>

Index == 1 .. Len(commands)

-----------------------------------------------------------------------------
\* A scratchfile of an interrupted campaign may be there.
Init == /\ t = 1
        /\ program = "off" /\ dd = "off"
        /\ written = 0 /\ blocks = 0
        /\ pipe = << >>
        /\ scratchfile \in {<< >>, <<<<0, "low">>>>}
        /\ sampled = << >>

\* Both ends of the pipe are started, whether the program writes or not; dd
\* empties the file.
Launch == /\ t \in Index
          /\ program = "off" /\ dd = "off"
          /\ program' = IF t \in Silent THEN "ended" ELSE "writing"
          /\ dd' = "reading"
          /\ written' = 0 /\ blocks' = 0
          /\ pipe' = << >>
          /\ scratchfile' = << >>
          /\ UNCHANGED <<t, sampled>>

\* Mutant: what is written is more than the pipe takes in one piece.
Write_InParts == /\ program = "writing" /\ dd = "reading"
                 /\ Len(pipe) < PipeSize
                 /\ written' = written + 1
                 /\ pipe' = Append(pipe, Unit(commands[t], written'))
                 /\ UNCHANGED <<t, program, dd, blocks, scratchfile, sampled>>

\* 4096 bytes leave the program at a time, the buffer of the programs with
\* 64-bit elements and stdio's buffer in the others.  A pipe takes so much in
\* one piece (PIPE_BUF), when it has room for all of it.
Write == /\ program = "writing" /\ dd = "reading"
         /\ Len(pipe) + Writes <= PipeSize
         /\ written' = written + Writes
         /\ pipe' = pipe \o [j \in 1 .. Writes |-> Unit(commands[t], written + j)]
         /\ UNCHANGED <<t, program, dd, blocks, scratchfile, sampled>>

\* SIGPIPE ends the program.
BrokenPipe == /\ program = "writing" /\ dd = "ended"
              /\ program' = "ended"
              /\ UNCHANGED <<t, written, pipe, dd, blocks, scratchfile, sampled>>

\* A block that is not full counts too.
Read == /\ dd = "reading"
        /\ pipe # << >> /\ blocks < count
        /\ LET n == IF Len(pipe) < bs THEN Len(pipe) ELSE bs
           IN  /\ scratchfile' = scratchfile \o SubSeq(pipe, 1, n)
               /\ pipe' = SubSeq(pipe, n + 1, Len(pipe))
        /\ blocks' = blocks + 1
        /\ UNCHANGED <<t, program, written, dd, sampled>>

Stop == /\ dd = "reading"
        /\ blocks = count \/ (program = "ended" /\ pipe = << >>)
        /\ dd' = "ended"
        /\ UNCHANGED <<t, program, written, pipe, blocks, scratchfile, sampled>>

\* ./ent scratchfile, after the last command also rm scratchfile.
Ent == /\ program = "ended" /\ dd = "ended"
       /\ sampled' = <<t, scratchfile>>
       /\ scratchfile' = IF t = Len(commands) THEN << >> ELSE scratchfile
       /\ t' = t + 1
       /\ program' = "off" /\ dd' = "off"
       /\ UNCHANGED <<written, pipe, blocks>>

Script == Launch \/ Ent
Running == Write \/ BrokenPipe
Sampling == Read \/ Stop

Next == Script \/ Running \/ Sampling

\* The script, the program and dd go on when they can.
Spec == Init /\ [][Next]_vars
             /\ WF_vars(Script) /\ WF_vars(Running) /\ WF_vars(Sampling)

-----------------------------------------------------------------------------
\* The entropy that is printed for a command is that of the beginning of its
\* own stream, all of the 1024 kB and nothing else, however writes and reads
\* fall; when it wrote nothing, that of nothing, not of the file of the command
\* before (runtests.sh:7-9).
SampleIsTheBeginning ==
  sampled # << >> =>
    sampled[2] = IF sampled[1] \in Silent THEN << >>
                 ELSE [j \in 1 .. (bs * count) |-> Unit(commands[sampled[1]], j)]
=============================================================================
