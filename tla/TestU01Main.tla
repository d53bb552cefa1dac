----------------------------- MODULE TestU01Main ----------------------------
(***************************************************************************)
(* main.h, the main function of the TestU01 programs, and the functions of *)
(* util64bits32bits.h with which it makes 32-bit words of 64-bit ones.     *)
(* A script runs it for one command line after another.  A word is the     *)
(* sequence of its bytes, the lowest first.                                *)
(***************************************************************************)
EXTENDS Integers, Sequences, SequencesExt

CONSTANTS lines,         \* the command lines of the scripts, one after another,
                         \* each a sequence of words
          Number(_),     \* the number a word of a command line is
          IntModulus,    \* 2^32
          Invalid,       \* words that begin with a dash and are no option of main
          Outputs        \* what thisrng returns: words of eight bytes

VARIABLES line,          \* the command line the running program has
          optind,        \* the word getopt looks at next
          seedvalue, testroutine, z, use_msb,
          phase,         \* "options" or "testing"
          announced,     \* the generator's name in the log, <<>> before it is
          rng,           \* what thisrng returned, and
          folded,        \* what our_rng made of it, last: <<>> before a call
          experiments    \* history: what the runs of this program tested, a set

options == <<optind, seedvalue, testroutine, z, use_msb>>
vars == <<line, options, phase, announced, rng, folded, experiments>>

-----------------------------------------------------------------------------
lsb64(x) == SubSeq(x, 1, 4)
msb64(x) == SubSeq(x, 5, 8)

bytereverse32(v) == Reverse(v)

BitReverseTable256 == <<
    0, 128,  64, 192,  32, 160,  96, 224,  16, 144,  80, 208,  48, 176, 112, 240,
    8, 136,  72, 200,  40, 168, 104, 232,  24, 152,  88, 216,  56, 184, 120, 248,
    4, 132,  68, 196,  36, 164, 100, 228,  20, 148,  84, 212,  52, 180, 116, 244,
   12, 140,  76, 204,  44, 172, 108, 236,  28, 156,  92, 220,  60, 188, 124, 252,
    2, 130,  66, 194,  34, 162,  98, 226,  18, 146,  82, 210,  50, 178, 114, 242,
   10, 138,  74, 202,  42, 170, 106, 234,  26, 154,  90, 218,  58, 186, 122, 250,
    6, 134,  70, 198,  38, 166, 102, 230,  22, 150,  86, 214,  54, 182, 118, 246,
   14, 142,  78, 206,  46, 174, 110, 238,  30, 158,  94, 222,  62, 190, 126, 254,
    1, 129,  65, 193,  33, 161,  97, 225,  17, 145,  81, 209,  49, 177, 113, 241,
    9, 137,  73, 201,  41, 169, 105, 233,  25, 153,  89, 217,  57, 185, 121, 249,
    5, 133,  69, 197,  37, 165, 101, 229,  21, 149,  85, 213,  53, 181, 117, 245,
   13, 141,  77, 205,  45, 173, 109, 237,  29, 157,  93, 221,  61, 189, 125, 253,
    3, 131,  67, 195,  35, 163,  99, 227,  19, 147,  83, 211,  51, 179, 115, 243,
   11, 139,  75, 203,  43, 171, 107, 235,  27, 155,  91, 219,  59, 187, 123, 251,
    7, 135,  71, 199,  39, 167, 103, 231,  23, 151,  87, 215,  55, 183, 119, 247,
   15, 143,  79, 207,  47, 175, 111, 239,  31, 159,  95, 223,  63, 191, 127, 255>>

\* Mutant: the bits of each byte are reversed, the bytes are not.
bitreverse32_InPlace(v) == [b \in 1 .. 4 |-> BitReverseTable256[v[b] + 1]]

bitreverse32(v) == [b \in 1 .. 4 |-> BitReverseTable256[v[5 - b] + 1]]

our_rng(n, x) == CASE n = 0 -> lsb64(x)
                   [] n = 1 -> bytereverse32(lsb64(x))
                   [] n = 2 -> bitreverse32(lsb64(x))
                   [] n = 3 -> msb64(x)
                   [] n = 4 -> bytereverse32(msb64(x))
                   [] n = 5 -> bitreverse32(msb64(x))

our_name == <<<<"lsb", "as it is">>, <<"lsb", "byte reverse">>, <<"lsb", "bit reverse">>,
              <<"msb", "as it is">>, <<"msb", "byte reverse">>, <<"msb", "bit reverse">>>>

\* Mutant: a number that does not fit an int becomes the largest int, as with a
\* strtol of 32 bits.
atoi_Saturates(word) == IF 2 * Number(word) < IntModulus THEN Number(word)
                        ELSE (IntModulus \div 2) - 1

\* atoi, where a number does not fit an int (glibc keeps the low 32 bits): a
\* negative number stands for the uint64_t it is converted to.
atoi(word) == LET low == Number(word) % IntModulus
              IN  IF 2 * low < IntModulus THEN low ELSE low - IntModulus

-----------------------------------------------------------------------------
DefaultSeed == 12345678

\* A process starts: the locals of main.
Started == /\ optind' = 2
           /\ seedvalue' = DefaultSeed
           /\ testroutine' = "SMALLCRUSH"
           /\ z' = 0
           /\ use_msb' = FALSE
           /\ phase' = "options"
           /\ announced' = << >>
           /\ rng' = << >>
           /\ folded' = << >>

Init == /\ line = 1
        /\ optind = 2
        /\ seedvalue = DefaultSeed
        /\ testroutine = "SMALLCRUSH"
        /\ z = 0
        /\ use_msb = FALSE
        /\ phase = "options"
        /\ announced = << >>
        /\ rng = << >>
        /\ folded = << >>
        /\ experiments = {}

Current == lines[line][optind]

Option(words) == /\ line <= Len(lines)
                 /\ phase = "options"
                 /\ optind <= Len(lines[line])
                 /\ Current \in words
                 /\ optind' = optind + (IF Current = "-S" THEN 2 ELSE 1)
                 /\ UNCHANGED <<line, phase, announced, rng, folded, experiments>>

\* The cases of the switch over getopt's result: the last order, battery or
\* seed on the line counts.
OptionOrder == /\ Option({"-r", "-R", "-z"})
               /\ z' = IF Current = "-r" THEN 1 ELSE 2
               /\ UNCHANGED <<seedvalue, testroutine, use_msb>>

OptionBattery == /\ Option({"-s", "-c", "-b", "-l"})
                 /\ testroutine' = CASE Current = "-s" -> "SMALLCRUSH"
                                     [] Current = "-c" -> "CRUSH"
                                     [] Current = "-b" -> "BIGCRUSH"
                                     [] Current = "-l" -> "LINEARCOMP"
                 /\ UNCHANGED <<seedvalue, z, use_msb>>

OptionHigh == /\ Option({"-H"})
              /\ use_msb' = TRUE
              /\ UNCHANGED <<seedvalue, testroutine, z>>

OptionSeed == /\ Option({"-S"})
              /\ optind < Len(lines[line])
              /\ seedvalue' = atoi(lines[line][optind + 1])
              /\ UNCHANGED <<testroutine, z, use_msb>>

Options == {"-r", "-R", "-z", "-s", "-c", "-b", "-l", "-H", "-S"}

\* After -h, after an option it does not know and after -S without a seed, main
\* ends without a test; so it does when the battery has come to its end.  (Words
\* that do not begin with a dash, which getopt would skip, are in no script.)
Leave == /\ line <= Len(lines)
         /\ \/ phase = "testing"
            \/ /\ optind <= Len(lines[line])
               /\ \/ Current \in {"-h"} \cup Invalid
                  \/ Current = "-S" /\ optind = Len(lines[line])
         /\ line' = line + 1
         /\ Started
         /\ UNCHANGED experiments

SameProgram(e) == e.line[1] = lines[line][1]

\* The seed and the name are printed, and the battery is called.
Announce == /\ line <= Len(lines)
            /\ phase = "options"
            /\ optind > Len(lines[line])
            /\ z' = IF use_msb THEN z + 3 ELSE z
            /\ announced' = our_name[z' + 1]
            /\ phase' = "testing"
            /\ experiments' = {e \in experiments : SameProgram(e)}
                 \cup {[line |-> lines[line], seed |-> seedvalue, folding |-> z',
                        battery |-> testroutine]}
            /\ UNCHANGED <<line, optind, seedvalue, testroutine, use_msb, rng, folded>>

\* thisrng: three of the programs convert a word of 32 bits to one of 64.
Narrow == {"testpcg32", "testxorshift32", "testmersennetwister"}

thisrng(x) == IF lines[line][1] \in Narrow THEN lsb64(x) \o <<0, 0, 0, 0>> ELSE x

\* The battery asks for a word.  One is enough: no word depends on another.
Draw(x) == /\ phase = "testing"
           /\ rng = << >>
           /\ rng' = thisrng(x)
           /\ folded' = our_rng(z, rng')
           /\ UNCHANGED <<line, options, phase, announced, experiments>>

Next == \/ OptionOrder \/ OptionBattery \/ OptionHigh \/ OptionSeed
        \/ Leave \/ Announce
        \/ \E x \in Outputs : Draw(x)

Spec == Init /\ [][Next]_vars

-----------------------------------------------------------------------------
Bit(v, i) == (v[(i \div 8) + 1] \div 2^(i % 8)) % 2

\* The bit of a 32-bit word that is bit i when the order has been changed.
Place(order, i) == CASE order = "as it is"     -> i
                     [] order = "byte reverse" -> 8 * (3 - (i \div 8)) + (i % 8)
                     [] order = "bit reverse"  -> 31 - i

\* What a log says was tested was tested: whatever options led there, each bit
\* of a word that TestU01 is given is the bit of the generator's word that the
\* announced half and order say (main.h:23-29, the table of
\* util64bits32bits.h:35); and none of the scripts' command lines asks for the
\* upper half of a 32-bit program's words, which is zero (testlist.sh:4).
FoldedAsAnnounced ==
  folded # << >> =>
    /\ \A i \in 0 .. 31 :
         Bit(folded, i)
           = Bit(rng, Place(announced[2], i) + (IF announced[1] = "msb" THEN 32 ELSE 0))
    /\ lines[line][1] \in Narrow => announced[1] = "lsb"

\* The seed a command line asks for.
GivenSeed(command) ==
  LET places == {n \in 2 .. Len(command) : command[n] = "-S"}
  IN  IF places = {} THEN DefaultSeed
      ELSE Number(command[(CHOOSE n \in places : TRUE) + 1])

\* Two command lines of a program that a campaign counts as two tests are two
\* experiments: they ask for another seed, other words or another battery; and
\* the program takes two seeds for one another only when they differ by a
\* multiple of 2^32 (atoi, main.h:77), never because one of them was lost.
DifferentTestsDiffer ==
  \A e, f \in experiments :
    LET d == GivenSeed(e.line)
        g == GivenSeed(f.line)
    IN  /\ e.line # f.line => d # g \/ e.folding # f.folding \/ e.battery # f.battery
        /\ e.seed = f.seed => d % IntModulus = g % IntModulus
=============================================================================
