# A verification of testingRNG

TLA+ models of the random number generators of this repository, of its unit
test, of the programs and campaigns that run them through PractRand,
TestU01 and ent, of the summary made of the logs, and of the speed benchmark;
what TLC checks of them on small instances; and what TLAPS proves of them for
every word width, array size, number of seeds and so on: every safety property
and every refinement that holds is proved. The source
under `source/`, `unit/`, `practrand/`, `testu01/`, `entropy/` and `speed/` is
the reference: `PROJECT.json` ("map")
gives the lines each definition stands for.

    tlc -workers 2 -config MCAesCtr.cfg MCAesCtr.tla     # one run
    tlapm AesCtrProofs.tla                               # one module's proofs

## 1. The system

testingRNG is a set of header-only generators in C and the programs and shell
scripts that test them statistically.

| Component | Its state | Its operations |
|---|---|---|
| **splitmix64, splitmix63** (`source/splitmix64.h`, `splitmix63.h`) | a 64-bit counter, global or the caller's | seed; next, by advancing the counter and finalizing it; `splitmix64_stateless(seed, n)` |
| **xorshift128plus, v8xorshift128plus** | one global key of two words, shared by the two | seed; two step functions with different shifts |
| **xorshift1024star, xorshift1024plus** | 16 words and a rotating pointer, of each | seed; step, one word replaced |
| **mersennetwister** | 624 words and a pointer | seed; next, twisting all words in place when the pointer is at the end |
| **aesctr** | round keys, four counters, a buffer of 64 bytes, an offset | seed; next eight bytes, refilling when the buffer is used up |
| **aesdragontamer** | a state of 128 bits, the increment, a buffer of four words, an offset | seed, filling the buffer; next word, refilling |
| **trivium32, trivium64** | a register of 288 bits, cut into words | seed, with blank rounds; next 32 or 64 bits |
| **mitchellmoore** | 250 words, four 32-bit counters that are never reset | seed; three additions a call |
| **xorshift32, -k4, -k5, xoroshiro128plus, jenkinssmall, lehmer64** | one to five words | seed; step, linear or nearly so |
| **pcg32, pcg64** | a linear congruential state and its increment | seed; step and rotate |
| **CG64, CG128, CG128-64, widynski, wyhash, wyrand, w1rand** | a Weyl sequence, with or without more words | seed, part of the state or all; next |
| **v8equiv** (`unit/src/v8equiv.c`) | two local keys and two loop counters | for each seed, compare two formulations of xorshift128plus |
| **PractRand programs** (`practrand/src/*.c`) | a buffer of 512 elements | seed once, then for ever fill the buffer and `fwrite` it |
| **PractRand campaign** (`practrand/runtests.sh`) | log files, the loop | run `program -H? \| RNG_test > log`, then judge by the log |
| **TestU01 harness** (`testu01/include/main.h`, `testu01/src/*.c`, `util64bits32bits.h`) | options | parse options, seed, choose one of six foldings of 64 bits into 32, run a battery |
| **TestU01 campaigns** (`testu01/*.sh`) | log files, one loop a shell, the queue of xargs | run programs with seeds and bit orders, judge by exit code and log |
| **summaries** (`testu01/results/summarize.pl`, `practrand/results/summarize.sh`) | counts of p-values | parse the logs, tell blips from systematic failures |
| **speed benchmark** (`speed/src/rng.cpp`), **entropy campaign** (`entropy/runtests.sh`) | arrays; a scratch file | time every generator; run `ent` on a megabyte |
| PractRand, TestU01, ent, CMake, logs | | third-party archives, build files, data |

**How they interact.** Every generator is seeded by splitmix64: with
successive calls of `splitmix64_r` on the seed, or with
`splitmix64_stateless(seed, 0)`, `(seed, 1)`; the two must agree. A campaign
runs each generator in a process of its own; PractRand's talks to `RNG_test`
over a pipe of bounded capacity, and is ended by SIGPIPE. The scripts and the
programs share the log files, by name, also with other scripts and with earlier
campaigns, and `bigcrushallparallel.sh` runs many shells in one directory.

**What is hard.** Not concurrency inside a generator (each is sequential and
global), but:

* *state that survives what should end it*: a buffer, a pointer or an array of
  the previous seed used after seeding; a log of an earlier campaign;
* *boundaries reached once in many calls*: the end of the array in the twister
  and in xorshift1024, the refill and the wrap of the counter in aesctr, the
  wrap of splitmix's counter;
* *in-place updates* that read neighbours before or after they are replaced;
* *absorbing states*: a linear generator whose words are all zero stays there;
* *merging*: a step that is not one-to-one makes streams of different seeds merge;
* *processes*: blocking writes, readers that stop, crash or are missing, shells
  side by side, programs that never return by themselves, and verdicts that
  must tell what happened.

For each component, what makes it correct:

| Component | Correct when |
|---|---|
| splitmix | both interfaces return the same words; no word comes twice in a period |
| xorshift128plus | a seeded key is never zero; streams of different seeds never merge; the two formulations in v8equiv agree |
| xorshift1024 | it is a shift register with the seed's words in it; never all zero |
| mersennetwister | it is the recurrence x[n] = F(x[n-N], x[n-N+1], x[n-N+M]), each word handed out once |
| aesctr | it is the encryption of 0, 1, 2, ... under the seed's key |
| PractRand | RNG_test reads the program's stream from the start, unbroken; failures are reported; "Success!" means it was tested; the campaign ends |
| TestU01 campaigns | one writer a log; the verdict tells how this campaign's program ended; every test is judged; no result is lost |
| TestU01 harness | the words the battery is given are those the log names; tests counted as different are different |
| summaries | a test is a failure exactly if a log says so; crushes are complete logs |
| aesdragontamer | four words of each state, in order, for every seed |
| trivium | W clocks of Trivium a call |
| mitchellmoore | the four places stay apart; the lowest bits never all zero |
| small generators | all zeros only from all zeros |
| pcg, CG and relatives | no state twice within the period the headers claim |
| entropy campaign | ent is given the first megabyte of the program named |
| speed benchmark | the time printed is that of filling the whole buffer |

`PROJECT.json` lists all components, with those not modelled, and the hazards
line by line.

## 2. The modules

| Modules | About | Abstract specification |
|---|---|---|
| `BitWords` | unsigned C integers of `W` bits as functions from bits to 0/1, and `^ & \| << >> + *`, `rotl` | |
| `StaffordMix`, `SplitMix` | the finalizer; the counter and its interfaces | |
| `Xorshift128plusStep`, `Xorshift128plus` | the step functions; processes that seed and call them | |
| `V8Equiv` | `main` and `are_equiv` of the unit test, on `Xorshift128plusStep` | |
| `MersenneTwister` | the array, the pointer, the seeding loop and the three twist loops, an element a step | `LaggedRecurrence` |
| `AesCtr`, `AesDragontamer` | seeding, refill, serving parts of a buffer | `CounterMode` |
| `Trivium` | seeding, blank rounds, a call's windows and rotation, 32 or 64 bits | `TriviumCipher` |
| `Xorshift1024` | seeding and step of the star and plus variants | `ShiftRegister` |
| `MitchellMoore` | the ring and the four counters | |
| `SmallGenerators` | xorshift32, -k4, -k5, xoroshiro128plus, jenkinssmall, lehmer64 | |
| `Pcg`, `WeylSequence` | pcg32/64; CG64, CG128, CG128-64, widynski, wyhash, wyrand, w1rand | |
| `PractRandPrograms`, `PractRandPipe` | the 20 programs; script, program, pipe and RNG_test | |
| `ProgramCampaigns` | composes `PractRandPipe` with the two below | |
| `EntropyCampaign` | the same programs into `dd` and ent | |
| `SpeedBenchmark` | `rng.cpp` | |
| `TestU01Campaign` | the scripts' jobs and verdicts, shells side by side | |
| `CampaignResults` | composes `TestU01Campaign` with the two below | |
| `TestU01Main` | `main.h` and `util64bits32bits.h`: options, folding, battery | |
| `Summarize` | `summarize.pl` | |
| `RandomCampaign` | the hundred tests with `$RANDOM` seeds, on its own | |
| `MC*` | the constants of the runs | |
| `*Proofs` | lemmas and theorems, see section 5 | |

Relatives are checked in one run, whose MC module extends all of them: the
names of their variables differ (`g_state` and `g_offset` are aesdragontamer's,
`CG_x` is that of the Weyl sequences), or a composing module instantiates one of
them with renamed variables (`E` and `B` in `ProgramCampaigns`; `Main` and
`Summary` in `CampaignResults`). The MC module has a variable,
`generator` or `part`, that the initial state chooses and no step changes, and
the variables of the parts that were not chosen stay at one of their initial
states: a behaviour is that of one part, and a counterexample names it.
`CounterMode` is instantiated twice: for aesctr, where a counter is a block's
number and a part eight of its bytes, and for aesdragontamer, where the number
is how often the buffer was filled.

### How state and actions correspond to the code

**SplitMix.** `splitmix64_x` is the static of that name (or a caller's local
copy of its seed); the actions are `splitmix64_seed` and `splitmix64`. `seed`
and `served` are history. `header` is the one the program includes: with
splitmix63.h the finalizer has one bit less than the counter (`OutModulus`). The
finalizer, `mix13`, is in `StaffordMix` on `BitWords`; `SplitMix` asks of it only
that it is one-to-one at both widths, which
`SplitMixProofs!FinalizerMeetsAssumptions` shows of `mix13`.

**Xorshift128plus.** A process has a key (`global_xorshift128plus_key`, zero at
start), may seed it at any time, or never (as `rng.cpp`), and call either of the
two generators the header puts on that key. `calls` and `keys` are history.

**V8Equiv.** `pc` tells where main is; `Begin` copies a key and spins one copy,
`Compare` is one iteration of the inner loop, `Equivalent` and `Finish` are the
two returns. `key1`, `key2`, `seed` and `i` are the program's.

**MersenneTwister.** The array `mt`, the pointer `mti` and the loop variable
`kk` are the program's; seeding and each of the three twist loops advance one
element a step, so that the properties can speak about the array half way. The
constants `N`, `M`, the masks, the tempering shifts and the seed's multiplier
are the `#define`s.

**AesCtr.** `state`, `ctr`, `seed` and `offset` are the struct's; an action is
a whole call. The cipher's rounds are constants: nothing but "a block for a key
and a counter" is used. Only the low half of a counter is added to, so it wraps
at `Counters` (2^64).

**Xorshift1024.** `s` and `p` are the statics. The two headers differ in what
they return, the constant `Output`.

**PractRandPipe.** `t` is the loop of `runtests.sh`, `program` where the
program is in its own loop, `pipe` the kernel's buffer, `log` the files. `Fill`
is the inner `for`, `Write` an `fwrite` that advances by 32 bits when there is
room, `BrokenPipe` SIGPIPE, `Judge` the grep and the echo. A program is a
record of what its main does: the width of its generator, whether it reads
`-H`, the width of its buffer's elements, whether it is all inside `#ifdef
__AES__`. A 64-bit output is the pair of its halves, so that the properties can
tell which of them RNG_test was given. `Read`, `Report`, `Stop` and `Crash` are
RNG_test, external.

**TestU01Campaign.** A test is its command line, which also names its log. A
slot is a shell: `job`, `test`, `program` and `code` are its place in its loop
and `$?`; `next` is xargs's (or `bigcrushall.sh`'s) place in the list. `script`
is the one that runs: it decides the verdict (`BigCrushVerdict`,
`RunTestsVerdict`, `LinearComplexityVerdict`), and whether shells run side by
side; `jobs` are what it runs (`BigCrushJobs`, `RunTestsJobs`,
`LinearComplexityJobs`).

**AesDragontamer.** The variables are the fields of `g_aesdragontamer_state`. A
128-bit value is a pair of lanes, because `_mm_add_epi64` has no carry between
them; the rounds are constants. Before the first seeding the buffer holds
zeros that are handed out, as in the code.

**Trivium.** `width` is 32 or 64, by the header, and `pieces` the three pieces
of the register as the header keeps them, in words; the fifteen windows are
tables with the shifts as they are written. `TriviumCipher` knows neither words
nor windows: a register of 288 bits, one clock at a time (`ImplementsCipher`).

**MitchellMoore.** The ring and the four counters; a counter is incremented
modulo `CounterModulus` (2^32) and only then taken modulo the ring's size, so
that the jump at the wrap is there. Seeding leaves the counters alone.

**SmallGenerators.** `r` is the generator's words in the order of their
declaration; each generator's step is a definition of its name, on `BitWords`.
`MixingRound` is an iteration of the loop that ends `jenkinssmall_init`.

**Pcg, WeylSequence.** Numbers, since the steps are arithmetic; `^` is a
constant (`xor`, `pcg_xor`) of which only what it does without carries is
assumed. What C leaves open is a choice: the value of `value << 32` in pcg32,
which C leaves undefined and processors make the word itself or zero, and the order of the two calls of splitmix64 in one expression in CG128 and
CG128-64. Words that a seeding does not set keep what they had. `first`,
`CG_first` and the numbers of calls are history.

**EntropyCampaign.** `dd` counts reads and not bytes, so the size of writes and
the atomicity of a pipe (PIPE_BUF) are in the model: a write is all there or not
at all, which for the programs' 4096 bytes holds on Linux, and not on macOS, where
PIPE_BUF is 512. The script and the programs are as in PractRandPipe.

**TestU01Main.** A command line is a sequence of words, `optind` getopt's place
in it; the option actions are the cases of the switch; `Leave` is -h, an option
main does not know (`Invalid`), -S without a number, or the end of the battery; `Announce`
is what follows the loop, `Draw` a call of the battery's generator. A 64-bit word
is its eight bytes, and `BitReverseTable256` the header's table. `atoi` wraps.
`experiments` is history: what the runs of one program tested, a set.

**Summarize.** A log is the lines after "Summary results" that the script's
patterns match; `generator`, `nonpassesFor` and `crushCountFor` are the
script's. `Open`, `Read*` and `Close` are the loop over `<>`, `Die` its two ends
by `die`, `Report` the rest. A log may be cut before its summary or in its last
line.

**RandomCampaign.** The loop of `rand*.sh`, a step each for the redirection that
empties the log and for the end of the program; several scripts one after
another, in any order, in the same place. `directory` tells whether
`./longresults` is there: where it is not, the redirection fails, no program
starts and the loop goes on (`NoRedirection`).

**SpeedBenchmark.** `run_benchmark` for each generator of the three lists;
`populate`, an element a step, backwards as the loop counts; `counters::bench`
repeats the filling as often as it likes.

## 3. The runs

Mutants (one a property, named `<definition>_<what is wrong>` before the
definition they change) show that each property depends on the code.

| Run (cfg) | Question | Instance |
|---|---|---|
| `splitmix64` (MCSplitMix) | `StatelessIsNthCall`, `NoRepeatWithinPeriod`; of pcg `NoStateTwice`, `OutputIsRotation`; of CG and its relatives `NoEarlyReturn` | 4-bit counter, all 16 seeds, 18 calls: past the wrap and past the period; splitmix64 with outputs of 4 bits and splitmix63 with outputs of 3. pcg with states of 8 bits, Weyl sequences of 4 (8 in CG128), three seeds, 257 calls: more than any period; a second seeding after up to three calls |
| `xorshift128plus` | `NeverStuckAtZero`, `SeedsStayApart`; of the small generators `ZeroOnlyFromSeedOfZero`; of the unit test `OneStepAhead`, `NoBug`, `TestTerminates`; `WordsAreUnsignedIntegers`: do the operators do C's arithmetic modulo 2^W? | 3-bit words, two processes, three seeds, three calls each, every order and reseeding; the small generators from every 4-bit seed, 24 calls; the unit test on all 64 keys, so all pairs of words, six comparisons; all shifts |
| `mersennetwister` | `ImplementsRecurrence`, `CallsReturn`; of mitchellmoore `PlacesDistinct`, `NeverAllEven` | N = 5, M = 3, 2-bit words: each twist loop runs twice; four seeds, two of which differ only in bits that are cut off. A ring of 7 with lags in the same order as the header's, counters of 15, not a multiple of 7; every state, seeding at every place |
| `aesctr` | `ImplementsCounterMode`; of aesdragontamer `ImplementsBlockStream`; of trivium `ImplementsCipher` | four lanes, counter of 12: three refills, then the wrap; three seeds, reseeding at every offset; aesdragontamer with lanes of 8 values and another increment in each; trivium32 and trivium64 at their real size, two seeds, all blank rounds, six calls |
| `xorshift1024` | `ImplementsShiftRegister`, `NeverAllZero` | four 3-bit words, both output functions at once: every state the three seeds reach |
| `practrand` | `StreamIntact`, `FailuresAreReported`, `SuccessMeansTested`, `CampaignsEnd`; of the entropy campaign `SampleIsTheBeginning`; of the benchmark `WholeBufferIsTimed` | a 32-bit generator, a missing one, a 64-bit one with and without -H, one without AES; pipe of 3 units against buffers of 2 or 4, 5 units a test, so that the reader stops in the middle of a buffer. `dd` reads three blocks of two units from a pipe of six, written four at a time; a buffer of 32 bytes, two fillings a measurement, 25 generators |
| `bigcrush` | `OneWriterPerLog`, `SuccessMeansPassed`, `CrashesAreSuspect`, `CampaignIsJudged`; of main `FoldedAsAnnounced`, `DifferentTestsDiffer`; of the summary `LogsAreSummarized` | two slots, three jobs, four tests, run by bigcrushallparallel.sh or by runtests.sh; logs of an earlier campaign with any content. main: all 276 command lines of bigcrushall.sh, two with seeds past the range of an int (here of 22 bits), of which one is the same int as another line's seed, one with options in another order, two that end main early; words whose bytes run through all 256 values. Summary: one to three of eight logs (two values of one test, both ends, cut before the summary or in its last line, not a log) |
| `practrand_success`, `practrand_truncation`, `linearcomplexity`, `summarize`, `randomcampaign` | the five findings below | expected violations |

`TypeOK`, the type invariant, is checked in the runs `mersennetwister`,
`aesctr`, `xorshift1024`, `practrand` and `bigcrush`, and proved of each of
these modules; of SplitMix, Xorshift128plus and V8Equiv it is proved only, and
`RandomCampaign` has none.

Why the bounds are enough: the constants of the arithmetic models (word width,
shifts, array size) are small because the theorems of section 5 hold for all of
them; the instances are chosen so that every boundary (wrap, end of array, end
of buffer, second seeding) is reached several times. The bounds `MaxCalls` of
SplitMix and Xorshift128plus limit the histories only. In the campaigns a
shell's or a program's behaviour depends on one test at a time and on its log,
so that commands of each kind after one another, and more jobs than slots,
cover what a longer list could do; `TLMAX` and `buffer_size` only scale how
often the same boundary is crossed. The small
generators' 24 calls are more than all the states of xorshift32; the others
start from 16 seeds each, and whether a step leads to zero depends on the step. A summary depends on one generator's logs at a time and
on what the log read before leaves behind: three logs are one before, one
of the generator and one more. A main handles an option without looking at those
after it, so that the scripts' command lines, which are all there, are enough.

What the scaled-down arithmetic cannot show is that a constant of the source has
the property its algorithm needs. Such properties are ASSUMEs with a name, to
be compared with the constant in the header: pcg's multiplier is 1 modulo 4
(`PcgMultiplierAssumption`), the increments of wyhash, wyrand and w1rand and the
multipliers of the finalizer are odd (`IncrementsAssumption`,
`MultipliersAssumption`), mitchellmoore's lags differ by no multiple of the
ring's size, nor does 2^32 less one of these differences (`RingAssumption`).

### Fairness

* `V8Equiv`, `MersenneTwister`: weak fairness of the next step of a sequential
  program that has started (a call that has begun goes on; nobody has to call).
* `PractRandPipe`: weak fairness of each of the three processes (script,
  program, RNG_test), which the operating system's scheduler gives; none that
  RNG_test finds a failure or crashes. `CampaignsEnd` also rests on RNG_test
  stopping at `-tlmax`, and on SIGPIPE, which no program ignores: no
  program looks at what `fwrite` returns, so nothing else would end it.
* `EntropyCampaign`: the same, of the script, the program and `dd` (its `Spec`),
  in the same run: fairness of a part holds in the behaviours that chose it.
* `TestU01Campaign`: weak fairness of each slot, which includes that a
  battery ends, whether by passing, failing or crashing.

The other modules state no fairness: nobody has to call a generator, and their
properties are safety. Deadlock is checked except where the system, or its
bounded history, stops: at the end of the unit test, of a campaign, a summary
or a benchmark, and (run `splitmix64`) after the bounded calls.

## 4. Findings

1. **A crash of RNG_test is a "Success!"** (`practrand/runtests.sh:26`,
   run `practrand_success`). The verdict is a grep for FAIL; neither exit code
   is looked at, though the README warns of crashes of PractRand and
   `bigcrush.sh:37` does call such a log suspect. `SuccessMeansTested` states
   what does hold. The same happens for a program built without AES.
2. **linearcomplexity.sh prints "Success!" for a program that crashed**
   (`testu01/linearcomplexity.sh:19`, run `linearcomplexity`). It looks for
   stars only and loses the exit code in a pipe. `testu01/runtests.sh` does not
   look at exit codes either but greps for a line that only a completed battery
   prints: there the property holds (run `bigcrush`,
   `TestU01CampaignProofs!SuccessCorrect`).
3. **testwyhash ignores -H, and three PractRand programs truncate**
   (`practrand/src/testwyhash.c:11`, `testwyrand.c:30`, `testw1rand.c:30`, run
   `practrand_truncation`): 64-bit outputs in a buffer of `uint32_t`, although
   "For PractRand, we do not need to truncate the produced random bits"
   (README:183); so 'testwyhash -H' repeats the test of the low bits, and no
   command tests the high ones of this generator. `AskedBitsAreTested`.
4. **"ALL CRUSHES FAIL!!" counts p-values** (`testu01/results/summarize.pl:66`,
   run `summarize`): a test with several statistics has several p-values in one
   log, and the number of failing ones is compared with the number of crushes.
   The mark is missing where every crush fails with more than one value, and can
   stand where one crush fails with as many values as there are crushes
   (`AllCrushesFail`). What else the summary says of a test is right:
   `LogsAreSummarized`.
5. **The long campaigns lose results** (`testu01/randxoroshiro128plus.sh:19`, run
   `randomcampaign`). The scripts say "Outputting result to" a log in
   `./longresults` and do not look at whether they can. "Scripts are copied into
   the build directory ... you can run them directly from there" (README:89), but
   only `*.sh` is copied (`testu01/CMakeLists.txt:69`): there each redirection
   fails, no program is started, and the script goes through its hundred tests
   without a result. In the source directory, where `longresults` exists, a
   seed that `$RANDOM` (15 bits) returns again overwrites the log of the first
   test with it. `EveryTestHasItsLog`; with `directory` true TLC's shortest
   behaviour is the second case.

Smaller disagreements: README:126 says that `summarize.pl` is copied to
`build/testu01/results`; the CMake file does not do that either. And those that
the models respect: a seed of -S beyond an int is not the seed that is given (`atoi`;
`DifferentTestsDiffer` allows no two seeds to be taken for one another but those
that are the same modulo 2^32), xorshift32
keeps only the low bits of its seed (`SeedingLeavesZero`), and a second seeding
of CG64, CG128, CG128-64 does not reproduce the stream of the first; the
period, which is what their headers claim, does not depend on that.

## 5. What is proved

Every theorem below is `Spec => []Inv`, `Spec => [][A]_vars` or `Spec =>
Abstract!Spec`, for every value of the constants that the named ASSUMEs allow.
TLC evaluates these on the instances; the modules say where in the code they
come from. The shape is the same throughout: an inductive invariant (`IInv`,
`WeylIInv`, `MainIInv`, ...), a lemma for the initial state and one for each action,
and what the invariant implies.

* **BitWordsProofs** — the lemmas the generators share. Words are closed under the
  operators and equal when their bits are; `x ^ (x << a)`, `x ^ (x >> a)` and
  rotations are one-to-one (by the least or greatest bit in which two words
  differ); so is multiplication by an odd word. Each operator computes what C's
  does on the number a word stands for (`AddValue`, `MulValue`, `ShlValue`,
  `XorValue`, ...), although the value is a sum over the bits: the lemmas about it
  go by the least bit at which they would fail (`BitInduction`), since a set of
  naturals that is not empty has a least element. Also the arithmetic of
  remainders, and of odd numbers modulo powers of two (`OddMultiples`: a
  multiple of an odd number is 0 only if the factor is).
* **SplitMixProofs**
  * *splitmix*: `FinalizerInjective`, from the odd multipliers, and
    `FinalizerMeetsAssumptions`: on the numbers the words stand for it is what
    `SplitMix` assumes of `Mix`, with the 64 bits of splitmix64 as with the 63 of
    splitmix63;
    `StatelessCorrect`, by the invariant that the counter is seed + (calls) *
    gamma modulo the modulus; `PeriodCorrect`, from it, from gamma being odd and
    the modulus a power of two, and from the finalizer being one-to-one.
  * *CG64 and relatives*: `WeylPeriodCorrect`. The Weyl word is its start plus
    (calls) * (odd step), and cannot be back before the end of the period.
  * *pcg*: `PcgPeriodCorrect`. After n calls the state is first + (1 + a + ... +
    a^(n-1)) * ((a - 1) * first + inc); with a = 1 modulo 4 such a sum is
    divisible by a power of two only if n is (`SumsDivided`), and the factor is odd:
    so every state comes once in a period. `RotationCorrect`: an output is the
    folded state rotated, whether the shift by the whole width gives the word or
    zero, because
    `^` of numbers with no bit in common adds them.
* **Xorshift128plusProofs**
  * *the generator*: `StepInjective`; `NonZeroCorrect`, because the
    step is one-to-one and maps zero to zero; `SeedsStayApartCorrect`, by the
    invariant that the history of keys is the iteration of the calls' steps.
  * *the unit test*: `EquivalenceCorrect`, `OneStepAheadCorrect`: v8equiv can
    never print "Bug!", whatever the width, the shifts, the seeds. `WordsCorrect`:
    what its run checks of the operators holds for every width.
  * *the small generators*: `ZeroOnlyFromZeroCorrect`. Each step is `Steady`: it
    takes the state of zeros, and no other, to zeros. For the xorshifts this
    is that their maps are one-to-one, for lehmer64 that its multiplier is odd; of
    jenkinssmall the words are solved for one after another, and its seeding
    stores a constant that is not zero.
* **MersenneTwisterProofs**
  * *the twister*: `RefinementCorrect`: the array and pointer implement
    `LaggedRecurrence`, where a twist step is one step of the recurrence
    made ahead of its caller. The inductive invariant adds to `TypeOK` that
    while seeding the words below the loop variable are already chained.
  * *mitchellmoore*: `PlacesCorrect`. Two of the counters differ by a constant, or,
    when one of them has wrapped, by the constant less `CounterModulus`; neither is a
    multiple of the ring's size. `OddWordCorrect`: from it, because a call adds
    to a word the one at another place; if this makes an odd word even, that
    other one is odd, and stays.
* **AesCtrProofs**
  * *aesctr*: `RefinementCorrect`: implements `CounterMode`. The
    inductive invariant adds that the lanes hold consecutive counters and that
    the buffer holds the encryptions of the counters before them.
  * *aesdragontamer*: `BlockStreamCorrect`: implements the same abstract
    specification, where the state after n fillings is the start plus n
    increments, lane by lane.
  * *trivium*: `CipherCorrect`, of the headers at their real size, for any seeds and
    number of calls. Each window of a word is a tap of the cipher at 32 or 64
    successive clocks (`WindowsAreTaps`: the fifteen shifts, one after the other),
    no clock of a call depends on a bit that the same call made
    (`AfterClocks`), and shifting the words in is clocking the register.
* **Xorshift1024Proofs** — `RefinementCorrect`: the array seen from the pointer
  on is the shift register; `NonZeroCorrect`: the two old words of a step are
  zero when the new one and the one kept are, so a zero array could only
  come from a zero array.
* **PractRandPipeProofs**
  * *PractRand*: one invariant. The stream is in three places, of which each begins
    where the other ends: what RNG_test has read, the pipe, the rest of the
    program's buffer (`InPlace`); and a process that has ended has a reason
    (`Reasons`). From the first `StreamCorrect`, from the second
    `FailuresCorrect` and `SuccessCorrect`.
  * *entropy*: `SampleCorrect`. The pipe always holds whole blocks of dd's, as
    writes are multiples of them (`EntropyAssumption`), so dd never reads a short
    one, and leaves only when it has them all.
  * *speed*: `WholeBufferCorrect`. The part of the buffer that is filled grows
    element by element, and the elements are the whole buffer, as its size is a
    multiple of theirs (`SizeAssumption`).
* **TestU01CampaignProofs**
  * *the scripts*: `OneWriterCorrect`: slots always hold different
    jobs that were handed out, and jobs share no log; `SuccessCorrect`, for
    all scripts but linearcomplexity.sh (finding 2), and `SuspectCorrect`, for any
    number of slots and jobs, by the invariant that relates the log and the exit
    code of a program that has exited to how it ended.
  * *the summary*: `SummaryCorrect`: while a log is read, the p-values
    collected are those of the lines read, no fewer and no more (`Collected`,
    `NothingLost`), and the crushes counted are the logs closed. It assumes that
    TestU01 names the generator once, before its p-values (`LogsAssumption`), and
    that an extreme value is nearer to its end than half (`UnlikelyAssumption`).
  * *main*: `FoldingCorrect`: the number of the folding, the name and the words
    belong together, and each of the table's 256 bytes is its index reversed
    (`ReversedByte`). `ExperimentsCorrect`: at any time the options are what the
    words that getopt has passed ask for (`OptionsRead`), so what was tested
    and the seed that was asked for determine the words of the line; and `atoi`
    takes no two numbers for one another that differ modulo 2^32 (`AtoiFacts`).
    Both are for command lines as the scripts write them (`LinesAssumption`): at
    most one order and one seed, one battery, no -H for a 32-bit program, no two
    lines of the same words.
* Those with a `TypeOK` also have `TypeCorrect` or `TestTypeCorrect`.

Model-checked only: liveness (`TestTerminates`, `CallsReturn`, `CampaignsEnd`,
`CampaignIsJudged`), which is out of the prover's reach; and the runs
that show a violation.

## 6. Not modelled, and the plan

Every part of the program with a state of its own is modelled. Left out, inside
what is modelled:

* the constants of the arithmetic at full width: words are of a few bits, except
  in trivium and in main's folding;
* in the wyhash family, the functions that only cut an output to 32 bits;
* in `TestU01Main` the texts (usage, help) and what the battery does; in the
  campaigns' logs everything but what the scripts look for;
* in `Summarize`, the text of a p-value, which is a number and whether "1 - " is
  before it; a line cut so that what is left still looks like one with a p-value;
  the formatting of the report, and the numbering of tests;
* in `TestU01Main`, words that do not begin with a dash, which getopt skips and no
  script passes;
* in `SpeedBenchmark`, the time itself, the hardware counters and the
  choice of their events.

Not modelled at all: the statistical tests (third-party archives of PractRand,
TestU01 and ent, which appear as external actions), `practrand/results/
summarize.sh`, which greps and has no state, CMake files, the logs of past
campaigns, and the statistical quality of any generator, which is what the
repository measures and not something a model can decide.

What could still be done, and would add less than what is there:

1. The stronger claim that the small generators' steps are one-to-one, of which
   `ZeroOnlyFromSeedOfZero` needs only the case of zero.
2. Liveness: that a campaign's processes cannot wait for one another is checked
   on the instance of `practrand`. Its safety part, that some process can go on
   in every state that is not final, could be stated without ENABLED and proved.
