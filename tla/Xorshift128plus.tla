-------------------------- MODULE Xorshift128plus ---------------------------
(***************************************************************************)
(* The processes that run on xorshift128plus.h: testxorshift128plus and    *)
(* testv8xorshift128plus, of TestU01 and of PractRand, are separate        *)
(* processes, run one after the other with four seeds by bigcrush.sh and   *)
(* side by side by bigcrushallparallel.sh.  The header gives a program one *)
(* global key for both generators, and it may call either, seed it when it *)
(* likes, or, as the speed driver rng does, never.                         *)
(***************************************************************************)
EXTENDS Xorshift128plusStep, Sequences

CONSTANTS Process,                    \* the running programs
          Seeds,                      \* the seeds they are given
          SplitMixWord(_, _),         \* splitmix64_stateless, as words
          MaxCalls                    \* bound on the calls of each process

\* What SplitMix promises of the words the key is seeded with: those of one
\* seed differ from each other, and so do those of two seeds.
ASSUME StatelessAssumption ==
  /\ \A s \in Seeds : /\ SplitMixWord(s, 0) \in Word
                      /\ SplitMixWord(s, 1) \in Word
                      /\ SplitMixWord(s, 0) # SplitMixWord(s, 1)
  /\ \A r, s \in Seeds :
       r # s => SplitMixWord(r, 0) # SplitMixWord(s, 0)

ASSUME SeedsAssumption == Seeds \subseteq Nat

ASSUME MaxCallsAssumption == MaxCalls \in Nat

Call == {"xorshift128plus", "v8xorshift128plus"}

VARIABLES key,      \* global_xorshift128plus_key of each process
          seed,     \* history: the seed given, or Unseeded
          calls,    \* history: the generator functions called since
          keys      \* history: the key after seeding and after each call

vars == <<key, seed, calls, keys>>

Unseeded == -1

-----------------------------------------------------------------------------
\* Static storage starts as zeros.
Init == /\ key = [p \in Process |-> ZeroKey]
        /\ seed = [p \in Process |-> Unseeded]
        /\ calls = [p \in Process |-> << >>]
        /\ keys = [p \in Process |-> <<ZeroKey>>]

\* Mutant: both halves are set to the first word.
xorshift128plus_init_SameWord(key1, key2) == [part1 |-> key1, part2 |-> key1]

xorshift128plus_init(key1, key2) == [part1 |-> key1, part2 |-> key2]

\* A process may seed again at any time, and starts a new stream then.
xorshift128plus_seed(p, s) ==
  LET new == xorshift128plus_init(SplitMixWord(s, 0),
                                  SplitMixWord(s, 1))
  IN  /\ key' = [key EXCEPT ![p] = new]
      /\ seed' = [seed EXCEPT ![p] = s]
      /\ calls' = [calls EXCEPT ![p] = << >>]
      /\ keys' = [keys EXCEPT ![p] = <<new>>]

Step(p, c, new) ==
  /\ Len(calls[p]) < MaxCalls
  /\ key' = [key EXCEPT ![p] = new]
  /\ calls' = [calls EXCEPT ![p] = Append(@, c)]
  /\ keys' = [keys EXCEPT ![p] = Append(@, new)]
  /\ UNCHANGED seed

xorshift128plus(p)   == Step(p, "xorshift128plus", NextKey(key[p]))
v8xorshift128plus(p) == Step(p, "v8xorshift128plus", V8NextKey(key[p]))

Next == \E p \in Process :
          \/ \E s \in Seeds : xorshift128plus_seed(p, s)
          \/ xorshift128plus(p)
          \/ v8xorshift128plus(p)

Spec == Init /\ [][Next]_vars

-----------------------------------------------------------------------------
TypeOK == /\ key \in [Process -> Key]
          /\ seed \in [Process -> Seeds \cup {Unseeded}]
          /\ calls \in [Process -> Seq(Call)]
          /\ keys \in [Process -> Seq(Key)]

\* "Must be non-zero": however the two generators take turns on the key they
\* share, a seeded key never becomes all zeros, the state they cannot leave.
NeverStuckAtZero == \A p \in Process : seed[p] # Unseeded => key[p] # ZeroKey

\* The first n calls of the two processes were of the same functions.
SameCalls(p, q, n) == \A i \in 1 .. n : calls[p][i] = calls[q][i]

\* Runs with different seeds are different runs: as long as two processes call
\* the same functions in the same order, at their own pace, their keys after
\* the n-th call are never the same key, so the streams never merge.
SeedsStayApart ==
  \A p, q \in Process : \A n \in 1 .. Len(keys[p]) :
    /\ seed[p] # Unseeded /\ seed[q] # Unseeded /\ seed[p] # seed[q]
    /\ n <= Len(keys[q])
    /\ SameCalls(p, q, n - 1)
    => keys[p][n] # keys[q][n]
=============================================================================
