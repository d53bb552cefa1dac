------------------------ MODULE Xorshift128plusStep -------------------------
(***************************************************************************)
(* The three transitions on an xorshift128plus_key_t: xorshift128plus_r and *)
(* v8xorshift128plus_r of xorshift128plus.h and xorshift128plus_orig_r of  *)
(* v8equiv.c, each as the key it leaves and the value it returns.          *)
(***************************************************************************)
EXTENDS BitWords

CONSTANTS ShiftA, ShiftB, ShiftC,   \* 23, 18 and 5
          V8ShiftB, V8ShiftC        \* 17 and 26 (the first shift is shared)

ASSUME XorshiftAssumption ==
  /\ ShiftA \in Nat \ {0}
  /\ ShiftB \in Nat \ {0}
  /\ ShiftC \in Nat \ {0}
  /\ V8ShiftB \in Nat \ {0}
  /\ V8ShiftC \in Nat \ {0}

Key == [part1 : Word, part2 : Word]
ZeroKey == [part1 |-> Zero, part2 |-> Zero]

\* Mutant: part1 is overwritten before s1 is read from it.
Shifted_EarlyStore(key, b, c) ==
  LET s0 == key.part2
      s1 == Xor(key.part2, Shl(key.part2, ShiftA))
  IN  [part1 |-> s0,
       part2 |-> Xor(Xor(Xor(s1, s0), Shr(s1, b)), Shr(s0, c))]

\* part1 = s0; s1 ^= s1 << a; part2 = s1 ^ s0 ^ (s1 >> b) ^ (s0 >> c).
Shifted(key, b, c) ==
  LET s0 == key.part2
      s1 == Xor(key.part1, Shl(key.part1, ShiftA))
  IN  [part1 |-> s0,
       part2 |-> Xor(Xor(Xor(s1, s0), Shr(s1, b)), Shr(s0, c))]

NextKey(key)   == Shifted(key, ShiftB, ShiftC)
V8NextKey(key) == Shifted(key, V8ShiftB, V8ShiftC)

\* Mutant: the sum takes the old part1 where it needs the old part2.
xorshift128plus_r_OldPart1(key) == LET new == NextKey(key) IN Add(new.part2, key.part1)

\* xorshift128plus_r (and v8xorshift128plus_r) return key->part2 + s0 after the
\* update; s0, the old part2, is by then part1.
xorshift128plus_r(key)   == LET new == NextKey(key) IN Add(new.part2, key.part2)
v8xorshift128plus_r(key) == LET new == V8NextKey(key) IN Add(new.part2, key.part2)

\* xorshift128plus_orig_r returns s0 + s1 of the key it is given, and leaves
\* the same key as xorshift128plus_r.
OrigNextKey(key) == Shifted(key, ShiftB, ShiftC)
xorshift128plus_orig_r(key) == Add(key.part2, key.part1)
=============================================================================
