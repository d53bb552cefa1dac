\* splitmix64 and splitmix63 with a 4-bit counter: two seedings apart, the counter
\* wraps and the period, of 16 or of 8 calls, ends and starts again.
CONSTANTS
  W = 4
  Shift1 = 2
  Shift2 = 1
  Shift3 = 3
  Multiplier1 <- MCMultiplier1
  Multiplier2 <- MCMultiplier2
  Modulus = 16
  GOLDEN_GAMMA = 9
  Mix <- MCMix
  Seeds <- MCSeeds
  MaxCalls = 18
  Quarter = 2
  SeedWord <- MCWord
  SeedWord63 <- MCWord63
  xor <- MCxor
  wyhash_c <- MCwyhash
  wyrand_c <- MCwyrand
  w1rand_c = 7
  WeylSeeds = {0, 6, 9}
  MaxStale = 3
  MaxWeylCalls = 257
  OutBits = 4
  RotBits = 2
  PcgMultiplier = 45
  pcg_xor <- MCxor
  Word32 <- MCWideWord
  Word64 <- MCWord
  PcgSeeds = {0, 5, 11}
  MaxPcgCalls = 257
SPECIFICATION MCSpec
INVARIANTS StatelessIsNthCall NoRepeatWithinPeriod NoStateTwice NoEarlyReturn
PROPERTY OutputIsRotation
\* The calls that a generator is asked for are bounded, and there it stops.
CHECK_DEADLOCK FALSE
