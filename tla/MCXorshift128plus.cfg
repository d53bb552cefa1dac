\* Words of 3 bits; every order of seeding, reseeding and calls of two processes;
\* the unit test on all 64 keys, six comparisons each; or a small generator,
\* from every seed of one bit more than a word.
CONSTANTS
  W = 3
  ShiftA = 1
  ShiftB = 1
  ShiftC = 2
  V8ShiftB = 2
  V8ShiftC = 1
  Shift1 = 2
  Shift2 = 1
  Shift3 = 1
  Multiplier1 <- MCMultiplier1
  Multiplier2 <- MCMultiplier2
  Process = {p1, p2}
  Seeds = {0, 3, 5}
  SplitMixWord <- MCStateless
  MaxCalls = 3
  StatelessWord <- MCKeyHalf
  SeedCount <- MCSeedCount
  Comparisons = 6
  SmallShift <- MCShift
  SmallWord <- MCSmallWord
  LehmerMultiplier = 13
  JenkinsConstant <- MCJenkinsConstant
  JenkinsRounds = 3
  SmallSeeds <- MCSmallSeeds
  MaxSmallCalls = 24
SPECIFICATION MCSpec
INVARIANTS NeverStuckAtZero SeedsStayApart ZeroOnlyFromSeedOfZero
  WordsAreUnsignedIntegers OneStepAhead NoBug
PROPERTY TestTerminates
\* The calls that a generator is asked for are bounded, and the test ends.
CHECK_DEADLOCK FALSE
