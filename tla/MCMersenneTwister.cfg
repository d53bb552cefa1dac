\* Five words of 2 bits, M = 3: both loops of the twist run twice.  Or the
\* Mitchell-Moore generator, its places 2, 2, 2 and 1 apart around the ring; its
\* counters wrap at a number that is not a multiple of its size, as 2^32 is not one
\* of 250.
CONSTANTS
  W = 2
  N = 5
  M = 3
  UPPER_MASK <- MCUpperMask
  LOWER_MASK <- MCLowerMask
  MATRIX_A <- MCMatrixA
  SeedMultiplier <- MCSeedMultiplier
  SeedShift = 1
  TemperU = 1
  TemperS = 1
  TemperT = 1
  TemperL = 1
  TemperB <- MCTemperB
  TemperC <- MCTemperC
  Seeds <- MCSeeds
  R = 7
  S = 5
  T = 3
  U = 1
  CounterModulus = 15
  WordModulus = 4
  RingSeeds <- MCRingSeeds
SPECIFICATION MCSpec
INVARIANTS TypeOK PlacesDistinct NeverAllEven
PROPERTIES ImplementsRecurrence CallsReturn
