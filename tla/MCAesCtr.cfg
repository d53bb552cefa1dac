\* Three refills of four lanes until the counter wraps; reseeding at any time.
\* Or aesdragontamer; or trivium32 or trivium64, full size.
CONSTANTS
  AESCTR_UNROLL = 4
  AESCTR_ROUNDS = 3
  Counters = 12
  Block <- MCBlock
  ZeroBlock = 0
  BlockOf <- MCBlockOf
  InitialKey <- MCInitialKey
  RoundKey <- MCRoundKey
  xor <- MCXor
  aesenc <- MCAesenc
  aesenclast <- MCAesenclast
  Half <- MCHalf
  Seeds = {0, 1, 2}
  LaneModulus = 8
  INCREMENT <- MCINCREMENT
  mm_aesenc <- MCmm_aesenc
  mm_aesdec <- MCmm_aesdec
  mm_storeu <- MCHalf
  StartOf <- MCStartOf
  StreamSeeds = {0, 1, 2}
  TriviumSeeds <- MCTriviumSeeds
  MaxTriviumCalls = 6
SPECIFICATION MCSpec
INVARIANT TypeOK
PROPERTIES ImplementsCounterMode ImplementsBlockStream ImplementsCipher
