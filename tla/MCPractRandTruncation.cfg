\* testwyhash, with -H and without, testwyrand and testw1rand.
CONSTANTS
  commands <- MCNarrow
  Missing = {}
  AES = TRUE
  buffer_size = 2
  PipeSize = 3
  TLMAX = 5
  ent_commands <- MCEntropy
  Silent = {2}
  Writes = 4
  ent_PipeSize = 6
  bs = 2
  count = 3
  size = 32
  generators32 <- MCGenerators32
  generators64 <- MCGenerators64
  generators128 <- MCGenerators128
  Repetitions = 2
SPECIFICATION MCSpec
INVARIANT AskedBitsAreTested
CHECK_DEADLOCK FALSE
