\* Two elements a buffer, a pipe of three units, five units a test.  For the entropy
\* blocks of two units, and a pipe with room for one write and a half.  For the
\* speed 32 bytes.
CONSTANTS
  commands <- MCCommands
  Missing = {2}
  AES = FALSE
  buffer_size = 2
  PipeSize = 3
  TLMAX = 5
  ent_commands <- MCEntropy
  Silent = {2}
  Writes = 4
  ent_PipeSize = 6
  bs = 2
  count = 3
  size = 32
  generators32 <- MCGenerators32
  generators64 <- MCGenerators64
  generators128 <- MCGenerators128
  Repetitions = 2
SPECIFICATION MCSpec
INVARIANTS TypeOK StreamIntact FailuresAreReported SuccessMeansTested
  SampleIsTheBeginning WholeBufferIsTimed
PROPERTY CampaignsEnd
CHECK_DEADLOCK FALSE
