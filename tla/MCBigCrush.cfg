\* bigcrushallparallel.sh with two slots, and runtests.sh: three jobs, four tests.
CONSTANTS
  jobs <- MCBigCrush
  Slots = {s1, s2}
  Scripts = {"bigcrushallparallel", "runtests"}
  ArgumentLists <- MCArgumentLists
  Ones = 10000
  Unlikely = 2
  eps = eps
  Undefined = Undefined
  lines <- MCLines
  Number <- MCNumber
  IntModulus = 4194304  \* an int of 22 bits
  Invalid = {"-x"}
  Outputs <- MCOutputs
SPECIFICATION MCSpec
INVARIANTS TypeOK OneWriterPerLog SuccessMeansPassed CrashesAreSuspect
  FoldedAsAnnounced DifferentTestsDiffer LogsAreSummarized
PROPERTY CampaignIsJudged
CHECK_DEADLOCK FALSE
