\* Two scripts, one after another; the last one stops when its loop is over.
CONSTANTS
  Hundred = 2
  RANDOM = {0, 1}
  MaxScripts = 2
SPECIFICATION Spec
INVARIANT EveryTestHasItsLog
CHECK_DEADLOCK FALSE
