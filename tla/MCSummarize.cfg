\* Logs with several extreme p-values for one test.
CONSTANTS
  jobs <- MCLinearComplexity
  Slots = {s1}
  Scripts = {"linearcomplexity"}
  ArgumentLists <- MCArgumentLists
  Ones = 10000
  Unlikely = 2
  eps = eps
  Undefined = Undefined
  lines <- MCLines
  Number <- MCNumber
  IntModulus = 4194304  \* an int of 22 bits
  Invalid = {"-x"}
  Outputs <- MCOutputs
SPECIFICATION MCSpec
INVARIANT AllCrushesFail
CHECK_DEADLOCK FALSE
