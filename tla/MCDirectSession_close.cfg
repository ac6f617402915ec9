CONSTANTS
  Steps <- Tokens
  Callers = {r1, r2}
  Cancellers = {c1}
  Executors = {e1}
  MaxRuns = 2
  MaxTokens = 4
  spl = 2
  Inputs <- FewInputs
  Timeouts = {TRUE}
SPECIFICATION DSSpec
INVARIANTS
  DSTypeOK
  OkMeansAllSlicesRan
  ExecutorsShared
PROPERTY NoStepAfterClose
CHECK_DEADLOCK FALSE
