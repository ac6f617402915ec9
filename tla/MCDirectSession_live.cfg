CONSTANTS
  Steps <- Tokens
  Callers = {r1}
  Cancellers = {c1, c2}
  Executors = {e1, e2}
  MaxRuns = 1
  MaxTokens = 2
  spl = 2
  Inputs <- MixedInputs
  Timeouts = {TRUE, FALSE}
SPECIFICATION DSLiveSpec
INVARIANTS
  FedIsAPrefix
  BarrierPromise
  NoUseAfterReturn
PROPERTIES
  StoppedRunsReturn
  FailureEndsRun
CHECK_DEADLOCK FALSE
