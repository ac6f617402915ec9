CONSTANTS
  Steps <- Tokens
  Callers = {r1}
  Cancellers = {}
  Executors = {e1}
  MaxRuns = 1
  MaxTokens = 8
  spl = 8
  Inputs <- TestFeed
  Timeouts = {FALSE}
SPECIFICATION DSSpec
INVARIANT OutputsFromAllRows
CHECK_DEADLOCK FALSE
