CONSTANTS
  Callers = {p1, p2}
  Cancellers = {c1, c2}
  MaxTokens = 3
SPECIFICATION CMLiveSpec
INVARIANTS
  DeregisterPromise
  EachCallbackOnce
PROPERTY DeregisterReturns
CHECK_DEADLOCK FALSE
