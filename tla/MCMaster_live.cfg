SPECIFICATION MLiveSpec
CONSTANTS
  Sessions = {s1, s2}
  Handlers = {h1}
  Workers = {w1, w2}
  WorkerErrors = {"failed", "derivedCancelled"}
  MaxCallables = 0
  MaxVersion = 0
  MaxLogging = 0
  RequestKinds = {"Run"}
INVARIANT CancelReachesCalls
PROPERTIES
  OutOfTableIsDeleted
CHECK_DEADLOCK FALSE
