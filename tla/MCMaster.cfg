SPECIFICATION MSpec
CONSTANTS
  Sessions = {s1}
  Handlers = {h1, h2}
  Workers = {w1}
  WorkerErrors = {"cancelled", "derivedFailed"}
  MaxCallables = 1
  MaxVersion = 1
  MaxLogging = 1
  RequestKinds <- AllKinds
INVARIANTS
  RefsExact
  GraphsGoWithSession
  RunningExact
  PlainCancelNotTheSessions
PROPERTIES
  ImplementsService
CONSTRAINTS ExtendedPlain TracedApart
SYMMETRY Symmetry
CHECK_DEADLOCK FALSE
