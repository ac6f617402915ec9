SPECIFICATION GSpec
CONSTANTS
  Sessions = {s1, s2}
  Requests = {1, 2, 3}
  Ids = {1, 2, 3}
  Threads = {t1, t2}
  NumTracked = 2
  spl = 2
  kMaxRetries = 1
  Timed = TRUE
  MaxCalls = 3
  MaxFaults = 2
INVARIANTS
  GTypeOK
  TracksTheLast
  BehindOnlyInDoubt
  StepRunsOnce
  AnsweredSlicesRan
  SlicesShareSession
  OrphansExplained
PROPERTIES
  BehindForGood
SYMMETRY Symmetry
CHECK_DEADLOCK FALSE
