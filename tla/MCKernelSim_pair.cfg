SPECIFICATION MainSpec
CONSTANTS
    Napp = 2
    MaxRows = 2
    Lengths <- PairLengths
    CPUslows = {0}
    Starts <- PairStarts
    Durations <- PairDurations
    Sorted = TRUE
    MAX <- PairMAX
    Eps <- Margin
    Verb = 1
    Unset = Unset
INVARIANTS QueueCounted GpuExclusive ExactlyOncePerIteration ParentFirst NonNegativeSlowdown
PROPERTIES ClockMonotone
CHECK_DEADLOCK FALSE
