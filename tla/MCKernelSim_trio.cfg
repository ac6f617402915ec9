SPECIFICATION MainSpec
CONSTANTS
    Napp = 3
    MaxRows = 1
    Lengths <- TrioLengths
    CPUslows = {0}
    Starts <- TrioStarts
    Durations <- TrioDurations
    Sorted = TRUE
    MAX <- TrioMAX
    Eps <- Margin
    Verb = 1
    Unset = Unset
INVARIANTS RemainingWork
PROPERTIES SimTerminates
CHECK_DEADLOCK FALSE
