SPECIFICATION MainSpec
CONSTANTS
    Napp = 2
    MaxRows = 1
    Lengths <- TrioLengths
    CPUslows = {0}
    Starts <- TrioStarts
    Durations <- TrioDurations
    Sorted = TRUE
    MAX <- TrioMAX
    Eps <- Margin
    Verb = 1
    Unset = Unset
PROPERTIES FifoGpu
CHECK_DEADLOCK FALSE
