SPECIFICATION MainSpec
CONSTANTS
    Napp = 1
    MaxRows = 3
    Lengths <- SoloLengths
    CPUslows = {0, 1}
    Starts <- SoloStarts
    Durations <- SoloDurations
    Sorted = TRUE
    MAX <- SoloMAX
    Eps <- Margin
    Verb = 1
    Unset = Unset
INVARIANTS SoloReplay
CHECK_DEADLOCK FALSE
