SPECIFICATION InputSpec
CONSTANTS
    Napp = 1
    MaxRows = 4
    Lengths = {2}
    CPUslows = {0}
    Starts = {0, 1, 2, 3}
    Durations = {1, 2}
    Sorted = FALSE
INVARIANTS Forest Precedence RefusesOnlyDisorder
PROPERTY DropsOnlyOverlaps
CHECK_DEADLOCK FALSE
