\* One rotation while the history is imported.
SPECIFICATION Spec
CONSTANTS
    HasOldCursor = FALSE
    BatchSize = 2
    KeptFiles = 3
    MaxLines = 4
    MaxRotations = 1
    MaxCrashes = 0
    None = None
INVARIANTS
    RotationLosesNothing
CHECK_DEADLOCK FALSE
