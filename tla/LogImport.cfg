\* Both modes on one site, with rotations and crashes at any time.  The
\* system stops when the import is complete and nothing is left to write.
SPECIFICATION FairSpec
CONSTANTS
    HasOldCursor = FALSE
    BatchSize = 2
    KeptFiles = 3
    MaxLines = 6
    MaxRotations = 2
    MaxCrashes = 2
    None = None
INVARIANTS
    TypeOK
    AtMostOnce
    CountedIsPrefix
    CompleteCoversListed
PROPERTIES
    EventuallyComplete
CHECK_DEADLOCK FALSE
