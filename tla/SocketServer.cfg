\* Safety: two sites, two requests, one restart, one fault, one other
\* collector.
SPECIFICATION Spec
CONSTANTS
    s1 = s1
    s2 = s2
    Sites <- MCSites
    BatchSize = 1
    MaxRequests = 2
    MaxRestarts = 1
    Failing = {"configuration", "import", "queue"}
    MaxFaults = 1
    MaxHolds = 1
    None = None
INVARIANTS
    TypeOK
    NeverReimported
    DeferredIsImported
    CompleteMeansAll
    NoImportNoDiscard
PROPERTIES
    CompleteIsFinal
SYMMETRY SiteSymmetry
