\* Liveness: one restart, one failed configuration of the web servers, no
\* failed import and no other collector.
SPECIFICATION FairSpec
CONSTANTS
    s1 = s1
    s2 = s2
    Sites <- MCSites
    BatchSize = 1
    MaxRequests = 2
    MaxRestarts = 1
    Failing = {"configuration"}
    MaxFaults = 1
    MaxHolds = 0
    None = None
PROPERTIES
    EverySiteImported
