\* One site, two requests, no restart, no fault.
SPECIFICATION Spec
CONSTANTS
    s1 = s1
    s2 = s2
    Sites <- MCOneSite
    BatchSize = 1
    MaxRequests = 2
    MaxRestarts = 0
    Failing = {}
    MaxFaults = 0
    MaxHolds = 0
    None = None
INVARIANT
    CountedOnce
