\* Two sites, a queue of two, a batch of two, three events.
SPECIFICATION FairSpec
CONSTANTS
    s1 = s1
    s2 = s2
    Sites <- MCSites
    QueueSize = 2
    FlushSize = 2
    MaxEvents = 3
    None = None
INVARIANTS
    TypeOK
    EachEventInOnePlace
    SettledInOrder
    CountersAddUp
    DrainedWhenDone
PROPERTIES
    EventuallySettled
    StopReturns
    ImplementsLedger
