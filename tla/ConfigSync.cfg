\* One site of each server, two ids, three steps of the panel, one fault.
SPECIFICATION Spec
CONSTANTS
    Sites <- MCSites
    Kind <- MCKind
    MaxIds = 2
    MaxChanges = 3
    MaxFaults = 1
    None = None
INVARIANTS
    TypeOK
    RollbackRestores
    SuccessMeansConfigured
    SuccessReloads
PROPERTIES
    StepsKeepValid

