\* Statistics: an update that is killed or fails, and repeated; nobody saves.
SPECIFICATION Spec
CONSTANTS
    Sites = {site}
    Requests = {request}
    Service = service
    Installer = installer
    None = None
    SchemaVersion = 7
    MaxSaves = 0
    MaxCrashes = 1
    MaxUpdates = 2
INVARIANTS
    TypeOK
    UpgradePreserves
