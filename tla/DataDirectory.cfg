\* The settings, which no site matters to: one request at a time, two saves,
\* one crash and an update repeated.
SPECIFICATION FairSpec
CONSTANTS
    Sites = {}
    Requests = {request}
    Service = service
    Installer = installer
    None = None
    SchemaVersion = 7
    MaxSaves = 2
    MaxCrashes = 1
    MaxUpdates = 2
PROPERTY
    SettledStays
    SettingsApplied
