\* Two sites, two logs and a misread path, every table two rows of earlier
\* versions can form, both processes.
SPECIFICATION Spec
CONSTANTS
    Panels = {1, 2}
    Paths = {"a", "a;", "b"}
    Trimmed <- MCTrimmed
    Process = {"service", "api"}
    Minutes = {1}
    MaxRows = 3
    MaxChanges = 1
    MaxRequests = 1
    None = None
INVARIANTS
    TypeOK
    SettledMatchesPanel
    MappedRowsExist
PROPERTIES
    HistoryKept
