\* Two sites, two periods, one page of loadModule() and the settings.
SPECIFICATION FairSpec
CONSTANTS
    Sites = {blog, shop}
    FirstSite = blog
    Periods = {today, week}
    Modules = {"clients", "settings"}
    None = None
    MaxRequests = 4
INVARIANTS
    Settles
PROPERTY
    LoadingEnds
CHECK_DEADLOCK FALSE
