\* Days of two hours of two minutes, local dates an odd minute ahead; a day
\* before the first step, and a midnight to come.
SPECIFICATION Spec
CONSTANTS
    Kinds <- MCKinds
    SpiderOf <- MCSpiderOf
    HashOf <- MCHashOf
    HashBits = 3
    MinutesPerHour = 2
    HoursPerDay = 2
    Offset = 3
    RawDays = 1
    ErrorDays = 2
    AnalyticsDays = 0
    LongDays = 2
    DetailDays = 1
    RankLimit <- MCRankLimit
    Precisions = {1, 2}
    Pages = {"reports", "spiders"}
    MaxMinute = 5
    MaxEvents = 2
    StartMinute = 4
    None = None
INVARIANTS
    TablesAgree
    SketchesExact
    DetailsKept
    PagesAddUp
    VisitorsCountedOnce
