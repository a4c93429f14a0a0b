SPECIFICATION ScannerSpec
CONSTANTS
    DayLen = 6
    YearLen = 9
    H4Len = 2
    HorizonDays = 21
    None = None
    Other = Other
    Callers = {Loader, Other}
    Loader = Loader
    PerSecond = 1
    PerMinute = 2
    SecLen = 1
    MinLen = 3
    MaxRetries = 1
    Backoff = 1
    RetryAfters = {2}
    BarLen = 2
    MaxDays = 5
    Calendars <- All
    LoadLens = {5, 9}
    Scopes <- AllScopes
    SoonLen = 1
    GoldJ = GoldJ
    GoldK = GoldK
    Silver = Silver
    Zinc = Zinc
    Records <- AllRecords
    Included = {1, 2, 3}
    Capacity = 2
    RankLimit = 1
    StaleAfter = 1
    SnapshotEvery = 2
    DigestEvery = 2
    BoardLen = 2
    Prices = {3, 5}
    Closes = {4}
    ScanScopes <- Scanned
INVARIANTS
    CoverageIsStored
    RateKept
    CalendarAgrees
    ToldWhatIs
PROPERTY
    BoardIsCurrent
CHECK_DEADLOCK FALSE
