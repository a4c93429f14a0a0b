SPECIFICATION AppSpec
CONSTANTS
    FeedTask = FeedTask
    FlushTask = FlushTask
    ScannerTask = ScannerTask
    ScannerFeedTask = ScannerFeedTask
    HouseTask = HouseTask
    ScannerAgent = ScannerAgent
    Oct = Oct
    Nov = Nov
    Tasks = {FeedTask, FlushTask, ScannerTask, ScannerFeedTask, HouseTask}
    Agents = {FeedTask, FlushTask, ScannerAgent, HouseTask}
    AgentOf <- Shared
    Critical = {FeedTask, FlushTask, HouseTask}
    Flush = FlushTask
    Feed = FeedTask
    Housekeeping = HouseTask
    MaxRestarts <- Limits
    QuietBackoff = FALSE
    Contracts = {Oct, Nov}
    Expiry <- Months
    RolloverDays = 1
    LastDay = 1
    Masters <- Lists
    MaxDrops = 1
    MaxCrashes = 1
    None = None
    NoKey = NoKey
    ReminderLen = 5
    PerMinute = 1
    MinuteLen = 3
    WindowLen = 1
    BatchMost = 3
    Scopes <- AllScopes
INVARIANTS
    TypeOK
    CoveredIsRouted
    BarsStayWithContract
    SendsArePaced
    NothingVanishes
PROPERTIES
    GivenUpIsFinal
    StopEndsService
    WarmingEnds
CHECK_DEADLOCK FALSE
