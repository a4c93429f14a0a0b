SPECIFICATION RolloverSpec
CONSTANTS
    Oct = Oct
    Nov = Nov
    Contracts = {Oct, Nov}
    Expiry <- Months
    RolloverDays = 1
    LastDay = 1
    Masters <- Lists
    MaxDrops = 1
    MaxCrashes = 0
    None = None
INVARIANT NeverLiveBeforeRecovery
CHECK_DEADLOCK FALSE
