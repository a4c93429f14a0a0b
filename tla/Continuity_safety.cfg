SPECIFICATION FairCSpec
CONSTANTS
    M1 = M1
    P = P
    Primary = P
    Higher <- NoLevels
    Source <- SourceOf
    Size <- SizeOf
    Downloadable = {P}
    LastMinute = 3
    Kinds = {"stall", "silent", "drop"}
    MaxCalls = 40
    MaxFaults = 1
    DayEnd = 1
    MaxCrashes = 1
    MayBeQuiet = TRUE
    BrokerInOrder = FALSE
    PromptLoop = TRUE
    RecoveryMayWait = FALSE
INVARIANTS
    PendingIsTracked
    StoredAsHeld
    LiveMeansContinuous
PROPERTY IncidentsEnd
CHECK_DEADLOCK FALSE
