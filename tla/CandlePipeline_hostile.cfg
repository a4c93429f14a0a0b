SPECIFICATION Spec
CONSTANTS
    M1 = M1
    P = P
    H = H
    Q = Q
    Primary = P
    Higher <- TwoLevels
    Source <- SourceOf
    Size <- SizeOf
    Downloadable = {P, H}
    LastMinute = 5
    Kinds = {"stall", "silent", "drop"}
    MaxCalls = 40
    MaxFaults = 2
    BrokerInOrder = FALSE
    PromptLoop = FALSE
    RecoveryMayWait = TRUE
INVARIANTS
    DeliveredIsBacked
    SuspendedByGaps
PROPERTIES
    StreamOfBars
    HeardIsHeld
CHECK_DEADLOCK FALSE
