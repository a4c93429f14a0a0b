SPECIFICATION Spec
CONSTANTS
    M1 = M1
    P = P
    H = H
    Q = Q
    Primary = P
    Higher <- TwoLevels
    Source <- SourceOf
    Size <- SizeOf
    Downloadable = {P, H}
    LastMinute = 16
    Kinds = {"blip", "silent"}
    MaxCalls = 40
    MaxFaults = 1
    BrokerInOrder = FALSE
    PromptLoop = TRUE
    RecoveryMayWait = FALSE
INVARIANTS
    CompleteBarKept
    PassedBucketAccounted
    CatchesUp
    NoMinuteForgotten
PROPERTIES
    HeldBack
    RepairDelivers
CHECK_DEADLOCK FALSE
