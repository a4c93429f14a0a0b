SPECIFICATION Spec
CONSTANTS
    Shapes <- Steady
    Invalidation <- Below
    AcceptanceCloses = 2
    CompletionBars = 2
    MaxAgeBars = 6
    MaxCrashes = 0
    MaxFaults = 0
INVARIANT AgeIsBounded
CHECK_DEADLOCK FALSE
