SPECIFICATION Spec
CONSTANTS
    Shapes <- Story
    Invalidation <- Below
    AcceptanceCloses = 2
    CompletionBars = 1
    MaxAgeBars = 5
    MaxCrashes = 1
    MaxFaults = 1
INVARIANTS
    EventsMatchRows
    OneCardEach
    OpenCardsCurrent
PROPERTY ReplayChangesNothing
CHECK_DEADLOCK FALSE
