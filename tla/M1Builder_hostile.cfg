SPECIFICATION FairSpec
CONSTANTS
    Slots = 2
    StallAfter = 1
    MaxTime = 4
    MaxBuffer = 1
    MaxLag = 2
    PromptLoop = FALSE
INVARIANTS
    NeverReopened
    TrustedMinutesUnbroken
PROPERTIES
    StreamOfMinutes
    OpenMinuteCloses
CHECK_DEADLOCK FALSE
