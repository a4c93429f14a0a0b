SPECIFICATION Spec
CONSTANTS
    None = None
    Config <- MCConfig
    Higher = {M15, H1}
    M15 = M15
    H1 = H1
    DayLen = 8
    YearLen = 9
    H4Len = 3
    HorizonDays = 21
    Calendar <- MCCalendar
    HigherBars <- MCHigherBars
    Page = 2
    Paths <- AllPaths
INVARIANTS
    PivotsAreExact
    EpisodesAreOrdered
    ClearedIsUncontested
    CompletedIsNotCurrent
    FinalIsWhole
CHECK_DEADLOCK FALSE
