CONSTANTS
    Callers = {"c1", "c2", "c3"}
    Limit = 2
    Span = 2
    Budget = 40
    Window = 2
    Interval = 2
    DurationBits = 4
    DefaultBase = 1
    DefaultMax = 3
    DefaultAttempts = 3
    Second = 2
    MaxVersion = 2
    Items = {0, 20}
    CacheTTL = 1
    Universe <- MCUniverse
    Configs <- MCConfigs
    Menus <- MCMenus
SPECIFICATION Spec
INVARIANTS
    RatesRespected
    FirstInFirstOut
    AttemptsAdmitted
    PausesBounded
    
    IDsUnambiguous
PROPERTIES
    SnapshotsAdvance
    FreshAnswers
    CallersReturn
CHECK_DEADLOCK FALSE
