SPECIFICATION LiveSpec
CONSTANTS
    s1 = s1
    s2 = s2
    Sessions <- TwoSessions
    Menu = Menu
    NoCreds = NoCreds
    NoRefresh = NoRefresh
    Nobody = Nobody
    MaxTokens = 3
    MaxFaults = 1
    MaxAsks = 3
CHECK_DEADLOCK FALSE
INVARIANTS
    RotationKept
PROPERTY
    KeepsFresh
