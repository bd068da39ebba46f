SPECIFICATION Spec
CONSTANTS
    s1 = s1
    s2 = s2
    Sessions <- OneSession
    Ladder = 1
    MaxAttaches = 2
    MaxLinks = 3
    MaxDeaths = 1
    MaxInbound = 1
    MaxBoots = 2
CONSTRAINT Calm
CHECK_DEADLOCK FALSE
INVARIANTS
    MirrorIsTracked
    InboundOnce
    BackfilledIsTrue
