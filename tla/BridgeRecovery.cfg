SPECIFICATION FairSpec
CONSTANTS
    s1 = s1
    s2 = s2
    Sessions <- OneSession
    Ladder = 2
    MaxAttaches = 1
    MaxLinks = 3
    MaxDeaths = 2
    MaxInbound = 0
    MaxBoots = 1
CHECK_DEADLOCK FALSE
INVARIANT
    DeadIsBeingRecovered
PROPERTY
    Recovers
