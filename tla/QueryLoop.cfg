SPECIFICATION FairSpec
CONSTANTS
    p1 = p1
    p2 = p2
    w1 = w1
    w2 = w2
    Prompts <- TwoPrompts
    Watchers <- OneWatcher
    MaxQueries = 2
    MaxInterrupts = 2
    MaxWakes = 1
    MaxOut = 2
INVARIANTS
    WatchedStaysWarm
    IdleIsReclaimed
    LiveQueryOwned
    NoPromptIntoClosedChannel
    SwallowsBounded
PROPERTIES
    TeardownIsQuiet
    ActivitySettles
CHECK_DEADLOCK FALSE
