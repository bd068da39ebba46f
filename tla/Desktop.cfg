SPECIFICATION LiveSpec
CONSTANTS
    app = app
    cli = cli
    Apps <- OneApp
    Clis <- OneCli
    MaxLaunches = 2
    MaxPids = 2
    MaxOpens = 2
    MaxEntries = 1
    MaxPrompts = 1
CHECK_DEADLOCK FALSE
INVARIANTS
    LockIsTrue
    BubbleStays
PROPERTIES
    RequestsSettle
    PageFollows
