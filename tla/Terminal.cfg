SPECIFICATION PtyLiveSpec
CONSTANTS
    left = left
    right = right
    Panes <- TwoPanes
    MaxSockets = 3
    MaxOutput = 3
    MaxShells = 2
    AckEvery = 2
CHECK_DEADLOCK FALSE
INVARIANTS
    ClientHearsAll
    BacklogIsOwed
PROPERTIES
    ComesBack
