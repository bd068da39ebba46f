SPECIFICATION WatchLiveSpec
CONSTANTS
    phone = phone
    tablet = tablet
    Devices <- OnePhone
    None = None
    MaxEdits = 1
    MaxMounts <- OnePhoneThrice
    MaxDrops = 1
    MaxQueue = 1
CHECK_DEADLOCK FALSE
INVARIANTS
    WatchesForSomeone
PROPERTIES
    NeverGoesBack
    CatchesUp
