SPECIFICATION FairSpec
CONSTANTS
    phone = phone
    desktop = desktop
    NoSettled = NoSettled
    Phones <- OnePhone
    Desktops <- OneDesktop
    BufferCap = 1
    MaxEvents <- FewerLater
    MaxMoves <- PhoneReturns
    MaxChurn = 5
CHECK_DEADLOCK FALSE
INVARIANTS
    RuntimeOK
    ViewMatchesCursor
    WireContiguous
    RecoveryIsComplete
PROPERTIES
    CatchesUp
