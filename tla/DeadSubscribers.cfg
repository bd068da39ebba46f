CONSTANTS
    phone = phone
    desktop = desktop
    NoSettled = NoSettled
    Phones <- OnePhone
    Desktops <- OneDesktop
    BufferCap = 1
    MaxEvents <- FewerLater
    MaxMoves <- PhoneReturns
    MaxChurn = 5
SPECIFICATION Spec
INVARIANT NoDeadSubscribers
CHECK_DEADLOCK FALSE
