SPECIFICATION LiveSpec
CONSTANTS
    mac = mac
    other = other
    read = read
    Slots <- TwoSlots
    Macs <- TwoMacs
    Requests <- OneRead
    NoMac = NoMac
    MaxCuts = 1
    MaxPairs = 1
CHECK_DEADLOCK FALSE
INVARIANTS
    OneTransport
    NeverStranded
PROPERTIES
    ComesBack
