SPECIFICATION Spec
CONSTANTS
    chat = chat
    other = other
    phone = phone
    opus = opus
    first = first
    second = second
    Sessions <- OneSession
    Devices <- OnePhone
    Models <- OneModel
    None = None
    NoModel = NoModel
    NoBridge = NoBridge
    Handlers <- TwoHandlers
    MaxEdges = 3
    MaxCse = 2
    MaxSeq = 1
    MaxRestarts = 1
    MaxQueue = 1
SYMMETRY SameHandlers
CHECK_DEADLOCK FALSE
INVARIANTS
    ListConverges
    DurableList
PROPERTIES
    CheckpointKept
