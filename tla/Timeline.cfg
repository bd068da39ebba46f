SPECIFICATION Spec
CONSTANTS
    bash = bash
    mine = mine
    other = other
    theirs = theirs
    Tools <- OneTool
    Call <- Spawning
    Returns <- TwoReturns
    Mine <- OneOfMine
    Theirs <- OneOfTheirs
    Unsettled = Unsettled
    NoBlock = NoBlock
    Summary = Summary
    Marked = Marked
    MaxMessages = 1
    MaxBlocks = 2
    MaxDeltas = 1
    MaxUpsets = 2
    MaxLag = 1
CHECK_DEADLOCK FALSE
INVARIANTS
    LiveIsCold
    PhoneShowsAll
    CloudShowsAll
PROPERTIES
    IsConversation
