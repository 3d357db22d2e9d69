CONSTANTS
    a = a
    b = b
    d = d
    None = None
    Clients = {a, b}
    Windows = {1}
    Late = {}
    InOrder = TRUE
    Kinds = {"join"}
    Mode = "single"
    Acts = {"command"}
    Tries = 2
    MaxSeq = 2
    MaxUser = 2
SPECIFICATION FairSpec
PROPERTY Settles
CONSTRAINT ShortStreams
CHECK_DEADLOCK FALSE
