CONSTANTS
    a = a
    b = b
    d = d
    None = None
    Clients = {a, b}
    Windows = {1, 2}
    Late = {}
    InOrder = TRUE
    Kinds = {"join"}
    Mode = "single"
    Acts = {"grant"}
    Tries = 2
    MaxSeq = 1
    MaxUser = 1
SPECIFICATION FairSpec
PROPERTY Settles
PROPERTY KeyboardArrives
CHECK_DEADLOCK FALSE
