CONSTANTS
    a = a
    b = b
    d = d
    None = None
    Clients = {a, b, d}
    Windows = {1, 2}
    Late = {}
    InOrder = TRUE
    Kinds = {"join"}
    Mode = "single"
    Acts = {"detach"}
    Tries = 2
    MaxSeq = 0
    MaxUser = 0
SPECIFICATION Spec
INVARIANT SameEverywhere
CHECK_DEADLOCK FALSE
