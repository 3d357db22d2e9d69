CONSTANTS
    a = a
    b = b
    d = d
    None = None
    Clients = {a, b}
    Windows = {1, 2}
    Late = {}
    InOrder = TRUE
    Kinds = {"plain", "join"}
    Mode = "single"
    Acts = {"command", "request", "crash", "nowatch"}
    Tries = 2
    MaxSeq = 3
    MaxUser = 1
SPECIFICATION Spec
INVARIANT BeliefTrue
INVARIANT HolderWrites
INVARIANT SomebodyTypes
CHECK_DEADLOCK FALSE
SYMMETRY Swap
