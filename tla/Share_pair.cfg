CONSTANTS
    a = a
    b = b
    d = d
    None = None
    Clients = {a, b}
    Windows = {1, 2}
    Late = {2}
    InOrder = FALSE
    Kinds = {"join", "view"}
    Mode = "single"
    Acts = {"grant", "kick", "detach", "crash", "skip"}
    Tries = 2
    MaxSeq = 1
    MaxUser = 1
SPECIFICATION Spec
INVARIANT TypeOK
INVARIANT SameEverywhere
INVARIANT BeliefTrue
INVARIANT HolderWrites
INVARIANT SomebodyTypes
INVARIANT ViewersWatch
CHECK_DEADLOCK FALSE
SYMMETRY Swap
