CONSTANTS
    NSlots = 2
    Procs = {p1, p2}
    AttachFlags <- InputFlags
    Sizes = {10, 20}
    Events = {"INPUT", "INPUT_BEGIN", "INPUT_END", "WIN_RESIZE"}
    Modes = {"single"}
    Echoes = {"on"}
    Low = 0
    High = 1
    Hard = 1
    InrunLimit = 2
SPECIFICATION Spec
INVARIANTS InputOwned SizeFits
SYMMETRY Swap
