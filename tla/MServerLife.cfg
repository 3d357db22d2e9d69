CONSTANTS
    NSlots = 3
    Procs = {p1}
    AttachFlags <- TypistFlags
    Sizes = {0}
    Events = {"KILL", "STOP", "DIR_REMOVED"}
    Modes = {"single"}
    Echoes = {"on"}
    Low = 0
    High = 1
    Hard = 1
    InrunLimit = 1
SPECIFICATION Spec

PROPERTIES HandlersReturn StopsClean
