CONSTANTS
    NSlots = 2
    Procs = {p1}
    AttachFlags <- PlainFlags
    Sizes = {0}
    Events = {"FLOW_CTRL", "OUTPUT", "STOP", "REFRESH", "ATTR_GET", "ATTR_SET"}
    Modes = {"single", "multi"}
    Echoes = {"on", "off"}
    Low = 1
    High = 2
    Hard = 3
    InrunLimit = 1
SPECIFICATION Spec
INVARIANTS FreeSlotsClean BackpressureEngages KeyboardHeld
