CONSTANTS
    NSlots = 3
    Procs = {p1}
    AttachFlags <- RoleFlags
    Sizes = {0}
    Events = {"ROLE_REQUEST"}
    Modes = {"single"}
    Echoes = {"on"}
    Low = 0
    High = 1
    Hard = 1
    InrunLimit = 1
SPECIFICATION Spec
INVARIANTS TypeOK OneWriter KeyboardHeld RoleTold PresenceKnown ReplyFirst EventDepth
