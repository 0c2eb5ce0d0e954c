CONSTANTS
    Slots = {0, 1}
    Layers = 2
    LateStart = 2
    Window = 2
    PageSize = 2
    Drafts = 2
    Chunk = 4
    MaxPrefix = 2
    MaxLen = 5
    MaxReqs = 2
SPECIFICATION Spec
INVARIANTS TypeOK HistoryIsOwn NoFalseAlarm
CHECK_DEADLOCK FALSE
