CONSTANTS
    Slots = {0}
    Layers = 2
    LateStart = 2
    Window = 3
    PageSize = 1
    Drafts = 2
    Chunk = 4
    MaxPrefix = 2
    MaxLen = 6
    MaxReqs = 2
SPECIFICATION Spec
INVARIANTS LateReadersAreFloored
CHECK_DEADLOCK FALSE
