CONSTANTS
    World = 2
    Hcas = 2
    MaxOps = 5
    Packs <- MCPacks
    SlotPacks = 3
    Threads = 1
    MaxBlocks = 2
    Grids = {1, 2}
    Word = 4
    Depth = 1
    Faults = {}
SPECIFICATION FairSpec
INVARIANTS TypeOK NoDoorbellSkipped WiresCarryTheirOp
PROPERTIES CollectivesComplete
CHECK_DEADLOCK FALSE
