CONSTANTS
    World = 2
    Hcas = 1
    MaxOps = 3
    Packs <- MCPacks
    SlotPacks = 3
    Threads = 1
    MaxBlocks = 2
    Grids = {1, 2}
    Word = 8
    Depth = 1
    Faults = {"leave", "link", "late"}
SPECIFICATION FairSpec
INVARIANTS ReducersReadTheirOp
PROPERTIES CollectiveSpec RaisesInsteadOfHanging
CHECK_DEADLOCK FALSE
