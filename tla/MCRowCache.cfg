CONSTANTS
    t1 = t1
    t2 = t2
    none = none
    Threads = {t1, t2}
    rows = 4
    row_lo = 1
    row_hi = 4
    sets = 1
    ways = 2
    kLocks = 1
    kBits = 2
    MaxLookups = 5
SPECIFICATION FairSpec
INVARIANTS TypeOK RowsAreExact CountersAreExact
PROPERTIES FetchesEnd
CHECK_DEADLOCK FALSE
