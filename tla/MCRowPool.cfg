CONSTANTS
    big1 = big1
    big2 = big2
    small = small
    w1 = w1
    w2 = w2
    nullptr = nullptr
    Calls = {big1, big2, small}
    Workers = {w1, w2}
    Count <- Counts
    kSerialBelow = 2
SPECIFICATION FairSpec
INVARIANTS TypeOK NoStraggler NoLostCompletion
PROPERTIES LookupSpec CallsReturn
