CONSTANTS
    r1 = r1 r2 = r2 r3 = r3 p1 = p1 p2 = p2 g1 = g1
    Requests = {r1, r2, r3, p1, p2, g1}
    Reads = {g1}
    Streaming = {r1, r2, r3}
    BodyOf <- DistinctBodies
    MAX_CONCURRENCY = 2
    DEDUP_ENABLE = TRUE
SPECIFICATION FairSpec
INVARIANTS TypeOK SlotsConserved WaitersAreServed BooksAreExact
PROPERTIES AdmissionSpec QueueDrains
CHECK_DEADLOCK FALSE
