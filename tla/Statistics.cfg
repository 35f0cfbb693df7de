SPECIFICATION FairSpec
CONSTANTS
    Users = {u1, u2}
    Convs = {c1, c2}
    Malformed = malformed
    Other = other
    Workers = {w1, w2}
    MaxEvents = 2
    Batch = 1
    MaxFaults = 2
CHECK_DEADLOCK FALSE
INVARIANTS
    CountedOnce
    ScopesAgree
PROPERTIES
    NothingStarves
