SPECIFICATION MCSpec
CONSTANTS
    j1 = j1  j2 = j2  j3 = j3
    c1 = c1  c2 = c2
    k1 = k1  k2 = k2
    Jobs = {j1, j2, j3}
    Calls = {c1, c2}
    Keys = {k1, k2}
    DurableKeys = {k2}
    KeyOf <- OfEachKind
    CommandCapacity = 2
    MaxActive = 2
    NoJob = NoJob
    NoCall = NoCall
INVARIANTS WorkAccounted
PROPERTIES AckAfterStop WorkEnds
