CONSTANTS
    w1 = w1
    w2 = w2
    r1 = r1
    o1 = o1
    o2 = o2
    Writers = {w1, w2}
    Readers = {r1}
    Older = o1
    Newer = o2
    Missing = Missing
    MaxBytes = 5
    Attempts = 2
    Stuck = w1
SPECIFICATION FairSpec
INVARIANTS
    SizeBound
    ReadIsConsistent
PROPERTIES
    ActiveRecordsStay
    ImplementsLog
    NeverBlocked
