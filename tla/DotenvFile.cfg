CONSTANTS
    p1 = p1
    p2 = p2
    f1 = f1
    v = v
    w = w
    A = A
    Procs = {p1, p2}
    Foreign = {f1}
    Names = {A}
    Values = {v, w}
    Absent = Absent
    Empty = Empty
    Bad = Bad
    NoFile = NoFile
    Free = Free
    Faults = {"kill", "power", "interrupt"}
SPECIFICATION FairSpec
INVARIANTS
    LockDiscipline
    ReadIsCurrent
    PowerLossLeavesWholeFile
    CommittedSurvives
PROPERTIES
    PopulatedKept
    ImplementsStore
    Termination
