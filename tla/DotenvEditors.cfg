CONSTANTS
    p1 = p1
    p2 = p2
    f1 = f1
    f2 = f2
    v = v
    A = A
    Procs = {p1, p2}
    Foreign = {f1, f2}
    Names = {A}
    Values = {v}
    Absent = Absent
    Empty = Empty
    Bad = Bad
    NoFile = NoFile
    Free = Free
    Faults = {"interrupt"}
    MaxEdits = 2
SPECIFICATION TemporariesSpec
SYMMETRY Symmetry
INVARIANTS
    OnlyLateChangesAreLost
    NoPlaintextLeft
PROPERTIES
    OnlyRenamesPublish
