CONSTANTS
    p1 = p1
    p2 = p2
    f1 = f1
    f2 = f2
    Procs = {p1, p2}
    Foreign = {f1, f2}
    NoFile = NoFile
    Broken = Broken
    None = None
    Jobs <- SomeJobs
    Edited <- SomeTexts
    MaxEdits = 1
SPECIFICATION Spec
SYMMETRY Symmetry
PROPERTIES
    BrokenIsKept
