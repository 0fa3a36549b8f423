CONSTANTS
    A = A
    B = B
    v = v
    d1 = d1
    d2 = d2
    Names = {A, B}
    Values = {v}
    Absent = Absent
    Empty = Empty
    Bad = Bad
    Unquotable = Unquotable
    Dirs = {d1, d2}
    None = None
    Broken = Broken
    Jobs <- SomeJobs
    Statuses = {"ignored", "tracked"}
    Others <- SomeDocs
    MaxChanges = 2
SPECIFICATION Spec
INVARIANTS
    NothingWithoutApproval
    OneTrueRecord
    ExitTellsTheTruth
    OnlyLateGitChangesAreMissed
    EveryOutcomeRecorded
PROPERTIES
    WholeRequestOrNothing
