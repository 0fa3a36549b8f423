CONSTANTS
    p1 = p1
    p2 = p2
    s = s
    a = a
    b = b
    x = x
    y = y
    Procs = {p1, p2}
    Services = {s}
    Accounts = {a, b}
    Copies = {1, 2}
    Secrets = {x, y}
    None = None
    Jobs <- SomeJobs
    MaxChanges = 1
SPECIFICATION Spec
SYMMETRY Symmetry
INVARIANTS
    PromptsOnlyWhenAllowed
    ExitNamesTheCause
    AddedIsStored
PROPERTIES
    ResolvedIsExact
