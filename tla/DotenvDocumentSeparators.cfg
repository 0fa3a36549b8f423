CONSTANTS
    A = A
    B = B
    v = v
    Names = {A, B}
    Values = {v}
    Absent = Absent
    Empty = Empty
    Bad = Bad
    Glued = Glued
    Endings = {"LF", "SEP"}
    MaxLines = 2
SPECIFICATION Spec
INVARIANTS
    LayoutKept
