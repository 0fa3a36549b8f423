CONSTANTS
    A = A
    B = B
    v = v
    Names = {A, B}
    Values = {v}
    Absent = Absent
    Empty = Empty
    Bad = Bad
    Glued = Glued
    Endings = {"LF", "CRLF", "CR"}
    MaxLines = 3
SPECIFICATION Spec
INVARIANTS
    EditsTheView
    NeverFailsHalfWay
    RetryIsIdempotent
    LayoutKept
