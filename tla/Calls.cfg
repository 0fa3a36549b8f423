CONSTANTS
    launchd = launchd
    ainv = ainv
    a = a
    b = b
    c = c
    d1 = d1
    d2 = d2
    top = top
    Dirs = {d1, d2, top}
    Above <- Parents
    Places = {d1, d2}
    MaxGitChanges = 2
    Pids = {launchd, ainv, a, b, c}
    Launchd = launchd
    Self = ainv
    NoApp = NoApp
    MaxDepth = 3
    MaxKeys = 3
    T = T
    P = P
    Valid = {T, P}
    Sensitive = {P}
    Odd = Odd
    None = None
    NoText = NoText
    Texts = {0, 1, 2}
    References = {1, 2, 3}
SPECIFICATION CallsSpec
SYMMETRY Symmetry
CONSTRAINT Promised
INVARIANTS
    AnswerWasTrueOnce
    NamesAnAncestor
    EchoComesBack
    SecretStaysHidden
    BuiltIsReadable
    CutsAreMarked
    EveryWordOnce
    FirstMatches
