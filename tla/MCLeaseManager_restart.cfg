SPECIFICATION Spec
CONSTANTS
    s1 = s1
    s2 = s2
    A = A
    B = B
    Nobody = Nobody
    Path = {"/", "/f"}
    Root = "/"
    Agent = {A, B}
    Alloc = {"d"}
    Slot = {s1}
    TTL = 1
    MinHold = 1
    MaxConn = 2
    MaxId = 2
    MaxClock = 1
    MaxRestart = 1
SYMMETRY MCSymmetry
INVARIANTS IndexesAgree FencedWritesRejected
PROPERTIES TeardownSparesOthers SessionMovesForward
CHECK_DEADLOCK FALSE
