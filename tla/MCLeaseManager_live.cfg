SPECIFICATION FairSpec
CONSTANTS
    s1 = s1
    s2 = s2
    A = A
    B = B
    Nobody = Nobody
    Path = {"/"}
    Root = "/"
    Agent = {A, B}
    Alloc = {}
    Slot = {s1, s2}
    TTL = 1
    MinHold = 1
    MaxConn = 2
    MaxId = 2
    MaxClock = 2
    MaxRestart = 0
PROPERTIES RequestsEnd ForsakenLeasesGo
CHECK_DEADLOCK FALSE
