SPECIFICATION Spec
CONSTANTS
    p1 = p1
    p2 = p2
    p3 = p3
    None = None
    Null = Null
    Empty = Empty
    Proc = {p1, p2}
    Legacy = {}
    TTL = 2
    CertTTL = 2
    MaxOpen = 1
    MaxEnrol = 2
    MaxClock = 1
    MaxEvent = 1
SYMMETRY MCSymmetry
INVARIANT BeliefBacked
PROPERTIES NoSilentTakeover DisplacedStaysOut EvictedOnlyWhenLost
CHECK_DEADLOCK FALSE
