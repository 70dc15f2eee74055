SPECIFICATION FairSpec
CONSTANTS
    p1 = p1
    p2 = p2
    p3 = p3
    None = None
    Null = Null
    Empty = Empty
    Proc = {p1, p2}
    Legacy = {}
    TTL = 1
    CertTTL = 1
    MaxOpen = 0
    MaxEnrol = 2
    MaxClock = 1
    MaxEvent = 1

PROPERTIES DisplacedStops RevokedCertsRefused
CHECK_DEADLOCK FALSE
