SPECIFICATION FairSpec
CONSTANTS
    t1 = t1
    t2 = t2
    NPath = 2
    Thread = {t1}
    Limit = 1
    Renames = TRUE
    Pipelined = TRUE
    MaxRev = 2
    MaxOwn = 1
    MaxPrune = 1
    MaxDrop = 1

INVARIANTS  ForgottenIsResynced CursorSkipsNothing
PROPERTIES FreshAgain
CHECK_DEADLOCK FALSE
