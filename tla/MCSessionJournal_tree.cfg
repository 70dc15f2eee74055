SPECIFICATION Spec
CONSTANTS
    Path <- MCPath
    None = None
    a = a
    b = b
    c = c
    x = x
    MaxOp = 5
    MaxWatched = 3
    MaxOverlap = 2
    MaxSession = 2
    Watched <- MCWatched
    CatchUp = 2
    Buffer = 1
    Likes <- MCLikes
    Globs <- MCGlobs
    Cut <- MCCut
    Reverter = {r1, r2}
SYMMETRY Symmetry
INVARIANTS TreeWellFormed KeysUnique StreamSendsOnce
PROPERTIES ImplementsTree 
CHECK_DEADLOCK FALSE
