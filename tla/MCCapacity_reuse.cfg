SPECIFICATION Spec
CONSTANTS
    o1 = o1
    o2 = o2
    a1 = a1
    a2 = a2
    s1 = s1
    s2 = s2
    w1 = w1
    w2 = w2
    None = None
    Owner = {o1}
    Agent = {a1}
    Server = {s1}
    Worker = {w1, w2}
    Size = {1}
    Total = 2
    MaxRow = 2
    MaxJob = 4
    MaxMove = 0
CHECK_DEADLOCK FALSE
PROPERTY LiveDataSurvives
