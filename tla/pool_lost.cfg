CONSTANTS
    c1 = c1
    c2 = c2
    c3 = c3
    s1 = s1
    s2 = s2
    Calls = {c1, c2}
    Sessions = {s1}
    Home <- TwoAndOne
    PoolMax = 1
    MaxRotations = 2
SPECIFICATION Spec
INVARIANT StartedIsInitialised
CHECK_DEADLOCK FALSE
