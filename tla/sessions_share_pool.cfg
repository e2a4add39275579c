CONSTANTS
    c1 = c1
    c2 = c2
    c3 = c3
    s1 = s1
    s2 = s2
    Calls = {c1, c3}
    Sessions = {s1, s2}
    Home <- TwoAndOne
    PoolMax = 1
    MaxRotations = 1
SPECIFICATION Spec
INVARIANT FirstPoolIsClosed
CHECK_DEADLOCK FALSE
