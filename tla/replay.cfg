CONSTANTS
    c1 = c1
    c2 = c2
    c3 = c3
    NoToken = NoToken
    Calls = {c1, c2, c3}
    Requests <- ReplayRequests
    Jtis = {"j1", "j2"}
    Keys = {"k1", "k2"}
    KeyPaths = {"p1"}
    InitialKeys <- OneKeyFile
    KeyWrites = {}
    OracleIdentifiers = {"AGENT_RO", "AGENT_2"}
    ResultSizes = {1}
    TimeoutSettings <- DefaultOnly
    Parse <- MCParse
    MaxTime = 2
    MaxRotations = 0
    MaxRestarts = 1
    RotationSkew = FALSE
    ClockMayStepBack = FALSE
SPECIFICATION Spec
SYMMETRY CallSymmetry
INVARIANT RememberedWhileLive
INVARIANT TokenPaysOnce
PROPERTY CacheHoldsLiveTokens
PROPERTY SingleUseSpec
CHECK_DEADLOCK FALSE
