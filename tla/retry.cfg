CONSTANTS
    c1 = c1
    c2 = c2
    c3 = c3
    NoToken = NoToken
    Calls = {c1, c2}
    Requests <- PairRequests
    Jtis = {"j1", "j2"}
    Keys = {"k1", "k2"}
    KeyPaths = {"p1"}
    InitialKeys <- OneKeyFile
    KeyWrites = {}
    OracleIdentifiers = {"AGENT_RO", "AGENT_2"}
    ResultSizes = {1}
    TimeoutSettings <- DefaultOnly
    Parse <- MCParse
    MaxTime = 0
    MaxRotations = 2
    MaxRestarts = 0
    RotationSkew = FALSE
    ClockMayStepBack = FALSE
SPECIFICATION FairSpec
INVARIANT ExecutedIsGoverned
INVARIANT RetrySurvivesRotation
PROPERTY EveryCallEnds
CHECK_DEADLOCK FALSE
