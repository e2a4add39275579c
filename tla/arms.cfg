CONSTANTS
    c1 = c1
    c2 = c2
    c3 = c3
    NoToken = NoToken
    Calls = {c1}
    Requests <- ArmRequests
    Jtis = {"j1", "j2"}
    Keys = {"k1", "k2"}
    KeyPaths = {"p1", "p2"}
    InitialKeys <- TwoKeyFiles
    KeyWrites = {"k1", "unreadable"}
    OracleIdentifiers = {"AGENT_RO", "AGENT_2"}
    ResultSizes = {0, 3, 100, 501}
    TimeoutSettings <- TimeoutsOfAllKinds
    Parse <- MCParse
    MaxTime = 1
    MaxRotations = 1
    MaxRestarts = 1
    RotationSkew = TRUE
    ClockMayStepBack = TRUE
SPECIFICATION Spec
INVARIANT TypeOK
INVARIANT ExecutedIsGoverned
INVARIANT ReplyMatchesDatabase
INVARIANT TruncationIsReported
INVARIANT RotationRefNeverAhead
INVARIANT SessionsReleased
PROPERTY CallsOnlyAdvance
CHECK_DEADLOCK FALSE
