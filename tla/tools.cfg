CONSTANTS
    NoArg = NoArg
    NoConfig = NoConfig
    Environments <- StartableAndNot
    Tokens <- MCTokens
    Requests <- MCRequests
    Dictionaries <- MCDictionaries
    MaxTime = 2
SPECIFICATION Spec
INVARIANT TypeOK
INVARIANT ReachedUnderAuthority
INVARIANT RefusalsHaveAReason
INVARIANT AnswersAreWhole
INVARIANT TruncationIsTold
INVARIANT ListedOwnersAreServed
INVARIANT NarrowedToListed
CHECK_DEADLOCK FALSE
