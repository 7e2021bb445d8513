SPECIFICATION FairSpec
CONSTANTS
    Caller = {c1, c2}
    N = 3
    Wrong = {1}
    MaxOperations = 3
INVARIANTS
    TypeOK
    NeverToWrongChain
    FailsOnlyAfterAll
PROPERTIES
    OperationEnds
CHECK_DEADLOCK FALSE
