SPECIFICATION Spec
CONSTANTS
    Quote = {1, 2}
    Nonce = {0, 1}
    MaxTx = 2
    MaxRecords = 2
    ArchiveAt = 2
    KeepLast = 1
    Reported = {}
    MaxVersion = 2
    Reverting = {2}
    MaxRestarts = 1
    MaxReorgs = 1
    MaxWriteErrors = 1
    MaxFaults = 2
INVARIANTS
    FinalIsTrue
PROPERTIES
    ImplementsLedger
    AnswerNeverUnmines
    FaultHasCause
