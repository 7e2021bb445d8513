SPECIFICATION Spec
CONSTANTS
    Quote = {1, 2}
    Nonce = {0, 1, 2}
    MaxTx = 2
    MaxRecords = 2
    ArchiveAt = 2
    KeepLast = 1
    Reported = {}
    MaxVersion = 3
    Reverting = {2}
    MaxRestarts = 0
    MaxReorgs = 0
    MaxWriteErrors = 0
    MaxFaults = 2
INVARIANTS
    FaultMeansWriteError
