SPECIFICATION Spec
CONSTANTS
    Quote = {1, 2}
    Nonce = {0, 1, 2}
    MaxTx = 2
    MaxRecords = 2
    ArchiveAt = 3
    KeepLast = 1
    Reported = {}
    MaxVersion = 2
    Reverting = {2}
    MaxRestarts = 0
    MaxReorgs = 1
    MaxWriteErrors = 0
    MaxFaults = 2
PROPERTIES
    FreshAppendAlone
