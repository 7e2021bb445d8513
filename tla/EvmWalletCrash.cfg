SPECIFICATION LiveSpec
CONSTANTS
    Quote = {1, 2}
    Nonce = {0, 1, 2}
    MaxTx = 2
    MaxRecords = 2
    ArchiveAt = 2
    KeepLast = 1
    Reported = {}
    MaxVersion = 2
    Reverting = {2}
    MaxRestarts = 1
    MaxReorgs = 0
    MaxWriteErrors = 1
    MaxFaults = 2
INVARIANTS
    SentIsStored
    UnfaultedMatchesDisk
    SingleInFlight
PROPERTIES
    FinalGetsRecorded
