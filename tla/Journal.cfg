SPECIFICATION JournalSpec
CONSTANTS
    Quote = {1}
    Nonce = {0, 1}
    MaxTx = 4
    MaxRecords = 3
    ArchiveAt = 2
    KeepLast = 1
    Reported = {"submitted", "succeeded"}
    MaxVersion = 1
INVARIANTS
    JournalTypeOK
    NeverAGap
    SeenOnce
    AlwaysLoadable
