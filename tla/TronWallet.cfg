SPECIFICATION Spec
CONSTANTS
    Quote = {1, 2}
    Window = 2
    MaxTime = 4
    MaxRecords = 2
    MaxForks = 1
    MaxRestarts = 1
    MaxWriteErrors = 1
INVARIANTS
    SentIsStored
    OutcomesAreTrue
    OneOutstanding
PROPERTIES
    ImplementsBook
