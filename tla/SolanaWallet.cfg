SPECIFICATION Spec
CONSTANTS
    Quote = {1, 2}
    Payee = {"a"}
    Window = 2
    MaxHeight = 3
    MaxRecords = 2
    MaxForks = 1
    MaxRestarts = 1
    MaxWriteErrors = 1
    MaxFaults = 2
INVARIANTS
    DiskSuffices
    OneUnlessForked
    OutcomesAreTrue
PROPERTIES
    AppendsBesideFailed
