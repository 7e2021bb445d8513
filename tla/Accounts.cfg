SPECIFICATION Spec
CONSTANTS
    Account = {main, a, b}
    Root = main
    Old = old
    Request = {p, q}
    None = none
    MaxAccounts = 2
    MaxRestarts = 1
    MaxWriteErrors = 1
INVARIANTS
    LocksInOrder
    OneKeyPerWallet
    SomeUnarchived
    SomeoneCanGoOn
SYMMETRY Symmetry
