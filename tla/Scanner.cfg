SPECIFICATION FairSpec
CONSTANTS
    MaxBlock = 3
    Related = {1, 2, 3}
    Back = 1
    MaxConfigures = 2
    MaxRestarts = 1
    MaxWriteErrors = 1
INVARIANTS
    NoBlockSkipped
PROPERTIES
    IndexOnlyGrows
    ConfigurationStands
    CatchesUp
