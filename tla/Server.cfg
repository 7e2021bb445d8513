SPECIFICATION Spec
CONSTANTS
    Process = {1, 2}
    Request = {1, 2}
    Offered <- MCOffered
    None = none
    Rate = 1
    Attempts = 1
    ReadSlots = 1
    WriteSlots = 1
INVARIANTS
    TypeOK
    WorkUnderLock
    LockNeverRefuses
    VisitorsNeverCrowdOut
PROPERTIES
    ShutdownEnds
