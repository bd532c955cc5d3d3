SPECIFICATION Spec
CONSTANTS
    b1 = b1
    b2 = b2
    r1 = r1
    r2 = r2
    Book <- MCBook
    Request <- MCRequest
    Serves <- MCServes
    Persistable <- MCKnown
    Length <- MCLength
    SoftLimit = 2
    HardLimit = 3
    MaxVersion = 2
    MaxEvents = 2
INVARIANTS CacheOK LeaseIsSound FingerprintTellsTruth BudgetHeld
CHECK_DEADLOCK FALSE
