SPECIFICATION Spec
CONSTANTS
    b1 = b1
    b2 = b2
    r1 = r1
    r2 = r2
    Book <- MCSameBook
    Request <- MCRequest
    Serves <- MCTogether
    Persistable <- MCSameBook
    Length <- MCLength
    SoftLimit = 2
    HardLimit = 3
    MaxVersion = 2
    MaxEvents = 0
INVARIANTS LeaseIsWhole
CHECK_DEADLOCK FALSE
