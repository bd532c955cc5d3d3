SPECIFICATION Spec
CONSTANTS
    b1 = b1
    b2 = b2
    s1 = s1
    s2 = s2
    t1 = t1
    t2 = t2
    Book <- MCBook
    Series <- MCSeries
    Task <- MCTask
    Chapters <- MCChapters
    TaskLimit = 3
    IndexLimit = 3
    MaxVersion = 2
    MaxEvents = 2
INVARIANTS IndexOK ReadyIsTrue BuildingIsWorkedOn DeletedStaysGone
SYMMETRY Symmetry
