SPECIFICATION Spec
CONSTANTS
    A = A
    B = B
    Book <- MCBook
    MaxPage = 1
    MaxSessions = 3
    MaxTurns = 2
    MaxApplies = 0
    MaxErrors = 1
SYMMETRY Symmetry
INVARIANTS LocationsOK ResumesWhereLeft NeverBackToStart
PROPERTY ImplementsPlaces
CHECK_DEADLOCK FALSE
