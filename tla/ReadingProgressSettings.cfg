SPECIFICATION Spec
CONSTANTS
    A = A
    B = B
    Book <- MCOneBook
    MaxPage = 1
    MaxSessions = 2
    MaxTurns = 1
    MaxApplies = 2
    MaxErrors = 1
INVARIANTS ObjectsRetired LatestSettingsShown
PROPERTIES EverythingSettles
CHECK_DEADLOCK FALSE
