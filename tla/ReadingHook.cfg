SPECIFICATION Spec
CONSTANTS
    s1 = s1
    s2 = s2
    SessionId <- MCSessionId
    MaxSeq = 5
    MaxEffects = 2
    MaxEvents = 3
    MaxErrors = 1
    MaxRedeliveries = 1
    MaxBeats = 1
    MaxQueue = 1
INVARIANTS HookOK AtMostOneLive
PROPERTIES OrphansEnd BackgroundPauses ForegroundCounts
CHECK_DEADLOCK FALSE
