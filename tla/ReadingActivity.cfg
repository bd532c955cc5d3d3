SPECIFICATION Spec
CONSTANTS
    s1 = s1
    s2 = s2
    b1 = b1
    SessionId <- MCSessionId
    Book <- MCBook
    Offset <- MCOffset
    Epoch = 19722
    DayLen = 3
    MaxGap = 2
    MaxTime = 3
    MaxSeq = 2
    MaxSetBacks = 1
SYMMETRY MCSymmetry
INVARIANTS LedgerOK NoDoubleCounting SegmentWithinItsDay HistoryHangsTogether ReadingStateCoversHistory InsightsAddUp
PROPERTIES NeverBackfills ImplementsSessions
CONSTRAINT MCObservations
