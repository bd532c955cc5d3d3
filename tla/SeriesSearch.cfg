SPECIFICATION SeriesSearchSpec
CONSTANTS
    b1 = b1
    b2 = b2
    s1 = s1
    Book <- MCBook
    Series <- MCSeries
    Task <- MCTask
    Chapters <- MCChapters
    TaskLimit = 1
    IndexLimit = 1
    MaxVersion = 1
    MaxEvents = 1
    MaxPolls = 1
    MaxEntries = 2
    MaxArchive = 4
    MaxRatio = 2
    MaxEntry = 2
    MaxChapter = 1
    MaxBook = 1
    NoBound = NoBound
    Folded <- MCFolded
PROPERTIES SearchesEnd
CHECK_DEADLOCK FALSE
