SPECIFICATION Spec
CONSTANTS
    b1 = b1
    b2 = b2
    l1 = l1
    l2 = l2
    l3 = l3
    first = first
    moved = moved
    other = other
    broken = broken
    Book <- MCBook
    Locator <- MCLocator
    Content <- MCContent
    Stamp <- MCStamp
    Package <- MCPackage
    Parses <- MCParses
    CoverSize <- MCCoverSize
    Initial <- MCInitial
    Work <- MCWork
    SoftLimit = 2
    HardLimit = 3
    MaxEvents = 2
    NoRow = NoRow
INVARIANTS LibraryOK NothingLeftBehind CoverBudgetHeld BooksKeepAccess
PROPERTIES WorkKept
SYMMETRY Symmetry
