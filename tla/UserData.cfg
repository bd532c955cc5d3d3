SPECIFICATION Spec
CONSTANTS
    Book = {b1, b2}
    None = None
    Series = {s1, s2}
    Group = {g1}
    Tag = {t1, t2}
    Name = {"A", "B"}
    GroupName = {"c"}
    TagName = {"a"}
    Place = {1, 2}
    NoteId = {n1, n2}
    Text = {1, 2}
    MaxCalls = 2
    Percent = {100, 200}
    Size = {16, 32}
    Margin = {3, 5}
    Time = {1}
    Draft <- MCDraft
    MaxQueue = 2
SYMMETRY MCSymmetry
CONSTRAINT Focused
INVARIANTS
    CatalogHangsTogether
    TagsAgree
    NotesShownAreStored
    SettingsSettle
PROPERTIES
    AllOrNothing
    UpgradeKeepsChoices
CHECK_DEADLOCK FALSE
