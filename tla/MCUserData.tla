------------------------------ MODULE MCUserData ------------------------------
EXTENDS UserData, TLC

MCDraft == {[size |-> 32, margin |-> 3], [size |-> 16, margin |-> 5]}

MCSymmetry ==
    Permutations(Book) \cup Permutations(Series) \cup Permutations(Tag)
        \cup Permutations(NoteId)

\* Bounds: in one behaviour one of the three services is used, until what it keeps is as
\* on the first day; tag groups and series, which know nothing of each other, are not used
\* at once; and of the databases of earlier releases, those with other settings than these
\* are only migrated.  One book at a time has settings of its own.
CatalogUnused ==
    /\ AllSeries = {} /\ AllGroups = {} /\ AllTags = {} /\ Free
NotesUnused == notes = NoNotes /\ reader = ClosedReader /\ calls = <<>> /\ answers = {}
SettingsUnused ==
    /\ Serving /\ db.updated = 0 /\ panel = NoPanel /\ queue = <<>>
    /\ db.override = NoRows /\ db.legacyOverride = NoRows /\ db.progress = NoRows
Usual ==
    /\ db.legacy = Seed /\ db.legacyOverride = NoRows /\ db.progress = NoRows
    /\ db.global \in MCDraft \cup {Defaults}
    /\ \E b \in Book : \A c \in Book \ {b} : db.override[c] = None
    /\ \A b \in Book :
          db.override[b] \in MCDraft \cup {None, [size |-> 32, margin |-> None]}
Focused ==
    /\ AllGroups = {} \/ AllSeries = {}
    /\ CatalogUnused \/ NotesUnused
    /\ (CatalogUnused /\ NotesUnused) \/ SettingsUnused
    /\ (panel = NoPanel /\ queue = <<>>) \/ Usual
=============================================================================
