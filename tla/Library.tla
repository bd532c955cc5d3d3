------------------------------- MODULE Library -------------------------------
(***************************************************************************)
(* services/library_service.rs and services/cover_cache_service.rs on      *)
(* Android: importing, opening, relocating and deleting books.  A command  *)
(* works on four things that no transaction spans: the books table, the    *)
(* cover directory, the private copies of the sources and the permissions  *)
(* the system keeps for the URIs the user picked.  Commands run one after  *)
(* another on the main thread; each of their effects is an action, so that *)
(* every one of them may be the last before the process dies.              *)
(***************************************************************************)
EXTENDS Recency

CONSTANTS Book, Locator, Content,
          Stamp,         \* Stamp[c]: size and time a provider reports, 0 when not both
          Package,       \* Package[c]: its OPF identifier, or NoPackage
          Parses,        \* the contents that are EPUBs
          CoverSize,     \* CoverSize[c]: bytes of its cover, 0 when it has none
          Initial,       \* bound: what the locators lead to in the beginning
          Work,          \* Work[c]: the work it is a copy of
          SoftLimit, HardLimit,   \* of the cover cache
          MaxEvents,     \* bound: changed sources, revocations, failures and crashes
          NoRow

NoPackage == "none"
NoBook == "none"
NoContent == "no content"
NoCover == <<NoBook, 0>>
NoProbe == <<NoBook, 0>>

\* A file name carries a fresh uuid: at most the stored cover of a book, a candidate,
\* one that is about to be unlinked and those that could not be.
Path == Book \X (1..(MaxEvents + 3))

\* The ids of the source cache: an import probes a source under a fresh one, a relocation
\* under one it has of its book.
ImportProbe == {"import"} \X (1..(MaxEvents + 1))
Probe == ImportProbe \cup {"relocate"} \X Book
CopyId == Book \cup Probe

Row == [locator: Locator, content: Content, package: {Package[c] : c \in Content} \cup {NoPackage},
        status: {"available", "missing", "error"}, cover: Path \cup {NoCover}]

\* What the repository takes a fingerprint and an identifier for.
ASSUME LibraryAssumption ==
    /\ IsFiniteSet(Book) /\ NoBook \notin Book /\ Book \cap (Probe \cup {NoProbe}) = {}
    /\ NoContent \notin Content /\ NoRow \notin Row
    /\ Stamp \in [Content -> Nat] /\ CoverSize \in [Content -> Nat]
    /\ Parses \subseteq Content /\ Initial \subseteq Content
    /\ {SoftLimit, HardLimit, MaxEvents} \subseteq Nat /\ SoftLimit <= HardLimit
    /\ \A c, d \in Content :
          \/ Stamp[c] = Stamp[d] /\ Stamp[c] > 0
          \/ Package[c] = Package[d] /\ Package[c] # NoPackage
          => Work[c] = Work[d]

VARIABLES books,        \* rows of books
          older,        \* the pairs of them that updated_at orders
          covers,       \* covers[p]: size of a file of the cover directory, 0 if none
          protected,    \* CoverMaintenance::protected_paths
          orphans,      \* history: the cover files that could not be unlinked
          copies,       \* source cache: the ids that may have a private copy
          strays,       \* history: those among them that a failure left without a row
          permissions,  \* locators whose permission the system keeps
          source,       \* source[l]: what a locator leads to
          cmd,          \* the command under way
          lost,         \* locators whose permission the user withdrew
          events        \* changed sources, revocations, failures and crashes so far

rows == <<books, older>>
cache == <<covers, protected, orphans>>
private == <<copies, strays>>
world == <<source, lost, events>>
vars == <<rows, cache, private, permissions, world, cmd>>

Idle == [op |-> "none", pc |-> "idle", book |-> NoBook, locator |-> NoBook,
         probe |-> NoProbe, content |-> NoContent, parsed |-> FALSE,
         old |-> NoRow, cover |-> NoCover, victim |-> NoCover]

Rows == {b \in Book : books[b] # NoRow}
Holders(l) == {b \in Rows : books[b].locator = l}
At(op, pc) == cmd.op = op /\ cmd.pc = pc
Goes(pc) == cmd' = [cmd EXCEPT !.pc = pc]
Ends == cmd' = Idle

\* A failure or an event outside, of which there are boundedly many.
Happens == events < MaxEvents /\ events' = events + 1

\* The row of b was written now.
Touches(b) == older' = Touched(older, Rows, b)

\* insert_book, and update_book_by_id and update_book_by_source, which write whole rows;
\* source_locator is UNIQUE.
Inserts(b, row) ==
    /\ books[b] = NoRow /\ Holders(row.locator) = {}
    /\ books' = [books EXCEPT ![b] = row]
    /\ Touches(b)
Updates(b, row) ==
    /\ books[b] # NoRow /\ Holders(row.locator) \subseteq {b}
    /\ books' = [books EXCEPT ![b] = row]
    /\ Touches(b)
UpdatesBySource(row) ==
    /\ books' = [b \in Book |-> IF b \in Holders(row.locator) THEN row ELSE books[b]]
    /\ \A b \in Holders(row.locator) : Touches(b)

-----------------------------------------------------------------------------
(* Permissions and copies. *)

\* pickEpub: the system keeps the permission of what the user picks.
Picked(l) ==
    /\ permissions' = permissions \cup {l}
    /\ lost' = lost \ {l}

\* release_source_permission
Released(l) == permissions \ {l}

\* validate_epub_source and the opening of a file descriptor.
Readable(l) == l \in permissions /\ source[l] # NoContent

\* acquire, of which SourceCache has the detail: there is a copy of the source under this
\* id, and the command goes on; an error ends it, and leaves the permission of the picked
\* file as it is.  An error before the copying leaves what was there; one of it nothing;
\* one after the rename the copy, which nobody invalidates.
Acquires(id, l, next) ==
    \/ /\ source[l] # NoContent
       /\ copies' = copies \cup {id} /\ strays' = strays \ {id}
       /\ cmd' = next
       /\ UNCHANGED events
    \/ source[l] = NoContent /\ UNCHANGED <<private, cmd, events>>
    \/ /\ Happens
       /\ copies' \in {copies, copies \ {id}, copies \cup {id}}
       /\ strays' = IF id \in copies' \ Rows THEN strays \cup {id} ELSE strays \ {id}
       /\ UNCHANGED cmd

\* remove_cache_file_locked and SourceManager::invalidate: a command takes these covers and
\* copies and asks for no answer; one that cannot be removed stays, with no one left who
\* tries again before the next start.
GivesUp(P, I) ==
    \E Q \in SUBSET {p \in P : covers[p] > 0}, J \in SUBSET (I \cap copies) :
        /\ covers' = [p \in Path |-> IF p \in P \ Q THEN 0 ELSE covers[p]]
        /\ orphans' = orphans \cup Q
        /\ copies' = copies \ (I \ J)
        /\ strays' = (strays \ I) \cup (J \ Rows)
        /\ IF Q = {} /\ J = {} THEN UNCHANGED events ELSE Happens

\* Mutant: the fields a provider does not report are compared as if it did.
MatchesByUnknown(row, c) ==
    \/ Stamp[row.content] = Stamp[c]
    \/ row.package = Package[c] /\ row.package # NoPackage

\* relocation_matches: complete fingerprints decide; without them the OPF identifiers do.
RelocationMatches(row, c) ==
    IF Stamp[row.content] > 0 /\ Stamp[c] > 0
    THEN Stamp[row.content] = Stamp[c]
    ELSE row.package = Package[c] /\ row.package # NoPackage

\* list_recoverable_books and the filter of unique_recoverable_match.
Recoverable(c) ==
    {b \in Rows : books[b].status # "available" /\ RelocationMatches(books[b], c)}

-----------------------------------------------------------------------------
(* The cover cache. *)

Stored == {books[b].cover : b \in Rows} \ {NoCover}
Guarded == {p \in Path : protected[p] > 0}

\* What the budget counts: the covers of rows, and those an import protects.
Counted == Stored \cup Guarded
CountedBytes == Total([p \in Counted |-> covers[p]])

Protect(P) == [p \in Path |-> IF p \in P THEN protected[p] + 1 ELSE protected[p]]
Unprotect(P) ==
    [p \in Path |-> IF p \in P /\ protected[p] > 0 THEN protected[p] - 1 ELSE protected[p]]
\* The candidate of the import and the cover it is to replace.
OldCover == IF cmd.old = NoRow THEN NoCover ELSE cmd.old.cover
Pair == {cmd.cover, OldCover} \ {NoCover}

\* What a path that may be none names.
File(p) == {p} \ {NoCover}

\* The rows whose cover may be evicted.
Evictable == {b \in Rows : books[b].cover # NoCover /\ protected[books[b].cover] = 0}

-----------------------------------------------------------------------------
(* import_book *)

\* The ids a fresh uuid may be.
Unused == Book \ (Rows \cup strays)

\* Bound: there is an id for the book, should it be a new one.
HasId(l) ==
    \/ Unused # {} \/ Holders(l) # {}
    \/ source[l] \in Parses /\ Recoverable(source[l]) # {}

\* The book that has this locator, or the first of the ids no copy has.
ProbeOf(l) ==
    IF Holders(l) # {} THEN Holders(l)
    ELSE {id \in ImportProbe \ copies : \A n \in 1..(id[2] - 1) : <<"import", n>> \in copies}

\* What the user picked is copied.
ImportStart(l) ==
    /\ cmd = Idle
    /\ HasId(l)
    /\ Picked(l)
    /\ \E id \in ProbeOf(l) :
          Acquires(id, l, [Idle EXCEPT !.op = "import", !.pc = "acquired", !.locator = l,
                                       !.probe = id, !.content = source[l]])
    /\ UNCHANGED <<rows, cache, source>>

\* The book to update: the one with this locator, or the only unavailable one that
\* matches; with two matches nothing is guessed, and the permission is given back.
Identify ==
    LET found == IF cmd.probe \in Book THEN {cmd.probe}
                 ELSE IF cmd.content \in Parses THEN Recoverable(cmd.content) ELSE {}
        Is(b) == cmd' = [cmd EXCEPT !.pc = "identified", !.book = b, !.old = books[b]]
    IN  /\ At("import", "acquired")
        /\ \/ /\ Cardinality(found) > 1
              /\ GivesUp({}, {cmd.probe})
              /\ permissions' = Released(cmd.locator)
              /\ Ends
           \/ /\ Cardinality(found) <= 1
              /\ \E b \in IF found = {} THEN Unused ELSE found : Is(b)
              /\ UNCHANGED <<covers, orphans, private, permissions, events>>
        /\ UNCHANGED <<rows, protected, source, lost>>

\* The copy cannot be opened again, or the books cannot be read: the command returns at
\* once and leaves the copy under its probe.
BreakOff ==
    /\ At("import", "acquired") \/ At("import", "identified") \/ At("relocate", "acquired")
    /\ Happens
    /\ strays' = strays \cup ({cmd.probe} \ Book)
    /\ Ends
    /\ UNCHANGED <<rows, cache, copies, permissions, source, lost>>

\* parse_epub_reader: the bytes of the cover the package names.
CoverOf(c) == IF c \in Parses THEN CoverSize[c] ELSE 0

\* write_cover_candidate: a name that no file has.
Fresh(b) ==
    {p \in {b} \X (1..(MaxEvents + 3)) :
        /\ covers[p] = 0 /\ p \notin Counted
        /\ \A n \in 1..(p[2] - 1) : covers[<<b, n>>] > 0 \/ <<b, n>> \in Counted}

\* parse_import_metadata: what is no EPUB becomes a book with an error.
ExtractCover ==
    LET c == cmd.content
    IN  /\ At("import", "identified")
        /\ \/ /\ CoverOf(c) = 0
              /\ cmd' = [cmd EXCEPT !.pc = "persist", !.parsed = c \in Parses]
              /\ UNCHANGED covers
           \/ /\ CoverOf(c) > 0
              /\ \E p \in Fresh(cmd.book) :
                    /\ covers' = [covers EXCEPT ![p] = CoverOf(c)]
                    /\ cmd' = [cmd EXCEPT !.pc = "parsed", !.parsed = TRUE, !.cover = p]
        /\ UNCHANGED <<rows, protected, orphans, private, permissions, world>>

\* The cover cannot be written, and perhaps its temporary file not be removed either: a
\* full device ends the import, any other failure makes it a book with an error.
CoverFails ==
    /\ At("import", "identified") /\ CoverOf(cmd.content) > 0
    /\ Happens /\ UNCHANGED <<source, lost>>
    /\ \/ UNCHANGED <<covers, orphans>>
       \/ \E p \in Fresh(cmd.book) :
             /\ covers' = [covers EXCEPT ![p] = CoverOf(cmd.content)]
             /\ orphans' = orphans \cup {p}
    /\ Goes("discard") \/ Goes("persist")
    /\ UNCHANGED <<rows, protected, private, permissions>>

\* admit_candidate: both covers are protected before the budget is enforced.
Admit ==
    /\ At("import", "parsed")
    /\ protected' = Protect(Pair)
    /\ Goes("evict")
    /\ UNCHANGED <<rows, covers, orphans, private, permissions, world>>

\* enforce_limits_locked, for the oldest row: the reference goes first, without touching
\* updated_at.
EvictRow ==
    /\ At("import", "evict") /\ CountedBytes > SoftLimit
    /\ \E b \in Evictable :
          /\ \A c \in Evictable \ {b} : <<b, c>> \in older
          /\ books' = [books EXCEPT ![b].cover = NoCover]
          /\ cmd' = [cmd EXCEPT !.pc = "unlink", !.victim = books[b].cover]
    /\ UNCHANGED <<older, cache, private, permissions, world>>

\* The file of the reference that is gone.  One that cannot be removed fails the admission:
\* it is in no row and not protected, so that no later admission counts it.
EvictFile ==
    /\ At("import", "unlink")
    /\ \/ /\ covers' = [covers EXCEPT ![cmd.victim] = 0]
          /\ cmd' = [cmd EXCEPT !.pc = "evict", !.victim = NoCover]
          /\ UNCHANGED <<orphans, events>>
       \/ /\ Happens
          /\ orphans' = orphans \cup {cmd.victim}
          /\ cmd' = [cmd EXCEPT !.pc = "discard", !.victim = NoCover]
          /\ UNCHANGED covers
    /\ UNCHANGED <<rows, protected, private, permissions, source, lost>>

\* Mutant: the hard limit is not looked at.
AdmitAnyway ==
    /\ At("import", "evict")
    /\ CountedBytes <= SoftLimit \/ Evictable = {}
    /\ Goes("persist")
    /\ UNCHANGED <<rows, cache, private, permissions, world>>

\* Nothing is left to evict: the candidate is admitted or refused.
Admitted ==
    /\ At("import", "evict")
    /\ CountedBytes <= SoftLimit \/ Evictable = {}
    /\ Goes(IF CountedBytes <= HardLimit THEN "persist" ELSE "discard")
    /\ UNCHANGED <<rows, cache, private, permissions, world>>

\* Mutant: a failed insert or update leaves the candidate to the next start.
FailKeepingCandidate ==
    /\ At("import", "evict") \/ At("import", "persist")
    /\ Happens
    /\ copies' = copies \ {cmd.probe}
    /\ Ends
    /\ UNCHANGED <<rows, cache, strays, permissions, source, lost>>

\* The database refuses: while covers are evicted, or when the book is stored.
ImportFails ==
    /\ At("import", "evict") \/ At("import", "persist")
    /\ Happens
    /\ Goes("discard")
    /\ UNCHANGED <<rows, cache, private, permissions, source, lost>>

\* Mutant: a failed import takes the cover its book had as well.
DiscardBoth ==
    /\ At("import", "discard")
    /\ GivesUp(Pair, {cmd.probe})
    /\ protected' = Unprotect(Pair)
    /\ Ends
    /\ UNCHANGED <<rows, permissions, source, lost>>

\* The end of an import that failed.  A refused admission has unprotected both covers, and
\* discard_candidate does it again.
Discard ==
    /\ At("import", "discard")
    /\ GivesUp(File(cmd.cover), {cmd.probe})
    /\ protected' = IF cmd.cover = NoCover THEN protected ELSE Unprotect(Pair)
    /\ Ends
    /\ UNCHANGED <<rows, permissions, source, lost>>

\* merge_imported_book
Merged == [locator |-> cmd.locator,
           content |-> cmd.content,
           package |-> IF cmd.parsed THEN Package[cmd.content] ELSE NoPackage,
           status |-> IF cmd.parsed THEN "available" ELSE "error",
           cover |-> cmd.cover]

Persist ==
    /\ At("import", "persist")
    /\ Updates(cmd.book, Merged) \/ Inserts(cmd.book, Merged)
    /\ Goes("swap")
    /\ UNCHANGED <<cache, private, permissions, world>>

\* remove_replaced_cover
RemoveReplaced ==
    /\ At("import", "replace")
    /\ protected' = Unprotect(Pair)
    /\ GivesUp(File(OldCover), {})
    /\ Ends
    /\ UNCHANGED <<rows, permissions, source, lost>>

-----------------------------------------------------------------------------
(* open_book and relocate_book *)

\* A source that cannot be read makes its book missing.
OpenMissing(b) ==
    /\ cmd = Idle /\ b \in Rows
    /\ ~Readable(books[b].locator)
    /\ UpdatesBySource([books[b] EXCEPT !.status = "missing"])
    /\ UNCHANGED <<cache, private, permissions, world, cmd>>

\* The user picks the file a book is to have; it is copied under the probe of the book.
RelocateStart(b, l) ==
    /\ cmd = Idle /\ b \in Rows
    /\ Picked(l)
    /\ Acquires(<<"relocate", b>>, l,
                [Idle EXCEPT !.op = "relocate", !.pc = "acquired", !.book = b, !.locator = l,
                             !.probe = <<"relocate", b>>, !.content = source[l], !.old = books[b]])
    /\ UNCHANGED <<rows, cache, source>>

\* Mutant: a candidate that another book has loses its permission.
RejectedAlways == Released(cmd.locator)

\* release_rejected_candidate
Rejected ==
    IF cmd.locator = cmd.old.locator \/ Holders(cmd.locator) # {}
    THEN permissions ELSE Released(cmd.locator)

\* The candidate is no EPUB; its permission stays.
Refuse ==
    /\ At("relocate", "acquired")
    /\ cmd.content \notin Parses
    /\ GivesUp({}, {cmd.probe})
    /\ Ends
    /\ UNCHANGED <<rows, protected, permissions, source, lost>>

\* The row is written whole, from what was read at the start.
Relocate ==
    /\ At("relocate", "acquired")
    /\ cmd.content \in Parses /\ RelocationMatches(cmd.old, cmd.content)
    /\ Updates(cmd.book, [cmd.old EXCEPT !.locator = cmd.locator,
                                         !.content = cmd.content,
                                         !.package = Package[cmd.content],
                                         !.status = "available"])
    /\ Goes("swap")
    /\ UNCHANGED <<cache, private, permissions, world>>

\* It is not the book's, another book has the locator, or the database refuses.
RelocateFails ==
    /\ At("relocate", "acquired")
    /\ cmd.content \in Parses
    /\ \/ /\ \/ ~RelocationMatches(cmd.old, cmd.content)
             \/ ~(Holders(cmd.locator) \subseteq {cmd.book})
          /\ UNCHANGED events
       \/ RelocationMatches(cmd.old, cmd.content) /\ Happens
    /\ Goes("reject")
    /\ UNCHANGED <<rows, cache, private, permissions, source, lost>>

\* The end of a relocation that failed.
Reject ==
    /\ At("relocate", "reject")
    /\ GivesUp({}, {cmd.probe})
    /\ permissions' = Rejected
    /\ Ends
    /\ UNCHANGED <<rows, protected, source, lost>>

-----------------------------------------------------------------------------
(* What an import and a relocation have in common once the row is written. *)

\* The book's copy is made from the new source, which may fail, and that of the probe
\* goes, unless it cannot be removed.
SwapCopy ==
    /\ cmd.pc = "swap"
    /\ \/ cmd.probe = cmd.book /\ UNCHANGED <<private, events>>
       \/ /\ cmd.probe # cmd.book
          /\ \E made \in SUBSET {cmd.book}, left \in SUBSET ({cmd.probe} \cap copies) :
                /\ copies' = (copies \ {cmd.book, cmd.probe}) \cup made \cup left
                /\ strays' = strays \cup left
                /\ IF left = {} /\ (made = {} <=> ~Readable(cmd.locator))
                   THEN UNCHANGED events ELSE Happens
    /\ Goes("release")
    /\ UNCHANGED <<rows, cache, permissions, source, lost>>

\* The permission of the source it had before is given back.
ReleaseOld ==
    /\ cmd.pc = "release" /\ cmd.op # "delete"
    /\ permissions' = IF cmd.old # NoRow /\ cmd.old.locator # cmd.locator
                      THEN Released(cmd.old.locator) ELSE permissions
    /\ IF cmd.op = "import" THEN Goes("replace") ELSE Ends
    /\ UNCHANGED <<rows, cache, private, world>>

-----------------------------------------------------------------------------
(* delete_book *)

Delete(b) ==
    /\ cmd = Idle /\ b \in Rows
    /\ books' = [books EXCEPT ![b] = NoRow]
    /\ older' = Without(older, b)
    /\ cmd' = [Idle EXCEPT !.op = "delete", !.pc = "forget", !.book = b, !.old = books[b]]
    /\ UNCHANGED <<cache, private, permissions, world>>

\* Its copy goes, and its cover unless an import protects it.
Forget ==
    /\ At("delete", "forget")
    /\ GivesUp(File(OldCover) \ Guarded, {cmd.book})
    /\ Goes("release")
    /\ UNCHANGED <<rows, protected, permissions, source, lost>>

\* release_source_permission
ReleaseDeleted ==
    /\ At("delete", "release")
    /\ permissions' = Released(cmd.old.locator)
    /\ Ends
    /\ UNCHANGED <<rows, cache, private, world>>

-----------------------------------------------------------------------------
(* The world around. *)

SourceChanges(l) ==
    /\ Happens
    /\ \E c \in Content \cup {NoContent} :
          c # source[l] /\ source' = [source EXCEPT ![l] = c]
    /\ UNCHANGED <<rows, cache, private, permissions, lost, cmd>>

\* In the system's settings.
Revoke(l) ==
    /\ Happens /\ l \in permissions
    /\ permissions' = permissions \ {l}
    /\ lost' = lost \cup {l}
    /\ UNCHANGED <<rows, cache, private, source, cmd>>

\* CoverCache::reconcile: the rows whose cover is a file, and no other keeps it.
Reconciled == {b \in Rows : books[b].cover # NoCover /\ covers[books[b].cover] > 0}

\* CoverCache::new and SourceManager::new after the app ended or died: the covers that pass,
\* without the oldest beyond the soft limit, and the copies that have a row.  What a failure
\* left behind goes; a file that cannot be removed now either stops the start.
Restart ==
    LET kept == Newest(older, Reconciled, [b \in Reconciled |-> covers[books[b].cover]], SoftLimit)
    IN  /\ IF cmd = Idle THEN UNCHANGED events ELSE Happens
        /\ cmd' = Idle
        /\ protected' = [p \in Path |-> 0]
        /\ books' = [b \in Book |-> IF b \in Rows \ kept
                                    THEN [books[b] EXCEPT !.cover = NoCover]
                                    ELSE books[b]]
        /\ covers' = [p \in Path |-> IF \E b \in kept : books[b].cover = p
                                     THEN covers[p] ELSE 0]
        /\ orphans' = {}
        /\ copies' = copies \cap Rows /\ strays' = {}
        /\ UNCHANGED <<older, permissions, source, lost>>

-----------------------------------------------------------------------------

Init ==
    /\ books = [b \in Book |-> NoRow] /\ older = {}
    /\ covers = [p \in Path |-> 0] /\ protected = [p \in Path |-> 0]
    /\ orphans = {} /\ copies = {} /\ strays = {}
    /\ permissions = {} /\ lost = {}
    /\ source \in [Locator -> Initial]
    /\ cmd = Idle /\ events = 0

Import ==
    \/ \E l \in Locator : ImportStart(l)
    \/ Identify \/ ExtractCover \/ CoverFails \/ Admit \/ EvictRow \/ EvictFile
    \/ Admitted \/ ImportFails \/ Discard \/ Persist \/ RemoveReplaced

Relocation ==
    \/ \E b \in Book, l \in Locator : RelocateStart(b, l)
    \/ Refuse \/ Relocate \/ RelocateFails \/ Reject

Deletion == (\E b \in Book : Delete(b)) \/ Forget \/ ReleaseDeleted

Environment ==
    \/ \E l \in Locator : SourceChanges(l) \/ Revoke(l)
    \/ Restart

Next ==
    \/ Import \/ Relocation \/ Deletion
    \/ \E b \in Book : OpenMissing(b)
    \/ BreakOff \/ SwapCopy \/ ReleaseOld
    \/ Environment

Spec == Init /\ [][Next]_vars

-----------------------------------------------------------------------------

\* The state is well formed, no two books have a source in common, and none refers to a
\* cover that is not there: an eviction clears the reference before it takes the file,
\* a refused or failed import leaves the cover its book had, and so does a crash
\* between any two of these effects.
LibraryOK ==
    /\ books \in [Book -> Row \cup {NoRow}]
    /\ IsOrder(older, Rows)
    /\ covers \in [Path -> Nat] /\ protected \in [Path -> Nat] /\ orphans \subseteq Path
    /\ copies \subseteq CopyId /\ strays \subseteq CopyId
    /\ permissions \subseteq Locator /\ lost \subseteq Locator
    /\ source \in [Locator -> Content \cup {NoContent}]
    /\ events \in 0..MaxEvents
    /\ \A l \in Locator : Cardinality(Holders(l)) <= 1
    /\ \A p \in Stored : covers[p] > 0

\* Between commands every cover file is some book's, or one whose removal failed since the
\* last start; every private copy is some book's, or one that could not be removed, or that
\* of a command which a failure ended between its copying and its clean-up.  Refusals and
\* the failures that the commands clean up after leave nothing, and nothing is protected.
NothingLeftBehind ==
    cmd = Idle =>
        /\ {p \in Path : covers[p] > 0} = Stored \cup orphans
        /\ copies \subseteq Rows \cup strays
        /\ orphans \cap Stored = {} /\ strays \cap Rows = {}
        /\ Guarded = {}

\* From its admission on, a candidate fits the hard limit together with everything that
\* is stored and the cover it is to replace; between commands the covers fit it anyhow.
\* No admission counts the files whose removal failed, and they come on top of it until
\* the next start.
CoverBudgetHeld ==
    cmd = Idle \/ (cmd.op = "import" /\ cmd.pc \in {"persist", "swap", "release", "replace"})
        => Total([p \in Path \ orphans |-> covers[p]]) <= HardLimit

\* No command takes the permission of a source that a book has, whichever other book,
\* candidate or failed import it released it for.
BooksKeepAccess == \A b \in Rows : books[b].locator \in permissions \cup lost

\* A book that gets another source, by relocation or by an import that recovers it,
\* stays the work its progress, notes and tags are about.
WorkKept ==
    [][\A b \in Rows :
          books'[b] # NoRow /\ books'[b].locator # books[b].locator
              => Work[books'[b].content] = Work[books[b].content]]_vars
=============================================================================
