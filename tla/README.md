# EpubStart: specification and proofs

EpubStart reads local EPUB files.  A React front end runs in a webview, a Rust back end
(Tauri 2) keeps one SQLite database and three rebuildable stores: private copies of the
sources (Android), covers, and a full-text index.  This directory holds TLA+ modules of
the parts of it in which order, time, failure and concurrency matter, the configurations
under which TLC checks them, and proofs for TLAPS.

## 1. The system

### Where things run

- **Commands.**  The front end calls commands asynchronously; nearly all of them are
  synchronous Rust functions that run one after the other on the main thread.
- **Workers.**  `ensure_series_search_index` spawns a thread for each index task.
- **Webview threads** serve `epub://` requests and, with `save_book_image`, acquire
  sources beside the workers and the commands.
- **Shared state** is `AppState`: the database behind one mutex, `CoverCache`,
  `SourceManager` (a registry of weak lease guards behind another mutex) and the registry
  of search tasks.  Nobody holds the database mutex across an acquisition; what was read
  under it is old by the time it is used.
- **Start.**  `lib.rs` runs the migrations, reconciles covers and sources, ends
  interrupted reading sessions and resets interrupted index rows, in this order, before
  any command is served.

### Components

| component | state | operations | talks to | what is hard | what makes it correct |
|---|---|---|---|---|---|
| reading ledger `reading_activity_service.rs`, `reading_activity_repository.rs` | sessions, presence segments, `book_reading_state` | begin, observe, recover, delete history; queries | hook, library (book deletion, progress) | clock set back, midnight, offsets, duplicates, deletion under a live session | nothing counted twice, on the wrong day or for an unknown gap |
| reading hook `useReadingActivity.ts` | handle, requested state, revision, promise chain, timers | window events, heartbeat, cleanup | ledger, by IPC | commands in flight while the world moves; remounting | no session left unattended, no reader uncounted, the background not counted |
| source cache `source/` | files, temporary files, fingerprints, rows, lease guards | acquire, open, evict, invalidate, reconcile | protocol, images, search, library | steps of two requests, crash between file and row, changing sources | a lease stands for a whole file; fingerprints tell the truth; budget |
| search index `search_service.rs` | task registry, workers, documents, states | ensure, rebuild, cancel, status, search, recover | source cache, catalog, client | two workers on a book, cancellation, deletion, failure to record a failure | what is searched is one whole pass over the file that was opened, no task is lost |
| series search client `seriesSearch.ts`, `ArchiveSearchPage.tsx` | run number, owned task | search, poll, retire, cancel | search index | first poll reads an older task's row; retired task still registered | shows the answer of its own task |
| reader store `readerStore.ts`, `engine/lifecycle.ts` | reader session, rendition, pending save, chains of progress writes, settings queue | open, close, flush, search, notes, settings | library service, EPUB.js | every `await` may return into another session | the last position wins, no write of an old session, resources destroyed once |
| library service `library_service.rs` | books | import, open, relocate, delete | caches, platform, format | partial failure between files, rows and permissions | a book has its source, cover and permission or none of them |
| cover cache `cover_cache_service.rs` | cover files, protection counts, `cover_cache_path` | admit, discard, replace, remove, enforce, reconcile | library | two imports, error paths that unprotect | protected covers stay, budget holds, no dangling path |
| library and insights stores | request numbers, lists | load, delete, relocate | commands | late answers | the shown list is the one of the last request |
| statistics `reading_activity_service.rs` | none | overview, buckets, footprint, recommendations | ledger | calendar arithmetic, midnight, offsets, the turn of a year | every answer counts every confirmed instant once, on its day |
| catalog `catalog_service.rs`, `catalog_repository.rs` | series, groups, tags and their relations to books | create, update, delete, place, tag, reorder, filter | library (cascades) | transactions of several statements, deletions under relations | relations name what exists, a transaction is whole, list and filter agree |
| notes `notes_service.rs`, `readerStore.ts` | notes, the list of the open book | list, create, update, delete, load | reader, library | lists and changes answered in any order and session | what is shown is what is stored |
| settings `settings_service.rs`, `settingsPersistence.ts`, `EpubReader.tsx`, `BookShelf.tsx` | global row, overrides, panel, write queue | read, save, clear, change draft and scope | reader store (rendition), migrations | a retry behind newer saves, remounting, the book's deletion | the last operation wins for each row |
| migrations `migrations.rs` | the version, the tables | five scripts | every service | a crash or failure within one, on data of any release | nobody's choice is lost, no script runs twice or not at all |
| navigation, pagination, reflow, highlights | EPUB.js rendition | turn, resize, restore | reader store | queued turns, DOM measurement | order of turns |
| EPUB format, protocol `formats/epub/`, `protocol/` | none of their own | list, resolve, extract, serve | source cache, search index | declared sizes, paths out of the archive, ranges | limits hold, a document's path is served |
| platform, user interface | permissions of the system; none | pick, validate, release; render | library | a permission shared by two uses | a book keeps access |

Everything in the table is listed in `PROJECT.json` with its status; the hazards listed
there are the places where one of the difficulties bites.

## 2. The modules

| module | models | composed with |
|---|---|---|
| `ReadingSessions` | what the activity commands promise: the abstract specification | - |
| `ReadingActivity` | the ledger | implements `ReadingSessions` (refinement mapping `Sessions`) |
| `Calendar`, `Insights` | dates; what readers are told of the ledger | `Insights` EXTENDS `ReadingActivity`: operators over its state |
| `ReadingHook` | the hook and the IPC | EXTENDS `ReadingSessions`: its back end is the abstract protocol |
| `Totals`, `Recency` | sums as counted units; the order of last use and what is left when the oldest go | `Insights`, `SearchIndex`, `SourceCache`, `Library` EXTEND them |
| `SourceCache` | the source cache on Android | - |
| `SearchIndex` | task registry, workers and search tables | takes from `SourceCache` that a lease has a fingerprint and is a path, which may lead to another file, or (`Mixed`) to a torn one, when it is opened |
| `SeriesSearch` | the search page and its client | EXTENDS `SearchIndex` |
| `EpubResources` | entries, paths, spine, extraction, ranges, as functions | a document of `SearchIndex` is one of its extraction; a request's lease one of `SourceCache` |
| `Library` | import, open, relocate, delete, with the cover cache | takes from `SourceCache` that an acquisition makes a private copy, or fails and may leave one |
| `Books` | the rows of books, as others refer to them | in `UserData` |
| `Catalog`, `Notes`, `Migrations`, `ReadingSettings` | one service each, with its callers | `UserData` composes them: one database, one process |
| `ReadingPlaces` | what the reader store promises of the place in a book: the abstract specification | - |
| `ReadingProgress` | the reader store: opening and closing books, saving locations, settings | implements `ReadingPlaces` (refinement mapping `Places`) |
| `ReadingActivityProofs`, `ReadingHookProofs`, `SearchIndexProofs`, `LibraryProofs`, `SourceCacheProofs`, `UserDataProofs`, `ReadingProgressProofs` | theorems | EXTENDS the module and `TLAPS`; `ReadingHookProofs` has those of `ReadingSessions`, too, `ReadingActivityProofs` those of `Calendar` and `Insights`, `SearchIndexProofs` those of `SeriesSearch` and `EpubResources` |
| `TotalsProofs` | lemmas on sums and on evictions by age | used by the proofs of `Insights`, `SearchIndex`, `SourceCache` and `Library` |
| `MC...` | constants for TLC | EXTENDS the module |

Operators called "Mutant" in a comment are broken variants of the definition that follows
them.  Substituted for it, each makes TLC find the violation of a property, which shows
that the property depends on that line of the code.  They take no part in a specification.

### Reading sessions and the ledger

`ReadingActivity` has a variable for each table, with a row of `sessions` for each UUID
(`"unused"` before it is generated, `"deleted"` afterwards) and the segments as a set of
records.  A command is one transaction under the database mutex, so it is one action.
A command that is refused or answered from the row as a duplicate changes nothing: it is a
stuttering step, and the answers are modelled where they matter, in `ReadingHook`.
`Confirmed` is the decision of `observe_reading_activity_at` (extend, split at local
midnight, or close without extension) as a function of the open segment.  Time is in ticks
of any length that divides 90 s and a day; a day is an interval of `DayLen` ticks, and a
date its number, since the ledger compares dates for equality only.  The clock may be set
back `MaxSetBacks` times; `Recover` may happen at any time, as a crash may.

`ReadingSessions` forgets clock, books and segments.  `Sessions` in `ReadingActivity` maps a
row to its state and last sequence number; every action of the ledger is an action of the
protocol or a stutter.  The hook is then checked against the protocol and not against the
ledger, which keeps its state space small and its conclusions valid for the ledger.

### Calendar and statistics

`Calendar` translates the conversions between dates and days, and `CalendarOn` compares them
with what a calendar is: the day after a date, by the lengths of months.  TLC evaluates it
around leap days, centuries, eras and the ends of the range; it is proved for all years from 1 to
9999.  `Insights` has the overview with
its buckets, the footprint and the recommendations.  A tick is an hour there, and `Epoch` puts
the clock's zero on the last day of 2023, a Sunday, so that the ledger's midnights include the turn of a
week, month, quarter and year.  `InsightsAddUp` is evaluated in every state of the ledger.  A
sum is the number of its units (`Totals`).  Buckets and dates are looked up in
tables (`DateOf`, `OverviewOf`) over the days a segment can be on.  `RecommendationsHold` is
evaluated over libraries of three books, and proved for every finite one.

### The hook

`effect[e]` holds the closure variables of the e-th mount of the effect.  A callback runs to
completion with the microtasks it triggers: `Settled` lets the tasks of the promise chain
run, each through its guards, up to the first that sends a command.  A command is sent,
executed (`ServeBegin`, `ServeObservation`) and answered (`AnswerBegin`, `AnswerObservation`)
in three steps.  It may fail without effect, or be delivered again although it was served,
as when the IPC's custom protocol fails and Tauri falls back to messages.
`lapsed` is a history variable: the sessions whose reader left the foreground since their
last accepted observation.

Fairness: timers fire, promises settle and served commands are answered, so each `Work`
action and the heartbeat is weakly fair.  Nothing is assumed of the user, the window, errors
or restarts.  `OrphansEnd` and `BackgroundPauses` hold only while no command fails, and
say so: a failed pause is not sent again (see the findings).

### The source cache

A path names an inode and an inode has chunks, each with the version of the source it was
read from, as two requests for one book share the name of their temporary file.  Each step
of `acquire_android` between which another thread or a crash may come is an action, also
each turn of the eviction loop (which holds the registry's lock).  `older` is
the order of `last_accessed_at` among the rows; a file without a row is older than any with one.  Two versions of a source that reports its
size or its time are taken to differ in what it reports; a source that reports neither is
compared by its first bytes, which may be equal.  `Delete` and `Invalidate` are the two halves
of `delete_book`.  `Restart` is a crash followed by `SourceManager::new`; a file renamed before
a crash is taken to be on disk.  Probes of an import or a relocation are files under names that
are no book, and are modelled in `Library`.  Not modelled: a removal that fails (that of an eviction,
after its row is gone, or one whose error the code ignores).

Requests for one book run beside each other: a page of it is read while it is indexed.  Hits do so
without harm.  A miss does not: it removes the file another may have leased and not opened, and two
misses share a temporary file.  `contended` is a history variable that says of which books this is
to be feared: a book enters it when a request that misses, or that gives its file up in the end, has another
request for the book beside it, and leaves it when its copy is begun anew (`Clear`) with no other
request for it about.  `LeaseIsSound`, `FingerprintTellsTruth` and `BudgetHeld` except the contended
books, and only those: whatever happens to a contended book, all others keep their guarantees.
That the exception is needed is what `source_torn` shows.

### The search index

`task[t]` is an entry of the registry with the place its worker is at; between two database
accesses of a worker anything may happen.  Documents are counted in chapters: a chapter is
*treated* when it gave a document, was empty or was passed over with a recorded error, and its
text is one unit long.  `Fail` is an operation that fails and is recorded (with or without its
documents, after the kind of error); `Refuse` is a database that refuses the record itself, on
which the worker returns.  A worker takes the fingerprint with its lease, looks at the row, marks it and
only then opens the path of the lease.  On a desktop that is the user's own file, which may be a
later version by then (`Open`); a file rewritten in place while it is read, or on Android a copy
that another request for the book put there (`source_torn`), need not be whole or of such a
version at all: its text is `Mixed` (`OpenMixed`).  `ReadyIsTrue` says what is left: all chapters of one pass over the
file that was opened, never of a version older than the fingerprint unless it is `Mixed`.  That the text is *of* the
fingerprint is not promised, as the code does not look at the source again; the next search finds the
fingerprint changed and indexes the book again.  Versions are taken to have distinct fingerprints;
a relocation of a book while it is indexed is a changed source.  The members of a series are visited in any order.  The worker is
weakly fair: a thread runs on until it returns.

### Searching a series

`SeriesSearch` composes the page with the workers of `SearchIndex`.  `search[r]` is where the
r-th search stands: a command is executed in one step (`ServeEnsure`, `ServePoll`) and answered in
another (`Ensured`, `Polled`), between which the page may have retired it; `page` is the run number
and the owned task; `cancels` are cancellations whose answer nobody waits for.  `Seen` is what
`waitForSeriesIndex` makes of a status: its detail is that of any book that has one, so that an
answer may be about the row an earlier task left.  Then the search ends while its own task works
on with nobody behind it: `Attended` excepts this case, and `SearchesEnd` asks that such a task
ends as well: a reader who searches finitely often sees everything come to rest.  There is one fairness condition for all processes together: while a
command is unanswered, a cancellation on its way or a worker at work, one of them goes on.  This
is weaker than fairness of each.  Books are deleted only while the page is not shown, as the
shelf that deletes them is another page, and while no worker is at work, which is a bound.

### What is read from an EPUB

`EpubResources` is a set of functions.  Its reference statements are evaluated for all small
inputs when `series_search` starts: `RangesHold` (a range is a part of the entry, and is refused
exactly when it has none; proved for entries of every length), `PathsHold` (a path never leaves the archive, and what is resolved is what
is looked up) and `ExtractionHolds` (chapters in order, each treated once, under the limits, and a
document found by a search can be opened by its path).  Names are compared by `Lower`, a table.

### The library and its covers

A command of `library_service.rs` works on four stores that no transaction spans.  `cmd` is the
command under way and each effect on a store is an action, so that a failure or a crash
may come between any two.  Commands run one after the other (they are synchronous functions on the
main thread), so there is one `cmd`.  Picking a file takes a permission, and taking it twice is
taking it once: `permissions` is a set.  `older` orders the rows by `updated_at`.  A cover goes the
code's way: candidate, protection, admission (the soft limit evicts, row first, then file; the hard
limit refuses), the book's row, and only then the replaced cover.  A book has as many names in `Path`
as it can have files: a stored cover, a candidate, one about to be unlinked and those that could not be.
Two history variables hold what the code leaves behind.  `orphans` are cover files whose removal
failed (`GivesUp`, `EvictFile`, a temporary file in `CoverFails`): an eviction clears the row first, so
that such a file is in no row and not protected, and no admission counts it.  `strays` are private
copies under an id of no book: of an acquisition that failed after its rename, of an error that returns
between the acquisition and the clean-up (`BreakOff`), of an invalidation that could not remove them.
`NothingLeftBehind` says that nothing else is left, `CoverBudgetHeld` that all covers but the
orphans fit the limit; the next start removes both.  An acquisition leaves its copy whole or not at all:
its temporary file, and an eviction of a stray by a later acquisition, are in `SourceCache`, for which
`copies` are the ids that *may* have a copy.  A start whose reconciliation fails stops there.  A content has a stamp (size and time; 0 when
the provider does not report them) and a package identifier, and `LibraryAssumption` says what the
code takes for granted: equal stamps or identifiers are the same work.  `lost` are permissions the
user withdrew in the system's settings.

### What users say of their books

`UserData` composes `Catalog`, `Notes` and `ReadingSettings` over the rows of `Books`: `DeleteBook`
is one DELETE with its cascades through all of them, `Startup` runs the migrations before any
command, and `RestartProgram` ends all callers at once.

- `Catalog`.  A command of a single statement is one action.  Setting the tags of a book or series and
  reordering a series are transactions: `work` holds the statements still to come, `before` what a
  rollback restores; a statement or the COMMIT may fail and the process may die at each.
- `Notes`.  Commands are executed in the order they were sent (`calls`), answers arrive in any
  (`answers`).  A list of notes is shown only if it is the last asked for and no change was answered
  since.  `raced` holds the notes that two changes under way at once are about.
- `Migrations`.  `db` is the database, of any release between the first and this, `disk` what a
  rollback restores, `startup` the place the start is at.  Of the data there are settings (one size,
  one margin; `updated` is 0 until somebody saves them) and dates of reading; of the schema, that a
  script ran.
- `ReadingSettings`.  `panel` has the reader's panel with its draft and pending save, `queue` the shared
  chain of writes with its single retry.  `wanted` is history: what the last operation queued for each
  row asked for.

### The reader store

`opening[s]` is the `open()` of reader session `s`, suspended at one of its awaits; a
continuation that finds the session over disposes of what it made (`Abandoned`).  `writes[b]` is
the chain of promises of a book: only its head is with the back end, and `ahead` is the number
of links before the promise that an `open()` or a settings change awaits.  `applies[g]` is the
g-th call of `applyReadingSettings`.  A location is a book and a page; page 0 is what EPUB.js
displays without a target.  `relocated` may be reported before the display ends or after; during
an opening it reports the target, as `settleInitialPagination` returns to it.  A
command may fail, also after the row was written.  `reached` and `failed` are history: the last
location reported, the books whose last answered write failed.

A settings change displays the first visible line, or, on a page without text, the location it
wrote down before: a page turned in between is then turned back.  The repository's README says
that locations may change with the settings, so `NeverBackToStart` speaks of openings only.
When the write of the location fails, the flow is already stored but the rendition is not rebuilt,
and asking for the same flow again finds no difference: `LatestSettingsShown` excepts failures.

`ReadingPlaces` has none of this, but of each book a place, one that waits to be sent, those on
their way in the order they were sent, and the row.  The mapping `Places` takes `reached` for the
place, the timer's location for the one that waits, a book's chain without a head the back end has
executed for those on their way, and `progress` for the row.  `Turn` and what EPUB.js reports are
`Reach`, a flush or the timer is `Send`, the write before a settings change `SendAgain`, `ServeWrite`
`Save` or `Refuse`; all else is a stutter.  As writes go in order, a row never goes back to a
place left behind.

Every promise settles, every command is answered and every timer fires (weak fairness); the
reader owes nothing.

## 3. What is checked

| run | question | bounds | states |
|---|---|---|---|
| `reading_activity` | ledger: types and open segment, double counting, local days, history, reading state, back-filling, refinement, statistics | 2 sessions, 1 book, offsets {0, -1}, day 3, gap 2, clock to 3, 2 observations a session and 3 in all, 1 set-back in place of one of them; symmetric sessions | 196 thousand |
| `reading_hook` | hook: one live session, handle in step, orphans end, background pauses, foreground counts | 2 sessions, 2 mounts, 3 events, 1 error, 1 redelivery, 1 heartbeat a session | 113 thousand |
| `source_cache` | leases, fingerprints, budget, rows | 2 books of 2 then 1 chunks, limits 2 and 3, 2 requests, one for the first book and one for either, 2 events or faults | 1.51 million |
| `search_index` | documents, states, budget, deletion | 2 books, 2 series, 2 workers, sources of 2 then 1 chapters, both limits 3, 2 events or faults; symmetric | 677 thousand |
| `series_search` | every search is answered, every task attended and ended; EPUB functions | 1 series of 2 books, 2 searches, 1 chapter a book, both limits 1, 1 repeated poll, 1 failure, deletion or restart | 473 thousand |
| `library` | rows, covers, copies and permissions together; budget; a book stays its work | 2 books, 3 locators, 4 contents, limits 2 and 3, 2 failures, changes or crashes, starts at rest not counted; symmetric | 2.16 million |
| `user_data` | relations, transactions, tags, notes, settings, migrations | 2 books, 2 series, 1 group, 2 tags, 2 notes, 2 drafts, 2 calls or queued writes; one service at a time and one book with settings of its own (`Focused`); symmetric | 310 thousand |
| `reading_progress` | last location wins, reopening resumes, a failed read is not "no progress", books stay apart, refinement | 2 books, 3 sessions, 2 page turns, 1 failure; symmetric books | 946 thousand |
| `reading_settings` | EPUB.js objects, latest settings, everything settles | 1 book, 2 sessions, 2 settings changes, 1 page turn, 1 failure | 491 thousand |

Each module has one type invariant at most; in most it is a conjunct of a property that says
more (`LedgerOK`, `HookOK`, `CacheOK`, `IndexOK`, `LocationsOK`, `LibraryOK`, `CatalogHangsTogether`).

The bounds are the smallest at which every case of the code occurs.  With day 3, gap 2 and
a clock of 4 readings an interval crosses midnight, exceeds the gap, meets a changed offset and
a clock set back, in sessions that follow each other.  (Without the bound of three observations in
all, the ledger has 982 thousand states and no error; with three beside a set-back, 487 thousand and none.)  Two mounts give an old effect and its
successor.  In the cache the soft limit holds one copy and the hard limit does not hold two
full ones, so that eviction takes place, spares a lease and refuses; a shorter second version
gives holes and leftovers when files are shared.  In the index, two full books exceed both
budgets.  `search_index` was also run with three events (5.6 million states, no error).  In the library
one work has two copies, of which one is from a provider without stamps; another work has a cover
of the hard limit's size, so that admission evicts and refuses; and a file is no EPUB.  Two series
and two tags are what unique names, moves and inheritance need; two notes and two calls are a list
and a change in either order.  Of old databases, all combinations of settings are migrated,
and those whose settings are in `Usual` are also worked with.  Three reader
sessions give A, B and A again, the case that the code's comment names; `reading_progress` was also
run with a settings change and no failure (3.1 million states, no error).

Bounds in the guards: `MaxTime`, `MaxSeq`, `MaxSetBacks`, `MaxEffects`, `MaxEvents`, `MaxErrors`,
`MaxRedeliveries`, `MaxBeats`, `MaxQueue`, `MaxVersion`, `MaxSessions`, `MaxTurns`, `MaxApplies`,
`MaxPolls`, `MaxCalls`; `MCObservations` and `Focused` are constraints of a run.
`CHECK_DEADLOCK FALSE` is used where the model really stops: when the budget of events is spent and
the last reader is gone, every search is over, or every book was deleted.

Fairness, of the runs with liveness properties: each process of the hook and of the reader store
(section 2), and the processes of `SeriesSearch` together.  Nowhere is anything asked of the user,
of failures or of restarts.

Three choices need a word.  In `source_cache` the two requests meet on the first book, whose
source reports its size, and one of them may also ask for the second, whose source reports nothing: hits beside each
other, a hit and a miss, two misses, and misses of two books that evict for each other.  Contended
books are excepted as section 2 says.  `BudgetHeld`, `BuildingIsWorkedOn`, `NothingLeftBehind` and
`CoverBudgetHeld` except what the code leaves open: an acquisition that fails after its rename leaves its file until
the next survey (in the library: until the next start), a worker that cannot record its failure leaves its row until the next start, and a
file that cannot be removed stays until then.  In `library` the locators lead to an EPUB with a cover
or to another work at first (`MCInitial`); the copy of the first without stamps and the file that is
no EPUB come with a change of a source.

### Findings

Three runs check what a document of the repository states, and TLC finds it violated.

- `hook_failed_pause`: after a pause that failed, or a blip the queue swallowed, the next
  `visible` observation confirms time in the background (at most 90 s).
- `source_torn`: of two requests for one book, a miss removes the file the other has leased and not
  opened, and both copy into one temporary file: the file of a lease is gone or partial.
- `search_cancelled`: a cancelled rebuild replaces committed documents by the prefix it read.

Met while modelling, and against no statement of the repository that could be checked:

- An evicted cover that cannot be removed is in no row and is not protected (`cover_cache_service.rs:391`):
  later admissions do not count it, and the covers exceed the hard limit by it until the next start.
- An acquisition that fails after its rename (`cache.rs:162`, `:169`, `:171`, `:172`) and the errors that
  return before the clean-up (`library_service.rs:41`, `:50`, `:76`, `:205`) leave the probe's copy until
  the next start.
- A source replaced between its fingerprint and its opening is indexed under the older fingerprint
  (`search_service.rs:384`) and shown as ready; the next request to index finds the fingerprints differ.
- A relocation candidate that cannot be parsed keeps the permission it was given
  (`library_service.rs:213`), unlike one that does not match.
- `clearBookOverride` drops a global change whose save is still pending, and a change of scope takes
  its draft from the result before the flushed save (`EpubReader.tsx:220`, `:330`).
- A list of notes that a change's answer overtook is thrown away and not asked for again
  (`readerStore.ts:697`): the reader shows what he changed, without the rest, until the book is reopened.
- The first polls of a search may end on the row of an earlier task (`seriesSearch.ts:57`).

## 4. What is proved

Every safety property that a run checks is a theorem: each invariant, each action property and
both refinements.  The theorems hold for every value of the constants that satisfies the assumptions of the modules, each of which the
code justifies:

| assumption | says |
|---|---|
| `ActivityAssumption` | a day is positive and longer than the gap (24 h and 90 s) |
| `EpochAssumption` | the day of the clock's zero is an integer |
| `CatalogAssumption`, `BooksAssumption`, `NotesAssumption`, `NoBookAssumption` | NULL, or no book, is no name, row, note or book; there are finitely many tags |
| `SessionIdAssumption` | the markers of the hook's closure are no UUIDs |
| `SearchAssumption`, `CacheAssumption` | finitely many books and actors; limits are natural numbers, the soft one at most the hard; a copy has a chunk at least |
| `SeriesSearchAssumption`, `ResourcesAssumption` | tasks are numbered from 1; limits are natural numbers, and a bound left out of a range is no number |
| `LibraryAssumption` | as these, and what the code takes for granted: equal stamps or package identifiers mean equal works |
| `MaxSeqAssumption`, `HookAssumption`, `ProgressAssumption` | the bounds are natural numbers, of any size |

| module | theorem | statement |
|---|---|---|
| `ReadingHookProofs` | `SessionsTyped`, `OneLiveSession`, `EndedForGood` | the protocol: types, at most one live session, ended is final |
| | `HandlesInStep` | a handle of the hook is in step with its row |
| | `HookImplementsSessions`, `HookHasOneLiveSession` | hook and back end implement the protocol, so that one session is live at most |
| `ReadingActivityProofs` | `LedgerCorrect` | the ledger's types and open segment |
| | `DayCorrect`, `NoBackfill` | segments stay within their local day; only gaps of at most `MaxGap` are confirmed |
| | `HistoryCorrect`, `ReadingStateCorrect` | sessions and segments hang together; the reading state covers them |
| | `CountedOnce` | no instant is counted twice |
| | `SessionsImplemented` | the ledger implements the protocol |
| | `InsightsCorrect` | day, week, month, quarter and footprint say the same of every reachable ledger |
| | `CalendarCorrect` | dates and days convert as a calendar has them, in the years 1 to 9999, and back in every year |
| | `RecommendationsCorrect` | the three recommendations from any finite library |
| `SearchIndexProofs` | `SearchIndexOK` | registry, queues and tables agree, and the index is within its budget |
| | `SearchReadsWhatIsReady` | a ready book has all chapters of one pass over the file opened for it, of no older version than its fingerprint unless that file was mixed |
| | `NothingIsLeftBuilding` | a building book has a worker |
| | `DeletedBooksStayGone` | no worker leaves rows of a book that is gone |
| | `IndexServesThePage` | these four hold, saying no more than they do, when the page makes the calls |
| | `TasksAreAttended`, `PageShowsItsSearch` | no task works on with nobody behind it; button and owned task are those of the search shown |
| | `RangesServeWhatIsAsked` | byte ranges, of entries of any length |
| `LibraryProofs` | `BooksHoldTogether`, `CommandsCleanUp` | rows and covers agree, and at rest nothing is left over but what a failed removal, a failed acquisition or an early return left since the last start |
| | `CoversFit` | the covers fit the hard limit, but for those that could not be removed |
| | `AccessIsKept`, `BooksStayTheWork` | a book keeps its permission, and stays the work it is |
| `SourceCacheProofs` | `CacheStaysWellFormed` | the cache's tables, whatever requests overlap |
| | `LeasesAreSound`, `FingerprintsAreTrue`, `HardLimitHolds` | leases are whole copies, fingerprints true and the budget held, for every book but those that are contended, whatever requests run side by side |
| `UserDataProofs` | `RelationsHold`, `TransactionsWhole`, `QueriesAgree` | the catalog's relations, transactions and queries |
| | `NotesShown` | a reader at rest shows notes that are stored as shown |
| | `SettingsAreSettled` | once the queue of writes is empty, rows and panel are what was asked for last |
| | `UpgradesKeepChoices` | every start ends in version 5 with every choice kept, or stops |
| `ReadingProgressProofs` | `LastLocationSaved`, `ResumesFromLastLocation`, `StartIsForNewBooks` | the last location is saved, an opening resumes from it, the start is displayed for new books only |
| | `PlacesImplemented`, `PlacesAreSettled` | the reader store implements `ReadingPlaces`; once nothing waits or is on its way, the row has the last place |
| | `NothingLeaks`, `LastSettingsWin` | EPUB.js objects are retired with their session; the last settings are shown |

None of these invariants is inductive as it stands.  What each proof adds is the reason why the
code is right:

- **Ledger** (`Ledger`).  `observe` measures the gap from `last_observed_at` but extends the
  segment from `confirmed_until_at`, so that without knowing the two equal nothing follows about
  what it adds.  The invariant says that the open segment is unique, belongs to a visible session and
  is confirmed up to its last observation, and that each segment lies between the start and the
  last observation of an existing session.  `OnTheirDays`, `NoEmptySession`, the covering of the reading
  state, the order of segments and the blankness of unused rows are invariants relative to it.
  `CountedOnce` needs that all segments of older sessions end before the clock while it was never
  set back, hence its condition.
- **Statistics.**  The segments are finitely many, and a sum over them is the number of its units, so that
  two answers agree when the sets of units do.  A segment lies on one local day (`SegmentWithinItsDay`),
  so each of its ticks falls in one hour, one day and one month, and a bucket's total is the
  sum of its parts'.  Months are intervals between their first days (`MonthStart`), years of
  March to February make the two conversions inverse.
- **Hook** (`HookInv`: `Shape`, `Handles`).  A handle agrees with its row, or the row is one ahead:
  because the command in flight was served, or because it was delivered again (`InStep`).  Effects
  stand for disjoint sets of sessions, so that no effect moves another's row.
- **Search index** (`IndexInv`).  `ReadyIsTrue` speaks of books in a series; a book taken out of one and
  put back must still be whole, so that `ReadyIsWhole` is about every book.  A worker about to store
  has all chapters unless it was cut short (`CarriesAll`), and every building book has a worker at
  one of five steps (`BuildingHasWorker`).
- **Search client** (`ClientInv`).  A search's number is that of its task, which is not registered before its
  `ensure` was executed nor has an answer before it asked (`Asks`); the page owns the task of its
  current search or none.  So when a search is retired its task is cancelled, or its own continuation
  finds it out of date and cancels it.  The index keeps its invariant, as the page only
  chooses which commands it gets.
- **Library** (`LibraryInv`).  `Current` says that what a command has read of rows, permissions
  and sources is still so when it uses it, `Covered` and `Copied` that every file no row refers to
  is one the command under way is about to store or remove (`Spare`, `SpareCopies`) or is among `orphans`
  or `strays`, `Budgeted` that the covers without these fit, and without the candidate until it is admitted.  The rest follows when a command ends
  or a restart surveys the disk.
- **Source cache** (`ShapeInv`, `HistoryInv`, `CopyInv`, `Budgeted`).  `Relies` lists what an acquisition may rely
  on at each step while its book is not contended: after the old file is cleared there is none and no
  fingerprint, what it has copied is of the version it began with, the file it renamed is still there.
  This is what a second request that misses breaks.  `HistoryInv` says that it cannot do so unseen: of two
  requests for one book of which one misses, the book is contended (`Overlap`), so that a request that
  misses an uncontended book is alone on it (`MissIsAlone`) and its steps leave what others rely on.  The steps
  of requests for contended books touch nothing of any other book (`ContendedKeepsCopies`).  The theorems
  have no hypothesis on the requests.
  For the budget, files another
  request has just copied may be missing from a survey; `Budgeted` says that for any set of evicting
  requests the files only they can be counting fit the limit, or one of them is still counting them
  down.
- **Catalog** (`Catalogued`, `OnItsWay`).  Beside the relations as they are it speaks of those a
  rollback would restore and of the statements still to come, all of which must name only what
  exists; as no other command runs within a transaction, none of that goes away meanwhile.  The
  relations as they are, with the statements still to come, are what the transaction was asked for.
- **Notes** (`NotesInv`).  For a note no two changes raced for, the only change under way is one, its
  answer has the note as it is, and what a list on its way or the reader shows of it is so unless
  that answer is still to come (`UpToDate`).
- **Settings and migrations** (`ServingInv`).  While the program starts, the tables are what the
  scripts so far make of those it found, and the disk has one version's (`Upgrading`); once it serves,
  the last queued operation that writes a row has what is wanted there (`Settles`), and the panel
  has what was read or is about to be (`Loading`, `Loaded`).
- **Reader store** (`Inv`).  The last write of a book's chain is the last location reported, unless the
  timer has that (`Chained`); while a book is opened nothing is written for it that was not on its
  way before (`Resuming`), as its own session has no location yet; settings changes of a session run
  one after the other (`Settled`).
- **Places.**  By `Chained` only the head of a chain is with the back end, so that what is executed is
  the oldest place on its way, and what a flush appends is the last place reached, since the timer
  has it.  An answer removes a head that no longer counts and starts the next one, which changes none of
  the places.  `Inv` is what makes these steps map.

Sums are counted units, so that facts about them follow from `FiniteSetTheorems`: `TotalsProofs` has what
a changed member does to a total, that parts total less, and that evictions by age end within the limit.

Only model-checked:

- Liveness (`OrphansEnd`, `BackgroundPauses`, `ForegroundCounts`, `SearchesEnd`, `EverythingSettles`): it
  rests on fairness, which is out of the prover's reach.  The safety half of `SearchesEnd` is
  `TasksAreAttended`.
- `PathsHold` and `ExtractionHolds` of `EpubResources`: they are about what folds compute over paths and
  spines of any length, which takes induction over data.

## 5. Not modelled

- Library and insights stores: each shows the answer of its latest request, told by a counter; the
  mechanism is modelled in `Notes`, where changes race with it.
- Navigation, pagination, reflow and highlights: geometry, DOM measurement and EPUB.js' own queue.
- The user interface beyond the components that decide what is sent; fullscreen; search within a book.
- XML, HTML and metadata parsing, percent decoding, MIME types, CORS headers, SQLite's full-text
  queries and ranking: data and formats without a state that other parts rely on.
- Desktop: a locator is a path there, an acquisition opens the user's file, and neither permissions nor
  private copies exist, so that most of `Library` and all of `SourceCache` has nothing to do; `SearchIndex` is the same there (`Open`).
- The pickers, and errors of reading rows or directories that end in a log entry.

## 6. What could follow

1. `SourceCache` and `Library` composed: an invalidation by import or relocation while the protocol
   reads; today the invalidation in `SourceCache` is that of a deletion.
2. For `SeriesSearch`, that the rows a search is answered with are of documents its own task saw
   ready; the code does not promise it (see the findings), so it needs a statement of what it does.
3. Search within a book, and the queue of turns of the navigation engine.
