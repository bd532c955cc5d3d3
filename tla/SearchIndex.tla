----------------------------- MODULE SearchIndex -----------------------------
(***************************************************************************)
(* services/search_service.rs: a registry of index tasks, one worker       *)
(* thread for each, and the search tables they share through the database  *)
(* mutex.  A worker takes and releases the mutex many times for one book;  *)
(* between two of its steps other workers write, the user cancels, moves   *)
(* or deletes books, and the process may die.                              *)
(*                                                                         *)
(* A chapter counts as treated whether it yields a document, is empty or   *)
(* is passed over with an error; its text is one unit long.                *)
(***************************************************************************)
EXTENDS Naturals, Sequences, FiniteSets, SequencesExt, Totals

CONSTANTS Book, Series, Task,
          Chapters,      \* Chapters[v]: spine items of a source at version v, or Mixed
          TaskLimit,     \* MAX_SEARCH_TASK_BYTES
          IndexLimit,    \* MAX_SEARCH_INDEX_BYTES
          MaxVersion,    \* bound: versions of a source
          MaxEvents      \* bound: user events, failures and crashes together

ASSUME SearchAssumption ==
    /\ IsFiniteSet(Book) /\ IsFiniteSet(Task)
    /\ {TaskLimit, IndexLimit, MaxVersion, MaxEvents} \subseteq Nat
    /\ MaxVersion > 0
    /\ Chapters \in [1..(MaxVersion + 1) -> Nat]

VARIABLES books,     \* rows of books
          series,    \* book_series: the series of each book, or NoSeries
          source,    \* version of each book's source
          index,     \* search_index_state: status and fingerprint of each book
          docs,      \* search_documents: version and number of treated chapters
          task,      \* the registry, and where the worker of each task is
          events,    \* user events, failed operations and crashes so far
          refusals     \* failed operations so far

library == <<books, series, source>>
tables == <<index, docs>>
happened == <<events, refusals>>
vars == <<library, tables, task, happened>>

NoSeries == "none"
NoFingerprint == 0
Version == 1..MaxVersion
Fingerprint == Version \cup {NoFingerprint}

\* What a worker can read that is not the text of a version from its fingerprint's on: a
\* file rewritten in place while it is read, or on Android a copy that another request
\* for the same book put in the place of the leased one (see SourceCache).
Mixed == MaxVersion + 1
Text == Version \cup {Mixed, NoFingerprint}

Status == {"none", "pending", "building", "ready", "error"}
NoRow == [status |-> "none", print |-> NoFingerprint]
NoDocs == [version |-> NoFingerprint, count |-> 0]

\* "spoiled" and "overrun" are about to record an error; final says that the task ends
\* once it is recorded.
PC == {"idle", "next", "lookup", "acquire", "check", "mark", "open", "extract",
       "budget", "persist", "spoiled", "overrun", "end"}

Worker ==
    [pc: PC, series: Series \cup {NoSeries}, todo: Seq(Book), rebuild: BOOLEAN,
     cancelled: BOOLEAN, print: Fingerprint, version: Text, count: Nat, cut: BOOLEAN,
     bytes: Nat, final: BOOLEAN]

Idle ==
    [pc |-> "idle", series |-> NoSeries, todo |-> <<>>, rebuild |-> FALSE,
     cancelled |-> FALSE, print |-> NoFingerprint, version |-> NoFingerprint, count |-> 0,
     cut |-> FALSE, bytes |-> 0, final |-> FALSE]

Registered(t) == task[t].pc # "idle"
At(t, step) == task[t].pc = step
BookOf(t) == Head(task[t].todo)
Members(s) == {b \in books : series[b] = s}

\* ON DELETE CASCADE and foreign_keys = ON: rows are inserted for known books only.
Orphanable(b) == TRUE
Known(b) == b \in books

\* The worker goes on to another step, or to the next book.
Goes(t, step) == task' = [task EXCEPT ![t].pc = step]
GoesOn(t) ==
    task' = [task EXCEPT ![t].pc = "next", ![t].todo = Tail(@), ![t].print = NoFingerprint,
                         ![t].version = NoFingerprint, ![t].count = 0, ![t].cut = FALSE,
                         ![t].final = FALSE]

Happens == events + refusals < MaxEvents /\ events' = events + 1 /\ UNCHANGED refusals

-----------------------------------------------------------------------------
(* The registry. *)

\* ensure_series_search_index and rebuild_search_index
Ensure(t, s, rebuild) ==
    /\ ~Registered(t)
    /\ \A u \in Task : Registered(u) => task[u].series # s
    /\ \E todo \in SetToSeqs(Members(s)) :
          task' = [task EXCEPT ![t] = [Idle EXCEPT !.pc = "next", !.series = s,
                                                   !.todo = todo, !.rebuild = rebuild]]
    /\ UNCHANGED <<library, tables, happened>>

\* cancel_search_index sets a flag of a registered task.
Cancel(t) ==
    /\ Registered(t) /\ ~task[t].cancelled
    /\ task' = [task EXCEPT ![t].cancelled = TRUE]
    /\ Happens
    /\ UNCHANGED <<library, tables>>

\* The worker returns and its entry is removed.
End(t) ==
    /\ At(t, "end")
    /\ task' = [task EXCEPT ![t] = Idle]
    /\ UNCHANGED <<library, tables, happened>>

-----------------------------------------------------------------------------
(* build_series_index, for one book. *)

NextBook(t) ==
    /\ At(t, "next")
    /\ Goes(t, IF task[t].cancelled \/ task[t].todo = <<>> THEN "end" ELSE "lookup")
    /\ UNCHANGED <<library, tables, happened>>

\* A book deleted since the list was read ends the task.
Lookup(t) ==
    /\ At(t, "lookup")
    /\ Goes(t, IF Known(BookOf(t)) THEN "acquire" ELSE "end")
    /\ UNCHANGED <<library, tables, happened>>

\* The lease, and the fingerprint of the source at this moment.  The lease is a path: on a
\* desktop that of the user's own file, on Android that of a copy (see SourceCache).
Acquire(t) ==
    /\ At(t, "acquire")
    /\ task' = [task EXCEPT ![t].pc = "check", ![t].print = source[BookOf(t)]]
    /\ UNCHANGED <<library, tables, happened>>

\* is_ready_with_fingerprint
UpToDate(b, print) == index[b] = [status |-> "ready", print |-> print]

Check(t) ==
    /\ At(t, "check")
    /\ IF ~task[t].rebuild /\ UpToDate(BookOf(t), task[t].print)
       THEN GoesOn(t)
       ELSE Goes(t, "mark")
    /\ UNCHANGED <<library, tables, happened>>

\* mark_building: documents and fingerprint stay.
Mark(t) ==
    /\ At(t, "mark")
    /\ IF Known(BookOf(t))
       THEN /\ index' = [index EXCEPT ![BookOf(t)].status = "building"]
            /\ Goes(t, "open")
       ELSE Goes(t, "end") /\ UNCHANGED index
    /\ UNCHANGED <<library, docs, happened>>

Opens(t, v) ==
    /\ task' = [task EXCEPT ![t].pc = "extract", ![t].version = v]
    /\ UNCHANGED <<library, tables>>

\* open_reader: the text is that of the file now at the leased path, which may have
\* changed since the fingerprint was taken.
Open(t) ==
    /\ At(t, "open")
    /\ \E v \in task[t].print..source[BookOf(t)] : Opens(t, v)
    /\ UNCHANGED happened

\* The file at the leased path is no whole copy of such a version.
OpenMixed(t) ==
    /\ At(t, "open")
    /\ Opens(t, Mixed)
    /\ Happens

\* extract_search_documents, a chapter at a time; the flag is read before each.
Extract(t) ==
    LET w == task[t]
    IN  /\ At(t, "extract")
        /\ \/ /\ w.count < Chapters[w.version] /\ ~w.cancelled
              /\ task' = [task EXCEPT ![t].count = @ + 1]
           \/ /\ w.count < Chapters[w.version] /\ w.cancelled
              /\ task' = [task EXCEPT ![t].pc = "budget", ![t].cut = TRUE]
           \/ /\ w.count = Chapters[w.version]
              /\ Goes(t, "budget")
        /\ UNCHANGED <<library, tables, happened>>

\* checked_search_task_total and enforce_search_task_budget
Budget(t) ==
    LET total == task[t].bytes + task[t].count
    IN  /\ At(t, "budget")
        /\ task' = [task EXCEPT ![t].bytes = total,
                                ![t].pc = IF total > TaskLimit THEN "overrun" ELSE "persist",
                                ![t].final = total > TaskLimit]
        /\ UNCHANGED <<library, tables, happened>>

\* Mutant: the other books' documents are not counted.
FitsAlone(b, count) == count <= IndexLimit

\* enforce_index_budget_with_limit, in the transaction that inserts.
Fits(b, count) ==
    Total([c \in Book \ {b} |-> docs[c].count]) + count <= IndexLimit

\* Mutant: a cancelled extraction counts as ready.
OutcomeReady(cut) == "ready"
Outcome(cut) == IF cut THEN "error" ELSE "ready"

\* persist_documents: one transaction replaces the documents and the state.
Persist(t) ==
    LET b == BookOf(t)
        w == task[t]
    IN  /\ At(t, "persist")
        /\ CASE ~Fits(b, w.count) ->
                  /\ task' = [task EXCEPT ![t].pc = "overrun", ![t].final = TRUE]
                  /\ UNCHANGED tables
             [] Fits(b, w.count) /\ ~Known(b) ->
                  /\ task' = [task EXCEPT ![t].pc = "spoiled", ![t].final = TRUE]
                  /\ UNCHANGED tables
             [] OTHER ->
                  /\ docs' = [docs EXCEPT ![b] = [version |-> w.version,
                                                  count |-> w.count]]
                  /\ index' = [index EXCEPT ![b] = [status |-> Outcome(w.cut),
                                                    print |-> w.print]]
                  /\ GoesOn(t)
        /\ UNCHANGED <<library, happened>>

\* persist_error: the documents go with the fingerprint, in one transaction.
Spoil(t) ==
    LET b == BookOf(t)
    IN  /\ At(t, "spoiled")
        /\ IF Known(b)
           THEN /\ docs' = [docs EXCEPT ![b] = NoDocs]
                /\ index' = [index EXCEPT ![b] = [status |-> "error", print |-> NoFingerprint]]
                /\ IF task[t].final THEN Goes(t, "end") ELSE GoesOn(t)
           ELSE Goes(t, "end") /\ UNCHANGED tables
        /\ UNCHANGED <<library, happened>>

\* mark_budget_error_preserving_documents
Overrun(t) ==
    LET b == BookOf(t)
    IN  /\ At(t, "overrun")
        /\ IF Known(b)
           THEN /\ index' = [index EXCEPT ![b].status = "error"]
                /\ IF task[t].final THEN Goes(t, "end") ELSE GoesOn(t)
           ELSE Goes(t, "end") /\ UNCHANGED index
        /\ UNCHANGED <<library, docs, happened>>

\* An operation fails: the source is unavailable, unreadable or over a limit, or the
\* documents cannot be stored; what happened is recorded next.
Fail(t) ==
    /\ \/ /\ task[t].pc \in {"acquire", "extract"}
          /\ \E step \in {"spoiled", "overrun"} : Goes(t, step)
       \/ At(t, "open") /\ Goes(t, "spoiled")
       \/ /\ At(t, "persist")
          /\ \E step \in {"spoiled", "overrun"} :
                task' = [task EXCEPT ![t].pc = step, ![t].final = TRUE]
    /\ Happens
    /\ UNCHANGED <<library, tables>>

\* The database refuses a query or the record of a failure: the task ends where it is.
Refuse(t) ==
    /\ task[t].pc \in {"lookup", "check", "mark", "spoiled", "overrun"}
    /\ Goes(t, "end")
    /\ events + refusals < MaxEvents /\ refusals' = refusals + 1
    /\ UNCHANGED <<library, tables, events>>

-----------------------------------------------------------------------------
(* The library around, and the process. *)

SourceChanges(b) ==
    /\ source[b] < MaxVersion
    /\ source' = [source EXCEPT ![b] = @ + 1]
    /\ Happens
    /\ UNCHANGED <<books, series, tables, task>>

\* set_book_series and clear_book_series
Move(b, s) ==
    /\ b \in books /\ series[b] # s
    /\ series' = [series EXCEPT ![b] = s]
    /\ Happens
    /\ UNCHANGED <<books, source, tables, task>>

\* delete_book: everything the search tables have of it goes with it.
Delete(b) ==
    /\ b \in books
    /\ books' = books \ {b}
    /\ series' = [series EXCEPT ![b] = NoSeries]
    /\ index' = [index EXCEPT ![b] = NoRow]
    /\ docs' = [docs EXCEPT ![b] = NoDocs]
    /\ Happens
    /\ UNCHANGED <<source, task>>

\* Mutant: the rows a dead worker left are not reset.
RecoveredNot == index

\* recover_interrupted_search_tasks
Recovered ==
    [b \in Book |-> IF index[b].status = "building"
                    THEN [index[b] EXCEPT !.status = "pending"]
                    ELSE index[b]]

\* The process dies, its workers with it, and starts again.
Restart ==
    /\ task' = [t \in Task |-> Idle]
    /\ index' = Recovered
    /\ Happens
    /\ UNCHANGED <<library, docs>>

-----------------------------------------------------------------------------
Init ==
    /\ books = Book
    /\ series \in [Book -> Series]
    /\ source = [b \in Book |-> 1]
    /\ index = [b \in Book |-> NoRow]
    /\ docs = [b \in Book |-> NoDocs]
    /\ task = [t \in Task |-> Idle]
    /\ events = 0 /\ refusals = 0

Work(t) ==
    \/ NextBook(t) \/ Lookup(t) \/ Acquire(t) \/ Check(t) \/ Mark(t) \/ Open(t)
    \/ Extract(t) \/ Budget(t) \/ Persist(t) \/ Spoil(t) \/ Overrun(t) \/ End(t)

Environment ==
    \/ \E t \in Task, s \in Series, rebuild \in BOOLEAN : Ensure(t, s, rebuild)
    \/ \E t \in Task : Cancel(t) \/ OpenMixed(t) \/ Fail(t) \/ Refuse(t)
    \/ \E b \in Book : SourceChanges(b) \/ Delete(b)
    \/ \E b \in Book, s \in Series \cup {NoSeries} : Move(b, s)
    \/ Restart

Next == Environment \/ \E t \in Task : Work(t)

\* A worker thread runs on until it returns.
Spec == Init /\ [][Next]_vars /\ \A t \in Task : WF_vars(Work(t))

-----------------------------------------------------------------------------
\* get_search_index_status: the worst state of the series' books.
SeriesStatus(s) ==
    LET states == {IF index[b].status = "none" THEN "pending" ELSE index[b].status :
                      b \in Members(s)}
    IN  CASE "building" \in states -> "building"
          [] "building" \notin states /\ "pending" \in states -> "pending"
          [] "building" \notin states /\ "pending" \notin states /\ "error" \in states
               -> "error"
          [] states = {} -> "pending"
          [] OTHER -> "ready"

\* search_series: the books whose documents a search of the series reads.
Searched(s) == {b \in Members(s) : index[b].status = "ready"}

TypeOK ==
    /\ books \subseteq Book
    /\ series \in [Book -> Series \cup {NoSeries}]
    /\ source \in [Book -> Version]
    /\ index \in [Book -> [status: Status, print: Fingerprint]]
    /\ docs \in [Book -> [version: Text, count: Nat]]
    /\ task \in [Task -> Worker]
    /\ \A t \in Task : task[t].pc \notin {"idle", "next", "end"} => task[t].todo # <<>>
    /\ events \in Nat /\ refusals \in Nat /\ events + refusals <= MaxEvents

\* What a search reads is whole, and what a series reports is what a search reads: a
\* book is ready with every chapter of the file that was opened for it, whichever workers
\* wrote the documents and the state, were cancelled or died in between.  The fingerprint
\* may be older than the text, but never newer, unless the text is Mixed: a book that is
\* passed over as up to date, since its fingerprint is the source's, has the source's text.
ReadyIsTrue ==
    \A s \in Series :
        /\ \A b \in Searched(s) :
              /\ docs[b].count = Chapters[docs[b].version]
              /\ docs[b].version # Mixed =>
                    index[b].print <= docs[b].version /\ docs[b].version <= source[b]
        /\ SeriesStatus(s) = "ready" => Searched(s) = Members(s)

\* The documents of all books together stay within the budget, though two workers
\* extract at the same time and each replaces what it counted.
IndexWithinBudget ==
    Total([b \in Book |-> docs[b].count]) <= IndexLimit

\* The state is well formed, and the budget is kept.
IndexOK == TypeOK /\ IndexWithinBudget

\* A book shown as building is being built: after a cancellation, a deletion, a move to
\* a series with a worker of its own, or a crash, no row is left behind in that state.
\* (A worker that cannot record its own failure leaves it until the next start.)
BuildingIsWorkedOn ==
    \A b \in Book : index[b].status = "building" /\ refusals = 0 =>
        \E t \in Task :
            /\ task[t].pc \in {"open", "extract", "budget", "persist", "spoiled", "overrun"}
            /\ BookOf(t) = b

\* A worker that outlives its book leaves nothing of it in the search tables.
DeletedStaysGone ==
    \A b \in Book \ books : index[b] = NoRow /\ docs[b] = NoDocs

\* What IPC.md says of cancel_search_index: what was committed is kept.
CancelKeepsCommitted ==
    [][\A t \in Task :
          At(t, "persist") /\ task[t].cancelled /\ task'[t].pc = "next" =>
              docs'[BookOf(t)].count >= docs[BookOf(t)].count]_vars
=============================================================================
