--------------------------- MODULE ReadingSettings ---------------------------
(***************************************************************************)
(* Reading settings: services/settings_service.rs on the tables that       *)
(* Migrations leaves, and its callers: the settings panel of the reader    *)
(* (EpubReader.tsx), the shelf's (BookShelf.tsx) and the queue both write  *)
(* through (settingsPersistence.ts).  A change is saved after a pause, a   *)
(* failed save is tried once more, and the reader may be closed and opened *)
(* again, with this book or another, while saves are queued.               *)
(***************************************************************************)
EXTENDS Migrations, Sequences, FiniteSets

CONSTANTS Draft,       \* settings the user may choose
          MaxQueue     \* bound: operations in the queue

VARIABLES panel,       \* the reader's panel, or that of the shelf while no book is open
          queue,       \* queueSettingsWrite: the operations under way, in order
          wanted       \* the rows as the operations queued so far ask for

settingsVars == <<panel, queue, wanted>>

\* result: settingsResult, the rows last read; pending: the debounced save; told: an
\* error is shown.
NoPanel == [book |-> None, result |-> None, draft |-> None, scope |-> "global",
            pending |-> None, told |-> FALSE]

\* live: of the mounted reader (readerEpoch); newest: no later save or clear was queued
\* by it (saveGeneration).
Operation(op, book, scope, draft) ==
    [op |-> op, book |-> book, scope |-> scope, draft |-> draft, stage |-> "write",
     tried |-> FALSE, live |-> TRUE, newest |-> TRUE]

Rows(d) == [global |-> d.global, override |-> d.override]

\* resolve_settings: what a book says, and what all do where it says nothing.
Resolve(global, override) ==
    IF override = None THEN global
    ELSE [size |-> IF override.size = None THEN global.size ELSE override.size,
          margin |-> IF override.margin = None THEN global.margin ELSE override.margin]

\* get_reading_settings
ReadSettings(b) == [global |-> db.global, override |-> db.override[b]]
EffectiveOf(result) == Resolve(result.global, result.override)

Older(q) == [i \in DOMAIN q |-> [q[i] EXCEPT !.newest = FALSE]]
Retired(q) == [i \in DOMAIN q |-> [q[i] EXCEPT !.live = FALSE, !.newest = FALSE]]

\* The rows after an operation of this scope for this book.
Put(rows, scope, book, draft) ==
    IF scope = "global" THEN [rows EXCEPT !.global = draft]
    ELSE [rows EXCEPT !.override[book] = draft]

Queues(q, o) ==
    /\ Len(q) < MaxQueue
    /\ queue' = Append(q, o)

Unserved == UNCHANGED migrationVars

-----------------------------------------------------------------------------
(* The panels. *)

MountReader(b) ==
    /\ Serving /\ panel.book = None /\ b \in books
    /\ panel' = [NoPanel EXCEPT !.book = b]
    /\ Queues(queue, Operation("load", b, "none", None))
    /\ UNCHANGED wanted /\ Unserved

\* previewSettings and scheduleSettingsSave.
ChangeDraft(d) ==
    /\ panel.book # None /\ panel.draft \notin {None, d}
    /\ panel' = [panel EXCEPT !.draft = d,
                              !.pending = [draft |-> d, scope |-> panel.scope]]
    /\ UNCHANGED <<queue, wanted>> /\ Unserved

\* persistSettings, as the pending save runs it.
Flushed(q) ==
    IF panel.pending = None THEN queue' = q /\ UNCHANGED wanted
    ELSE /\ Queues(q, Operation("save", panel.book, panel.pending.scope, panel.pending.draft))
         /\ wanted' = Put(wanted, panel.pending.scope, panel.book, panel.pending.draft)

SaveTimer ==
    /\ panel.pending # None
    /\ Flushed(Older(queue))
    /\ panel' = [panel EXCEPT !.pending = None, !.told = FALSE]
    /\ Unserved

\* changeSettingsScope saves what is pending for the scope that is left.
ChangeScope(scope) ==
    /\ panel.book # None /\ panel.scope # scope
    /\ Flushed(IF panel.pending = None THEN queue ELSE Older(queue))
    /\ panel' = [panel EXCEPT
          !.pending = None, !.scope = scope,
          !.told = @ /\ panel.pending = None,
          !.draft = IF panel.result = None THEN @
                    ELSE IF scope = "global" THEN panel.result.global
                    ELSE EffectiveOf(panel.result)]
    /\ Unserved

Saving == \E i \in DOMAIN queue : queue[i].op \in {"save", "clear"} /\ queue[i].newest

\* clearBookOverride gives up what is pending.
ClearOverride ==
    /\ panel.book # None /\ panel.result # None /\ panel.result.override # None
    /\ ~Saving
    /\ Queues(Older(queue), Operation("clear", panel.book, "book", None))
    /\ wanted' = Put(wanted, "book", panel.book, None)
    /\ panel' = [panel EXCEPT !.pending = None, !.told = FALSE]
    /\ Unserved

\* The effects' cleanups: the reader is no longer the current one when its pending save
\* is queued.
UnmountReader ==
    LET save == Operation("save", panel.book, panel.pending.scope, panel.pending.draft)
    IN  /\ panel.book # None
        /\ IF panel.pending = None
           THEN queue' = Retired(queue) /\ UNCHANGED wanted
           ELSE /\ Len(queue) < MaxQueue
                /\ queue' = Retired(Append(queue, save))
                /\ wanted' = Put(wanted, save.scope, save.book, save.draft)
        /\ panel' = NoPanel
        /\ Unserved

\* BookShelf saves the whole global row, and does not try again.
ShelfSave(d) ==
    /\ Serving /\ panel.book = None
    /\ Queues(queue, [Operation("shelf", None, "global", d) EXCEPT !.live = FALSE])
    /\ wanted' = Put(wanted, "global", None, d)
    /\ UNCHANGED panel /\ Unserved

-----------------------------------------------------------------------------
(* The operation at the head of the queue. *)

Current(o) == o.live /\ o.newest

\* save_global_reading_settings, save_book_reading_settings (an upsert) and
\* clear_book_reading_settings.
WriteSettings ==
    LET o == Head(queue)
        rows == Put(Rows(db), o.scope, o.book, o.draft)
    IN  /\ queue # <<>> /\ o.op # "load" /\ o.stage = "write"
        /\ o.scope = "book" => o.book \in books
        /\ db' = [db EXCEPT !.global = rows.global, !.override = rows.override,
                            !.updated = IF o.scope = "global" THEN 1 ELSE @]
        /\ queue' = IF o.op = "shelf" THEN Tail(queue)
                    ELSE [queue EXCEPT ![1].stage = "read"]
        /\ UNCHANGED <<disk, startup, was, panel, wanted>>

\* The authoritative rows, read in the same operation, are shown unless the panel has
\* moved on.
ReadBack ==
    LET o == Head(queue)
        result == ReadSettings(o.book)
    IN  /\ queue # <<>> /\ (o.op = "load" \/ o.stage = "read")
        /\ o.book \in books
        /\ queue' = Tail(queue)
        /\ panel' = CASE o.op = "load" /\ o.live ->
                           [panel EXCEPT !.result = result, !.draft = EffectiveOf(result),
                                         !.scope = IF result.override = None
                                                   THEN "global" ELSE "book"]
                      [] o.op = "save" /\ Current(o) -> [panel EXCEPT !.result = result]
                      [] o.op = "clear" /\ Current(o) ->
                           [panel EXCEPT !.result = result, !.draft = EffectiveOf(result),
                                         !.scope = "global"]
                      [] OTHER -> panel
        /\ UNCHANGED wanted /\ Unserved

\* Mutant: a save that failed is queued again, behind whatever was queued meanwhile.
TryAgainLater ==
    LET o == Head(queue)
    IN  /\ queue # <<>> /\ o.op = "save" /\ ~o.tried
        /\ queue' = Append(Tail(queue), [o EXCEPT !.tried = TRUE, !.stage = "write"])
        /\ UNCHANGED <<panel, wanted>> /\ Unserved

\* A save that fails is tried once more, before anything else of the queue runs.
TryAgain ==
    LET o == Head(queue)
    IN  /\ queue # <<>> /\ o.op = "save" /\ ~o.tried
        /\ queue' = <<[o EXCEPT !.tried = TRUE, !.stage = "write"]>> \o Tail(queue)
        /\ UNCHANGED <<panel, wanted>> /\ Unserved

\* Any other failure (values out of range, a book that is gone, the database) is told, and
\* the queue goes on.  What the rows then are is what they are, unless a later operation
\* writes them.
GiveUp ==
    LET o == Head(queue)
        later == \E i \in 2..Len(queue) : /\ queue[i].scope = o.scope
                                          /\ o.scope = "book" => queue[i].book = o.book
        rows == Rows(db)
    IN  /\ queue # <<>> /\ (o.op = "save" => o.tried)
        /\ queue' = Tail(queue)
        /\ wanted' = IF later \/ o.op = "load" THEN wanted
                     ELSE Put(wanted, o.scope, o.book,
                              IF o.scope = "global" THEN rows.global ELSE rows.override[o.book])
        /\ panel' = CASE o.op = "load" /\ o.live -> [panel EXCEPT !.told = TRUE]
                      [] o.op \in {"save", "clear"} /\ Current(o) ->
                           [panel EXCEPT !.told = TRUE]
                      [] OTHER -> panel
        /\ Unserved

-----------------------------------------------------------------------------

\* Settings and progress go with their book.
SettingsForget(b) ==
    /\ Serving /\ panel.book # b
    /\ db' = [db EXCEPT !.override[b] = None, !.legacyOverride[b] = None,
                        !.progress[b] = None, !.reading[b] = None]
    /\ wanted' = [wanted EXCEPT !.override[b] = None]
    /\ UNCHANGED <<disk, startup, was, panel, queue>>

\* What was queued or pending is lost with the process.
SettingsRestart ==
    /\ MigrationsRestart
    /\ panel' = NoPanel /\ queue' = <<>>
    /\ wanted' = Rows(db')

SettingsInit ==
    /\ MigrationsInit
    /\ panel = NoPanel /\ queue = <<>>
    /\ wanted = Rows(db)

SettingsCommand ==
    \/ \E b \in Book : MountReader(b)
    \/ \E d \in Draft : ChangeDraft(d) \/ ShelfSave(d)
    \/ SaveTimer \/ ClearOverride \/ UnmountReader
    \/ \E scope \in {"global", "book"} : ChangeScope(scope)
    \/ WriteSettings \/ ReadBack \/ TryAgain \/ GiveUp

-----------------------------------------------------------------------------

\* When the queue is empty, the rows are what the last operation queued for each of them
\* asked for: no retry overwrote a newer save or brought back an override that was
\* cleared or whose book is gone.  And what an open panel has read is what they are.
SettingsSettle ==
    Serving /\ queue = <<>> =>
        /\ Rows(db) = wanted
        /\ panel.book # None /\ panel.result # None /\ ~panel.told =>
              panel.result = ReadSettings(panel.book)
=============================================================================
