--------------------------- MODULE ReadingActivity ---------------------------
(***************************************************************************)
(* The reading-time ledger kept by services/reading_activity_service.rs    *)
(* and db/reading_activity_repository.rs: sessions, the presence segments  *)
(* they accumulate, and the per-book continue-reading state, all in one    *)
(* SQLite database behind one mutex.  Every command is one transaction, so *)
(* every action below is one atomic step; a failed transaction rolls back  *)
(* and is a stuttering step, as is a refused or duplicate observation.     *)
(*                                                                         *)
(* Time is counted in ticks: a tick stands for any duration that divides   *)
(* the confirmation gap (90 s) and the day (24 h) alike.                   *)
(***************************************************************************)
EXTENDS Integers

CONSTANTS SessionId,      \* session UUIDs
          Book,           \* the books of the library
          Offset,         \* the UTC offsets a device may report, in ticks
          DayLen,         \* MILLIS_PER_DAY, in ticks
          MaxGap,         \* MAX_CONFIRMATION_GAP_MS, in ticks
          MaxTime,        \* bound: the largest clock reading
          MaxSeq,         \* bound: observations accepted per session
          MaxSetBacks     \* bound: how often the wall clock is set back

ASSUME ActivityAssumption ==
    /\ DayLen \in Nat \ {0}
    /\ MaxGap \in Nat
    /\ MaxGap < DayLen
    /\ Offset \subseteq Int
    /\ MaxTime \in Nat
    /\ MaxSeq \in Nat
    /\ MaxSetBacks \in Nat
    /\ Book # {}

VARIABLES now,        \* super::now_ms()
          setBacks,   \* how often the wall clock has been set back
          books,      \* rows of books
          readAt,     \* book_reading_state.last_read_at, or NoRow
          sessions,   \* rows of reading_activity_sessions
          segments    \* rows of reading_presence_segments

vars == <<now, setBacks, books, readAt, sessions, segments>>

LiveState == {"visible", "paused"}
ActivityState == LiveState \cup {"ended"}
RowState == ActivityState \cup {"unused", "deleted"}

NoRow == -1
Time == 0..MaxTime

\* book is recorded_book_id; linked says that book_id is not NULL.  ended_at is
\* left out: both places that end a session set it to last_observed_at.
SessionRow ==
    [state: RowState, book: Book, linked: BOOLEAN, started: Time, last: Time,
     seq: 0..MaxSeq]

\* until is confirmed_until_at; open says that closed_at is NULL (a closed row has
\* closed_at = confirmed_until_at, a CHECK of the table).
Segment ==
    [session: SessionId, date: Int, offset: Offset, start: Time, until: Time,
     open: BOOLEAN]

Exists(s) == sessions[s].state \in ActivityState
Live(s) == sessions[s].state \in LiveState
SegmentsOf(s) == {g \in segments : g.session = s}
OpenSegments(s) == {g \in SegmentsOf(s) : g.open}

\* local_date_from_timestamp: the number of the local day holding instant t.
LocalDate(t, off) == (t + off) \div DayLen

NextMidnight(t, off) == ((t + off) \div DayLen + 1) * DayLen - off

MaxOf(a, b) == IF a >= b THEN a ELSE b

-----------------------------------------------------------------------------
(* What one accepted observation does to the segments. *)

\* zero_length_segment: nothing is confirmed yet.
ZeroLength(s, at, off) ==
    [session |-> s, date |-> LocalDate(at, off), offset |-> off,
     start |-> at, until |-> at, open |-> TRUE]

\* close_without_extension, and a fresh start when the reader is visible.
Restart(g, st, at, off) ==
    {[g EXCEPT !.open = FALSE]}
      \cup (IF st = "visible" THEN {ZeroLength(g.session, at, off)} ELSE {})

\* The confirmed interval stays within the segment's local day.
Extend(g, st, at) ==
    {[g EXCEPT !.until = at, !.open = (st = "visible")]}

\* The confirmed interval crosses local midnight: one row for each day.
SplitAtMidnight(g, st, at, off) ==
    LET midnight == NextMidnight(g.until, off)
    IN  {[g EXCEPT !.until = midnight, !.open = FALSE],
         [session |-> g.session, date |-> LocalDate(at, off), offset |-> off,
          start |-> midnight, until |-> at, open |-> (st = "visible")]}

\* confirmable: a short gap under an unchanged UTC offset.
ConfirmableWithoutGapLimit(g, at, off) ==
    g.offset = off
Confirmable(g, at, off) ==
    /\ at - sessions[g.session].last <= MaxGap
    /\ g.offset = off

\* Mutant: the interval after midnight is not split off.
ConfirmedWithoutSplit(g, st, at, off) ==
    IF Confirmable(g, at, off) THEN Extend(g, st, at) ELSE Restart(g, st, at, off)

\* The rows that replace the open segment g.
Confirmed(g, st, at, off) ==
    CASE Confirmable(g, at, off) /\ LocalDate(at, off) = g.date
           -> Extend(g, st, at)
      [] /\ Confirmable(g, at, off)
         /\ LocalDate(at, off) # g.date
         /\ NextMidnight(g.until, off) <= at
           -> SplitAtMidnight(g, st, at, off)
      [] OTHER -> Restart(g, st, at, off)

\* The rows of all open segments of s, replaced.
ReplacedSegments(s, st, at, off) ==
    UNION {Confirmed(g, st, at, off) : g \in OpenSegments(s)}

\* Without an open segment nothing is confirmed, and a visible reader opens one.
OpenedSegments(s, st, at, off) ==
    IF OpenSegments(s) = {} /\ st = "visible" THEN {ZeroLength(s, at, off)} ELSE {}

ObservedSegments(s, st, at, off) ==
    (segments \ OpenSegments(s))
      \cup ReplacedSegments(s, st, at, off)
      \cup OpenedSegments(s, st, at, off)

-----------------------------------------------------------------------------
(* The transaction recover_interrupted_reading_activities_in_transaction. *)
EndedSessions ==
    [s \in SessionId |->
        IF Live(s) THEN [sessions[s] EXCEPT !.state = "ended"] ELSE sessions[s]]

ClosedSegments == {[g EXCEPT !.open = FALSE] : g \in segments}

AnyBook == CHOOSE b \in Book : TRUE

\* There is no row: its UUID was never generated, or the row was deleted.
NoSession(st) ==
    [state |-> st, book |-> AnyBook, linked |-> FALSE, started |-> 0, last |-> 0,
     seq |-> 0]

\* delete_reading_history deletes the sessions in S; their segments go with them
\* (ON DELETE CASCADE).
EraseSessions(S) ==
    /\ sessions' = [s \in SessionId |->
                       IF s \in S THEN NoSession("deleted") ELSE sessions[s]]
    /\ segments' = {g \in segments : g.session \notin S}
    /\ UNCHANGED <<now, setBacks, books, readAt>>

-----------------------------------------------------------------------------
\* The database of a first start.
Init ==
    /\ now = 0
    /\ setBacks = 0
    /\ books = Book
    /\ readAt = [b \in Book |-> NoRow]
    /\ sessions = [s \in SessionId |-> NoSession("unused")]
    /\ segments = {}

\* The wall clock advances, or is set back (NTP, the user).
Tick ==
    /\ \/ /\ now < MaxTime
          /\ now' = now + 1
          /\ UNCHANGED setBacks
       \/ /\ setBacks < MaxSetBacks
          /\ now' \in 0..(now - 1)
          /\ setBacks' = setBacks + 1
    /\ UNCHANGED <<books, readAt, sessions, segments>>

\* Mutant: the insert is not preceded by the recovery of interrupted sessions.
BeginWithoutRecovery(s, b, off) ==
    /\ sessions[s].state = "unused"
    /\ b \in books
    /\ sessions' = [sessions EXCEPT ![s] =
                      [state |-> "visible", book |-> b, linked |-> TRUE,
                       started |-> now, last |-> now, seq |-> 0]]
    /\ segments' = segments \cup {ZeroLength(s, now, off)}
    /\ readAt' = [readAt EXCEPT ![b] = MaxOf(@, now)]
    /\ UNCHANGED <<now, setBacks, books>>

\* begin_reading_activity
Begin(s, b, off) ==
    /\ sessions[s].state = "unused"
    /\ b \in books
    /\ sessions' = [EndedSessions EXCEPT ![s] =
                      [state |-> "visible", book |-> b, linked |-> TRUE,
                       started |-> now, last |-> now, seq |-> 0]]
    /\ segments' = ClosedSegments \cup {ZeroLength(s, now, off)}
    /\ readAt' = [readAt EXCEPT ![b] = MaxOf(@, now)]
    /\ UNCHANGED <<now, setBacks, books>>

\* accepted_at: the clock, never behind what the session has already observed.
AcceptedAt(s) == MaxOf(now, sessions[s].last)

\* Mutant: the reading state is written under the recorded, not the live, book id.
AdvancedOfRecordedBook(s, at) ==
    [readAt EXCEPT ![sessions[s].book] = MaxOf(@, at)]

\* The book_reading_state row an observation of s moves to instant at.
AdvancedReadAt(s, at) ==
    IF sessions[s].linked
    THEN [readAt EXCEPT ![sessions[s].book] = MaxOf(@, at)]
    ELSE readAt

\* Mutant: the state of the row is not looked at.
ObserveEnded(s, q, st, off) ==
    LET at == AcceptedAt(s)
    IN  /\ Exists(s)
        /\ q = sessions[s].seq + 1
        /\ q <= MaxSeq
        /\ sessions' = [sessions EXCEPT ![s] = [@ EXCEPT !.state = st,
                                                         !.last = at, !.seq = q]]
        /\ segments' = ObservedSegments(s, st, at, off)
        /\ readAt' = AdvancedReadAt(s, at)
        /\ UNCHANGED <<now, setBacks, books>>

\* observe_reading_activity: sequence q is accepted only as the next one of a live
\* session.  The last one again is answered from the row; any other is a conflict.
Observe(s, q, st, off) ==
    LET at == AcceptedAt(s)
    IN  /\ Live(s)
        /\ q = sessions[s].seq + 1
        /\ q <= MaxSeq
        /\ sessions' = [sessions EXCEPT ![s] = [@ EXCEPT !.state = st,
                                                         !.last = at, !.seq = q]]
        /\ segments' = ObservedSegments(s, st, at, off)
        /\ readAt' = AdvancedReadAt(s, at)
        /\ UNCHANGED <<now, setBacks, books>>

\* recover_interrupted_reading_activities, run at startup after any kind of exit.
Recover ==
    /\ sessions' = EndedSessions
    /\ segments' = ClosedSegments
    /\ UNCHANGED <<now, setBacks, books, readAt>>

\* delete_reading_history, scopes Session, Book and All.
DeleteSession(s) ==
    /\ Exists(s)
    /\ EraseSessions({s})

DeleteBookHistory(b) ==
    LET S == {s \in SessionId : Exists(s) /\ sessions[s].book = b}
    IN  S # {} /\ EraseSessions(S)

DeleteAllHistory ==
    LET S == {s \in SessionId : Exists(s)}
    IN  S # {} /\ EraseSessions(S)

\* Mutant: the sessions a date deletion empties are kept.
DeleteDateOnly(d) ==
    /\ segments' = {g \in segments : g.date # d}
    /\ segments' # segments
    /\ UNCHANGED <<now, setBacks, books, readAt, sessions>>

\* delete_reading_history, scope Date: first the day's segments, then every
\* session left without any.
DeleteDate(d) ==
    /\ segments' = {g \in segments : g.date # d}
    /\ segments' # segments
    /\ sessions' = [s \in SessionId |->
                      IF Exists(s) /\ \A g \in segments : g.session = s => g.date = d
                      THEN NoSession("deleted")
                      ELSE sessions[s]]
    /\ UNCHANGED <<now, setBacks, books, readAt>>

\* save_reading_progress also advances the reading state of an existing book.
SaveProgress(b) ==
    /\ b \in books
    /\ readAt' = [readAt EXCEPT ![b] = MaxOf(@, now)]
    /\ UNCHANGED <<now, setBacks, books, sessions, segments>>

\* delete_book: the reading state goes with the book, the history stays with a
\* NULL book_id.
DeleteBook(b) ==
    /\ b \in books
    /\ books' = books \ {b}
    /\ readAt' = [readAt EXCEPT ![b] = NoRow]
    /\ sessions' = [s \in SessionId |->
                      IF sessions[s].book = b
                      THEN [sessions[s] EXCEPT !.linked = FALSE]
                      ELSE sessions[s]]
    /\ UNCHANGED <<now, setBacks, segments>>

Next ==
    \/ Tick
    \/ \E s \in SessionId, b \in Book, off \in Offset : Begin(s, b, off)
    \/ \E s \in SessionId, q \in 1..MaxSeq, st \in ActivityState, off \in Offset :
          Observe(s, q, st, off)
    \/ Recover
    \/ \E s \in SessionId : DeleteSession(s)
    \/ \E b \in Book : DeleteBookHistory(b)
    \/ DeleteAllHistory
    \/ \E d \in {g.date : g \in segments} : DeleteDate(d)
    \/ \E b \in Book : SaveProgress(b)
    \/ \E b \in Book : DeleteBook(b)

Spec == Init /\ [][Next]_vars

-----------------------------------------------------------------------------
TypeOK ==
    /\ now \in Time
    /\ setBacks \in 0..MaxSetBacks
    /\ books \subseteq Book
    /\ readAt \in [Book -> Time \cup {NoRow}]
    /\ sessions \in [SessionId -> SessionRow]
    /\ segments \subseteq Segment

(***************************************************************************)
(* The open segment of a session is unique, belongs to a visible session   *)
(* and is confirmed exactly up to the last accepted observation.  That is  *)
(* what lets the service measure the gap from last_observed_at and extend  *)
(* the segment from confirmed_until_at as if they were one instant.        *)
(***************************************************************************)
OpenSegmentIsCurrent ==
    \A g \in segments : g.open =>
        /\ sessions[g.session].state = "visible"
        /\ g.until = sessions[g.session].last
        /\ \A h \in segments : h.open => h = g

\* What every row of the session and segment tables satisfies by itself.
LedgerOK == TypeOK /\ OpenSegmentIsCurrent

(***************************************************************************)
(* The same instant is never counted twice: segments of one session never  *)
(* overlap, whatever the wall clock does; segments of different sessions   *)
(* never overlap either, as long as the clock is not set back.             *)
(***************************************************************************)
NoDoubleCounting ==
    \A g, h \in segments :
        g # h /\ (g.session = h.session \/ setBacks = 0)
          => g.until <= h.start \/ h.until <= g.start

(***************************************************************************)
(* Every segment lies within the one local day it is booked on, so that    *)
(* the day, week and month totals and a deletion by date see all of its    *)
(* reading time or none of it.                                             *)
(***************************************************************************)
SegmentWithinItsDay ==
    \A g \in segments :
        /\ LocalDate(g.start, g.offset) = g.date
        /\ g.until <= NextMidnight(g.start, g.offset)

(***************************************************************************)
(* History rows hang together: a segment's session exists and spans it,    *)
(* and no session outlives its last segment (a deletion by date removes    *)
(* the sessions it empties).                                               *)
(***************************************************************************)
HistoryHangsTogether ==
    /\ \A g \in segments :
          /\ Exists(g.session)
          /\ sessions[g.session].started <= g.start
          /\ g.until <= sessions[g.session].last
    /\ \A s \in SessionId : Exists(s) => SegmentsOf(s) # {}

(***************************************************************************)
(* The continue-reading state never lags the ledger and never names a book *)
(* that is gone, although it is written by three commands and kept when    *)
(* history is deleted.                                                     *)
(***************************************************************************)
ReadingStateCoversHistory ==
    /\ \A b \in Book : readAt[b] # NoRow => b \in books
    /\ \A s \in SessionId :
          Exists(s) /\ sessions[s].linked => readAt[sessions[s].book] >= sessions[s].last

(***************************************************************************)
(* Unknown time is never back-filled: an instant becomes reading time only *)
(* in an observation of a session that had an open segment, and only if it *)
(* lies in the gap, at most MaxGap long, since the previous observation.   *)
(***************************************************************************)
NeverBackfills ==
    [][\A g \in segments' : \A t \in (g.start + 1)..g.until :
          \/ \E h \in segments : h.session = g.session /\ h.start < t /\ t <= h.until
          \/ \E h \in segments :
                /\ h.session = g.session
                /\ h.open
                /\ sessions[g.session].last < t
                /\ t <= sessions[g.session].last + MaxGap
      ]_vars

\* The protocol this ledger implements.
Sessions == INSTANCE ReadingSessions WITH
    state <- [s \in SessionId |-> sessions[s].state],
    seq <- [s \in SessionId |-> sessions[s].seq]

(***************************************************************************)
(* The ledger implements the session protocol its callers rely on.         *)
(***************************************************************************)
ImplementsSessions == Sessions!SessionsSpec
=============================================================================
