------------------------ MODULE ReadingActivityProofs ------------------------
(***************************************************************************)
(* What the runs of ReadingActivity check on a small instance, proved for  *)
(* every set of sessions, books and offsets and every bound: the ledger,   *)
(* the session protocol it implements, the calendar of its dates and the   *)
(* reports that are made of it.                                            *)
(***************************************************************************)
EXTENDS Insights, TotalsProofs, TLAPS

USE ActivityAssumption

-----------------------------------------------------------------------------
(* The calendar. *)

\* An instant lies before the next local midnight, at most a day before it, and
\* every instant of the day that midnight opens is booked on the following date.
LEMMA Midnight ==
    ASSUME NEW t \in Int, NEW off \in Int
    PROVE  /\ LocalDate(t, off) \in Int
           /\ NextMidnight(t, off) \in Int
           /\ t < NextMidnight(t, off)
           /\ NextMidnight(t, off) <= t + DayLen
           /\ NextMidnight(t, off) = (LocalDate(t, off) + 1) * DayLen - off
    BY SMT DEF LocalDate, NextMidnight

\* Equal dates have the same next midnight; the next midnight opens the next date.
LEMMA SameDay ==
    ASSUME NEW t \in Int, NEW u \in Int, NEW off \in Int
    PROVE  /\ LocalDate(t, off) = LocalDate(u, off)
                => NextMidnight(t, off) = NextMidnight(u, off)
           /\ t <= u /\ u < NextMidnight(t, off)
                => LocalDate(u, off) = LocalDate(t, off)
           /\ NextMidnight(t, off) <= u /\ u < NextMidnight(t, off) + DayLen
                => LocalDate(u, off) = LocalDate(t, off) + 1
  <1>1. LocalDate(t, off) = LocalDate(u, off)
            => NextMidnight(t, off) = NextMidnight(u, off)
    BY DEF LocalDate, NextMidnight
  <1>2. t <= u /\ u < NextMidnight(t, off) => LocalDate(u, off) = LocalDate(t, off)
    BY SMT DEF LocalDate, NextMidnight
  <1>3. NextMidnight(t, off) <= u /\ u < NextMidnight(t, off) + DayLen
            => LocalDate(u, off) = LocalDate(t, off) + 1
    BY SMT DEF LocalDate, NextMidnight
  <1>4. QED BY <1>1, <1>2, <1>3

-----------------------------------------------------------------------------
(* The inductive invariant: the ledger's shape. *)

\* At most one session is live.
OneLive == \A s, t \in SessionId : Live(s) /\ Live(t) => s = t

\* A segment's session exists and spans it; neither runs backwards.
Spans ==
    /\ \A s \in SessionId : sessions[s].started <= sessions[s].last
    /\ \A g \in segments :
          /\ Exists(g.session)
          /\ sessions[g.session].started <= g.start
          /\ g.start <= g.until
          /\ g.until <= sessions[g.session].last

Ledger ==
    /\ TypeOK
    /\ OneLive
    /\ OpenSegmentIsCurrent
    /\ Spans

-----------------------------------------------------------------------------
(* One accepted observation. *)

\* The rows that replace an open segment have their type, belong to its session and
\* are open only when the reader stays visible, and then up to the observation.
LEMMA ConfirmedRows ==
    ASSUME TypeOK, NEW s \in SessionId, NEW g \in OpenSegments(s),
           g.until <= sessions[s].last, g.start <= g.until,
           NEW st \in ActivityState, NEW off \in Offset,
           NEW at, at = AcceptedAt(s), NEW r \in Confirmed(g, st, at, off)
    PROVE  /\ r \in Segment
           /\ r.session = s
           /\ g.start <= r.start /\ r.start <= r.until /\ r.until <= at
           /\ r.open => st = "visible" /\ r.until = at
  <1>1. /\ g \in Segment /\ g \in segments /\ g.session = s /\ g.open
        /\ sessions[s] \in SessionRow
        /\ at \in Time /\ sessions[s].last <= at
    BY DEF TypeOK, OpenSegments, SegmentsOf, AcceptedAt, MaxOf, SessionRow, Time
  <1>2. /\ g.session \in SessionId /\ g.date \in Int /\ g.offset \in Offset
        /\ g.start \in Time /\ g.until \in Time /\ g.open \in BOOLEAN
    BY <1>1 DEF Segment
  <1>. /\ at \in Int /\ off \in Int /\ g.start \in Int /\ g.until \in Int
       /\ g.until <= at /\ g.start <= at
    BY <1>1, <1>2 DEF Time, SessionRow
  <1>3. LocalDate(at, off) \in Int /\ NextMidnight(g.until, off) \in Int
        /\ g.until < NextMidnight(g.until, off)
    BY Midnight
  <1>4. CASE r \in Extend(g, st, at)
    <2>1. r = [g EXCEPT !.until = at, !.open = (st = "visible")]
      BY <1>4 DEF Extend
    <2>2. /\ r.session = s /\ r.start = g.start /\ r.until = at
          /\ r \in Segment
      BY <1>1, <1>2, <2>1 DEF Segment
    <2>3. r.open => st = "visible"
      BY <1>1, <2>1 DEF Segment
    <2>4. QED
      BY <2>2, <2>3
  <1>5. CASE /\ NextMidnight(g.until, off) <= at
             /\ r \in SplitAtMidnight(g, st, at, off)
    <2>1. NextMidnight(g.until, off) \in Time
      BY <1>1, <1>2, <1>3, <1>5 DEF Time
    <2>2. CASE r = [g EXCEPT !.until = NextMidnight(g.until, off), !.open = FALSE]
      <3>1. /\ r.session = s /\ r.start = g.start /\ r.until = NextMidnight(g.until, off)
            /\ r \in Segment
        BY <1>1, <1>2, <2>1, <2>2 DEF Segment
      <3>2. ~r.open
        BY <1>1, <2>2 DEF Segment
      <3>3. QED
        BY <1>3, <1>5, <3>1, <3>2
    <2>3. CASE r = [session |-> g.session, date |-> LocalDate(at, off), offset |-> off,
                    start |-> NextMidnight(g.until, off), until |-> at,
                    open |-> (st = "visible")]
      <3>1. /\ r.session = s /\ r.start = NextMidnight(g.until, off) /\ r.until = at
            /\ r \in Segment
        BY <1>1, <1>2, <1>3, <2>1, <2>3 DEF Segment
      <3>2. r.open => st = "visible"
        BY <2>3
      <3>3. QED
        BY <1>2, <1>3, <1>5, <3>1, <3>2
    <2>4. QED
      BY <1>5, <2>2, <2>3 DEF SplitAtMidnight
  <1>6. CASE r \in Restart(g, st, at, off)
    <2>1. CASE r = [g EXCEPT !.open = FALSE]
      <3>1. r.session = s /\ r.start = g.start /\ r.until = g.until /\ r \in Segment
        BY <1>1, <1>2, <2>1 DEF Segment
      <3>2. ~r.open
        BY <1>1, <2>1 DEF Segment
      <3>3. QED
        BY <3>1, <3>2
    <2>2. CASE st = "visible" /\ r = ZeroLength(g.session, at, off)
      BY <1>1, <1>2, <1>3, <2>2 DEF ZeroLength, Segment
    <2>3. QED
      BY <1>6, <2>1, <2>2 DEF Restart
  <1>7. QED
    BY <1>4, <1>5, <1>6 DEF Confirmed

\* At most one of the rows that replace an open segment is open.
LEMMA ConfirmedOneOpen ==
    ASSUME NEW g \in Segment, NEW st, NEW at, NEW off,
           NEW r \in Confirmed(g, st, at, off), NEW h \in Confirmed(g, st, at, off),
           r.open, h.open
    PROVE  r = h
  <1>. DEFINE Closed(m) == [g EXCEPT !.until = m, !.open = FALSE]
  <1>1. ~[g EXCEPT !.open = FALSE].open /\ \A m : ~Closed(m).open
    BY DEF Segment
  <1>2. CASE r \in Extend(g, st, at) /\ h \in Extend(g, st, at)
    BY <1>2 DEF Extend
  <1>3. CASE r \in SplitAtMidnight(g, st, at, off) /\ h \in SplitAtMidnight(g, st, at, off)
    BY <1>1, <1>3 DEF SplitAtMidnight
  <1>4. CASE r \in Restart(g, st, at, off) /\ h \in Restart(g, st, at, off)
    BY <1>1, <1>4 DEF Restart
  <1>5. QED
    BY <1>2, <1>3, <1>4 DEF Confirmed

\* The rows after an accepted observation of s: those that were not open in s, those
\* that replace its open segment, and a fresh one when it had none.
LEMMA ObservedRows ==
    ASSUME Ledger, NEW s \in SessionId, Live(s),
           NEW st \in ActivityState, NEW off \in Offset,
           NEW at, at = AcceptedAt(s), NEW r \in ObservedSegments(s, st, at, off)
    PROVE  \/ r \in segments /\ ~r.open
           \/ \E g \in OpenSegments(s) : r \in Confirmed(g, st, at, off)
           \/ OpenSegments(s) = {} /\ st = "visible" /\ r = ZeroLength(s, at, off)
  <1>1. ASSUME r \in segments \ OpenSegments(s)
        PROVE  ~r.open
    <2>1. SUFFICES ASSUME r.open PROVE FALSE
      OBVIOUS
    <2>2. r.session \in SessionId /\ Live(r.session)
      BY <1>1, <2>1 DEF Ledger, TypeOK, Segment, OpenSegmentIsCurrent, Live, LiveState
    <2>3. r.session = s
      BY <2>2 DEF Ledger, OneLive
    <2>4. QED
      BY <1>1, <2>1, <2>3 DEF OpenSegments, SegmentsOf
  <1>2. CASE r \in ReplacedSegments(s, st, at, off)
    BY <1>2 DEF ReplacedSegments
  <1>3. CASE r \in OpenedSegments(s, st, at, off)
    BY <1>3 DEF OpenedSegments
  <1>4. QED
    BY <1>1, <1>2, <1>3 DEF ObservedSegments

-----------------------------------------------------------------------------
(* Recovery and deletion. *)

\* Recovery closes every segment where it stands.
LEMMA ClosedRows ==
    ASSUME TypeOK, NEW r \in ClosedSegments
    PROVE  /\ r \in Segment
           /\ ~r.open
           /\ \E g \in segments :
                 /\ r.session = g.session /\ r.date = g.date /\ r.offset = g.offset
                 /\ r.start = g.start /\ r.until = g.until
  <1>1. PICK g \in segments : r = [g EXCEPT !.open = FALSE]
    BY DEF ClosedSegments
  <1>2. g \in Segment
    BY DEF TypeOK
  <1>3. ~r.open
    BY <1>1, <1>2 DEF Segment
  <1>4. QED
    BY <1>1, <1>2, <1>3 DEF Segment

\* Recovery ends every live session and changes nothing else.
LEMMA EndedRows ==
    ASSUME TypeOK, NEW s \in SessionId
    PROVE  /\ EndedSessions[s] \in SessionRow
           /\ EndedSessions[s].state \notin LiveState
           /\ EndedSessions[s].state = IF Live(s) THEN "ended" ELSE sessions[s].state
           /\ Exists(s) <=> EndedSessions[s].state \in ActivityState
           /\ EndedSessions[s].book = sessions[s].book
           /\ EndedSessions[s].linked = sessions[s].linked
           /\ EndedSessions[s].started = sessions[s].started
           /\ EndedSessions[s].last = sessions[s].last
           /\ EndedSessions[s].seq = sessions[s].seq
    BY DEF TypeOK, SessionRow, EndedSessions, Live, Exists, LiveState, ActivityState,
           RowState

\* A session that is not there has a well-formed blank row.
LEMMA BlankRow ==
    ASSUME NEW st \in {"unused", "deleted"}
    PROVE  NoSession(st) \in SessionRow /\ NoSession(st).state = st
  <1>1. AnyBook \in Book
    BY DEF AnyBook
  <1>2. QED
    BY <1>1 DEF NoSession, SessionRow, RowState, Time

-----------------------------------------------------------------------------
(* Each action preserves the ledger's shape. *)

LEMMA LedgerInit == Init => Ledger
  <1>. SUFFICES ASSUME Init PROVE Ledger
    OBVIOUS
  <1>1. \A s \in SessionId : sessions[s] \in SessionRow /\ sessions[s].state = "unused"
    BY BlankRow DEF Init
  <1>2. TypeOK
    BY <1>1 DEF Init, TypeOK, Time
  <1>3. OneLive
    BY <1>1 DEF OneLive, Live, LiveState
  <1>4. Spans
    BY DEF Init, Spans, NoSession
  <1>5. QED
    BY <1>2, <1>3, <1>4 DEF Init, Ledger, OpenSegmentIsCurrent

LEMMA LedgerBegin ==
    ASSUME Ledger, NEW s \in SessionId, NEW b \in Book, NEW off \in Offset,
           Begin(s, b, off)
    PROVE  Ledger'
  <1>. DEFINE z == ZeroLength(s, now, off)
  <1>1. TypeOK /\ now \in Time /\ off \in Int
    BY DEF Ledger, TypeOK
  <1>2. /\ z \in Segment /\ z.session = s /\ z.open
        /\ z.start = now /\ z.until = now
    BY <1>1, Midnight DEF ZeroLength, Segment, Time
  <1>3. /\ sessions'[s] \in SessionRow /\ sessions'[s].state = "visible"
        /\ sessions'[s].started = now /\ sessions'[s].last = now
    BY <1>1 DEF Begin, EndedSessions, SessionRow, RowState, ActivityState, LiveState
  <1>4. \A t \in SessionId : t # s => sessions'[t] = EndedSessions[t]
    BY DEF Begin, EndedSessions
  <1>5. sessions' \in [SessionId -> SessionRow]
    BY <1>1, <1>3, <1>4, EndedRows DEF Begin, EndedSessions
  <1>6. TypeOK'
    <2>1. segments' \subseteq Segment
      BY <1>1, <1>2, ClosedRows DEF Begin
    <2>2. readAt' \in [Book -> Time \cup {NoRow}]
      BY <1>1 DEF Begin, TypeOK, MaxOf, Time, NoRow
    <2>3. QED
      BY <1>1, <1>5, <2>1, <2>2 DEF Begin, TypeOK
  <1>7. OneLive'
    BY <1>1, <1>4, EndedRows DEF OneLive, Live
  <1>8. ASSUME NEW r \in segments', r # z
        PROVE  /\ ~r.open
               /\ \E g \in segments : /\ r.session = g.session /\ r.start = g.start
                                      /\ r.until = g.until
    BY <1>1, <1>8, ClosedRows DEF Begin
  <1>9. OpenSegmentIsCurrent'
    BY <1>2, <1>3, <1>8 DEF OpenSegmentIsCurrent
  <1>10. Spans'
    <2>. SUFFICES ASSUME NEW r \in segments'
                  PROVE  /\ Exists(r.session)'
                         /\ sessions'[r.session].started <= r.start
                         /\ r.start <= r.until
                         /\ r.until <= sessions'[r.session].last
      <3>1. ASSUME NEW t \in SessionId
            PROVE  sessions'[t].started <= sessions'[t].last
        BY <1>1, <1>3, <1>4, EndedRows DEF Ledger, Spans, Time
      <3>2. QED
        BY <3>1 DEF Spans
    <2>1. CASE r = z
      BY <1>1, <1>2, <1>3, <2>1 DEF Exists, ActivityState, LiveState, Time
    <2>2. CASE r # z
      <3>1. PICK g \in segments : /\ r.session = g.session /\ r.start = g.start
                                  /\ r.until = g.until
        BY <1>8, <2>2
      <3>2. g.session \in SessionId /\ Exists(g.session)
        BY <1>1 DEF Ledger, Spans, TypeOK, Segment
      <3>3. g.session # s
        BY <3>2 DEF Begin, Exists, ActivityState, LiveState
      <3>4. /\ Exists(g.session)'
            /\ sessions'[g.session].started = sessions[g.session].started
            /\ sessions'[g.session].last = sessions[g.session].last
        BY <1>1, <1>4, <3>2, <3>3, EndedRows DEF Exists
      <3>5. QED
        BY <3>1, <3>4 DEF Ledger, Spans
    <2>3. QED
      BY <2>1, <2>2
  <1>11. QED
    BY <1>6, <1>7, <1>9, <1>10 DEF Ledger

LEMMA LedgerObserve ==
    ASSUME Ledger, NEW s \in SessionId, NEW q \in 1..MaxSeq, NEW st \in ActivityState,
           NEW off \in Offset, Observe(s, q, st, off)
    PROVE  Ledger'
  <1>. DEFINE at == AcceptedAt(s)
              z == ZeroLength(s, at, off)
  <1>1. /\ TypeOK /\ Live(s) /\ sessions[s] \in SessionRow
        /\ at \in Time /\ at \in Int /\ off \in Int /\ sessions[s].last <= at
        /\ sessions[s].started \in Int /\ sessions[s].last \in Int
    BY DEF Ledger, TypeOK, SessionRow, AcceptedAt, MaxOf, Observe, Time
  <1>2. /\ z \in Segment /\ z.session = s /\ z.start = at /\ z.until = at
    BY <1>1, Midnight DEF ZeroLength, Segment
  <1>3. /\ sessions'[s] \in SessionRow /\ sessions'[s].state = st
        /\ sessions'[s].started = sessions[s].started /\ sessions'[s].last = at
        /\ sessions' \in [SessionId -> SessionRow]
        /\ \A t \in SessionId : t # s => sessions'[t] = sessions[t]
    <2>1. /\ sessions'[s] = [sessions[s] EXCEPT !.state = st, !.last = at, !.seq = q]
          /\ \A t \in SessionId : t # s => sessions'[t] = sessions[t]
          /\ DOMAIN sessions' = SessionId
          /\ sessions' = [t \in SessionId |-> sessions'[t]]
      BY <1>1 DEF Observe, TypeOK
    <2>. q \in 0..MaxSeq /\ st \in RowState
      BY DEF RowState
    <2>2. /\ sessions'[s] \in SessionRow /\ sessions'[s].state = st
          /\ sessions'[s].started = sessions[s].started /\ sessions'[s].last = at
      BY <1>1, <2>1 DEF SessionRow
    <2>3. \A t \in SessionId : sessions'[t] \in SessionRow
      BY <1>1, <2>1, <2>2 DEF TypeOK
    <2>4. QED
      BY <2>1, <2>2, <2>3
  <1>4. ASSUME NEW g \in OpenSegments(s)
        PROVE  /\ g \in segments /\ g.session = s /\ g.open
               /\ g.until <= sessions[s].last /\ g.start <= g.until
               /\ sessions[s].started <= g.start
               /\ g.start \in Int /\ g.until \in Int
    BY DEF OpenSegments, SegmentsOf, Ledger, Spans, TypeOK, Segment, Time
  <1>5. ASSUME NEW r \in segments'
        PROVE  /\ r \in Segment
               /\ \/ r \in segments /\ ~r.open
                  \/ /\ r.session = s
                     /\ sessions[s].started <= r.start
                     /\ r.start <= r.until /\ r.until <= at
                     /\ r.open => st = "visible" /\ r.until = at
    <2>1. r \in ObservedSegments(s, st, at, off)
      BY DEF Observe
    <2>2. CASE r \in segments /\ ~r.open
      BY <1>1, <2>2 DEF TypeOK
    <2>3. ASSUME NEW g \in OpenSegments(s), r \in Confirmed(g, st, at, off)
          PROVE  /\ r \in Segment /\ r.session = s
                 /\ sessions[s].started <= r.start
                 /\ r.start <= r.until /\ r.until <= at
                 /\ r.open => st = "visible" /\ r.until = at
      <3>1. /\ r \in Segment /\ r.session = s
            /\ g.start <= r.start /\ r.start <= r.until /\ r.until <= at
            /\ r.open => st = "visible" /\ r.until = at
        BY <1>1, <1>4, <2>3, ConfirmedRows
      <3>2. r.start \in Int
        BY <3>1 DEF Segment, Time
      <3>3. QED
        BY <1>1, <1>4, <3>1, <3>2
    <2>4. CASE OpenSegments(s) = {} /\ st = "visible" /\ r = z
      BY <1>1, <1>2, <2>4 DEF Ledger, Spans
    <2>5. QED
      BY <1>1, <2>1, <2>2, <2>3, <2>4, ObservedRows
  <1>6. TypeOK'
    <2>1. segments' \subseteq Segment
      BY <1>5
    <2>2. readAt' \in [Book -> Time \cup {NoRow}]
      BY <1>1 DEF Observe, AdvancedReadAt, TypeOK, SessionRow, MaxOf, Time, NoRow
    <2>3. QED
      BY <1>1, <1>3, <2>1, <2>2 DEF Observe, TypeOK
  <1>7. OneLive'
    BY <1>1, <1>3 DEF Ledger, OneLive, Live
  <1>8. OpenSegmentIsCurrent'
    <2>1. ASSUME NEW r \in segments', r.open
          PROVE  r.session = s /\ st = "visible" /\ r.until = at
      BY <1>5, <2>1
    <2>2. ASSUME NEW r \in segments', r.open, NEW h \in segments', h.open
          PROVE  h = r
      <3>1. ASSUME NEW x \in segments', x.open
            PROVE  \/ \E g \in OpenSegments(s) : x \in Confirmed(g, st, at, off)
                   \/ OpenSegments(s) = {} /\ x = z
        BY <1>1, <3>1, ObservedRows DEF Observe
      <3>2. \A g, k \in OpenSegments(s) : g = k
        BY <1>4 DEF Ledger, OpenSegmentIsCurrent
      <3>3. \A g \in OpenSegments(s) : g \in Segment
        BY <1>1, <1>4 DEF TypeOK
      <3>4. QED
        BY <2>2, <3>1, <3>2, <3>3, ConfirmedOneOpen
    <2>3. QED
      BY <1>3, <2>1, <2>2 DEF OpenSegmentIsCurrent
  <1>9. Spans'
    <2>1. ASSUME NEW t \in SessionId
          PROVE  sessions'[t].started <= sessions'[t].last
      BY <1>1, <1>3 DEF Ledger, Spans
    <2>2. ASSUME NEW r \in segments'
          PROVE  /\ Exists(r.session)'
                 /\ sessions'[r.session].started <= r.start
                 /\ r.start <= r.until
                 /\ r.until <= sessions'[r.session].last
      <3>1. CASE r \in segments /\ ~r.open
        <4>1. /\ r.session \in SessionId /\ Exists(r.session)
              /\ sessions[r.session].started <= r.start /\ r.start <= r.until
              /\ r.until <= sessions[r.session].last
              /\ r.until \in Int
          BY <1>1, <3>1 DEF Ledger, Spans, TypeOK, Segment, Time
        <4>2. CASE r.session = s
          BY <1>1, <1>3, <4>1, <4>2 DEF Exists
        <4>3. CASE r.session # s
          BY <1>3, <4>1, <4>3 DEF Exists
        <4>4. QED
          BY <4>2, <4>3
      <3>2. CASE /\ r.session = s
                 /\ sessions[s].started <= r.start
                 /\ r.start <= r.until /\ r.until <= at
        BY <1>3, <3>2 DEF Exists
      <3>3. QED
        BY <1>5, <3>1, <3>2
    <2>3. QED
      BY <2>1, <2>2 DEF Spans
  <1>10. QED
    BY <1>6, <1>7, <1>8, <1>9 DEF Ledger

LEMMA LedgerRecover ==
    ASSUME Ledger, Recover
    PROVE  Ledger'
  <1>1. TypeOK /\ \A s \in SessionId : sessions'[s] = EndedSessions[s]
    BY DEF Ledger, Recover
  <1>2. TypeOK'
    BY <1>1, ClosedRows, EndedRows DEF Recover, TypeOK, EndedSessions
  <1>3. OneLive'
    BY <1>1, EndedRows DEF OneLive, Live
  <1>4. OpenSegmentIsCurrent'
    BY <1>1, ClosedRows DEF Recover, OpenSegmentIsCurrent
  <1>5. Spans'
    <2>1. ASSUME NEW s \in SessionId
          PROVE  sessions'[s].started <= sessions'[s].last
      BY <1>1, EndedRows DEF Ledger, Spans
    <2>2. ASSUME NEW r \in segments'
          PROVE  /\ Exists(r.session)'
                 /\ sessions'[r.session].started <= r.start
                 /\ r.start <= r.until
                 /\ r.until <= sessions'[r.session].last
      <3>1. PICK g \in segments : /\ r.session = g.session /\ r.start = g.start
                                  /\ r.until = g.until
        BY <1>1, ClosedRows DEF Recover
      <3>2. g.session \in SessionId
        BY <1>1 DEF TypeOK, Segment
      <3>3. QED
        BY <1>1, <3>1, <3>2, EndedRows DEF Ledger, Spans, Exists
    <2>3. QED
      BY <2>1, <2>2 DEF Spans
  <1>6. QED
    BY <1>2, <1>3, <1>4, <1>5 DEF Ledger

\* What every history deletion does: it removes segments and whole sessions, never
\* the session of a segment that stays.
Erasing ==
    /\ UNCHANGED <<now, setBacks, books, readAt>>
    /\ segments' \subseteq segments
    /\ DOMAIN sessions' = SessionId
    /\ sessions' = [s \in SessionId |-> sessions'[s]]
    /\ \A s \in SessionId : sessions'[s] \in {sessions[s], NoSession("deleted")}
    /\ \A g \in segments' : sessions'[g.session] = sessions[g.session]

LEMMA EraseIsErasing ==
    ASSUME Ledger, NEW S \in SUBSET SessionId, EraseSessions(S)
    PROVE  Erasing
  <1>1. \A g \in segments : g.session \in SessionId
    BY DEF Ledger, TypeOK, Segment
  <1>2. QED
    BY <1>1 DEF EraseSessions, Erasing

LEMMA DeletionsErase ==
    ASSUME Ledger,
           \/ \E s \in SessionId : DeleteSession(s)
           \/ \E b \in Book : DeleteBookHistory(b)
           \/ DeleteAllHistory
           \/ \E d \in {g.date : g \in segments} : DeleteDate(d)
    PROVE  Erasing
  <1>1. ASSUME NEW s \in SessionId, DeleteSession(s) PROVE Erasing
    BY <1>1, EraseIsErasing DEF DeleteSession
  <1>2. ASSUME NEW b \in Book, DeleteBookHistory(b) PROVE Erasing
    <2>1. {s \in SessionId : Exists(s) /\ sessions[s].book = b} \in SUBSET SessionId
      OBVIOUS
    <2>2. QED
      BY <1>2, <2>1, EraseIsErasing DEF DeleteBookHistory
  <1>3. ASSUME DeleteAllHistory PROVE Erasing
    <2>1. {s \in SessionId : Exists(s)} \in SUBSET SessionId
      OBVIOUS
    <2>2. QED
      BY <1>3, <2>1, EraseIsErasing DEF DeleteAllHistory
  <1>4. ASSUME NEW d, DeleteDate(d) PROVE Erasing
    <2>1. \A g \in segments : g.session \in SessionId
      BY DEF Ledger, TypeOK, Segment
    <2>2. \A g \in segments' : g \in segments /\ g.date # d
      BY <1>4 DEF DeleteDate
    <2>3. QED
      BY <1>4, <2>1, <2>2 DEF DeleteDate, Erasing
  <1>5. QED
    BY <1>1, <1>2, <1>3, <1>4

LEMMA LedgerErasing ==
    ASSUME Ledger, Erasing
    PROVE  Ledger'
  <1>1. NoSession("deleted") \in SessionRow /\ NoSession("deleted").state = "deleted"
        /\ NoSession("deleted").started <= NoSession("deleted").last
    BY BlankRow DEF NoSession
  <1>2. TypeOK'
    BY <1>1 DEF Ledger, TypeOK, Erasing
  <1>3. OneLive'
    BY <1>1 DEF Ledger, OneLive, Live, LiveState, Erasing
  <1>4. OpenSegmentIsCurrent'
    BY DEF Ledger, OpenSegmentIsCurrent, Erasing
  <1>5. Spans'
    BY <1>1 DEF Ledger, Spans, Exists, Erasing
  <1>6. QED
    BY <1>2, <1>3, <1>4, <1>5 DEF Ledger

LEMMA LedgerDeleteBook ==
    ASSUME Ledger, NEW b \in Book, DeleteBook(b)
    PROVE  Ledger'
  <1>1. \A s \in SessionId :
            /\ sessions'[s] \in SessionRow
            /\ sessions'[s].state = sessions[s].state
            /\ sessions'[s].started = sessions[s].started
            /\ sessions'[s].last = sessions[s].last
    BY DEF Ledger, TypeOK, SessionRow, DeleteBook
  <1>2. TypeOK'
    BY <1>1 DEF Ledger, TypeOK, DeleteBook
  <1>3. \A g \in segments : g.session \in SessionId
    BY DEF Ledger, TypeOK, Segment
  <1>4. QED
    BY <1>1, <1>2, <1>3
       DEF Ledger, OneLive, Live, OpenSegmentIsCurrent, Spans, Exists, DeleteBook

LEMMA LedgerOther ==
    ASSUME Ledger, Tick \/ (\E b \in Book : SaveProgress(b)) \/ UNCHANGED vars
    PROVE  Ledger'
  <1>1. /\ UNCHANGED <<sessions, segments>>
        /\ books' = books
    BY DEF Tick, SaveProgress, vars
  <1>2. TypeOK'
    <2>1. CASE Tick
      BY <2>1 DEF Ledger, TypeOK, Tick, Time
    <2>2. ASSUME NEW b \in Book, SaveProgress(b) PROVE TypeOK'
      BY <2>2 DEF Ledger, TypeOK, SaveProgress, MaxOf, Time, NoRow
    <2>3. CASE UNCHANGED vars
      BY <2>3 DEF Ledger, TypeOK, vars
    <2>4. QED
      BY <2>1, <2>2, <2>3
  <1>3. QED
    BY <1>1, <1>2 DEF Ledger, OneLive, Live, OpenSegmentIsCurrent, Spans, Exists

LEMMA LedgerNext == Ledger /\ [Next]_vars => Ledger'
    BY LedgerBegin, LedgerObserve, LedgerRecover, DeletionsErase, LedgerErasing,
       LedgerDeleteBook, LedgerOther DEF Next

LEMMA LedgerInvariant == Spec => []Ledger
    BY LedgerInit, LedgerNext, PTL DEF Spec

(***************************************************************************)
(* Every reachable database has well-typed rows, timestamps within the     *)
(* clock's range; its open segment is unique, belongs to a visible session *)
(* and is confirmed exactly up to the last accepted observation.           *)
(***************************************************************************)
THEOREM LedgerCorrect == Spec => []LedgerOK
    BY LedgerInvariant, PTL DEF Ledger, LedgerOK

-----------------------------------------------------------------------------
(* Segments keep to their local day. *)

OnItsDay(g) ==
    /\ LocalDate(g.start, g.offset) = g.date
    /\ g.until <= NextMidnight(g.start, g.offset)
    /\ g.open => LocalDate(g.until, g.offset) = g.date

OnTheirDays == \A g \in segments : OnItsDay(g)

LEMMA ZeroLengthDay ==
    ASSUME NEW s, NEW at \in Int, NEW off \in Int
    PROVE  OnItsDay(ZeroLength(s, at, off))
  <1>1. NextMidnight(at, off) \in Int /\ at < NextMidnight(at, off)
    BY Midnight
  <1>2. QED
    BY <1>1 DEF OnItsDay, ZeroLength

LEMMA ConfirmedDays ==
    ASSUME Ledger, NEW s \in SessionId, NEW g \in OpenSegments(s), OnItsDay(g),
           NEW st \in ActivityState, NEW off \in Offset,
           NEW at, at = AcceptedAt(s), NEW r \in Confirmed(g, st, at, off)
    PROVE  OnItsDay(r)
  <1>1. /\ g \in Segment /\ g \in segments /\ g.session = s /\ g.open
        /\ sessions[s] \in SessionRow
        /\ at \in Int /\ off \in Int /\ g.offset \in Int
        /\ g.start \in Int /\ g.until \in Int
        /\ g.until = sessions[s].last /\ g.start <= g.until /\ g.until <= at
    <2>1. g \in Segment /\ g \in segments /\ g.session = s /\ g.open
      BY DEF Ledger, TypeOK, OpenSegments, SegmentsOf
    <2>2. now \in Int /\ sessions[s] \in SessionRow /\ sessions[s].last \in Int
      BY DEF Ledger, TypeOK, SessionRow, Time
    <2>3. at \in Int /\ sessions[s].last <= at
      BY <2>2 DEF AcceptedAt, MaxOf
    <2>4. off \in Int /\ g.offset \in Int /\ g.start \in Int /\ g.until \in Int
      <3>1. g.offset \in Offset /\ g.start \in Time /\ g.until \in Time
        BY <2>1 DEF Segment
      <3>2. off \in Int /\ g.offset \in Int
        BY <3>1
      <3>3. g.start \in Int /\ g.until \in Int
        BY <3>1 DEF Time
      <3>4. QED
        BY <3>2, <3>3
    <2>5. g.until = sessions[s].last /\ g.start <= g.until
      BY <2>1 DEF Ledger, Spans, OpenSegmentIsCurrent
    <2>6. QED
      BY <2>1, <2>2, <2>3, <2>4, <2>5
  <1>2. CASE /\ Confirmable(g, at, off) /\ LocalDate(at, off) = g.date
             /\ r \in Extend(g, st, at)
    <2>1. r.start = g.start /\ r.until = at /\ r.offset = g.offset /\ r.date = g.date
      BY <1>1, <1>2 DEF Extend, Segment
    <2>2. off = g.offset
      BY <1>2 DEF Confirmable
    <2>3. NextMidnight(g.start, off) = NextMidnight(at, off)
      BY <1>1, <1>2, <2>2, SameDay DEF OnItsDay
    <2>4. QED
      <3>1. NextMidnight(at, off) \in Int /\ at < NextMidnight(at, off)
        BY <1>1, Midnight
      <3>2. LocalDate(r.until, r.offset) = r.date
        BY <1>2, <2>1, <2>2
      <3>3. QED
        BY <1>1, <2>1, <2>2, <2>3, <3>1, <3>2 DEF OnItsDay
  <1>3. CASE /\ Confirmable(g, at, off) /\ NextMidnight(g.until, off) <= at
             /\ r \in SplitAtMidnight(g, st, at, off)
    <2>. DEFINE m == NextMidnight(g.until, off)
    <2>1. off = g.offset /\ at <= g.until + MaxGap
      BY <1>1, <1>3 DEF Confirmable
    <2>2. /\ m \in Int /\ g.until < m /\ m <= at /\ at < m + DayLen
          /\ m = NextMidnight(g.start, off)
      <3>1. m \in Int /\ g.until < m
        BY <1>1, Midnight
      <3>2. m <= at /\ at < m + DayLen
        BY <1>1, <1>3, <2>1, <3>1
      <3>3. m = NextMidnight(g.start, off)
        BY <1>1, <2>1, SameDay DEF OnItsDay
      <3>4. QED
        BY <3>1, <3>2, <3>3
    <2>3. LocalDate(m, off) = LocalDate(at, off)
      BY <1>1, <2>2, SameDay
    <2>4. at <= NextMidnight(m, off)
      <3>1. NextMidnight(m, off) = NextMidnight(at, off)
        BY <1>1, <2>2, <2>3, SameDay
      <3>2. at \in Int /\ NextMidnight(at, off) \in Int /\ at < NextMidnight(at, off)
        BY <1>1, Midnight
      <3>3. QED
        BY ONLY <3>1, <3>2
    <2>5. CASE r = [g EXCEPT !.until = m, !.open = FALSE]
      <3>1. /\ r.start = g.start /\ r.until = m /\ r.offset = g.offset /\ r.date = g.date
            /\ ~r.open
        BY <1>1, <2>5 DEF Segment
      <3>2. QED
        BY <2>1, <2>2, <3>1 DEF OnItsDay
    <2>6. CASE r = [session |-> g.session, date |-> LocalDate(at, off), offset |-> off,
                    start |-> m, until |-> at, open |-> (st = "visible")]
      BY <2>3, <2>4, <2>6 DEF OnItsDay
    <2>7. QED
      BY <1>3, <2>5, <2>6 DEF SplitAtMidnight
  <1>4. CASE r \in Restart(g, st, at, off)
    <2>1. CASE r = [g EXCEPT !.open = FALSE]
      <3>1. /\ r.start = g.start /\ r.until = g.until /\ r.offset = g.offset
            /\ r.date = g.date /\ ~r.open
        BY <1>1, <2>1 DEF Segment
      <3>2. QED
        BY <3>1 DEF OnItsDay
    <2>2. CASE r = ZeroLength(g.session, at, off)
      BY <1>1, <2>2, ZeroLengthDay
    <2>3. QED
      BY <1>4, <2>1, <2>2 DEF Restart
  <1>5. QED
    BY <1>2, <1>3, <1>4 DEF Confirmed

LEMMA ClosedDays ==
    ASSUME Ledger, OnTheirDays, NEW r \in ClosedSegments
    PROVE  OnItsDay(r)
    BY ClosedRows DEF Ledger, OnTheirDays, OnItsDay

LEMMA OnTheirDaysNext == Ledger /\ OnTheirDays /\ [Next]_vars => OnTheirDays'
  <1>. SUFFICES ASSUME Ledger, OnTheirDays, [Next]_vars, NEW r \in segments'
                PROVE  OnItsDay(r)
    BY DEF OnTheirDays
  <1>1. /\ now \in Int
        /\ \A s \in SessionId : AcceptedAt(s) \in Int
        /\ \A off \in Offset : off \in Int
    BY DEF Ledger, TypeOK, Time, SessionRow, AcceptedAt, MaxOf
  <1>2. ASSUME NEW s \in SessionId, NEW b \in Book, NEW off \in Offset, Begin(s, b, off)
        PROVE  OnItsDay(r)
    BY <1>1, <1>2, ClosedDays, ZeroLengthDay DEF Begin
  <1>3. ASSUME NEW s \in SessionId, NEW q \in 1..MaxSeq, NEW st \in ActivityState,
               NEW off \in Offset, Observe(s, q, st, off)
        PROVE  OnItsDay(r)
    <2>1. /\ Live(s) /\ r \in ObservedSegments(s, st, AcceptedAt(s), off)
          /\ OpenSegments(s) \subseteq segments
      BY <1>3 DEF Observe, OpenSegments, SegmentsOf
    <2>2. QED
      BY <1>1, <2>1, ObservedRows, ConfirmedDays, ZeroLengthDay DEF OnTheirDays
  <1>4. CASE Recover
    BY <1>4, ClosedDays DEF Recover
  <1>5. CASE Erasing
    BY <1>5 DEF Erasing, OnTheirDays
  <1>6. CASE UNCHANGED segments
    BY <1>6 DEF OnTheirDays
  <1>7. QED
    BY <1>2, <1>3, <1>4, <1>5, <1>6, DeletionsErase
       DEF Next, vars, Tick, SaveProgress, DeleteBook

(***************************************************************************)
(* Every segment lies within the local day it is booked on.                *)
(***************************************************************************)
THEOREM DayCorrect == Spec => []SegmentWithinItsDay
  <1>1. Init => OnTheirDays
    BY DEF Init, OnTheirDays
  <1>2. OnTheirDays => SegmentWithinItsDay
    BY DEF OnTheirDays, OnItsDay, SegmentWithinItsDay
  <1>3. QED
    BY <1>1, <1>2, OnTheirDaysNext, LedgerInvariant, PTL DEF Spec

-----------------------------------------------------------------------------
(* Unknown time is never back-filled. *)

\* Instant t is already reading time of the session of g.
AlreadyCounted(g, t) ==
    \E h \in segments : h.session = g.session /\ h.start < t /\ t <= h.until

\* Instant t lies in the short gap since the last observation of an open segment.
InGap(g, t) ==
    \E h \in segments :
        /\ h.session = g.session
        /\ h.open
        /\ sessions[g.session].last < t
        /\ t <= sessions[g.session].last + MaxGap

LEMMA ConfirmedIsKnown ==
    ASSUME Ledger, NEW s \in SessionId, NEW g \in OpenSegments(s),
           NEW st \in ActivityState, NEW off \in Offset,
           NEW at, at = AcceptedAt(s), NEW r \in Confirmed(g, st, at, off),
           NEW t \in (r.start + 1)..r.until
    PROVE  AlreadyCounted(r, t) \/ InGap(r, t)
  <1>1. /\ g \in Segment /\ g \in segments /\ g.session = s /\ g.open
        /\ g.until = sessions[s].last /\ g.start <= g.until
    BY DEF Ledger, TypeOK, OpenSegments, SegmentsOf, Spans, OpenSegmentIsCurrent
  <1>2. now \in Int /\ sessions[s] \in SessionRow /\ sessions[s].last \in Int
    BY DEF Ledger, TypeOK, SessionRow, Time
  <1>3. g.until <= at /\ at \in Int
    BY <1>1, <1>2 DEF AcceptedAt, MaxOf
  <1>4. /\ r \in Segment /\ r.session = s
        /\ g.start <= r.start /\ r.start <= r.until /\ r.until <= at
    <2>1. TypeOK /\ g.until <= sessions[s].last
      BY <1>1, <1>2 DEF Ledger
    <2>2. QED
      BY <1>1, <2>1, ConfirmedRows
  <1>5. g.start \in Int /\ g.until \in Int /\ r.start \in Int /\ r.until \in Int
    BY <1>1, <1>4 DEF Segment, Time
  <1>6. g.start < t /\ t <= at /\ t \in Int
    BY <1>3, <1>4, <1>5
  <1>7. CASE t <= g.until
    BY <1>1, <1>4, <1>6, <1>7 DEF AlreadyCounted
  <1>8. CASE g.until < t /\ Confirmable(g, at, off)
    <2>1. at <= sessions[s].last + MaxGap
      BY <1>1, <1>2, <1>3, <1>8 DEF Confirmable
    <2>2. t <= sessions[s].last + MaxGap
      BY <1>2, <1>3, <1>6, <2>1
    <2>3. QED
      BY <1>1, <1>4, <1>8, <2>2 DEF InGap
  <1>9. CASE g.until < t /\ r \in Restart(g, st, at, off)
    <2>1. CASE r = [g EXCEPT !.open = FALSE]
      <3>1. r.until = g.until
        BY <1>1, <2>1 DEF Segment
      <3>2. QED
        BY <1>5, <1>9, <3>1
    <2>2. CASE r = ZeroLength(g.session, at, off)
      <3>1. r.start = at /\ r.until = at
        BY <2>2 DEF ZeroLength
      <3>2. QED
        BY <1>3, <3>1
    <2>3. QED
      BY <1>9, <2>1, <2>2 DEF Restart
  <1>10. QED
    BY <1>5, <1>6, <1>7, <1>8, <1>9 DEF Confirmed

LEMMA KnownNext ==
    ASSUME Ledger, [Next]_vars, NEW r \in segments', NEW t \in (r.start + 1)..r.until
    PROVE  AlreadyCounted(r, t) \/ InGap(r, t)
  <1>1. /\ now \in Int
        /\ \A g \in segments : g.start \in Int /\ g.until \in Int
        /\ \A s \in SessionId : AcceptedAt(s) \in Int
    <2>1. now \in Int /\ \A s \in SessionId : AcceptedAt(s) \in Int
      BY DEF Ledger, TypeOK, Time, SessionRow, AcceptedAt, MaxOf
    <2>2. \A g \in segments : g.start \in Int /\ g.until \in Int
      BY DEF Ledger, TypeOK, Segment, Time
    <2>3. QED
      BY <2>1, <2>2
  <1>2. CASE \E g \in segments : /\ r.session = g.session /\ r.start = g.start
                                 /\ r.until = g.until
    BY <1>1, <1>2 DEF AlreadyCounted
  <1>3. ASSUME NEW s, NEW at \in Int, NEW off, r = ZeroLength(s, at, off)
        PROVE  FALSE
    <2>1. r.start = at /\ r.until = at
      BY <1>3 DEF ZeroLength
    <2>2. QED
      BY <2>1
  <1>4. CASE r \in ClosedSegments
    BY <1>2, <1>4, ClosedRows DEF Ledger
  <1>5. ASSUME NEW s \in SessionId, NEW b \in Book, NEW off \in Offset, Begin(s, b, off)
        PROVE  r \in ClosedSegments
    BY <1>1, <1>3, <1>5 DEF Begin
  <1>6. ASSUME NEW s \in SessionId, NEW q \in 1..MaxSeq, NEW st \in ActivityState,
               NEW off \in Offset, Observe(s, q, st, off)
        PROVE  AlreadyCounted(r, t) \/ InGap(r, t)
    <2>1. Live(s) /\ r \in ObservedSegments(s, st, AcceptedAt(s), off)
      BY <1>6 DEF Observe
    <2>2. QED
      BY <1>1, <1>2, <1>3, <2>1, ObservedRows, ConfirmedIsKnown
  <1>7. CASE Recover
    BY <1>4, <1>7 DEF Recover
  <1>8. CASE Erasing
    BY <1>2, <1>8 DEF Erasing
  <1>9. CASE UNCHANGED segments
    BY <1>2, <1>9
  <1>10. QED
    BY <1>4, <1>5, <1>6, <1>7, <1>8, <1>9, DeletionsErase
       DEF Next, vars, Tick, SaveProgress, DeleteBook

(***************************************************************************)
(* An instant becomes reading time only in the short gap since the         *)
(* previous observation of a session that had an open segment.             *)
(***************************************************************************)
THEOREM NoBackfill == Spec => NeverBackfills
  <1>1. Ledger /\ [Next]_vars =>
            [\A g \in segments' : \A t \in (g.start + 1)..g.until :
                \/ \E h \in segments : h.session = g.session /\ h.start < t /\ t <= h.until
                \/ \E h \in segments :
                      /\ h.session = g.session
                      /\ h.open
                      /\ sessions[g.session].last < t
                      /\ t <= sessions[g.session].last + MaxGap]_vars
    BY KnownNext DEF AlreadyCounted, InGap
  <1>2. QED
    BY <1>1, LedgerInvariant, PTL DEF Spec, NeverBackfills

-----------------------------------------------------------------------------
(* No session outlives its last segment. *)

NoEmptySession == \A s \in SessionId : Exists(s) => \E g \in segments : g.session = s

LEMMA ConfirmedNotEmpty ==
    ASSUME NEW g \in Segment, NEW st, NEW at, NEW off
    PROVE  \E r \in Confirmed(g, st, at, off) : r.session = g.session
  <1>1. /\ [g EXCEPT !.until = at, !.open = (st = "visible")].session = g.session
        /\ [g EXCEPT !.open = FALSE].session = g.session
        /\ [g EXCEPT !.until = NextMidnight(g.until, off), !.open = FALSE].session
             = g.session
    BY DEF Segment
  <1>2. \E r \in Extend(g, st, at) : r.session = g.session
    BY <1>1 DEF Extend
  <1>3. \E r \in SplitAtMidnight(g, st, at, off) : r.session = g.session
    BY <1>1 DEF SplitAtMidnight
  <1>4. \E r \in Restart(g, st, at, off) : r.session = g.session
    BY <1>1 DEF Restart
  <1>5. QED
    BY <1>2, <1>3, <1>4 DEF Confirmed

LEMMA NoEmptyNext == Ledger /\ NoEmptySession /\ [Next]_vars => NoEmptySession'
  <1>. SUFFICES ASSUME Ledger, NoEmptySession, [Next]_vars,
                       NEW u \in SessionId, Exists(u)'
                PROVE  \E g \in segments' : g.session = u
    BY DEF NoEmptySession
  <1>1. TypeOK
    BY DEF Ledger
  <1>2. ASSUME Exists(u), NEW g \in segments, g.session = u
        PROVE  \E h \in ClosedSegments : h.session = u
    <2>1. g \in Segment
      BY <1>1 DEF TypeOK
    <2>2. [g EXCEPT !.open = FALSE].session = u
      BY <1>2, <2>1 DEF Segment
    <2>3. QED
      BY <2>2 DEF ClosedSegments
  <1>3. ASSUME NEW s \in SessionId, NEW b \in Book, NEW off \in Offset, Begin(s, b, off)
        PROVE  \E g \in segments' : g.session = u
    <2>1. CASE u = s
      <3>1. ZeroLength(s, now, off).session = s
        BY DEF ZeroLength
      <3>2. ZeroLength(s, now, off) \in segments'
        BY <1>3 DEF Begin
      <3>3. QED
        BY <2>1, <3>1, <3>2
    <2>2. CASE u # s
      <3>1. sessions'[u] = EndedSessions[u]
        BY <1>3, <2>2 DEF Begin, EndedSessions
      <3>2. Exists(u)
        BY <1>1, <3>1, EndedRows DEF Exists
      <3>3. QED
        BY <1>2, <1>3, <3>2 DEF Begin, NoEmptySession
    <2>3. QED
      BY <2>1, <2>2
  <1>4. ASSUME NEW s \in SessionId, NEW q \in 1..MaxSeq, NEW st \in ActivityState,
               NEW off \in Offset, Observe(s, q, st, off)
        PROVE  \E g \in segments' : g.session = u
    <2>1. Exists(u)
      BY <1>1, <1>4 DEF Observe, Exists, Live, ActivityState, TypeOK
    <2>2. PICK g \in segments : g.session = u
      BY <2>1 DEF NoEmptySession
    <2>3. CASE g \in OpenSegments(s)
      <3>1. g \in Segment
        BY <1>1 DEF TypeOK
      <3>2. PICK r \in Confirmed(g, st, AcceptedAt(s), off) : r.session = u
        BY <2>2, <3>1, ConfirmedNotEmpty
      <3>3. r \in ReplacedSegments(s, st, AcceptedAt(s), off)
        BY <2>3, <3>2 DEF ReplacedSegments
      <3>4. QED
        BY <1>4, <3>2, <3>3 DEF Observe, ObservedSegments
    <2>4. CASE g \notin OpenSegments(s)
      BY <1>4, <2>2, <2>4 DEF Observe, ObservedSegments
    <2>5. QED
      BY <2>3, <2>4
  <1>5. CASE Recover
    <2>1. Exists(u)
      BY <1>1, <1>5, EndedRows DEF Recover, Exists
    <2>2. QED
      BY <1>2, <1>5, <2>1 DEF Recover, NoEmptySession
  <1>6. ASSUME NEW S \in SUBSET SessionId, EraseSessions(S)
        PROVE  \E g \in segments' : g.session = u
    <2>1. u \notin S /\ Exists(u)
      BY <1>1, <1>6, BlankRow DEF EraseSessions, Exists, ActivityState, LiveState
    <2>2. QED
      BY <1>6, <2>1 DEF EraseSessions, NoEmptySession
  <1>7. ASSUME NEW d, DeleteDate(d)
        PROVE  \E g \in segments' : g.session = u
    <2>1. /\ Exists(u)
          /\ ~ \A g \in segments : g.session = u => g.date = d
      BY <1>1, <1>7, BlankRow DEF DeleteDate, Exists, ActivityState, LiveState
    <2>2. QED
      BY <1>7, <2>1 DEF DeleteDate
  <1>8. ASSUME NEW b \in Book, DeleteBook(b)
        PROVE  \E g \in segments' : g.session = u
    <2>1. Exists(u)
      BY <1>1, <1>8 DEF DeleteBook, Exists, TypeOK, SessionRow
    <2>2. QED
      BY <1>8, <2>1 DEF DeleteBook, NoEmptySession
  <1>9. CASE UNCHANGED <<sessions, segments>>
    BY <1>9 DEF NoEmptySession, Exists
  <1>10. ASSUME NEW s \in SessionId, DeleteSession(s)
         PROVE  \E g \in segments' : g.session = u
    BY <1>6, <1>10 DEF DeleteSession
  <1>11. ASSUME NEW b \in Book, DeleteBookHistory(b)
         PROVE  \E g \in segments' : g.session = u
    <2>1. {s \in SessionId : Exists(s) /\ sessions[s].book = b} \in SUBSET SessionId
      OBVIOUS
    <2>2. QED
      BY <1>6, <1>11, <2>1 DEF DeleteBookHistory
  <1>12. CASE DeleteAllHistory
    <2>1. {s \in SessionId : Exists(s)} \in SUBSET SessionId
      OBVIOUS
    <2>2. QED
      BY <1>6, <1>12, <2>1 DEF DeleteAllHistory
  <1>13. QED
    BY <1>3, <1>4, <1>5, <1>7, <1>8, <1>9, <1>10, <1>11, <1>12
       DEF Next, vars, Tick, SaveProgress

(***************************************************************************)
(* A segment's session exists and spans it, and no session outlives its    *)
(* last segment.                                                           *)
(***************************************************************************)
THEOREM HistoryCorrect == Spec => []HistoryHangsTogether
  <1>1. Init => NoEmptySession
    BY DEF Init, NoEmptySession, Exists, NoSession, ActivityState, LiveState
  <1>2. Ledger /\ NoEmptySession => HistoryHangsTogether
    BY DEF Ledger, Spans, NoEmptySession, HistoryHangsTogether, SegmentsOf
  <1>3. QED
    BY <1>1, <1>2, NoEmptyNext, LedgerInvariant, PTL DEF Spec
-----------------------------------------------------------------------------
(* The continue-reading state. *)

\* The reading state only moves forward, except that it goes with its book.
LEMMA MaxOfBounds ==
    ASSUME NEW a \in Time \cup {NoRow}, NEW b \in Time
    PROVE  /\ MaxOf(a, b) \in Time
           /\ a <= MaxOf(a, b)
           /\ b <= MaxOf(a, b)
    BY DEF MaxOf, Time, NoRow

LEMMA Advanced ==
    ASSUME TypeOK, NEW b \in Book, NEW at \in Time,
           readAt' = [readAt EXCEPT ![b] = MaxOf(@, at)]
    PROVE  /\ \A c \in Book : /\ readAt[c] \in Int /\ readAt'[c] \in Int
                              /\ readAt[c] <= readAt'[c]
                              /\ c # b => readAt'[c] = readAt[c]
           /\ at <= readAt'[b]
  <1>1. ASSUME NEW c \in Book
        PROVE  readAt[c] \in Time \cup {NoRow} /\ readAt[c] \in Int
    BY DEF TypeOK, Time, NoRow
  <1>2. readAt'[b] = MaxOf(readAt[b], at) /\ \A c \in Book : c # b => readAt'[c] = readAt[c]
    BY DEF TypeOK
  <1>3. readAt'[b] \in Int /\ readAt[b] <= readAt'[b] /\ at <= readAt'[b]
    <2>1. /\ MaxOf(readAt[b], at) \in Time
          /\ readAt[b] <= MaxOf(readAt[b], at) /\ at <= MaxOf(readAt[b], at)
      BY <1>1, MaxOfBounds
    <2>2. QED
      BY <1>2, <2>1 DEF Time
  <1>4. QED
    BY <1>1, <1>2, <1>3

LEMMA CoversBegin ==
    ASSUME Ledger, ReadingStateCoversHistory,
           NEW s \in SessionId, NEW b \in Book, NEW off \in Offset, Begin(s, b, off)
    PROVE  ReadingStateCoversHistory'
  <1>1. TypeOK /\ now \in Time
    BY DEF Ledger, TypeOK
  <1>2. /\ \A c \in Book : readAt[c] <= readAt'[c] /\ (c # b => readAt'[c] = readAt[c])
        /\ now <= readAt'[b]
    BY <1>1, Advanced DEF Begin
  <1>3. \A c \in Book : readAt'[c] # NoRow => c \in books'
    BY <1>2 DEF Begin, ReadingStateCoversHistory
  <1>4. ASSUME NEW t \in SessionId, Exists(t)', sessions'[t].linked
        PROVE  readAt'[sessions'[t].book] >= sessions'[t].last
    <2>1. CASE t = s
      <3>1. sessions'[t].book = b /\ sessions'[t].last = now
        BY <1>1, <2>1 DEF Begin, EndedSessions
      <3>2. QED
        BY <1>1, <1>2, <3>1 DEF Begin, TypeOK, Time
    <2>2. CASE t # s
      <3>1. sessions'[t] = EndedSessions[t]
        BY <2>2 DEF Begin, EndedSessions
      <3>2. /\ Exists(t) /\ sessions[t].linked /\ sessions[t] \in SessionRow
            /\ sessions'[t].book = sessions[t].book /\ sessions'[t].last = sessions[t].last
        BY <1>1, <1>4, <3>1, EndedRows DEF Exists, TypeOK
      <3>3. /\ readAt[sessions[t].book] >= sessions[t].last
            /\ sessions[t].last \in Int /\ sessions[t].book \in Book
        BY <3>2 DEF ReadingStateCoversHistory, SessionRow, Time
      <3>4. /\ readAt[sessions[t].book] \in Int
            /\ readAt'[sessions[t].book] \in Int
        BY <1>1, <3>3, Advanced DEF Begin
      <3>5. QED
        BY <1>2, <3>2, <3>3, <3>4
    <2>3. QED
      BY <2>1, <2>2
  <1>5. QED
    BY <1>3, <1>4 DEF ReadingStateCoversHistory

LEMMA CoversObserve ==
    ASSUME Ledger, ReadingStateCoversHistory,
           NEW s \in SessionId, NEW q \in 1..MaxSeq, NEW st \in ActivityState,
           NEW off \in Offset, Observe(s, q, st, off)
    PROVE  ReadingStateCoversHistory'
  <1>. DEFINE at == AcceptedAt(s)
  <1>1. TypeOK /\ sessions[s] \in SessionRow /\ Exists(s)
    BY DEF Ledger, TypeOK, Observe, Live, Exists, ActivityState
  <1>2. at \in Time /\ sessions[s].last \in Time /\ sessions[s].book \in Book
    BY <1>1 DEF TypeOK, SessionRow, AcceptedAt, MaxOf, Time
  <1>3. /\ sessions'[s].book = sessions[s].book /\ sessions'[s].linked = sessions[s].linked
        /\ sessions'[s].last = at
        /\ \A t \in SessionId : t # s => sessions'[t] = sessions[t]
    BY <1>1 DEF Observe, TypeOK, SessionRow
  <1>4. \A c \in Book : /\ readAt'[c] >= readAt[c]
                        /\ readAt'[c] # readAt[c] =>
                              sessions[s].linked /\ c = sessions[s].book
    BY <1>1, <1>2, MaxOfBounds DEF Observe, AdvancedReadAt, TypeOK, Time, NoRow
  <1>5. sessions[s].linked => readAt'[sessions[s].book] >= at
    BY <1>1, <1>2, MaxOfBounds DEF Observe, AdvancedReadAt, TypeOK, Time, NoRow
  <1>6. sessions[s].linked => sessions[s].book \in books
    BY <1>1, <1>2 DEF ReadingStateCoversHistory, Time, NoRow
  <1>7. \A c \in Book : readAt'[c] # NoRow => c \in books'
    BY <1>4, <1>6 DEF ReadingStateCoversHistory, Observe
  <1>8. ASSUME NEW t \in SessionId, Exists(t)', sessions'[t].linked
        PROVE  readAt'[sessions'[t].book] >= sessions'[t].last
    <2>1. CASE t = s
      BY <1>3, <1>5, <1>8, <2>1
    <2>2. CASE t # s
      <3>1. sessions'[t] = sessions[t] /\ Exists(t) /\ sessions[t] \in SessionRow
        BY <1>1, <1>3, <1>8, <2>2 DEF Exists, TypeOK
      <3>2. /\ readAt[sessions[t].book] >= sessions[t].last
            /\ sessions[t].last \in Int /\ sessions[t].book \in Book
        BY <1>8, <3>1 DEF ReadingStateCoversHistory, SessionRow, Time
      <3>3. readAt[sessions[t].book] \in Int /\ readAt'[sessions[t].book] \in Int
        BY <1>1, <1>2, <3>2, MaxOfBounds DEF TypeOK, Time, NoRow, Observe, AdvancedReadAt
      <3>4. QED
        BY <1>4, <3>1, <3>2, <3>3
    <2>3. QED
      BY <2>1, <2>2
  <1>9. QED
    BY <1>7, <1>8 DEF ReadingStateCoversHistory

\* The other steps that write a row of either table.
LEMMA CoversOther ==
    ASSUME Ledger, ReadingStateCoversHistory,
           \/ Recover
           \/ Erasing
           \/ \E b \in Book : SaveProgress(b) \/ DeleteBook(b)
           \/ UNCHANGED <<books, readAt, sessions>>
    PROVE  ReadingStateCoversHistory'
  <1>1. TypeOK
    BY DEF Ledger
  <1>2. CASE Recover
    <2>1. \A s \in SessionId :
             /\ Exists(s)' <=> Exists(s)
             /\ sessions'[s].linked = sessions[s].linked
             /\ sessions'[s].book = sessions[s].book
             /\ sessions'[s].last = sessions[s].last
      BY <1>1, <1>2, EndedRows DEF Recover, Exists
    <2>2. QED
      BY <1>2, <2>1 DEF Recover, ReadingStateCoversHistory
  <1>3. CASE Erasing
    <2>1. NoSession("deleted").state \notin ActivityState
      BY BlankRow DEF ActivityState, LiveState
    <2>2. \A s \in SessionId : Exists(s)' => Exists(s) /\ sessions'[s] = sessions[s]
      BY <1>3, <2>1 DEF Erasing, Exists
    <2>3. QED
      BY <1>3, <2>2 DEF Erasing, ReadingStateCoversHistory
  <1>4. ASSUME NEW b \in Book, SaveProgress(b)
        PROVE  ReadingStateCoversHistory'
    <2>1. \A c \in Book : /\ readAt'[c] >= readAt[c]
                          /\ readAt[c] \in Int /\ readAt'[c] \in Int
                          /\ readAt'[c] # readAt[c] => c = b
      <3>1. now \in Time
        BY <1>1 DEF TypeOK
      <3>2. QED
        BY <1>1, <1>4, <3>1, Advanced DEF SaveProgress
    <2>2. \A s \in SessionId : sessions[s].last \in Int /\ sessions[s].book \in Book
      BY <1>1 DEF TypeOK, SessionRow, Time
    <2>3. ASSUME NEW s \in SessionId, Exists(s)', sessions'[s].linked
          PROVE  readAt'[sessions'[s].book] >= sessions'[s].last
      <3>1. sessions'[s] = sessions[s] /\ readAt[sessions[s].book] >= sessions[s].last
        BY <1>4, <2>3 DEF SaveProgress, ReadingStateCoversHistory, Exists
      <3>2. QED
        BY <2>1, <2>2, <3>1
    <2>4. \A c \in Book : readAt'[c] # NoRow => c \in books'
      BY <1>4, <2>1 DEF SaveProgress, ReadingStateCoversHistory
    <2>5. QED
      BY <2>3, <2>4 DEF ReadingStateCoversHistory
  <1>5. ASSUME NEW b \in Book, DeleteBook(b)
        PROVE  ReadingStateCoversHistory'
    <2>1. \A c \in Book : readAt'[c] = IF c = b THEN NoRow ELSE readAt[c]
      BY <1>1, <1>5 DEF DeleteBook, TypeOK
    <2>2. \A s \in SessionId :
             /\ Exists(s)' <=> Exists(s)
             /\ sessions'[s].last = sessions[s].last
             /\ sessions'[s].book = sessions[s].book /\ sessions[s].book \in Book
             /\ sessions'[s].linked => sessions[s].linked /\ sessions[s].book # b
      BY <1>1, <1>5 DEF DeleteBook, TypeOK, SessionRow, Exists
    <2>3. QED
      BY <1>5, <2>1, <2>2 DEF DeleteBook, ReadingStateCoversHistory
  <1>6. CASE UNCHANGED <<books, readAt, sessions>>
    BY <1>6 DEF ReadingStateCoversHistory, Exists
  <1>7. QED
    BY <1>2, <1>3, <1>4, <1>5, <1>6

(***************************************************************************)
(* The continue-reading state never lags the ledger and never names a book *)
(* that is gone.                                                           *)
(***************************************************************************)
THEOREM ReadingStateCorrect == Spec => []ReadingStateCoversHistory
  <1>1. Init => ReadingStateCoversHistory
    <2>1. Init => \A s \in SessionId : sessions[s].state = "unused"
      BY BlankRow DEF Init
    <2>2. QED
      BY <2>1 DEF Init, ReadingStateCoversHistory, Exists, ActivityState, LiveState
  <1>2. Ledger /\ ReadingStateCoversHistory /\ [Next]_vars => ReadingStateCoversHistory'
    BY CoversBegin, CoversObserve, CoversOther, DeletionsErase DEF Next, vars, Tick
  <1>3. QED
    BY <1>1, <1>2, LedgerInvariant, PTL DEF Spec
-----------------------------------------------------------------------------
(* No instant is counted twice. *)

Before(h, g) == h.until <= g.start

\* While the clock has not been set back, nothing is observed in the future and the
\* live session began after everything the other sessions recorded.
Chronological ==
    setBacks = 0 =>
        /\ \A s \in SessionId : Exists(s) => sessions[s].last <= now
        /\ \A s \in SessionId, h \in segments :
              Live(s) /\ h.session # s => h.until <= sessions[s].started

\* The open segment of a session is its latest one.
OpenIsLatest ==
    \A g, h \in segments : g # h /\ g.session = h.session /\ g.open => Before(h, g)

Ordered == NoDoubleCounting /\ OpenIsLatest /\ Chronological

\* The rows that replace one open segment do not overlap, and the open one is last.
LEMMA ConfirmedOrdered ==
    ASSUME TypeOK, NEW s \in SessionId, NEW g \in OpenSegments(s),
           NEW st \in ActivityState, NEW off \in Offset,
           NEW at \in Int, g.until <= at,
           NEW r \in Confirmed(g, st, at, off), NEW h \in Confirmed(g, st, at, off),
           r # h
    PROVE  /\ Before(r, h) \/ Before(h, r)
           /\ r.open => Before(h, r)
  <1>. DEFINE m == NextMidnight(g.until, off)
              first(u) == [g EXCEPT !.until = u, !.open = FALSE]
              second == [session |-> g.session, date |-> LocalDate(at, off),
                         offset |-> off, start |-> m, until |-> at,
                         open |-> (st = "visible")]
              kept == [g EXCEPT !.open = FALSE]
              fresh == ZeroLength(g.session, at, off)
  <1>1. g \in Segment
    BY DEF TypeOK, OpenSegments, SegmentsOf
  <1>2. g.start \in Int /\ g.until \in Int /\ m \in Int
    <2>1. g.start \in Int /\ g.until \in Int /\ off \in Int
      BY <1>1 DEF Segment, Time
    <2>2. QED
      BY <2>1, Midnight
  <1>3. /\ first(m).until = m /\ ~first(m).open
        /\ kept.until = g.until /\ ~kept.open
    BY <1>1 DEF Segment
  <1>4. second.start = m /\ fresh.start = at
    BY DEF ZeroLength
  <1>5. CASE r \in Extend(g, st, at) /\ h \in Extend(g, st, at)
    BY <1>5 DEF Extend
  <1>6. CASE r \in SplitAtMidnight(g, st, at, off) /\ h \in SplitAtMidnight(g, st, at, off)
    <2>1. \/ r = first(m) /\ h = second
          \/ r = second /\ h = first(m)
      BY <1>6 DEF SplitAtMidnight
    <2>. HIDE DEF m, first, second
    <2>2. QED
      BY <1>2, <1>3, <1>4, <2>1 DEF Before
  <1>7. CASE r \in Restart(g, st, at, off) /\ h \in Restart(g, st, at, off)
    <2>1. /\ r = kept \/ r = fresh
          /\ h = kept \/ h = fresh
      BY <1>7 DEF Restart
    <2>. HIDE DEF kept, fresh
    <2>2. QED
      BY <1>2, <1>3, <1>4, <2>1 DEF Before
  <1>8. QED
    BY <1>5, <1>6, <1>7 DEF Confirmed

\* A row of another session, or an earlier one of s, ends before any new row of s.
LEMMA ObservedAfter ==
    ASSUME Ledger, Ordered, NEW s \in SessionId, Live(s),
           NEW st \in ActivityState, NEW off \in Offset,
           NEW at, at = AcceptedAt(s),
           NEW h \in segments, ~h.open, h.session = s \/ setBacks = 0,
           NEW r,
           \/ \E g \in OpenSegments(s) : r \in Confirmed(g, st, at, off)
           \/ r = ZeroLength(s, at, off)
    PROVE  Before(h, r)
  <1>1. /\ TypeOK /\ sessions[s].last \in Int /\ sessions[s].started \in Int
        /\ now \in Int /\ h.until \in Int /\ h \in Segment
    <2>1. TypeOK /\ h \in Segment /\ sessions[s] \in SessionRow
      BY DEF Ledger, TypeOK
    <2>2. h.until \in Int
      BY <2>1 DEF Segment, Time
    <2>3. QED
      BY <2>1, <2>2 DEF TypeOK, SessionRow, Time
  <1>2. sessions[s].last <= at /\ at \in Int /\ sessions[s].started <= sessions[s].last
    BY <1>1 DEF AcceptedAt, MaxOf, Ledger, Spans
  <1>3. \/ h.session = s /\ h.until <= sessions[s].last
        \/ h.session # s /\ h.until <= sessions[s].started
    BY DEF Ledger, Spans, Ordered, Chronological
  <1>4. ASSUME NEW g \in OpenSegments(s), r \in Confirmed(g, st, at, off)
        PROVE  Before(h, r)
    <2>1. /\ g \in segments /\ g.session = s /\ g.open /\ g # h /\ g \in Segment
          /\ sessions[s].started <= g.start /\ g.start <= g.until
          /\ g.until <= sessions[s].last
      BY <1>1 DEF OpenSegments, SegmentsOf, Ledger, Spans, TypeOK
    <2>2. h.until <= g.start
      <3>1. g.start \in Int
        BY <2>1 DEF Segment, Time
      <3>2. CASE h.session = s
        BY <2>1, <3>2 DEF Ordered, OpenIsLatest, Before
      <3>3. CASE h.session # s
        BY <1>1, <1>3, <2>1, <3>1, <3>3
      <3>4. QED
        BY <3>2, <3>3
    <2>3. r \in Segment /\ g.start <= r.start
      BY <1>1, <1>4, <2>1, ConfirmedRows
    <2>4. r.start \in Int /\ g.start \in Int
      BY <2>1, <2>3 DEF Segment, Time
    <2>5. QED
      BY <1>1, <2>2, <2>3, <2>4 DEF Before
  <1>5. CASE r = ZeroLength(s, at, off)
    <2>1. r.start = at
      BY <1>5 DEF ZeroLength
    <2>2. QED
      BY <1>1, <1>2, <1>3, <2>1 DEF Before
  <1>6. QED
    BY <1>4, <1>5

LEMMA OrderedObserve ==
    ASSUME Ledger, Ordered, NEW s \in SessionId, NEW q \in 1..MaxSeq,
           NEW st \in ActivityState, NEW off \in Offset, Observe(s, q, st, off)
    PROVE  Ordered'
  <1>. DEFINE at == AcceptedAt(s)
              Kept(r) == r \in segments /\ ~r.open
              New(r) == \/ \E g \in OpenSegments(s) : r \in Confirmed(g, st, at, off)
                        \/ OpenSegments(s) = {} /\ r = ZeroLength(s, at, off)
  <1>1. /\ TypeOK /\ Live(s) /\ setBacks' = setBacks /\ now' = now
        /\ sessions[s].last \in Int /\ now \in Int
    BY DEF Observe, Ledger, TypeOK, SessionRow, Time
  <1>2. /\ sessions'[s].started = sessions[s].started /\ sessions'[s].last = at
        /\ \A t \in SessionId : t # s => sessions'[t] = sessions[t]
    BY <1>1 DEF Observe, TypeOK, SessionRow
  <1>3. at \in Int /\ sessions[s].last <= at
        /\ (sessions[s].last <= now => at = now)
    BY <1>1 DEF AcceptedAt, MaxOf
  <1>4. \A r \in segments' : Kept(r) \/ New(r)
    BY <1>1, ObservedRows DEF Observe
  <1>5. ASSUME NEW g \in OpenSegments(s)
        PROVE  /\ OpenSegments(s) = {g} /\ g.until <= at /\ g.start <= g.until
               /\ g.until <= sessions[s].last /\ g.session = s
    <2>1. g \in segments /\ g.open /\ g.session = s
      BY DEF OpenSegments, SegmentsOf
    <2>2. OpenSegments(s) = {g} /\ g.until = sessions[s].last /\ g.start <= g.until
      BY <2>1 DEF Ledger, OpenSegmentIsCurrent, Spans, OpenSegments, SegmentsOf
    <2>3. QED
      BY <1>1, <1>3, <2>1, <2>2
  <1>6. ASSUME NEW r, New(r)
        PROVE  r.session = s
    <2>1. CASE r = ZeroLength(s, at, off)
      BY <2>1 DEF ZeroLength
    <2>2. ASSUME NEW g \in OpenSegments(s), r \in Confirmed(g, st, at, off)
          PROVE  r.session = s
      BY <1>1, <1>5, <2>2, ConfirmedRows
    <2>3. QED
      BY <1>6, <2>1, <2>2
  <1>7. ASSUME NEW r, New(r), NEW h, Kept(h), h.session = s \/ setBacks = 0
        PROVE  Before(h, r)
    BY <1>1, <1>7, ObservedAfter
  <1>8. ASSUME NEW r, New(r), NEW h, New(h), r # h
        PROVE  (Before(r, h) \/ Before(h, r)) /\ (r.open => Before(h, r))
    <2>1. PICK g \in OpenSegments(s) : r \in Confirmed(g, st, at, off)
                                       /\ h \in Confirmed(g, st, at, off)
      BY <1>5, <1>8
    <2>2. QED
      BY <1>1, <1>3, <1>5, <1>8, <2>1, ConfirmedOrdered
  <1>9. NoDoubleCounting'
    <2>. SUFFICES ASSUME NEW r \in segments', NEW h \in segments', r # h,
                         r.session = h.session \/ setBacks = 0
                  PROVE  Before(r, h) \/ Before(h, r)
      BY <1>1 DEF NoDoubleCounting, Before
    <2>1. CASE Kept(r) /\ Kept(h)
      BY <2>1 DEF Ordered, NoDoubleCounting, Before
    <2>2. CASE New(r) /\ Kept(h)
      BY <1>6, <1>7, <2>2
    <2>3. CASE Kept(r) /\ New(h)
      BY <1>6, <1>7, <2>3
    <2>4. CASE New(r) /\ New(h)
      BY <1>8, <2>4
    <2>5. QED
      BY <1>4, <2>1, <2>2, <2>3, <2>4
  <1>10. OpenIsLatest'
    <2>. SUFFICES ASSUME NEW r \in segments', NEW h \in segments', r # h,
                         r.session = h.session, r.open
                  PROVE  Before(h, r)
      BY DEF OpenIsLatest
    <2>1. New(r)
      BY <1>4
    <2>2. QED
      BY <1>4, <1>6, <1>7, <1>8, <2>1
  <1>11. Chronological'
    <2>. SUFFICES ASSUME setBacks = 0
                  PROVE  /\ \A t \in SessionId : Exists(t)' => sessions'[t].last <= now
                         /\ \A t \in SessionId, h \in segments' :
                               Live(t)' /\ h.session # t => h.until <= sessions'[t].started
      BY <1>1 DEF Chronological
    <2>1. \A t \in SessionId : Exists(t)' => sessions'[t].last <= now
      <3>1. sessions[s].last <= now
        BY <1>1 DEF Ordered, Chronological, Exists, Live, ActivityState
      <3>2. QED
        BY <1>1, <1>2, <1>3, <3>1 DEF Ordered, Chronological, Exists
    <2>2. ASSUME NEW t \in SessionId, NEW h \in segments', Live(t)', h.session # t
          PROVE  h.until <= sessions'[t].started
      <3>1. t = s
        BY <1>1, <1>2, <2>2 DEF Ledger, OneLive, Live
      <3>2. Kept(h)
        BY <1>4, <1>6, <2>2, <3>1
      <3>3. QED
        BY <1>1, <1>2, <2>2, <3>1, <3>2 DEF Ordered, Chronological
    <2>3. QED
      BY <2>1, <2>2
  <1>12. QED
    BY <1>9, <1>10, <1>11 DEF Ordered

\* Closing every open segment keeps them apart.
LEMMA ClosedApart ==
    ASSUME Ledger, Ordered, NEW r \in ClosedSegments, NEW h \in ClosedSegments, r # h,
           r.session = h.session \/ setBacks = 0
    PROVE  Before(r, h) \/ Before(h, r)
  <1>1. PICK g \in segments : r = [g EXCEPT !.open = FALSE]
    BY DEF ClosedSegments
  <1>2. PICK k \in segments : h = [k EXCEPT !.open = FALSE]
    BY DEF ClosedSegments
  <1>3. g \in Segment /\ k \in Segment
    BY DEF Ledger, TypeOK
  <1>4. /\ r.session = g.session /\ r.start = g.start /\ r.until = g.until
        /\ h.session = k.session /\ h.start = k.start /\ h.until = k.until
    BY <1>1, <1>2, <1>3 DEF Segment
  <1>5. g # k
    BY <1>1, <1>2
  <1>6. QED
    BY <1>4, <1>5 DEF Ordered, NoDoubleCounting, Before

LEMMA OrderedBegin ==
    ASSUME Ledger, Ordered, NEW s \in SessionId, NEW b \in Book, NEW off \in Offset,
           Begin(s, b, off)
    PROVE  Ordered'
  <1>. DEFINE z == ZeroLength(s, now, off)
  <1>1. /\ TypeOK /\ now \in Int /\ setBacks' = setBacks /\ now' = now
        /\ z.session = s /\ z.start = now /\ z.until = now
    BY DEF Begin, Ledger, TypeOK, Time, ZeroLength
  <1>2. ASSUME NEW r \in ClosedSegments
        PROVE  /\ ~r.open /\ r.session # s
               /\ setBacks = 0 => r.until <= now
    <2>1. PICK g \in segments : /\ r.session = g.session /\ r.until = g.until
      BY <1>1, ClosedRows
    <2>2. /\ g.session \in SessionId /\ Exists(g.session)
          /\ g.until <= sessions[g.session].last
      BY <1>1 DEF Ledger, Spans, TypeOK, Segment
    <2>3. g.session # s
      BY <2>2 DEF Begin, Exists, ActivityState, LiveState
    <2>4. g.until \in Int /\ sessions[g.session].last \in Int
      <3>1. g \in Segment /\ sessions[g.session] \in SessionRow
        BY <1>1, <2>2 DEF TypeOK
      <3>2. g.until \in Int
        BY <3>1 DEF Segment, Time
      <3>3. QED
        BY <3>1, <3>2 DEF SessionRow, Time
    <2>5. setBacks = 0 => g.until <= now
      BY <1>1, <2>2, <2>4 DEF Ordered, Chronological
    <2>6. ~r.open
      BY <1>1, ClosedRows
    <2>7. QED
      BY <2>1, <2>3, <2>5, <2>6
  <1>3. \A r \in segments' : r \in ClosedSegments \/ r = z
    BY DEF Begin
  <1>4. NoDoubleCounting'
    BY <1>1, <1>2, <1>3, ClosedApart DEF NoDoubleCounting, Before
  <1>5. OpenIsLatest'
    BY <1>1, <1>2, <1>3 DEF OpenIsLatest
  <1>6. /\ sessions'[s].started = now /\ sessions'[s].last = now
        /\ \A t \in SessionId : t # s => sessions'[t] = EndedSessions[t]
    BY DEF Begin, EndedSessions
  <1>7. Chronological'
    <2>. SUFFICES ASSUME setBacks = 0
                  PROVE  /\ \A t \in SessionId : Exists(t)' => sessions'[t].last <= now
                         /\ \A t \in SessionId, h \in segments' :
                               Live(t)' /\ h.session # t => h.until <= sessions'[t].started
      BY <1>1 DEF Chronological
    <2>1. ASSUME NEW t \in SessionId, t # s
          PROVE  ~Live(t)' /\ (Exists(t)' => Exists(t)) /\ sessions'[t].last = sessions[t].last
      BY <1>1, <1>6, <2>1, EndedRows DEF Live, Exists
    <2>2. \A t \in SessionId : Exists(t)' => sessions'[t].last <= now
      BY <1>1, <1>6, <2>1 DEF Ordered, Chronological
    <2>3. \A t \in SessionId, h \in segments' :
             Live(t)' /\ h.session # t => h.until <= sessions'[t].started
      BY <1>1, <1>2, <1>3, <1>6, <2>1
    <2>4. QED
      BY <2>2, <2>3
  <1>8. QED
    BY <1>4, <1>5, <1>7 DEF Ordered

LEMMA OrderedOther ==
    ASSUME Ledger, Ordered,
           \/ Recover
           \/ Erasing
           \/ Tick
           \/ \E b \in Book : SaveProgress(b) \/ DeleteBook(b)
           \/ UNCHANGED vars
    PROVE  Ordered'
  <1>1. TypeOK
    BY DEF Ledger
  <1>2. CASE Recover
    <2>1. \A t \in SessionId :
             /\ ~Live(t)' /\ (Exists(t)' => Exists(t))
             /\ sessions'[t].last = sessions[t].last
      BY <1>1, <1>2, EndedRows DEF Recover, Live, Exists
    <2>2. NoDoubleCounting'
      BY <1>2, ClosedApart DEF Recover, NoDoubleCounting, Before
    <2>3. OpenIsLatest'
      BY <1>1, <1>2, ClosedRows DEF Recover, OpenIsLatest
    <2>4. Chronological'
      BY <1>2, <2>1 DEF Recover, Ordered, Chronological
    <2>5. QED
      BY <2>2, <2>3, <2>4 DEF Ordered
  <1>3. CASE Erasing
    <2>1. NoSession("deleted").state \notin ActivityState
      BY BlankRow DEF ActivityState, LiveState
    <2>2. \A t \in SessionId :
             /\ Exists(t)' => Exists(t) /\ sessions'[t] = sessions[t]
             /\ Live(t)' => Live(t) /\ sessions'[t] = sessions[t]
      BY <1>3, <2>1 DEF Erasing, Exists, Live, ActivityState
    <2>3. QED
      BY <1>3, <2>2 DEF Erasing, Ordered, NoDoubleCounting, OpenIsLatest, Chronological
  <1>4. CASE Tick
    <2>1. /\ UNCHANGED <<sessions, segments>>
          /\ \/ now' = now + 1 /\ setBacks' = setBacks
             \/ setBacks' # 0
      BY <1>1, <1>4 DEF Tick, TypeOK
    <2>2. now \in Int /\ \A t \in SessionId : sessions[t].last \in Int
      BY <1>1 DEF TypeOK, SessionRow, Time
    <2>3. NoDoubleCounting' /\ OpenIsLatest'
      BY <2>1 DEF Ordered, NoDoubleCounting, OpenIsLatest
    <2>4. Chronological'
      BY <2>1, <2>2 DEF Ordered, Chronological, Exists, Live
    <2>5. QED
      BY <2>3, <2>4 DEF Ordered
  <1>5. ASSUME NEW b \in Book, DeleteBook(b)
        PROVE  Ordered'
    <2>1. \A t \in SessionId :
             /\ sessions'[t].state = sessions[t].state
             /\ sessions'[t].last = sessions[t].last
             /\ sessions'[t].started = sessions[t].started
      BY <1>1, <1>5 DEF DeleteBook, TypeOK, SessionRow
    <2>2. QED
      BY <1>5, <2>1 DEF DeleteBook, Ordered, NoDoubleCounting, OpenIsLatest, Chronological,
                        Exists, Live
  <1>6. CASE UNCHANGED <<now, setBacks, sessions, segments>>
    BY <1>6 DEF Ordered, NoDoubleCounting, OpenIsLatest, Chronological, Exists, Live
  <1>7. QED
    BY <1>2, <1>3, <1>4, <1>5, <1>6 DEF SaveProgress, vars

(***************************************************************************)
(* Segments of one session never overlap, whatever the wall clock does;    *)
(* segments of different sessions do not either while it is not set back.  *)
(***************************************************************************)
THEOREM CountedOnce == Spec => []NoDoubleCounting
  <1>1. Init => Ordered
    <2>1. Init => \A t \in SessionId : sessions[t].state = "unused"
      BY BlankRow DEF Init
    <2>2. QED
      BY <2>1 DEF Init, Ordered, NoDoubleCounting, OpenIsLatest, Chronological, Exists,
                  ActivityState, LiveState
  <1>2. Ledger /\ Ordered /\ [Next]_vars => Ordered'
    BY OrderedBegin, OrderedObserve, OrderedOther, DeletionsErase DEF Next
  <1>3. Ordered => NoDoubleCounting
    BY DEF Ordered
  <1>4. QED
    BY <1>1, <1>2, <1>3, LedgerInvariant, PTL DEF Spec
-----------------------------------------------------------------------------
(* The ledger implements the session protocol. *)

LEMMA EndedStates ==
    TypeOK => [s \in SessionId |-> EndedSessions[s].state] = Sessions!AllEnded
    BY EndedRows DEF Sessions!AllEnded, Sessions!Live, Sessions!LiveState, Live, LiveState

\* Blanking the rows of the existing sessions in S is the abstract deletion of S.
LEMMA EraseImplements ==
    ASSUME TypeOK, NEW S \in SUBSET SessionId,
           \A s \in S : Exists(s),
           sessions' = [s \in SessionId |->
                           IF s \in S THEN NoSession("deleted") ELSE sessions[s]]
    PROVE  [Sessions!SessionsNext]_(Sessions!sessionVars)
  <1>1. CASE S = {}
    <2>1. sessions' = sessions
      BY <1>1 DEF TypeOK
    <2>2. QED
      BY <2>1 DEF Sessions!sessionVars
  <1>2. CASE S # {}
    <2>1. NoSession("deleted").state = "deleted" /\ NoSession("deleted").seq = 0
      BY DEF NoSession
    <2>2. Sessions!DeleteSessions(S)
      BY <1>2, <2>1 DEF Sessions!DeleteSessions, Sessions!Exists, Sessions!ActivityState,
                        Sessions!LiveState, Exists, ActivityState, LiveState
    <2>3. QED
      BY <2>2 DEF Sessions!SessionsNext
  <1>3. QED
    BY <1>1, <1>2

\* No observation was ever accepted for a session that was never begun.
UnusedIsFresh == \A s \in SessionId : sessions[s].state = "unused" => sessions[s].seq = 0

LEMMA UnusedNext == Ledger /\ UnusedIsFresh /\ [Next]_vars => UnusedIsFresh'
  <1>. SUFFICES ASSUME Ledger, UnusedIsFresh, [Next]_vars,
                       NEW t \in SessionId, sessions'[t].state = "unused"
                PROVE  sessions'[t].seq = 0
    BY DEF UnusedIsFresh
  <1>1. TypeOK /\ sessions[t] \in SessionRow
    BY DEF Ledger, TypeOK
  <1>2. ASSUME sessions'[t] = EndedSessions[t]
        PROVE  sessions'[t].seq = 0
    BY <1>1, <1>2, EndedRows DEF UnusedIsFresh
  <1>3. ASSUME NEW s \in SessionId, NEW b \in Book, NEW off \in Offset, Begin(s, b, off)
        PROVE  sessions'[t] = EndedSessions[t]
    BY <1>1, <1>3 DEF Begin, EndedSessions
  <1>4. ASSUME NEW s \in SessionId, NEW q \in 1..MaxSeq, NEW st \in ActivityState,
               NEW off \in Offset, Observe(s, q, st, off)
        PROVE  sessions'[t] = sessions[t]
    BY <1>1, <1>4 DEF Observe, TypeOK, SessionRow, ActivityState, LiveState
  <1>5. CASE Recover
    BY <1>2, <1>5 DEF Recover
  <1>6. CASE Erasing
    BY <1>6, BlankRow DEF Erasing, UnusedIsFresh
  <1>7. ASSUME NEW b \in Book, DeleteBook(b)
        PROVE  sessions'[t].seq = 0
    BY <1>1, <1>7 DEF DeleteBook, TypeOK, SessionRow, UnusedIsFresh
  <1>8. CASE UNCHANGED sessions
    BY <1>8 DEF UnusedIsFresh
  <1>9. QED
    BY <1>2, <1>3, <1>4, <1>5, <1>6, <1>7, <1>8, DeletionsErase
       DEF Next, vars, Tick, SaveProgress, UnusedIsFresh

LEMMA StepImplements ==
    ASSUME Ledger, UnusedIsFresh, [Next]_vars
    PROVE  [Sessions!SessionsNext]_(Sessions!sessionVars)
  <1>1. TypeOK /\ \A s \in SessionId : sessions[s] \in SessionRow
    BY DEF Ledger, TypeOK
  <1>2. ASSUME NEW s \in SessionId, NEW b \in Book, NEW off \in Offset, Begin(s, b, off)
        PROVE  Sessions!BeginSession(s)
    <2>1. /\ sessions[s].state = "unused"
          /\ sessions'[s].state = "visible" /\ sessions'[s].seq = 0
          /\ \A t \in SessionId : t # s => sessions'[t] = EndedSessions[t]
      BY <1>2 DEF Begin, EndedSessions
    <2>2. [t \in SessionId |-> sessions'[t].state]
            = [Sessions!AllEnded EXCEPT ![s] = "visible"]
      BY ZenonT(60), <1>1, <2>1, EndedStates DEF Sessions!AllEnded
    <2>3. ASSUME NEW t \in SessionId PROVE sessions'[t].seq = sessions[t].seq
      BY <1>1, <2>1, EndedRows DEF UnusedIsFresh
    <2>4. QED
      BY <2>1, <2>2, <2>3 DEF Sessions!BeginSession
  <1>3. ASSUME NEW s \in SessionId, NEW q \in 1..MaxSeq, NEW st \in ActivityState,
               NEW off \in Offset, Observe(s, q, st, off)
        PROVE  Sessions!AcceptObservation(s, st)
    <2>1. /\ Live(s) /\ q = sessions[s].seq + 1 /\ sessions[s].seq < MaxSeq
          /\ sessions'[s].state = st /\ sessions'[s].seq = q
          /\ \A t \in SessionId : t # s => sessions'[t] = sessions[t]
      BY <1>1, <1>3 DEF Observe, TypeOK, SessionRow
    <2>2. QED
      BY <2>1 DEF Sessions!AcceptObservation, Sessions!Live, Sessions!LiveState, Live,
                  LiveState
  <1>4. CASE Recover
    <2>1. \A s \in SessionId : sessions'[s].seq = sessions[s].seq
      BY <1>1, <1>4, EndedRows DEF Recover
    <2>2. Sessions!RecoverSessions
      BY <1>1, <1>4, <2>1, EndedStates DEF Recover, Sessions!RecoverSessions
    <2>3. QED
      BY <2>2 DEF Sessions!SessionsNext
  <1>5. ASSUME NEW s \in SessionId, DeleteSession(s)
        PROVE  [Sessions!SessionsNext]_(Sessions!sessionVars)
    <2>. DEFINE S == {s}
    <2>1. /\ S \in SUBSET SessionId /\ \A u \in S : Exists(u)
          /\ EraseSessions(S)
      BY <1>5 DEF DeleteSession
    <2>. HIDE DEF S
    <2>2. QED
      BY <1>1, <2>1, EraseImplements DEF EraseSessions
  <1>6. ASSUME NEW b \in Book, DeleteBookHistory(b)
        PROVE  [Sessions!SessionsNext]_(Sessions!sessionVars)
    <2>. DEFINE S == {s \in SessionId : Exists(s) /\ sessions[s].book = b}
    <2>1. /\ S \in SUBSET SessionId /\ \A s \in S : Exists(s)
          /\ EraseSessions(S)
      BY <1>6 DEF DeleteBookHistory
    <2>. HIDE DEF S
    <2>2. QED
      BY <1>1, <2>1, EraseImplements DEF EraseSessions
  <1>7. CASE DeleteAllHistory
    <2>. DEFINE S == {s \in SessionId : Exists(s)}
    <2>1. /\ S \in SUBSET SessionId /\ \A s \in S : Exists(s)
          /\ EraseSessions(S)
      BY <1>7 DEF DeleteAllHistory
    <2>. HIDE DEF S
    <2>2. QED
      BY <1>1, <2>1, EraseImplements DEF EraseSessions
  <1>8. ASSUME NEW d, DeleteDate(d)
        PROVE  [Sessions!SessionsNext]_(Sessions!sessionVars)
    <2>. DEFINE S == {s \in SessionId :
                         Exists(s) /\ \A g \in segments : g.session = s => g.date = d}
    <2>1. S \in SUBSET SessionId /\ \A s \in S : Exists(s)
      OBVIOUS
    <2>2. sessions' = [s \in SessionId |->
                          IF s \in S THEN NoSession("deleted") ELSE sessions[s]]
      BY <1>8 DEF DeleteDate
    <2>. HIDE DEF S
    <2>3. QED
      BY <1>1, <2>1, <2>2, EraseImplements
  <1>9. ASSUME NEW b \in Book, DeleteBook(b)
        PROVE  UNCHANGED Sessions!sessionVars
    <2>1. \A s \in SessionId : /\ sessions'[s].state = sessions[s].state
                               /\ sessions'[s].seq = sessions[s].seq
      BY <1>1, <1>9 DEF DeleteBook, TypeOK, SessionRow
    <2>2. QED
      BY <2>1 DEF Sessions!sessionVars
  <1>10. CASE UNCHANGED sessions
    BY <1>10 DEF Sessions!sessionVars
  <1>11. QED
    BY <1>2, <1>3, <1>4, <1>5, <1>6, <1>7, <1>8, <1>9, <1>10
       DEF Next, vars, Tick, SaveProgress, Sessions!SessionsNext, Sessions!ActivityState,
           Sessions!LiveState, ActivityState, LiveState

(***************************************************************************)
(* The ledger implements the session protocol its callers rely on.         *)
(***************************************************************************)
THEOREM SessionsImplemented == Spec => ImplementsSessions
  <1>1. Init => Sessions!SessionsInit
    <2>1. NoSession("unused").state = "unused" /\ NoSession("unused").seq = 0
      BY DEF NoSession
    <2>2. QED
      BY <2>1 DEF Init, Sessions!SessionsInit
  <1>2. Init => UnusedIsFresh
    BY DEF Init, UnusedIsFresh, NoSession
  <1>3. Ledger /\ UnusedIsFresh /\ [Next]_vars
            => [Sessions!SessionsNext]_(Sessions!sessionVars)
    BY StepImplements
  <1>4. QED
    BY <1>1, <1>2, <1>3, UnusedNext, LedgerInvariant, PTL DEF Spec, ImplementsSessions, Sessions!SessionsSpec

-----------------------------------------------------------------------------
(* What readers are told of the ledger: it has finitely many segments. *)

\* No row is replaced by more than two.
LEMMA ConfirmedFinite ==
    ASSUME NEW g, NEW st, NEW at, NEW off
    PROVE  IsFiniteSet(Confirmed(g, st, at, off))
  <1>1. \A a, b : IsFiniteSet({a}) /\ IsFiniteSet({a} \cup {b}) /\ IsFiniteSet({a} \cup {})
    BY FS_Singleton, FS_Union, FS_EmptySet
  <1>2. IsFiniteSet(Extend(g, st, at))
    BY <1>1 DEF Extend
  <1>3. IsFiniteSet(Restart(g, st, at, off))
    BY <1>1 DEF Restart
  <1>4. IsFiniteSet(SplitAtMidnight(g, st, at, off))
    <2> DEFINE ended == [g EXCEPT !.until = NextMidnight(g.until, off), !.open = FALSE]
               next == [session |-> g.session, date |-> LocalDate(at, off), offset |-> off,
                        start |-> NextMidnight(g.until, off), until |-> at,
                        open |-> (st = "visible")]
    <2>1. SplitAtMidnight(g, st, at, off) = {ended} \cup {next}
      BY DEF SplitAtMidnight
    <2> HIDE DEF ended, next
    <2>2. IsFiniteSet({ended}) /\ IsFiniteSet({next})
      BY FS_Singleton
    <2>3. IsFiniteSet({ended} \cup {next})
      BY <2>2, FS_Union
    <2>4. QED BY <2>1, <2>3
  <1>5. \/ Confirmed(g, st, at, off) = Extend(g, st, at)
        \/ Confirmed(g, st, at, off) = SplitAtMidnight(g, st, at, off)
        \/ Confirmed(g, st, at, off) = Restart(g, st, at, off)
    BY DEF Confirmed
  <1>6. QED BY <1>2, <1>3, <1>4, <1>5

LEMMA ObservedFinite ==
    ASSUME IsFiniteSet(segments), NEW s, NEW st, NEW at, NEW off
    PROVE  IsFiniteSet(ObservedSegments(s, st, at, off))
  <1> DEFINE S == OpenSegments(s)
             T == {Confirmed(g, st, at, off) : g \in S}
             f == [g \in S |-> Confirmed(g, st, at, off)]
  <1>1. IsFiniteSet(S) /\ IsFiniteSet(segments \ S)
    BY FS_Subset, S \subseteq segments, segments \ S \subseteq segments
       DEF OpenSegments, SegmentsOf
  <1>2. f \in Surjection(S, T)
    BY DEF Surjection
  <1>3. \A t \in T : IsFiniteSet(t)
    BY ConfirmedFinite
  <1>4. ReplacedSegments(s, st, at, off) = UNION T
    BY DEF ReplacedSegments
  <1> HIDE DEF f, T, S
  <1>5. IsFiniteSet(UNION T)
    BY <1>1, <1>2, <1>3, FS_Surjection, FS_UNION
  <1>6. IsFiniteSet(OpenedSegments(s, st, at, off))
    BY FS_Singleton, FS_EmptySet DEF OpenedSegments
  <1>7. IsFiniteSet((segments \ S) \cup UNION T)
    BY <1>1, <1>5, FS_Union
  <1>8. IsFiniteSet(((segments \ S) \cup UNION T) \cup OpenedSegments(s, st, at, off))
    BY <1>6, <1>7, FS_Union
  <1>9. QED BY <1>4, <1>8 DEF ObservedSegments, S

LEMMA ClosedFinite ==
    ASSUME IsFiniteSet(segments)
    PROVE  IsFiniteSet(ClosedSegments)
  <1> DEFINE f == [g \in segments |-> [g EXCEPT !.open = FALSE]]
  <1>1. f \in Surjection(segments, ClosedSegments)
    BY DEF Surjection, ClosedSegments
  <1> HIDE DEF f
  <1>2. QED BY <1>1, FS_Surjection

LEMMA FiniteNext == Ledger /\ IsFiniteSet(segments) /\ [Next]_vars => IsFiniteSet(segments)'
  <1> SUFFICES ASSUME Ledger, IsFiniteSet(segments), [Next]_vars
               PROVE  IsFiniteSet(segments')
    OBVIOUS
  <1>1. ASSUME NEW s \in SessionId, NEW b \in Book, NEW off \in Offset, Begin(s, b, off)
        PROVE  IsFiniteSet(segments')
    <2>1. IsFiniteSet(ClosedSegments \cup {ZeroLength(s, now, off)})
      BY ClosedFinite, FS_Singleton, FS_Union
    <2>2. QED BY <1>1, <2>1 DEF Begin
  <1>2. ASSUME NEW s \in SessionId, NEW q \in 1..MaxSeq, NEW st \in ActivityState,
               NEW off \in Offset, Observe(s, q, st, off)
        PROVE  IsFiniteSet(segments')
    BY <1>2, ObservedFinite DEF Observe
  <1>3. CASE Recover
    BY <1>3, ClosedFinite DEF Recover
  <1>4. CASE Erasing
    BY <1>4, FS_Subset DEF Erasing
  <1>5. CASE UNCHANGED segments
    BY <1>5
  <1>6. QED
    BY <1>1, <1>2, <1>3, <1>4, <1>5, DeletionsErase
       DEF Next, vars, Tick, SaveProgress, DeleteBook

-----------------------------------------------------------------------------
(* The Gregorian calendar. *)

HIDE ActivityAssumption

\* The days before the first of March of year a, and before the month of index n: month m
\* of year y has index 12 * y + m - 3, so that the year begins in March.
YearStart(a) == 365 * a + a \div 4 - a \div 100 + a \div 400 - 719468
MonthStart(n) == YearStart(n \div 12) + (153 * (n % 12) + 2) \div 5

\* A year has 365 days or 366.
LEMMA YearLength ==
    ASSUME NEW a \in Int
    PROVE  /\ YearStart(a) \in Int
           /\ YearStart(a + 1) - YearStart(a)
                = IF (a + 1) % 4 = 0 /\ ((a + 1) % 100 # 0 \/ (a + 1) % 400 = 0) THEN 366 ELSE 365
  BY SMT DEF YearStart

LEMMA CivilDate ==
    ASSUME NEW year \in Int, NEW month \in 1..12, NEW day \in Int
    PROVE  DaysFromCivil(year, month, day) = MonthStart(12 * year + month - 3) + day - 1
  BY SMT DEF DaysFromCivil, MonthStart, YearStart

LEMMA CivilMonthStart ==
    ASSUME NEW year \in Int, NEW month \in 1..12
    PROVE  DaysFromCivil(year, month, 1) = MonthStart(12 * year + month - 3)
  BY SMT DEF DaysFromCivil, MonthStart, YearStart

LEMMA MonthStartType ==
    ASSUME NEW n \in Int
    PROVE  MonthStart(n) \in Int
  BY SMT DEF MonthStart, YearStart

LEMMA MonthsOrdered ==
    ASSUME NEW n \in Int, NEW k \in Int, n < k
    PROVE  MonthStart(n) < MonthStart(k)
  BY SMT DEF MonthStart, YearStart

\* CivilFromDays: the year of the era, the day of that year and its month.
EraYear(x) == (x - x \div 1460 + x \div 36524 - x \div 146096) \div 365
EraDay(x) == x - (365 * EraYear(x) + EraYear(x) \div 4 - EraYear(x) \div 100)
EraYearLength(y) ==
    365 + (y + 1) \div 4 - y \div 4 - (y + 1) \div 100 + y \div 100 + (y + 1) \div 400

LEMMA YearOfEra ==
    ASSUME NEW x \in Int, 0 <= x, x <= 146096
    PROVE  /\ EraYear(x) \in Int /\ 0 <= EraYear(x) /\ EraYear(x) <= 399
           /\ EraDay(x) \in Int /\ 0 <= EraDay(x) /\ EraDay(x) < EraYearLength(EraYear(x))
  <1> DEFINE y == EraYear(x)
  <1>1. y \in Int /\ 0 <= y /\ y <= 399
    BY SMT DEF EraYear
  <1>2. y = (x - x \div 1460 + x \div 36524 - x \div 146096) \div 365
    BY DEF EraYear
  <1>3. EraDay(x) = x - (365 * y + y \div 4 - y \div 100)
    BY DEF EraDay
  <1> HIDE DEF y
  <1>4. 0 <= x - (365 * y + y \div 4 - y \div 100)
    BY <1>1, <1>2, SMT
  <1>5. x - (365 * y + y \div 4 - y \div 100) < EraYearLength(y)
    BY <1>1, <1>2, SMT DEF EraYearLength
  <1>6. x - (365 * y + y \div 4 - y \div 100) \in Int
    BY <1>1
  <1>7. QED BY <1>1, <1>3, <1>4, <1>5, <1>6 DEF y

LEMMA MonthOfYear ==
    ASSUME NEW doy \in Int, 0 <= doy, doy <= 365, NEW mp \in Int, mp = (5 * doy + 2) \div 153
    PROVE  /\ mp \in 0..11 /\ (153 * mp + 2) \div 5 <= doy
           /\ mp < 11 => doy < (153 * (mp + 1) + 2) \div 5
  BY SMT

LEMMA MonthStarts ==
    ASSUME NEW mp \in Int, 0 <= mp, mp <= 11, NEW A \in Int
    PROVE  /\ MonthStart(12 * A + mp) = YearStart(A) + (153 * mp + 2) \div 5
           /\ mp < 11 => MonthStart(12 * A + mp + 1) = YearStart(A) + (153 * (mp + 1) + 2) \div 5
           /\ mp = 11 => MonthStart(12 * A + mp + 1) = YearStart(A + 1)
  <1>1. (12 * A + mp) \div 12 = A /\ (12 * A + mp) % 12 = mp
    BY SMT
  <1>2. mp < 11 => (12 * A + mp + 1) \div 12 = A /\ (12 * A + mp + 1) % 12 = mp + 1
    BY SMT
  <1>3. mp = 11 => (12 * A + mp + 1) \div 12 = A + 1 /\ (12 * A + mp + 1) % 12 = 0
    BY SMT
  <1>4. YearStart(A + 1) \in Int /\ (153 * 0 + 2) \div 5 = 0
    BY YearLength, A + 1 \in Int
  <1>5. QED BY <1>1, <1>2, <1>3, <1>4, SMT DEF MonthStart

LEMMA FirstOfMonthIs ==
    ASSUME NEW year \in Int, NEW month \in 1..24
    PROVE  FirstOfMonth(year, month) = MonthStart(12 * year + month - 3)
  <1>1. CASE month \in 1..12
    <2>1. FirstOfMonth(year, month) = DaysFromCivil(year, month, 1)
      BY <1>1 DEF FirstOfMonth
    <2>2. month \in 1..12
      BY <1>1
    <2>3. DaysFromCivil(year, month, 1) = MonthStart(12 * year + month - 3)
      BY <2>2, CivilMonthStart
    <2>4. QED BY <2>1, <2>3
  <1>2. CASE month \in 13..24
    <2>1. FirstOfMonth(year, month) = DaysFromCivil(year + 1, month - 12, 1)
      BY <1>2 DEF FirstOfMonth
    <2> DEFINE y == year + 1
               m == month - 12
    <2>2. y \in Int /\ m \in 1..12 /\ 12 * y + m - 3 = 12 * year + month - 3
      BY <1>2
    <2> HIDE DEF y, m
    <2>3. DaysFromCivil(y, m, 1) = MonthStart(12 * y + m - 3)
      BY <2>2, CivilMonthStart
    <2>4. MonthStart(12 * year + month - 3) \in Int
      BY <1>2, MonthStartType
    <2>5. QED BY <2>1, <2>2, <2>3, <2>4 DEF y, m
  <1>3. QED BY <1>1, <1>2

\* The index of the month of a date.
MonthOf(c) == 12 * c.year + c.month - 3

LEMMA CivilMonth ==
    ASSUME NEW d \in Int
    PROVE  LET c == CivilFromDays(d)
           IN  /\ c.year \in Int /\ c.month \in 1..12 /\ c.day \in 1..31
               /\ c = [year |-> c.year, month |-> c.month, day |-> c.day]
               /\ MonthStart(MonthOf(c)) = d - c.day + 1
               /\ MonthStart(MonthOf(c)) <= d
               /\ d < MonthStart(MonthOf(c) + 1)
  <1> DEFINE z == d + 719468
             era == z \div 146097
             x == z - era * 146097
             yoe == EraYear(x)
             doy == EraDay(x)
             mp == (5 * doy + 2) \div 153
             month == IF mp < 10 THEN mp + 3 ELSE mp - 9
             A == yoe + era * 400
             year == A + (IF month <= 2 THEN 1 ELSE 0)
             day == doy - (153 * mp + 2) \div 5 + 1
             c == CivilFromDays(d)
  <1>1. c = [year |-> year, month |-> month, day |-> day]
    BY SMT DEF CivilFromDays, EraYear, EraDay
  <1>2. era \in Int /\ x \in Int /\ 0 <= x /\ x <= 146096 /\ d + 719468 = era * 146097 + x
    BY SMT
  <1> HIDE DEF x, era, c
  <1>3. /\ yoe \in Int /\ 0 <= yoe /\ yoe <= 399
        /\ doy \in Int /\ 0 <= doy /\ doy < EraYearLength(yoe)
    BY <1>2, YearOfEra
  <1>4. doy = x - (365 * yoe + yoe \div 4 - yoe \div 100)
    BY DEF EraDay
  <1> HIDE DEF yoe, doy
  <1>5. doy \in Int /\ 0 <= doy /\ doy <= 365
    BY <1>3, SMT DEF EraYearLength
  <1>6. mp \in Int /\ A \in Int
    BY <1>2, <1>3
  <1>7. d = YearStart(A) + doy /\ d < YearStart(A + 1) /\ YearStart(A) \in Int
    <2>1. /\ A \div 4 = yoe \div 4 + 100 * era
          /\ A \div 100 = yoe \div 100 + 4 * era
          /\ A \div 400 = era
      BY <1>2, <1>3, SMT
    <2>2. /\ (A + 1) \div 4 = (yoe + 1) \div 4 + 100 * era
          /\ (A + 1) \div 100 = (yoe + 1) \div 100 + 4 * era
          /\ (A + 1) \div 400 = (yoe + 1) \div 400 + era
      BY <1>2, <1>3, SMT
    <2>3. /\ YearStart(A) = era * 146097 + 365 * yoe + yoe \div 4 - yoe \div 100 - 719468
          /\ YearStart(A + 1) = YearStart(A) + EraYearLength(yoe)
      BY <1>2, <1>3, <2>1, <2>2, SMT DEF YearStart, EraYearLength
    <2>4. YearStart(A) \in Int /\ YearStart(A + 1) \in Int
      BY <1>6, YearLength, A + 1 \in Int
    <2>5. d = YearStart(A) + doy
      BY <1>2, <1>3, <1>4, <2>3, SMT
    <2>6. EraYearLength(yoe) \in Int
      BY <1>3, SMT DEF EraYearLength
    <2> HIDE DEF A
    <2>7. QED BY <1>3, <2>3, <2>4, <2>5, <2>6
  <1> HIDE DEF mp, A
  <1>8. /\ mp \in 0..11 /\ (153 * mp + 2) \div 5 <= doy
        /\ mp < 11 => doy < (153 * (mp + 1) + 2) \div 5
    <2>1. mp = (5 * doy + 2) \div 153
      BY DEF mp
    <2>2. QED BY <1>5, <1>6, <2>1, MonthOfYear
  <1>9. day \in 1..31
    BY <1>5, <1>8, SMT
  <1>10. /\ MonthStart(12 * A + mp) = YearStart(A) + (153 * mp + 2) \div 5
         /\ mp < 11 => MonthStart(12 * A + mp + 1) = YearStart(A) + (153 * (mp + 1) + 2) \div 5
         /\ mp = 11 => MonthStart(12 * A + mp + 1) = YearStart(A + 1)
    <2>1. mp \in Int /\ 0 <= mp /\ mp <= 11
      BY <1>8
    <2>2. A \in Int
      BY <1>6
    <2>3. QED BY <2>1, <2>2, MonthStarts
  <1>11. month \in 1..12 /\ year \in Int /\ 12 * year + month - 3 = 12 * A + mp
    BY <1>6, <1>8
  <1> HIDE DEF month, year
  <1>12. /\ MonthStart(12 * A + mp) = d - day + 1
         /\ MonthStart(12 * A + mp) <= d
         /\ d < MonthStart(12 * A + mp + 1)
    BY <1>5, <1>7, <1>8, <1>10, SMT
  <1> HIDE DEF day
  <1>13. c.year = year /\ c.month = month /\ c.day = day
    BY <1>1
  <1>14. MonthOf(c) = 12 * A + mp
    BY <1>11, <1>13 DEF MonthOf
  <1>15. /\ c.year \in Int /\ c.month \in 1..12 /\ c.day \in 1..31
         /\ c = [year |-> c.year, month |-> c.month, day |-> c.day]
    BY <1>1, <1>9, <1>11, <1>13
  <1>16. QED BY <1>12, <1>13, <1>14, <1>15 DEF c

\* A day lies between the starts of two months exactly when its date does.
LEMMA MonthsBetween ==
    ASSUME NEW d \in Int, NEW i \in Int, NEW j \in Int
    PROVE  (MonthStart(i) <= d /\ d < MonthStart(j))
              <=> (i <= MonthOf(CivilFromDays(d)) /\ MonthOf(CivilFromDays(d)) < j)
  <1> DEFINE n == MonthOf(CivilFromDays(d))
  <1>1. n \in Int /\ MonthStart(n) <= d /\ d < MonthStart(n + 1)
    BY CivilMonth DEF MonthOf
  <1> HIDE DEF n
  <1>2. /\ MonthStart(n) \in Int /\ MonthStart(n + 1) \in Int
        /\ MonthStart(i) \in Int /\ MonthStart(j) \in Int
    BY <1>1, MonthStartType
  <1>3. i <= n => MonthStart(i) <= MonthStart(n)
    BY <1>1, <1>2, MonthsOrdered
  <1>4. n + 1 <= i => MonthStart(n + 1) <= MonthStart(i)
    BY <1>1, <1>2, MonthsOrdered
  <1>5. j <= n => MonthStart(j) <= MonthStart(n)
    BY <1>1, <1>2, MonthsOrdered
  <1>6. n + 1 <= j => MonthStart(n + 1) <= MonthStart(j)
    BY <1>1, <1>2, MonthsOrdered
  <1>7. QED BY <1>1, <1>2, <1>3, <1>4, <1>5, <1>6 DEF n

\* The dates of the days: what a calendar is.
LEMMA DateOfFirst ==
    ASSUME NEW d \in Int, NEW n \in Int, MonthStart(n) <= d, d < MonthStart(n + 1)
    PROVE  LET c == CivilFromDays(d)
           IN  MonthOf(c) = n /\ c.day = d - MonthStart(n) + 1
  <1>1. MonthOf(CivilFromDays(d)) = n
    <2>1. MonthOf(CivilFromDays(d)) \in Int
      BY CivilMonth DEF MonthOf
    <2>2. n <= MonthOf(CivilFromDays(d)) /\ MonthOf(CivilFromDays(d)) < n + 1
      BY MonthsBetween, n + 1 \in Int
    <2>3. QED BY <2>1, <2>2
  <1>2. CivilFromDays(d).day \in Int
    BY CivilMonth
  <1>3. QED BY <1>1, <1>2, CivilMonth, MonthStartType

\* The days of a month.
LEMMA MonthLength ==
    ASSUME NEW year \in Int, NEW month \in 1..12
    PROVE  MonthStart(12 * year + month - 3 + 1)
              = MonthStart(12 * year + month - 3) + DaysInMonth(year, month)
  <1> DEFINE mp == IF month > 2 THEN month - 3 ELSE month + 9
             A == IF month > 2 THEN year ELSE year - 1
  <1>1. mp \in 0..11 /\ A \in Int /\ 12 * year + month - 3 = 12 * A + mp
    OBVIOUS
  <1>2. YearStart(A) \in Int
        /\ YearStart(A + 1) = YearStart(A) + (IF IsLeapYear(A + 1) THEN 366 ELSE 365)
    BY <1>1, YearLength, A + 1 \in Int DEF IsLeapYear
  <1>3. month = 2 => A + 1 = year /\ mp = 11
    OBVIOUS
  <1>4. (IF mp = 11 THEN IF IsLeapYear(A + 1) THEN 29 ELSE 28
         ELSE (153 * (mp + 1) + 2) \div 5 - (153 * mp + 2) \div 5) = DaysInMonth(year, month)
    <2>1. CASE month = 2
      BY <2>1, <1>3 DEF DaysInMonth
    <2>2. CASE month # 2
      BY <2>2, SMT DEF DaysInMonth
    <2>3. QED BY <2>1, <2>2
  <1> HIDE DEF mp, A
  <1>5. /\ MonthStart(12 * A + mp) = YearStart(A) + (153 * mp + 2) \div 5
        /\ mp < 11 => MonthStart(12 * A + mp + 1) = YearStart(A) + (153 * (mp + 1) + 2) \div 5
        /\ mp = 11 => MonthStart(12 * A + mp + 1) = YearStart(A + 1)
    <2>1. mp \in Int /\ 0 <= mp /\ mp <= 11
      BY <1>1
    <2>2. A \in Int
      BY <1>1
    <2>3. QED BY <2>1, <2>2, MonthStarts
  <1>6. CASE mp = 11
    BY <1>1, <1>2, <1>4, <1>5, <1>6, SMT
  <1>7. CASE mp # 11
    BY <1>1, <1>2, <1>4, <1>5, <1>7, SMT
  <1>8. QED BY <1>6, <1>7

\* A date is known by the index of its month and its day.
LEMMA SameDate ==
    ASSUME NEW d \in Int, NEW e, e = [year |-> e.year, month |-> e.month, day |-> e.day],
           e.year \in Int, e.month \in 1..12,
           MonthOf(CivilFromDays(d)) = MonthOf(e), CivilFromDays(d).day = e.day
    PROVE  CivilFromDays(d) = e
  <1> DEFINE c == CivilFromDays(d)
  <1>1. /\ c.year \in Int /\ c.month \in 1..12
        /\ c = [year |-> c.year, month |-> c.month, day |-> c.day]
    BY CivilMonth
  <1>2. 12 * c.year + c.month - 3 = 12 * e.year + e.month - 3
    BY DEF MonthOf
  <1>3. c.day = e.day
    OBVIOUS
  <1> HIDE DEF c
  <1>4. c.year = e.year /\ c.month = e.month
    BY <1>1, <1>2
  <1>5. c = e
    BY <1>1, <1>3, <1>4
  <1>6. QED BY <1>5 DEF c

\* Today's date is day c.day of a month that has that many days.
LEMMA DayOfMonth ==
    ASSUME NEW d \in Int
    PROVE  LET c == CivilFromDays(d)
           IN  /\ c.day <= DaysInMonth(c.year, c.month)
               /\ DaysFromCivil(c.year, c.month, c.day) = d
               /\ d + 1 - MonthStart(MonthOf(c)) = c.day
               /\ MonthStart(MonthOf(c) + 1) = d - c.day + 1 + DaysInMonth(c.year, c.month)
  <1> DEFINE c == CivilFromDays(d)
             y == c.year
             m == c.month
  <1>1. /\ y \in Int /\ m \in 1..12 /\ c.day \in 1..31
        /\ MonthStart(MonthOf(c)) = d - c.day + 1
        /\ d < MonthStart(MonthOf(c) + 1)
        /\ MonthOf(c) = 12 * y + m - 3
    BY CivilMonth DEF MonthOf
  <1> HIDE DEF c, y, m
  <1>2. DaysInMonth(y, m) \in Int
    BY <1>1 DEF DaysInMonth
  <1>3. MonthStart(MonthOf(c) + 1) = d - c.day + 1 + DaysInMonth(y, m)
    BY <1>1, MonthLength
  <1>4. DaysFromCivil(y, m, c.day) = MonthStart(12 * y + m - 3) + c.day - 1
    <2>1. y \in Int
      BY <1>1
    <2>2. m \in 1..12
      BY <1>1
    <2>3. c.day \in Int
      BY <1>1
    <2>4. QED BY <2>1, <2>2, <2>3, CivilDate
  <1>5. c.day <= DaysInMonth(y, m) /\ DaysFromCivil(y, m, c.day) = d
    BY <1>1, <1>2, <1>3, <1>4
  <1>6. d + 1 - MonthStart(MonthOf(c)) = c.day
    BY <1>1
  <1>7. QED BY <1>3, <1>5, <1>6 DEF c, y, m

LEMMA NextDate ==
    ASSUME NEW d \in Int
    PROVE  CivilFromDays(d + 1) = Tomorrow(CivilFromDays(d))
  <1> DEFINE c == CivilFromDays(d)
             n == MonthOf(c)
             length == DaysInMonth(c.year, c.month)
  <1>1. /\ c.year \in Int /\ c.month \in 1..12 /\ c.day \in 1..31
        /\ c = [year |-> c.year, month |-> c.month, day |-> c.day]
        /\ n = 12 * c.year + c.month - 3 /\ n \in Int
        /\ MonthStart(n) = d - c.day + 1
    BY CivilMonth DEF MonthOf
  <1>2. c.day <= length /\ MonthStart(n + 1) = d - c.day + 1 + length
    BY DayOfMonth
  <1>3. length \in Int
    <2> HIDE DEF c
    <2> QED BY <1>1 DEF DaysInMonth
  <1> DEFINE e == Tomorrow(c)
  <1> HIDE DEF c, n, length
  <1>4. CASE c.day < length
    <2>1. e = [year |-> c.year, month |-> c.month, day |-> c.day + 1]
      BY <1>1, <1>4 DEF Tomorrow, length
    <2>2. MonthStart(n) <= d + 1 /\ d + 1 < MonthStart(n + 1) /\ d + 1 \in Int
      BY <1>1, <1>2, <1>3, <1>4
    <2>3. /\ MonthOf(CivilFromDays(d + 1)) = n
          /\ CivilFromDays(d + 1).day = d + 1 - MonthStart(n) + 1
      BY <1>1, <2>2, DateOfFirst
    <2> HIDE DEF e
    <2>4. /\ e = [year |-> e.year, month |-> e.month, day |-> e.day]
          /\ e.year \in Int /\ e.month \in 1..12
          /\ MonthOf(CivilFromDays(d + 1)) = MonthOf(e) /\ CivilFromDays(d + 1).day = e.day
      BY <1>1, <2>1, <2>3 DEF MonthOf
    <2>5. QED BY <2>2, <2>4, SameDate DEF e, c
  <1>5. CASE c.day = length
    <2>1. MonthStart(n + 1) = d + 1 /\ d + 1 \in Int /\ n + 1 \in Int
      BY <1>1, <1>2, <1>3, <1>5
    <2>2. d + 1 < MonthStart(n + 1 + 1)
      BY <2>1, MonthsOrdered, n + 1 + 1 \in Int, n + 1 < n + 1 + 1
    <2>3. MonthOf(CivilFromDays(d + 1)) = n + 1 /\ CivilFromDays(d + 1).day = 1
      <3>1. /\ MonthOf(CivilFromDays(d + 1)) = n + 1
            /\ CivilFromDays(d + 1).day = d + 1 - MonthStart(n + 1) + 1
        BY <2>1, <2>2, DateOfFirst
      <3>2. QED BY <2>1, <3>1
    <2>4. \/ c.month < 12 /\ e = [year |-> c.year, month |-> c.month + 1, day |-> 1]
          \/ c.month = 12 /\ e = [year |-> c.year + 1, month |-> 1, day |-> 1]
      <3>1. CASE c.month < 12
        <4>1. e = [c EXCEPT !.month = @ + 1, !.day = 1]
          BY <1>1, <1>3, <1>5, <3>1 DEF Tomorrow, length
        <4>2. QED BY <1>1, <3>1, <4>1
      <3>2. CASE c.month = 12
        BY <1>1, <1>3, <1>5, <3>2 DEF Tomorrow, length
      <3>3. QED BY <1>1, <3>1, <3>2
    <2> HIDE DEF e
    <2>5. /\ e = [year |-> e.year, month |-> e.month, day |-> e.day]
          /\ e.year \in Int /\ e.month \in 1..12
          /\ e.day = 1 /\ MonthOf(e) = n + 1
      BY <1>1, <2>4 DEF MonthOf
    <2>6. QED BY <2>1, <2>3, <2>5, SameDate DEF e, c
  <1>6. QED BY <1>1, <1>2, <1>3, <1>4, <1>5

(***************************************************************************)
(* The two conversions of dates agree with the calendar and with each      *)
(* other on every day of the years 1 to 9999.                              *)
(***************************************************************************)
THEOREM CalendarCorrect ==
    /\ CalendarOn(DaysFromCivil(1, 1, 1)..DaysFromCivil(LastYear, 12, 31))
    /\ \A year \in Int, month \in 1..12 : \A day \in 1..DaysInMonth(year, month) :
          CivilFromDays(DaysFromCivil(year, month, day))
             = [year |-> year, month |-> month, day |-> day]
  <1>1. CivilFromDays(0) = [year |-> 1970, month |-> 1, day |-> 1]
    <2> DEFINE e == [year |-> 1970, month |-> 1, day |-> 1]
    <2>1. MonthStart(23638) = 0 /\ 0 < MonthStart(23638 + 1)
      BY SMT DEF MonthStart, YearStart
    <2>2. MonthOf(CivilFromDays(0)) = 23638 /\ CivilFromDays(0).day = 0 - 0 + 1
      BY <2>1, DateOfFirst, 0 \in Int, 23638 \in Int
    <2>3. /\ e = [year |-> e.year, month |-> e.month, day |-> e.day]
          /\ e.year \in Int /\ e.month \in 1..12
          /\ MonthOf(CivilFromDays(0)) = MonthOf(e) /\ CivilFromDays(0).day = e.day
      BY <2>2 DEF MonthOf
    <2> HIDE DEF e
    <2>4. CivilFromDays(0) = e
      BY <2>3, SameDate, 0 \in Int
    <2>5. QED BY <2>4 DEF e
  <1>2. ASSUME NEW n \in DaysFromCivil(1, 1, 1)..DaysFromCivil(LastYear, 12, 31)
        PROVE  LET c == CivilFromDays(n)
               IN  /\ IsDate(c)
                   /\ DaysFromCivil(c.year, c.month, c.day) = n
                   /\ CivilFromDays(n + 1) = Tomorrow(c)
    <2> DEFINE c == CivilFromDays(n)
    <2>0. LastYear = 9999
      BY DEF LastYear
    <2>1. /\ DaysFromCivil(1, 1, 1) = MonthStart(10)
          /\ DaysFromCivil(LastYear, 12, 31) = MonthStart(119998) - 1
      <3>1. DaysFromCivil(1, 1, 1) = MonthStart(12 * 1 + 1 - 3)
        BY CivilMonthStart, 1 \in Int, 1 \in 1..12
      <3>2. DaysFromCivil(LastYear, 12, 31) = MonthStart(12 * LastYear + 12 - 3) + 31 - 1
        BY CivilDate, <2>0, LastYear \in Int, 12 \in 1..12, 31 \in Int
      <3>3. /\ MonthStart(10) = -719162
            /\ MonthStart(119997) = 2932866
            /\ MonthStart(119998) = 2932897
        BY SMT DEF MonthStart, YearStart
      <3>4. 12 * 1 + 1 - 3 = 10 /\ 12 * LastYear + 12 - 3 = 119997
        BY <2>0
      <3>5. QED BY <3>1, <3>2, <3>3, <3>4
    <2>2. n \in Int /\ MonthStart(10) <= n /\ n < MonthStart(119998)
      BY <2>1, MonthStartType
    <2>3. 10 <= MonthOf(c) /\ MonthOf(c) < 119998
      BY <2>2, MonthsBetween
    <2>4. /\ c.year \in Int /\ c.month \in 1..12 /\ c.day \in 1..31
          /\ MonthOf(c) = 12 * c.year + c.month - 3
      BY <2>2, CivilMonth DEF MonthOf
    <2>5. c.day <= DaysInMonth(c.year, c.month) /\ DaysFromCivil(c.year, c.month, c.day) = n
      BY <2>2, DayOfMonth
    <2>6. CivilFromDays(n + 1) = Tomorrow(c)
      BY <2>2, NextDate
    <2> HIDE DEF c
    <2>7. c.year \in 1..LastYear
      <3> DEFINE y == c.year
                 m == c.month
      <3>1. y \in Int /\ m \in 1..12 /\ 10 <= 12 * y + m - 3 /\ 12 * y + m - 3 < 119998
        BY <2>3, <2>4
      <3> HIDE DEF y, m
      <3>2. LastYear \in Int /\ 1 <= y /\ y <= LastYear
        BY <2>0, <3>1
      <3>3. QED BY <3>1, <3>2 DEF y
    <2>8. c.day \in 1..DaysInMonth(c.year, c.month)
      <3>1. DaysInMonth(c.year, c.month) \in Int
        BY <2>4 DEF DaysInMonth
      <3>2. QED BY <2>4, <2>5, <3>1
    <2>9. IsDate(c)
      BY <2>4, <2>7, <2>8 DEF IsDate
    <2>10. QED BY <2>5, <2>6, <2>9 DEF c
  <1>3. ASSUME NEW year, NEW month, NEW day,
               year \in Int, month \in 1..12, day \in 1..DaysInMonth(year, month)
        PROVE  CivilFromDays(DaysFromCivil(year, month, day))
                  = [year |-> year, month |-> month, day |-> day]
    <2> DEFINE n == 12 * year + month - 3
               d == DaysFromCivil(year, month, day)
    <2>1. year \in Int /\ month \in 1..12
      BY <1>3
    <2>2. DaysInMonth(year, month) \in Int
      BY <2>1 DEF DaysInMonth
    <2>3. day \in Int /\ 1 <= day /\ day <= DaysInMonth(year, month)
      BY <1>3, <2>2
    <2>4. d = MonthStart(n) + day - 1
      BY <2>1, <2>3, CivilDate
    <2>5. MonthStart(n + 1) = MonthStart(n) + DaysInMonth(year, month)
      BY <2>1, MonthLength
    <2>6. n \in Int /\ MonthStart(n) \in Int
      BY <2>1, MonthStartType
    <2> HIDE DEF n, d
    <2>7. d \in Int /\ MonthStart(n) <= d /\ d < MonthStart(n + 1) /\ d - MonthStart(n) + 1 = day
      BY <2>2, <2>3, <2>4, <2>5, <2>6
    <2>8. MonthOf(CivilFromDays(d)) = n /\ CivilFromDays(d).day = day
      BY <2>6, <2>7, DateOfFirst
    <2>9. CivilFromDays(d) = [year |-> year, month |-> month, day |-> day]
      <3> DEFINE e == [year |-> year, month |-> month, day |-> day]
      <3>1. /\ e = [year |-> e.year, month |-> e.month, day |-> e.day]
            /\ e.year \in Int /\ e.month \in 1..12
            /\ MonthOf(e) = n /\ e.day = day
        BY <2>1 DEF MonthOf, n
      <3> HIDE DEF e
      <3>2. CivilFromDays(d) = e
        BY <2>7, <2>8, <3>1, SameDate
      <3>3. QED BY <3>2 DEF e
    <2>10. QED BY <2>9 DEF d
  <1>4. CalendarOn(DaysFromCivil(1, 1, 1)..DaysFromCivil(LastYear, 12, 31))
    <2> DEFINE valid == DaysFromCivil(1, 1, 1)..DaysFromCivil(LastYear, 12, 31)
    <2>1. \A n \in valid :
             /\ IsDate(CivilFromDays(n))
             /\ DaysFromCivil(CivilFromDays(n).year, CivilFromDays(n).month, CivilFromDays(n).day) = n
             /\ CivilFromDays(n + 1) = Tomorrow(CivilFromDays(n))
      BY <1>2
    <2> HIDE DEF valid
    <2>2. CalendarOn(valid)
      BY <1>1, <2>1 DEF CalendarOn
    <2>3. QED BY <2>2 DEF valid
  <1>5. \A year \in Int, month \in 1..12 : \A day \in 1..DaysInMonth(year, month) :
           CivilFromDays(DaysFromCivil(year, month, day))
              = [year |-> year, month |-> month, day |-> day]
    <2> TAKE year \in Int, month \in 1..12
    <2> TAKE day \in 1..DaysInMonth(year, month)
    <2>1. QED BY <1>3
  <1>6. QED BY <1>4, <1>5

-----------------------------------------------------------------------------
(* The reports. *)

\* The segments with reading time, and those of a day.
Counted == {g \in segments : g.until > g.start}
CountedOn(d) == {g \in Counted : Day(g) = d}

\* What the reports need of the ledger.
Reported ==
    /\ TypeOK
    /\ IsFiniteSet(segments)
    /\ SegmentWithinItsDay

LEMMA DayOfInstant ==
    ASSUME NEW t \in 0..MaxTime, NEW off \in Offset
    PROVE  Epoch + LocalDate(t, off) \in Days
  BY SMT DEF Days

LEMMA CountedSegments ==
    ASSUME Reported
    PROVE  /\ IsFiniteSet(Counted)
           /\ \A g \in Counted :
                 /\ g.start \in Int /\ g.until \in Int /\ g.offset \in Int /\ g.start < g.until
                 /\ Duration(g) \in Nat /\ Duration(g) = g.until - g.start
                 /\ Day(g) \in Int /\ Day(g) \in Days
                 /\ (Day(g) - Epoch) * DayLen <= g.start + g.offset
                 /\ g.until + g.offset <= (Day(g) - Epoch) * DayLen + DayLen
  <1>1. IsFiniteSet(Counted)
    BY FS_Subset DEF Counted, Reported
  <1>2. ASSUME NEW g \in Counted
        PROVE  /\ g.start \in Int /\ g.until \in Int /\ g.offset \in Int /\ g.start < g.until
               /\ Duration(g) \in Nat /\ Duration(g) = g.until - g.start
               /\ Day(g) \in Int /\ Day(g) \in Days
               /\ (Day(g) - Epoch) * DayLen <= g.start + g.offset
               /\ g.until + g.offset <= (Day(g) - Epoch) * DayLen + DayLen
    <2>1. g \in segments /\ g \in Segment /\ g.until > g.start
      BY DEF Counted, Reported, TypeOK
    <2>2. g.start \in Time /\ g.until \in Time /\ g.offset \in Offset /\ g.date \in Int
      BY <2>1 DEF Segment
    <2>3. g.start \in Int /\ g.until \in Int /\ g.offset \in Int /\ g.start < g.until
      <3>1. g.offset \in Int
        BY <2>2, ActivityAssumption
      <3>2. g.start \in Int /\ g.until \in Int
        BY <2>2 DEF Time
      <3>3. QED BY <2>1, <3>1, <3>2
    <2>4. Duration(g) \in Nat /\ Duration(g) = g.until - g.start
      BY <2>3 DEF Duration
    <2>5. LocalDate(g.start, g.offset) = g.date /\ g.until <= NextMidnight(g.start, g.offset)
      BY <2>1 DEF Reported, SegmentWithinItsDay
    <2>6. Day(g) \in Int /\ Day(g) - Epoch = g.date
      BY <2>2, EpochAssumption DEF Day
    <2>7. Day(g) \in Days
      <3>1. Day(g) = Epoch + g.date
        BY <2>2, EpochAssumption DEF Day
      <3>2. g.start \in 0..MaxTime
        BY <2>2 DEF Time
      <3>3. Epoch + LocalDate(g.start, g.offset) \in Days
        BY <2>2, <3>2, DayOfInstant
      <3>4. QED BY <2>5, <3>1, <3>3
    <2>8. DayLen \in Nat \ {0}
      BY ActivityAssumption
    <2>9. /\ g.date * DayLen <= g.start + g.offset
          /\ NextMidnight(g.start, g.offset) = g.date * DayLen + DayLen - g.offset
          /\ g.date * DayLen \in Int
      <3> DEFINE u == g.start + g.offset
      <3>1. u \in Int /\ u \div DayLen = g.date
        BY <2>3, <2>5 DEF LocalDate
      <3>2. NextMidnight(g.start, g.offset) = (u \div DayLen + 1) * DayLen - g.offset
        BY DEF NextMidnight
      <3> HIDE DEF u
      <3>3. g.date * DayLen <= u /\ g.date * DayLen \in Int
        BY <2>8, <3>1, SMT
      <3>4. (g.date + 1) * DayLen = g.date * DayLen + DayLen
        BY <2>2, <2>8, SMT
      <3>5. NextMidnight(g.start, g.offset) = g.date * DayLen + DayLen - g.offset
        <4> DEFINE before == g.date * DayLen
                   after == (g.date + 1) * DayLen
        <4>1. NextMidnight(g.start, g.offset) = after - g.offset
          BY ONLY <3>1, <3>2, Zenon
        <4>2. before \in Int /\ DayLen \in Int /\ g.offset \in Int /\ after = before + DayLen
          BY <2>3, <2>8, <3>3, <3>4
        <4> HIDE DEF before, after
        <4>3. after - g.offset = before + DayLen - g.offset
          BY <4>2
        <4>4. QED BY <4>1, <4>3 DEF before
      <3>6. QED BY <3>3, <3>5 DEF u
    <2>10. g.until + g.offset <= g.date * DayLen + DayLen
      BY <2>3, <2>5, <2>8, <2>9
    <2>11. QED BY <2>3, <2>4, <2>6, <2>7, <2>9, <2>10
  <1>3. QED BY <1>1, <1>2

\* What of a segment is in an hour is all of it or nothing.
LEMMA OverlapIsHour ==
    ASSUME DayLen \in Int, NEW g, NEW d \in Int, NEW i \in Int,
           g.start \in Int, g.until \in Int, g.offset \in Int, g.start < g.until
    PROVE  Overlap(g, d, i) =
              IF /\ g.start + g.offset <= (d - Epoch) * DayLen + i
                 /\ (d - Epoch) * DayLen + i < g.until + g.offset
              THEN 1 ELSE 0
  <1> DEFINE base == (d - Epoch) * DayLen
             from == g.start + g.offset
             to == g.until + g.offset
             start == base + i
  <1>1. base \in Int /\ from \in Int /\ to \in Int /\ from < to /\ start \in Int
    BY EpochAssumption
  <1>2. Overlap(g, d, i) = MaxOf((IF to <= start + 1 THEN to ELSE start + 1) - MaxOf(from, start), 0)
    BY DEF Overlap
  <1> HIDE DEF base, from, to, start
  <1>3. MaxOf((IF to <= start + 1 THEN to ELSE start + 1) - MaxOf(from, start), 0)
          = IF from <= start /\ start < to THEN 1 ELSE 0
    BY <1>1 DEF MaxOf
  <1>4. QED BY <1>2, <1>3 DEF base, from, to, start

\* The hours of a day make up its segments.
LEMMA HoursOfDay ==
    ASSUME Reported, NEW d \in Int
    PROVE  Total([i \in 0..DayLen - 1 |-> Total([g \in CountedOn(d) |-> Overlap(g, d, i)])])
              = Sum(CountedOn(d))
  <1> DEFINE G == CountedOn(d)
             base == (d - Epoch) * DayLen
             hours == 0..DayLen - 1
             f == [g \in G |-> Duration(g)]
             hour(g, k) == g.start + g.offset + k - 1 - base
             part == [i \in hours |-> {p \in Units(f) : hour(p[1], p[2]) = i}]
             in(i) == [g \in G |-> Overlap(g, d, i)]
  <1>1. DayLen \in Nat \ {0} /\ Epoch \in Int
    BY ActivityAssumption, EpochAssumption
  <1>2. base \in Int /\ IsFiniteSet(hours)
    <2>1. base \in Int
      BY <1>1
    <2>2. 0 \in Int /\ DayLen - 1 \in Int
      BY <1>1
    <2>3. QED BY <2>1, <2>2, FS_Interval
  <1>3. IsFiniteSet(G) /\ f \in [G -> Nat]
        /\ \A g \in G : /\ g.start \in Int /\ g.until \in Int /\ g.offset \in Int /\ g.start < g.until
                        /\ f[g] = g.until - g.start
                        /\ base <= g.start + g.offset /\ g.until + g.offset <= base + DayLen
    BY CountedSegments, FS_Subset DEF CountedOn
  <1>4. \A g \in G, i \in hours : Overlap(g, d, i) =
            IF g.start + g.offset <= base + i /\ base + i < g.until + g.offset THEN 1 ELSE 0
    <2> TAKE g \in G, i \in hours
    <2>1. i \in Int /\ DayLen \in Int
      BY <1>1
    <2>2. QED BY <1>1, <1>3, <2>1, OverlapIsHour
  <1>5. Sum(G) = Total(f)
    BY DEF Sum
  <1> HIDE DEF G, base, f
  <1>6. \A p : p \in Units(f) <=> \E g \in G, k \in Nat : p = <<g, k>> /\ 1 <= k /\ k <= f[g]
    BY <1>3, UnitsArePairs
  <1>7. IsFiniteSet(Units(f))
    BY <1>3, TotalNatural
  <1>8. \A i \in hours : part[i] \subseteq Units(f) /\ IsFiniteSet(part[i])
    <2> TAKE i \in hours
    <2>1. part[i] \subseteq Units(f)
      OBVIOUS
    <2>2. QED BY <1>7, <2>1, FS_Subset
  <1>9. ASSUME NEW i \in hours PROVE Total(in(i)) = Cardinality(part[i])
    <2> DEFINE h == in(i)
               unit == [p \in part[i] |-> <<p[1], 1>>]
    <2>1. h \in [G -> Nat] /\ \A g \in G : h[g] =
            IF g.start + g.offset <= base + i /\ base + i < g.until + g.offset THEN 1 ELSE 0
      BY <1>4
    <2> HIDE DEF h
    <2>2. \A p : p \in Units(h) <=> \E g \in G, k \in Nat : p = <<g, k>> /\ 1 <= k /\ k <= h[g]
      BY <2>1, UnitsArePairs
    <2>3. \A g \in G, k \in Nat : <<g, k>> \in Units(h) <=>
            k = 1 /\ g.start + g.offset <= base + i /\ base + i < g.until + g.offset
      BY <2>1, <2>2
    <2>4. \A g \in G, k \in Nat : <<g, k>> \in part[i] <=>
            1 <= k /\ k <= g.until - g.start /\ g.start + g.offset + k - 1 = base + i
      <3> TAKE g \in G, k \in Nat
      <3>1. <<g, k>> \in part[i] <=> <<g, k>> \in Units(f) /\ hour(g, k) = i
        OBVIOUS
      <3>2. <<g, k>> \in Units(f) <=> 1 <= k /\ k <= g.until - g.start
        BY <1>3, <1>6
      <3>3. i \in Int
        BY <1>1
      <3>4. hour(g, k) = i <=> g.start + g.offset + k - 1 = base + i
        <4>1. base \in Int /\ g.start \in Int /\ g.offset \in Int
          BY <1>2, <1>3
        <4>2. QED BY <3>3, <4>1
      <3>5. QED BY <3>1, <3>2, <3>4
    <2>5. \A p \in part[i] : \E g \in G, k \in Nat : p = <<g, k>>
      BY <1>6
    <2>6. i \in Int
      BY <1>1
    <2> HIDE DEF part, hours
    <2>7. \A p \in part[i] : unit[p] \in Units(h)
      <3> TAKE p \in part[i]
      <3>1. PICK g \in G, k \in Nat : p = <<g, k>>
        BY <2>5
      <3>2. 1 <= k /\ k <= g.until - g.start /\ g.start + g.offset + k - 1 = base + i
        BY <2>4, <3>1
      <3>3. g.start + g.offset <= base + i /\ base + i < g.until + g.offset
        BY <1>2, <1>3, <2>6, <3>2
      <3>4. <<g, 1>> \in Units(h)
        BY <2>3, <3>3
      <3>5. QED BY <3>1, <3>4
    <2>8. \A p, q \in part[i] : unit[p] = unit[q] => p = q
      <3> TAKE p, q \in part[i]
      <3>1. PICK g \in G, k \in Nat : p = <<g, k>>
        BY <2>5
      <3>2. PICK e \in G, l \in Nat : q = <<e, l>>
        BY <2>5
      <3>3. g.start + g.offset + k - 1 = base + i /\ e.start + e.offset + l - 1 = base + i
        BY <2>4, <3>1, <3>2
      <3>4. g = e => k = l
        BY <1>2, <1>3, <2>6, <3>3
      <3>5. QED BY <3>1, <3>2, <3>4
    <2>9. \A q \in Units(h) : \E p \in part[i] : unit[p] = q
      <3> TAKE q \in Units(h)
      <3>1. PICK g \in G, l \in Nat : q = <<g, l>>
        BY <2>2
      <3>2. l = 1 /\ g.start + g.offset <= base + i /\ base + i < g.until + g.offset
        BY <2>3, <3>1
      <3> DEFINE k == base + i - g.start - g.offset + 1
      <3>3. k \in Nat /\ 1 <= k /\ k <= g.until - g.start /\ g.start + g.offset + k - 1 = base + i
        BY <1>2, <1>3, <2>6, <3>2
      <3> HIDE DEF k
      <3>4. <<g, k>> \in part[i]
        BY <2>4, <3>3
      <3>5. QED BY <3>1, <3>2, <3>4
    <2> HIDE DEF unit
    <2>10. unit \in [part[i] -> Units(h)]
      BY <2>7 DEF unit
    <2>11. unit \in Bijection(part[i], Units(h))
      BY <2>8, <2>9, <2>10 DEF Bijection, Injection, Surjection, IsInjective
    <2>12. IsFiniteSet(part[i])
      BY <1>8 DEF hours
    <2>13. Cardinality(Units(h)) = Cardinality(part[i])
      BY <2>11, <2>12, FS_Bijection DEF ExistsBijection
    <2>14. QED BY <2>13 DEF Total, h
  <1>10. UNION {part[i] : i \in hours} = Units(f)
    <2>1. ASSUME NEW p \in Units(f) PROVE \E i \in hours : p \in part[i]
      <3>1. PICK g \in G, k \in Nat : p = <<g, k>> /\ 1 <= k /\ k <= f[g]
        BY <1>6
      <3>2. hour(g, k) \in hours
        <4>1. /\ base \in Int /\ g.start \in Int /\ g.offset \in Int /\ g.until \in Int
              /\ DayLen \in Int /\ k \in Int /\ 1 <= k /\ k <= g.until - g.start
              /\ base <= g.start + g.offset /\ g.until + g.offset <= base + DayLen
          BY <1>1, <1>2, <1>3, <3>1
        <4>2. QED BY <4>1
      <3>3. p \in part[hour(g, k)]
        BY <3>1, <3>2
      <3>4. QED BY <3>2, <3>3
    <2>2. QED BY <1>8, <2>1
  <1>11. \A i, j \in hours : i # j => part[i] \cap part[j] = {}
    OBVIOUS
  <1>12. [i \in hours |-> Total(in(i))] = [i \in hours |-> Cardinality(part[i])]
    BY <1>9
  <1> HIDE DEF part, hours
  <1>13. Total([i \in hours |-> Cardinality(part[i])]) = Cardinality(Units(f))
    BY <1>2, <1>8, <1>10, <1>11, TotalOfParts
  <1>14. Total([i \in hours |-> Total(in(i))]) = Sum(G)
    BY <1>5, <1>12, <1>13 DEF Total
  <1>15. QED BY <1>14 DEF hours, G

\* A sum over the parts of a set.
LEMMA SumOfParts ==
    ASSUME NEW I, IsFiniteSet(I), NEW S, IsFiniteSet(S), \A g \in S : Duration(g) \in Nat,
           NEW part, \A i \in I : part[i] \subseteq S,
           \A i, j \in I : i # j => part[i] \cap part[j] = {},
           \A g \in S : \E i \in I : g \in part[i]
    PROVE  Total([i \in I |-> Sum(part[i])]) = Sum(S)
  <1> DEFINE f == [g \in S |-> Duration(g)]
             of == [i \in I |-> part[i]]
  <1>1. f \in [S -> Nat] /\ of \in [I -> SUBSET S] /\ \A i \in I : of[i] = part[i]
    OBVIOUS
  <1>2. \A i \in I : [g \in of[i] |-> f[g]] = [g \in part[i] |-> Duration(g)]
    OBVIOUS
  <1>3. [i \in I |-> Total([g \in of[i] |-> f[g]])] = [i \in I |-> Sum(part[i])]
    BY <1>2 DEF Sum
  <1>4. Total(f) = Sum(S)
    BY DEF Sum
  <1> HIDE DEF f, of
  <1>5. /\ \A i, j \in I : i # j => of[i] \cap of[j] = {}
        /\ \A g \in S : \E i \in I : g \in of[i]
    BY <1>1
  <1>6. Total([i \in I |-> Total([g \in of[i] |-> f[g]])]) = Total(f)
    BY <1>1, <1>5, TotalOfTotals
  <1>7. QED BY <1>3, <1>4, <1>6

\* The first month of the quarter of a date.
QuarterOf(c) == 12 * c.year + ((c.month - 1) \div 3) * 3 - 2

LEMMA Overviews ==
    ASSUME NEW d \in Days, d \in Int
    PROVE  LET monday == d - WeekdayFromMonday(d)
               n == MonthOf(CivilFromDays(d))
               q == QuarterOf(CivilFromDays(d))
           IN  /\ OverviewOf["day"][d] = [first |-> d, last |-> d, count |-> DayLen]
               /\ OverviewOf["week"][d] = [first |-> monday, last |-> monday + 6, count |-> 7]
               /\ OverviewOf["month"][d] =
                     [first |-> MonthStart(n), last |-> MonthStart(n + 1) - 1,
                      count |-> MonthStart(n + 1) - 1 - MonthStart(n) + 1]
               /\ OverviewOf["quarter"][d] =
                     [first |-> MonthStart(q), last |-> MonthStart(q + 3) - 1,
                      count |-> (MonthStart(q + 3) - 1 - MonthStart(q)) \div 7 + 1]
  <1> DEFINE c == CivilFromDays(d)
             quarter == ((c.month - 1) \div 3) * 3 + 1
  <1>1. \A p \in Period : OverviewOf[p][d] = Overview(p, d)
    BY DEF OverviewOf
  <1>2. c.year \in Int /\ c.month \in 1..12
    BY CivilMonth
  <1>3. /\ Overview("day", d) = [first |-> d, last |-> d, count |-> DayLen]
        /\ Overview("week", d) = [first |-> d - WeekdayFromMonday(d),
                                  last |-> d - WeekdayFromMonday(d) + 6, count |-> 7]
    BY DEF Overview
  <1>4. Overview("month", d) =
            [first |-> FirstOfMonth(c.year, c.month), last |-> FirstOfMonth(c.year, c.month + 1) - 1,
             count |-> FirstOfMonth(c.year, c.month + 1) - 1 - FirstOfMonth(c.year, c.month) + 1]
    BY DEF Overview
  <1>5. Overview("quarter", d) =
            [first |-> FirstOfMonth(c.year, quarter), last |-> FirstOfMonth(c.year, quarter + 3) - 1,
             count |-> (FirstOfMonth(c.year, quarter + 3) - 1 - FirstOfMonth(c.year, quarter)) \div 7 + 1]
    BY DEF Overview
  <1> HIDE DEF c
  <1>6. /\ c.month \in 1..24 /\ c.month + 1 \in 1..24 /\ quarter \in 1..24 /\ quarter + 3 \in 1..24
        /\ MonthOf(c) = 12 * c.year + c.month - 3
        /\ MonthOf(c) + 1 = 12 * c.year + (c.month + 1) - 3
        /\ QuarterOf(c) = 12 * c.year + quarter - 3
        /\ QuarterOf(c) + 3 = 12 * c.year + (quarter + 3) - 3
    BY <1>2 DEF MonthOf, QuarterOf
  <1> HIDE DEF quarter
  <1>7. /\ FirstOfMonth(c.year, c.month) = MonthStart(MonthOf(c))
        /\ FirstOfMonth(c.year, c.month + 1) = MonthStart(MonthOf(c) + 1)
        /\ FirstOfMonth(c.year, quarter) = MonthStart(QuarterOf(c))
        /\ FirstOfMonth(c.year, quarter + 3) = MonthStart(QuarterOf(c) + 3)
    <2>1. c.year \in Int
      BY <1>2
    <2>2. FirstOfMonth(c.year, c.month) = MonthStart(12 * c.year + c.month - 3)
      BY <1>6, <2>1, FirstOfMonthIs
    <2> DEFINE next == c.month + 1
    <2>3. FirstOfMonth(c.year, next) = MonthStart(12 * c.year + next - 3)
      <3>1. next \in 1..24
        BY <1>6
      <3> HIDE DEF next
      <3>2. QED BY <2>1, <3>1, FirstOfMonthIs
    <2>4. FirstOfMonth(c.year, quarter) = MonthStart(12 * c.year + quarter - 3)
      BY <1>6, <2>1, FirstOfMonthIs
    <2> DEFINE after == quarter + 3
    <2>5. FirstOfMonth(c.year, after) = MonthStart(12 * c.year + after - 3)
      <3>1. after \in 1..24
        BY <1>6
      <3> HIDE DEF after
      <3>2. QED BY <2>1, <3>1, FirstOfMonthIs
    <2>6. QED BY <1>6, <2>2, <2>3, <2>4, <2>5
  <1>8. {"day", "week", "month", "quarter"} \subseteq Period
    BY DEF Period
  <1>9. QED BY <1>1, <1>3, <1>4, <1>5, <1>7, <1>8 DEF c

\* The quarter, the month and the year of a day.
LEMMA QuarterSpan ==
    ASSUME NEW d \in Int, NEW e \in Int
    PROVE  LET q == QuarterOf(CivilFromDays(d))
           IN  /\ q \in Int
               /\ SameQuarter(CivilFromDays(e), CivilFromDays(d))
                     <=> MonthStart(q) <= e /\ e <= MonthStart(q + 3) - 1
  <1> DEFINE c == CivilFromDays(d)
             b == CivilFromDays(e)
             q == QuarterOf(c)
  <1>1. c.year \in Int /\ c.month \in 1..12 /\ b.year \in Int /\ b.month \in 1..12
    BY CivilMonth
  <1> HIDE DEF c, b
  <1>2. q \in Int /\ q = 12 * c.year + ((c.month - 1) \div 3) * 3 - 2
    BY <1>1 DEF QuarterOf
  <1>3. MonthOf(b) = 12 * b.year + b.month - 3 /\ MonthOf(b) \in Int
    BY <1>1 DEF MonthOf
  <1>4. SameQuarter(b, c) <=> (q <= MonthOf(b) /\ MonthOf(b) < q + 3)
    <2> HIDE DEF q
    <2>1. QED BY <1>1, <1>2, <1>3, SMT DEF SameQuarter
  <1> HIDE DEF q
  <1>5. (MonthStart(q) <= e /\ e < MonthStart(q + 3)) <=> (q <= MonthOf(b) /\ MonthOf(b) < q + 3)
    BY <1>2, MonthsBetween, q + 3 \in Int DEF b
  <1>6. MonthStart(q + 3) \in Int
    BY <1>2, MonthStartType
  <1>7. QED BY <1>2, <1>4, <1>5, <1>6 DEF q, b, c

LEMMA YearSpan ==
    ASSUME NEW d \in Int, NEW year \in Int
    PROVE  CivilFromDays(d).year = year
              <=> DaysFromCivil(year, 1, 1) <= d /\ d <= DaysFromCivil(year + 1, 1, 1) - 1
  <1> DEFINE c == CivilFromDays(d)
             n == 12 * year + 1 - 3
  <1>1. c.year \in Int /\ c.month \in 1..12 /\ MonthOf(c) = 12 * c.year + c.month - 3
    BY CivilMonth DEF MonthOf
  <1>2. DaysFromCivil(year, 1, 1) = MonthStart(n) /\ n \in Int
    BY CivilMonthStart, 1 \in 1..12
  <1>3. DaysFromCivil(year + 1, 1, 1) = MonthStart(n + 12)
    <2> DEFINE y == year + 1
    <2>1. y \in Int /\ 12 * y + 1 - 3 = n + 12
      OBVIOUS
    <2> HIDE DEF y, n
    <2>2. DaysFromCivil(y, 1, 1) = MonthStart(12 * y + 1 - 3)
      BY <2>1, CivilMonthStart, 1 \in 1..12
    <2>3. QED BY <2>1, <2>2 DEF y
  <1> HIDE DEF c
  <1>4. c.year = year <=> (n <= MonthOf(c) /\ MonthOf(c) < n + 12)
    BY <1>1
  <1> HIDE DEF n
  <1>5. (MonthStart(n) <= d /\ d < MonthStart(n + 12)) <=> (n <= MonthOf(c) /\ MonthOf(c) < n + 12)
    BY <1>2, MonthsBetween, n + 12 \in Int DEF c
  <1>6. MonthStart(n + 12) \in Int
    BY <1>2, MonthStartType
  <1>7. QED BY <1>2, <1>3, <1>4, <1>5, <1>6 DEF c

LEMMA YearsInOrder ==
    ASSUME NEW d \in Int, NEW e \in Int, d <= e
    PROVE  /\ CivilFromDays(d).year \in Int /\ CivilFromDays(e).year \in Int
           /\ CivilFromDays(d).year <= CivilFromDays(e).year
  <1> DEFINE c == CivilFromDays(d)
             b == CivilFromDays(e)
  <1>1. /\ c.year \in Int /\ c.month \in 1..12 /\ MonthOf(c) = 12 * c.year + c.month - 3
        /\ b.year \in Int /\ b.month \in 1..12 /\ MonthOf(b) = 12 * b.year + b.month - 3
    BY CivilMonth DEF MonthOf
  <1>2. /\ MonthStart(MonthOf(c)) <= d /\ e < MonthStart(MonthOf(b) + 1)
    BY CivilMonth
  <1> HIDE DEF c, b
  <1>3. MonthOf(c) \in Int /\ MonthOf(b) + 1 \in Int
    BY <1>1
  <1>4. MonthStart(MonthOf(c)) \in Int /\ MonthStart(MonthOf(b) + 1) \in Int
    BY <1>3, MonthStartType
  <1>5. MonthStart(MonthOf(c)) < MonthStart(MonthOf(b) + 1)
    BY <1>2, <1>4
  <1>6. ~(MonthOf(b) + 1 < MonthOf(c)) /\ MonthOf(b) + 1 # MonthOf(c)
    <2>1. MonthOf(b) + 1 < MonthOf(c) => MonthStart(MonthOf(b) + 1) < MonthStart(MonthOf(c))
      BY <1>3, MonthsOrdered
    <2>2. QED BY <1>4, <1>5, <2>1
  <1>7. c.year <= b.year
    BY <1>1, <1>3, <1>6
  <1>8. QED BY <1>1, <1>7 DEF c, b

LEMMA SegmentsBetween ==
    ASSUME NEW first, NEW last
    PROVE  InsightSegments(first, last) = {g \in Counted : first <= Day(g) /\ Day(g) <= last}
  BY DEF InsightSegments, Counted

\* What the day, the week and the month of a day say of it.
LEMMA DayReport ==
    ASSUME Reported, NEW d \in Days, d \in Int
    PROVE  TotalReading("day", d) = Sum(CountedOn(d))
  <1> DEFINE G == InsightSegments(d, d)
  <1>1. OverviewOf["day"][d] = [first |-> d, last |-> d, count |-> DayLen]
    BY Overviews
  <1>2. /\ OverviewOf["day"][d].first = d /\ OverviewOf["day"][d].last = d
        /\ OverviewOf["day"][d].count = DayLen
    BY <1>1
  <1>3. G = CountedOn(d)
    <2>1. G = {g \in Counted : d <= Day(g) /\ Day(g) <= d}
      BY SegmentsBetween
    <2>2. \A g \in Counted : Day(g) \in Int
      BY CountedSegments
    <2>3. \A g \in Counted : d <= Day(g) /\ Day(g) <= d <=> Day(g) = d
      BY <2>2
    <2>4. QED BY <2>1, <2>3 DEF CountedOn
  <1>4. Buckets("day", d)
          = [i \in 0..DayLen - 1 |-> Total([g \in CountedOn(d) |-> Overlap(g, d, i)])]
    BY <1>2, <1>3 DEF Buckets
  <1>5. QED BY <1>4, HoursOfDay DEF TotalReading

LEMMA BucketReport ==
    ASSUME Reported, NEW p \in {"week", "month"}, NEW d \in Int,
           NEW first \in Int, NEW last \in Int, NEW count \in Int,
           OverviewOf[p][d] = [first |-> first, last |-> last, count |-> count],
           first <= d, d <= last, d - first < count
    PROVE  Buckets(p, d)[d - first] = Sum(CountedOn(d))
  <1> DEFINE G == InsightSegments(first, last)
  <1>1. /\ OverviewOf[p][d].first = first /\ OverviewOf[p][d].last = last
        /\ OverviewOf[p][d].count = count
    OBVIOUS
  <1>2. Buckets(p, d) = [i \in 0..count - 1 |-> Sum({g \in G : Day(g) - first = i})]
    BY <1>1 DEF Buckets, BucketOf
  <1>3. d - first \in 0..count - 1
    OBVIOUS
  <1>4. {g \in G : Day(g) - first = d - first} = CountedOn(d)
    <2>1. G = {g \in Counted : first <= Day(g) /\ Day(g) <= last}
      BY SegmentsBetween
    <2>2. \A g \in Counted : Day(g) \in Int
      BY CountedSegments
    <2>3. \A g \in Counted : Day(g) - first = d - first <=> Day(g) = d
      BY <2>2
    <2> HIDE DEF G
    <2>4. QED BY <2>1, <2>3 DEF CountedOn
  <1>5. QED BY <1>2, <1>3, <1>4

LEMMA WeekReport ==
    ASSUME Reported, NEW d \in Days, d \in Int
    PROVE  Buckets("week", d)[WeekdayFromMonday(d)] = Sum(CountedOn(d))
  <1> DEFINE monday == d - WeekdayFromMonday(d)
             sunday == monday + 6
             seven == 7
  <1>1. WeekdayFromMonday(d) \in Int /\ 0 <= WeekdayFromMonday(d) /\ WeekdayFromMonday(d) <= 6
    BY DEF WeekdayFromMonday
  <1>2. OverviewOf["week"][d] = [first |-> monday, last |-> sunday, count |-> seven]
    BY Overviews
  <1>3. /\ monday \in Int /\ sunday \in Int /\ seven \in Int
        /\ monday <= d /\ d <= sunday /\ d - monday < seven
        /\ d - monday = WeekdayFromMonday(d)
    BY <1>1
  <1> HIDE DEF monday, sunday, seven
  <1>4. Buckets("week", d)[d - monday] = Sum(CountedOn(d))
    BY <1>2, <1>3, BucketReport
  <1>5. QED BY <1>3, <1>4

LEMMA MonthReport ==
    ASSUME Reported, NEW d \in Days, d \in Int
    PROVE  Buckets("month", d)[DateOf[d].day - 1] = Sum(CountedOn(d))
  <1> DEFINE c == CivilFromDays(d)
             n == MonthOf(c)
             first == MonthStart(n)
             last == MonthStart(n + 1) - 1
             count == MonthStart(n + 1) - 1 - MonthStart(n) + 1
  <1>1. DateOf[d] = c
    BY DEF DateOf
  <1>2. /\ c.year \in Int /\ c.month \in 1..12 /\ c.day \in Int
        /\ first = d - c.day + 1 /\ first <= d /\ d < MonthStart(n + 1)
    BY CivilMonth
  <1>3. n \in Int
    BY <1>2 DEF MonthOf
  <1>4. MonthStart(n) \in Int /\ MonthStart(n + 1) \in Int
    BY <1>3, MonthStartType
  <1>5. OverviewOf["month"][d] = [first |-> first, last |-> last, count |-> count]
    BY Overviews
  <1> HIDE DEF c, n
  <1>6. /\ first \in Int /\ last \in Int /\ count \in Int
        /\ first <= d /\ d <= last /\ d - first < count
        /\ d - first = c.day - 1
    BY <1>2, <1>4
  <1> HIDE DEF first, last, count
  <1>7. Buckets("month", d)[d - first] = Sum(CountedOn(d))
    BY <1>5, <1>6, BucketReport
  <1>8. QED BY <1>1, <1>6, <1>7

\* A quarter is the time of its days, whatever its weeks.
LEMMA QuarterReport ==
    ASSUME Reported, NEW d \in Days, d \in Int
    PROVE  TotalReading("quarter", d)
              = Sum({g \in Counted : SameQuarter(DateOf[Day(g)], DateOf[d])})
  <1> DEFINE q == QuarterOf(CivilFromDays(d))
             first == MonthStart(q)
             last == MonthStart(q + 3) - 1
             count == (MonthStart(q + 3) - 1 - MonthStart(q)) \div 7 + 1
             G == InsightSegments(first, last)
             weeks == 0..count - 1
             part == [i \in weeks |-> {g \in G : (Day(g) - first) \div 7 = i}]
  <1>1. OverviewOf["quarter"][d] = [first |-> first, last |-> last, count |-> count]
    BY Overviews
  <1>2. /\ OverviewOf["quarter"][d].first = first /\ OverviewOf["quarter"][d].last = last
        /\ OverviewOf["quarter"][d].count = count
    <2> HIDE DEF first, last, count
    <2> QED BY <1>1
  <1>3. q \in Int /\ first \in Int /\ last \in Int /\ count \in Int
        /\ count = (last - first) \div 7 + 1
    <2>1. q \in Int
      BY QuarterSpan
    <2> HIDE DEF q
    <2>2. MonthStart(q) \in Int /\ MonthStart(q + 3) \in Int
      BY <2>1, MonthStartType
    <2>3. QED BY <2>1, <2>2
  <1>4. Buckets("quarter", d) = [i \in weeks |-> Sum(part[i])]
    <2> HIDE DEF first, last, count
    <2>1. Buckets("quarter", d) = [i \in weeks |-> Sum({g \in G : (Day(g) - first) \div 7 = i})]
      BY <1>2 DEF Buckets, BucketOf
    <2>2. \A i \in weeks : part[i] = {g \in G : (Day(g) - first) \div 7 = i}
      OBVIOUS
    <2>3. QED BY <2>1, <2>2
  <1>5. /\ G = {g \in Counted : first <= Day(g) /\ Day(g) <= last}
        /\ IsFiniteSet(Counted)
        /\ \A g \in Counted : Duration(g) \in Nat /\ Day(g) \in Int /\ Day(g) \in Days
    BY SegmentsBetween, CountedSegments
  <1>6. IsFiniteSet(G)
    <2> HIDE DEF G
    <2>1. G \subseteq Counted
      BY <1>5
    <2>2. QED BY <1>5, <2>1, FS_Subset
  <1>7. G = {g \in Counted : SameQuarter(DateOf[Day(g)], DateOf[d])}
    <2>1. \A g \in Counted : DateOf[Day(g)] = CivilFromDays(Day(g))
      BY <1>5 DEF DateOf
    <2>2. DateOf[d] = CivilFromDays(d)
      BY DEF DateOf
    <2>3. \A g \in Counted : SameQuarter(CivilFromDays(Day(g)), CivilFromDays(d))
                                <=> first <= Day(g) /\ Day(g) <= last
      BY <1>5, QuarterSpan
    <2> HIDE DEF G, first, last
    <2>4. QED BY <1>5, <2>1, <2>2, <2>3
  <1> HIDE DEF G, first, last, count
  <1>8. \A g \in G : (Day(g) - first) \div 7 \in weeks
    <2> TAKE g \in G
    <2>1. Day(g) \in Int /\ first <= Day(g) /\ Day(g) <= last
      BY <1>5
    <2>2. QED BY <1>3, <2>1, SMT
  <1>9. \A g \in G : \E i \in weeks : g \in part[i]
    <2> TAKE g \in G
    <2>1. g \in part[(Day(g) - first) \div 7]
      BY <1>8
    <2>2. QED BY <1>8, <2>1
  <1>10. /\ \A i \in weeks : part[i] \subseteq G
         /\ \A i, j \in weeks : i # j => part[i] \cap part[j] = {}
    OBVIOUS
  <1>11. IsFiniteSet(weeks) /\ \A g \in G : Duration(g) \in Nat
    BY <1>3, <1>5, FS_Interval
  <1> HIDE DEF weeks, part
  <1>12. Total([i \in weeks |-> Sum(part[i])]) = Sum(G)
    BY <1>6, <1>9, <1>10, <1>11, SumOfParts
  <1>13. QED BY <1>4, <1>7, <1>12 DEF TotalReading

\* Of a finite set of days one is the first and one the last.
LEMMA FirstAndLast ==
    ASSUME NEW S \in SUBSET Int, IsFiniteSet(S), S # {}
    PROVE  /\ Min(S) \in S /\ \A x \in S : Min(S) <= x
           /\ Max(S) \in S /\ \A x \in S : x <= Max(S)
  <1> DEFINE up == {p \in S \X S : p[1] < p[2]}
             down == {p \in S \X S : p[1] > p[2]}
  <1>1. \A x, y \in S : (<<x, y>> \in up <=> x < y) /\ (<<x, y>> \in down <=> x > y)
    OBVIOUS
  <1>2. up \subseteq S \X S /\ down \subseteq S \X S
    OBVIOUS
  <1> HIDE DEF up, down
  <1>3. IsOrder(up, S) /\ IsOrder(down, S)
    BY <1>1, <1>2 DEF IsOrder
  <1>4. \E x \in S : \A y \in S : x <= y
    <2>1. \E x \in S : \A y \in S : y = x \/ <<x, y>> \in up
      BY <1>3, OldestOfAll
    <2>2. PICK x \in S : \A y \in S : y = x \/ <<x, y>> \in up
      BY <2>1
    <2>3. \A y \in S : x <= y
      <3> TAKE y \in S
      <3>1. x \in Int /\ y \in Int /\ (y = x \/ x < y)
        BY <1>1, <2>2
      <3>2. QED BY <3>1
    <2>4. QED BY <2>3
  <1>5. \E x \in S : \A y \in S : x >= y
    <2>1. \E x \in S : \A y \in S : y = x \/ <<x, y>> \in down
      BY <1>3, OldestOfAll
    <2>2. PICK x \in S : \A y \in S : y = x \/ <<x, y>> \in down
      BY <2>1
    <2>3. \A y \in S : x >= y
      <3> TAKE y \in S
      <3>1. x \in Int /\ y \in Int /\ (y = x \/ x > y)
        BY <1>1, <2>2
      <3>2. QED BY <3>1
    <2>4. QED BY <2>3
  <1>6. Min(S) \in S /\ \A x \in S : Min(S) <= x
    BY <1>4 DEF Min
  <1>7. Max(S) \in S /\ \A x \in S : Max(S) >= x
    BY <1>5 DEF Max
  <1>8. QED BY <1>6, <1>7

LEMMA FootprintReport ==
    ASSUME Reported, Counted # {}
    PROVE  Footprint(AllYears) =
              [reading |-> Sum(Counted), days |-> Cardinality({Day(g) : g \in Counted}),
               books |-> {sessions[g.session].book : g \in Counted}]
  <1> DEFINE dates == {Day(g) : g \in Counted}
             years == AllYears
             of == [y \in years |-> {g \in Counted : CivilFromDays(Day(g)).year = y}]
             on == [y \in years |-> {Day(g) : g \in of[y]}]
             day == [g \in Counted |-> Day(g)]
  <1>1. /\ IsFiniteSet(Counted)
        /\ \A g \in Counted : Duration(g) \in Nat /\ Day(g) \in Int /\ Day(g) \in Days
    BY CountedSegments
  <1>2. IsFiniteSet(dates) /\ dates \in SUBSET Int /\ dates # {}
    <2>1. day \in Surjection(Counted, dates)
      BY DEF Surjection
    <2> HIDE DEF day
    <2>2. IsFiniteSet(dates)
      <3> HIDE DEF dates
      <3> QED BY <1>1, <2>1, FS_Surjection
    <2>3. QED BY <1>1, <2>2
  <1>3. years = CivilFromDays(Min(dates)).year..CivilFromDays(Max(dates)).year
    <2>1. years = IF dates = {} THEN {} ELSE DateOf[Min(dates)].year..DateOf[Max(dates)].year
      BY DEF AllYears, Counted
    <2>2. Min(dates) \in dates /\ Max(dates) \in dates
      <3> HIDE DEF dates
      <3> QED BY <1>2, FirstAndLast
    <2>3. Min(dates) \in Days /\ Max(dates) \in Days
      BY <1>1, <2>2
    <2> HIDE DEF dates, years
    <2>4. QED BY <1>2, <2>1, <2>3 DEF DateOf
  <1>4. /\ IsFiniteSet(years) /\ years \subseteq Int
        /\ \A g \in Counted : CivilFromDays(Day(g)).year \in years
    <2> DEFINE first == CivilFromDays(Min(dates)).year
               last == CivilFromDays(Max(dates)).year
    <2>1. /\ Min(dates) \in Int /\ Max(dates) \in Int
          /\ \A g \in Counted : Min(dates) <= Day(g) /\ Day(g) <= Max(dates)
      <3>1. \A g \in Counted : Day(g) \in dates
        OBVIOUS
      <3> HIDE DEF dates
      <3>2. QED BY <1>2, <3>1, FirstAndLast
    <2>2. first \in Int /\ last \in Int
      BY <2>1, CivilMonth
    <2>3. ASSUME NEW g \in Counted
          PROVE  /\ CivilFromDays(Day(g)).year \in Int
                 /\ first <= CivilFromDays(Day(g)).year /\ CivilFromDays(Day(g)).year <= last
      <3>1. Day(g) \in Int /\ Min(dates) <= Day(g) /\ Day(g) <= Max(dates)
        BY <1>1, <2>1
      <3>2. QED BY <2>1, <3>1, YearsInOrder
    <2> HIDE DEF first, last, years
    <2>4. years = first..last
      BY <1>3 DEF first, last
    <2>5. IsFiniteSet(first..last)
      BY <2>2, FS_Interval
    <2>6. QED BY <2>2, <2>3, <2>4, <2>5
  <1>5. ASSUME NEW y \in years PROVE YearTotals(y) = Daily(of[y])
    <2>1. y \in Int
      BY <1>4
    <2>2. \A g \in Counted : CivilFromDays(Day(g)).year = y
              <=> DaysFromCivil(y, 1, 1) <= Day(g) /\ Day(g) <= DaysFromCivil(y + 1, 1, 1) - 1
      BY <1>1, <2>1, YearSpan
    <2>3. InsightSegments(DaysFromCivil(y, 1, 1), DaysFromCivil(y + 1, 1, 1) - 1)
            = {g \in Counted : /\ DaysFromCivil(y, 1, 1) <= Day(g)
                               /\ Day(g) <= DaysFromCivil(y + 1, 1, 1) - 1}
      BY SegmentsBetween
    <2> HIDE DEF years
    <2>4. QED BY <2>2, <2>3 DEF YearTotals
  <1>6. ASSUME NEW y \in years
        PROVE  /\ YearTotals(y).reading = Sum(of[y])
               /\ YearTotals(y).days = Cardinality(on[y])
               /\ YearTotals(y).books = {sessions[g.session].book : g \in of[y]}
    <2>1. on[y] = {Day(g) : g \in of[y]}
      OBVIOUS
    <2> HIDE DEF on, of, years
    <2>2. YearTotals(y) = [reading |-> Sum(of[y]), days |-> Cardinality(on[y]),
                           books |-> {sessions[g.session].book : g \in of[y]}]
      BY <1>5, <2>1 DEF Daily
    <2>3. QED BY <2>2
  <1>7. /\ \A y \in years : of[y] \subseteq Counted
        /\ \A y, z \in years : y # z => of[y] \cap of[z] = {}
        /\ \A g \in Counted : \E y \in years : g \in of[y]
    <2> HIDE DEF years
    <2> QED BY <1>4
  <1>8. Total([y \in years |-> YearTotals(y).reading]) = Sum(Counted)
    <2>1. [y \in years |-> YearTotals(y).reading] = [y \in years |-> Sum(of[y])]
      BY <1>6
    <2> HIDE DEF years, of
    <2>2. Total([y \in years |-> Sum(of[y])]) = Sum(Counted)
      BY <1>1, <1>4, <1>7, SumOfParts
    <2>3. QED BY <2>1, <2>2
  <1>9. Total([y \in years |-> YearTotals(y).days]) = Cardinality(dates)
    <2>1. [y \in years |-> YearTotals(y).days] = [y \in years |-> Cardinality(on[y])]
      BY <1>6
    <2>2. \A y \in years : on[y] \subseteq dates
      BY <1>7
    <2>3. ASSUME NEW y \in years, NEW z \in years, y # z PROVE on[y] \cap on[z] = {}
      <3>1. \A d \in on[y] : CivilFromDays(d).year = y
        OBVIOUS
      <3>2. \A d \in on[z] : CivilFromDays(d).year = z
        OBVIOUS
      <3> HIDE DEF on
      <3>3. QED BY <2>3, <3>1, <3>2
    <2>4. UNION {on[y] : y \in years} = dates
      <3>1. ASSUME NEW d \in dates PROVE \E y \in years : d \in on[y]
        <4>1. PICK g \in Counted : d = Day(g)
          OBVIOUS
        <4>2. PICK y \in years : g \in of[y]
          BY <1>7
        <4>3. d \in on[y]
          BY <4>1, <4>2
        <4>4. QED BY <4>3
      <3> HIDE DEF on, dates, years
      <3>2. QED BY <2>2, <3>1
    <2> HIDE DEF on, dates, years
    <2>5. \A y \in years : IsFiniteSet(on[y])
      BY <1>2, <2>2, FS_Subset
    <2>6. Total([y \in years |-> Cardinality(on[y])]) = Cardinality(UNION {on[y] : y \in years})
      BY <1>4, <2>3, <2>5, TotalOfParts
    <2>7. QED BY <2>1, <2>4, <2>6
  <1>10. UNION {YearTotals(y).books : y \in years} = {sessions[g.session].book : g \in Counted}
    <2> HIDE DEF years, of
    <2>1. ASSUME NEW b PROVE (\E y \in years : b \in YearTotals(y).books)
                                <=> \E g \in Counted : b = sessions[g.session].book
      <3>1. ASSUME NEW y \in years, b \in YearTotals(y).books
            PROVE  \E g \in Counted : b = sessions[g.session].book
        <4>1. YearTotals(y).books = {sessions[g.session].book : g \in of[y]}
          BY <1>6
        <4>2. PICK g \in of[y] : b = sessions[g.session].book
          BY <3>1, <4>1
        <4>3. g \in Counted
          BY <1>7
        <4>4. QED BY <4>2, <4>3
      <3>2. ASSUME NEW g \in Counted, b = sessions[g.session].book
            PROVE  \E y \in years : b \in YearTotals(y).books
        <4>1. PICK y \in years : g \in of[y]
          BY <1>7
        <4>2. b \in YearTotals(y).books
          BY <1>6, <3>2, <4>1
        <4>3. QED BY <4>2
      <3>3. QED BY <3>1, <3>2
    <2>2. QED BY <2>1
  <1> HIDE DEF dates
  <1>11. QED BY <1>8, <1>9, <1>10 DEF Footprint, dates

LEMMA ReportsAddUp == Reported => InsightsAddUp
  <1> DEFINE counted == {g \in segments : g.until > g.start}
             dates == {Day(g) : g \in counted}
  <1> SUFFICES ASSUME Reported, counted # {}
               PROVE  /\ \A d \in dates :
                            LET time == Sum({g \in counted : Day(g) = d})
                            IN  /\ TotalReading("day", d) = time
                                /\ Buckets("week", d)[WeekdayFromMonday(d)] = time
                                /\ Buckets("month", d)[DateOf[d].day - 1] = time
                                /\ TotalReading("quarter", d)
                                      = Sum({g \in counted : SameQuarter(DateOf[Day(g)], DateOf[d])})
                      /\ Footprint(AllYears) =
                            [reading |-> Sum(counted), days |-> Cardinality(dates),
                             books |-> {sessions[g.session].book : g \in counted}]
    BY DEF InsightsAddUp
  <1>1. counted = Counted
    BY DEF Counted
  <1>2. \A d \in dates : d \in Days /\ d \in Int
    BY <1>1, CountedSegments
  <1>3. \A d \in dates : {g \in counted : Day(g) = d} = CountedOn(d)
    BY <1>1 DEF CountedOn
  <1>4. Footprint(AllYears) =
            [reading |-> Sum(counted), days |-> Cardinality(dates),
             books |-> {sessions[g.session].book : g \in counted}]
    BY <1>1, FootprintReport
  <1>5. ASSUME NEW d \in dates
        PROVE  /\ TotalReading("day", d) = Sum({g \in counted : Day(g) = d})
               /\ Buckets("week", d)[WeekdayFromMonday(d)] = Sum({g \in counted : Day(g) = d})
               /\ Buckets("month", d)[DateOf[d].day - 1] = Sum({g \in counted : Day(g) = d})
               /\ TotalReading("quarter", d)
                     = Sum({g \in counted : SameQuarter(DateOf[Day(g)], DateOf[d])})
    <2>1. d \in Days /\ d \in Int
      BY <1>2
    <2>2. {g \in counted : Day(g) = d} = CountedOn(d)
      BY <1>3
    <2>3. {g \in counted : SameQuarter(DateOf[Day(g)], DateOf[d])}
            = {g \in Counted : SameQuarter(DateOf[Day(g)], DateOf[d])}
      BY <1>1
    <2> HIDE DEF counted, dates
    <2>4. TotalReading("day", d) = Sum(CountedOn(d))
      BY <2>1, DayReport
    <2>5. Buckets("week", d)[WeekdayFromMonday(d)] = Sum(CountedOn(d))
      BY <2>1, WeekReport
    <2>6. Buckets("month", d)[DateOf[d].day - 1] = Sum(CountedOn(d))
      BY <2>1, MonthReport
    <2>7. TotalReading("quarter", d)
            = Sum({g \in Counted : SameQuarter(DateOf[Day(g)], DateOf[d])})
      BY <2>1, QuarterReport
    <2>8. QED BY <2>2, <2>3, <2>4, <2>5, <2>6, <2>7
  <1> HIDE DEF counted, dates
  <1>6. QED BY <1>4, <1>5

(***************************************************************************)
(* Whatever is asked of the ledger, the answers agree: the hours of a day  *)
(* make up what its week and its month say of it, a quarter is the time of *)
(* its days, and the footprint of all years counts every confirmed         *)
(* instant, every day and every book once.                                 *)
(***************************************************************************)
THEOREM InsightsCorrect == Spec => []InsightsAddUp
  <1>1. Init => OnTheirDays /\ IsFiniteSet(segments)
    BY FS_EmptySet DEF Init, OnTheirDays
  <1>2. Ledger /\ OnTheirDays /\ IsFiniteSet(segments) => InsightsAddUp
    <2>1. Ledger /\ OnTheirDays /\ IsFiniteSet(segments) => Reported
      BY DEF Reported, Ledger, OnTheirDays, OnItsDay, SegmentWithinItsDay
    <2>2. QED BY <2>1, ReportsAddUp
  <1>3. QED
    BY <1>1, <1>2, OnTheirDaysNext, FiniteNext, LedgerInvariant, PTL DEF Spec

-----------------------------------------------------------------------------
(* The recommendations. *)

\* The members of S before all others, by a key and then by id.
FirstBy(S, key, id) ==
    {b \in S : \A c \in S \ {b} : key[b] < key[c] \/ (key[b] = key[c] /\ id[b] < id[c])}

\* Of finitely many books, told apart by their ids, one is before all others.
LEMMA OneIsForemost ==
    ASSUME NEW S, IsFiniteSet(S), NEW key, NEW id,
           \A b \in S : key[b] \in Int /\ id[b] \in Int,
           \A b, c \in S : id[b] = id[c] => b = c
    PROVE  LET F == FirstBy(S, key, id)
           IN  /\ F \subseteq S /\ IsFiniteSet(F) /\ Cardinality(F) \in Nat /\ Cardinality(F) <= 1
               /\ \A b, c \in F : b = c
               /\ S # {} => F # {}
  <1> DEFINE F == FirstBy(S, key, id)
  <1>0. F = {b \in S : \A c \in S \ {b} :
                key[b] < key[c] \/ (key[b] = key[c] /\ id[b] < id[c])}
    BY DEF FirstBy
  <1> HIDE DEF F
  <1> DEFINE before == {p \in S \X S : \/ key[p[1]] < key[p[2]]
                                       \/ key[p[1]] = key[p[2]] /\ id[p[1]] < id[p[2]]}
  <1>1. before \subseteq S \X S
    OBVIOUS
  <1>2. \A b, c \in S : <<b, c>> \in before
            <=> key[b] < key[c] \/ (key[b] = key[c] /\ id[b] < id[c])
    OBVIOUS
  <1> HIDE DEF before
  <1>3. IsOrder(before, S)
    <2>1. \A b \in S : key[b] \in Int /\ id[b] \in Int
      OBVIOUS
    <2>2. \A b, c \in S : b # c => <<b, c>> \in before \/ <<c, b>> \in before
      <3> TAKE b, c \in S
      <3>1. b # c => id[b] # id[c]
        OBVIOUS
      <3>2. QED BY <1>2, <2>1, <3>1
    <2>3. \A b, c \in S : ~(<<b, c>> \in before /\ <<c, b>> \in before)
      <3> TAKE b, c \in S
      <3>1. key[b] \in Int /\ key[c] \in Int /\ id[b] \in Int /\ id[c] \in Int
        BY <2>1
      <3>2. QED BY <1>2, <3>1
    <2>4. \A b, c, e \in S : <<b, c>> \in before /\ <<c, e>> \in before => <<b, e>> \in before
      <3> TAKE b, c, e \in S
      <3>1. /\ key[b] \in Int /\ key[c] \in Int /\ key[e] \in Int
            /\ id[b] \in Int /\ id[c] \in Int /\ id[e] \in Int
        BY <2>1
      <3>2. QED BY <1>2, <3>1
    <2>5. QED BY <1>1, <2>2, <2>3, <2>4 DEF IsOrder
  <1>4. S # {} => F # {}
    <2> HAVE S # {}
    <2>1. PICK b \in S : \A c \in S : c = b \/ <<b, c>> \in before
      BY <1>3, OldestOfAll
    <2>2. b \in F
      BY <1>0, <1>2, <2>1
    <2>3. QED BY <2>2
  <1>5. \A b, c \in F : b = c
    <2> TAKE b, c \in F
    <2> SUFFICES ASSUME b # c PROVE FALSE
      OBVIOUS
    <2>1. /\ key[b] \in Int /\ key[c] \in Int /\ id[b] \in Int /\ id[c] \in Int
          /\ key[b] < key[c] \/ (key[b] = key[c] /\ id[b] < id[c])
          /\ key[c] < key[b] \/ (key[c] = key[b] /\ id[c] < id[b])
      BY <1>0
    <2>2. QED BY <2>1
  <1>6. IsFiniteSet(F) /\ Cardinality(F) \in Nat /\ Cardinality(F) <= 1
    <2>1. CASE F = {}
      BY <2>1, FS_EmptySet
    <2>2. CASE F # {}
      <3>1. PICK b : b \in F
        BY <2>2
      <3>2. F = {b}
        BY <1>5, <3>1
      <3>3. IsFiniteSet({b}) /\ Cardinality({b}) = 1
        BY FS_Singleton
      <3>4. QED BY <3>2, <3>3
    <2>3. QED BY <2>1, <2>2
  <1>7. QED BY <1>0, <1>4, <1>5, <1>6 DEF F

(***************************************************************************)
(* Whatever is in the library: each of the three recommendations is one    *)
(* book at most, none is named twice or is the one being read; a volume is *)
(* the nearest unread one after it; and while there is an unread book, or  *)
(* one to return to, one of them is recommended.                           *)
(***************************************************************************)
THEOREM RecommendationsCorrect ==
    ASSUME NEW SeriesId, NEW B \in SUBSET InsightBook(Int, Int, SeriesId, Int), IsFiniteSet(B),
           \A b, c \in B : b.id = c.id => b = c,
           NEW today \in Int, NEW offset \in Int
    PROVE  RecommendationsHold(B, today, offset)
  <1> DEFINE begun == {b \in B : b.read # NoRow}
             unread == {b \in B : b.read = NoRow}
             current == LastRead(begun)
             volumes == {b \in B \ begun : \E r \in current :
                            r.series # {} /\ b.series = r.series /\ b.order > r.order}
             left == {b \in begun \ current :
                         ~b.done /\ today - LocalDate(b.read, offset) >= ReturnAfter}
             r == Recommendations(B, today, offset)
             others == (B \ begun) \ r.next
             recommended == r.next \cup r.back \cup r.fresh
  <1>1. \A b \in B : b.id \in Int /\ b.read \in Int /\ b.order \in Int /\ b.added \in Int
    BY DEF InsightBook, NoRow
  <1>2. unread = B \ begun /\ begun \subseteq B
    OBVIOUS
  <1>3. r = [next |-> r.next, back |-> r.back, fresh |-> r.fresh]
    BY DEF Recommendations
  <1>4. current = {b \in begun : \A c \in begun \ {b} :
                      b.read > c.read \/ (b.read = c.read /\ b.id < c.id)}
    BY DEF LastRead, Foremost
  <1>5. r.next = {b \in volumes : \A c \in volumes \ {b} :
                     b.order < c.order \/ (b.order = c.order /\ b.id < c.id)}
    BY DEF Recommendations, Foremost
  <1>6. r.back = {b \in left : \A c \in left \ {b} :
                     b.read < c.read \/ (b.read = c.read /\ b.id < c.id)}
    BY DEF Recommendations, Foremost
  <1>7. r.fresh = {b \in others : \A c \in others \ {b} :
                      b.added > c.added \/ (b.added = c.added /\ b.id < c.id)}
    BY DEF Recommendations, Foremost
  <1>8. \A S \in SUBSET B : IsFiniteSet(S)
    BY FS_Subset
  <1> HIDE DEF begun, unread, current, volumes, left, r, others
  <1>9. begun \subseteq B /\ current \subseteq begun
    BY <1>2, <1>4
  <1>10. /\ volumes \subseteq B \ begun
         /\ left \subseteq begun \ current
         /\ others \subseteq (B \ begun) \ r.next
    BY DEF volumes, left, others
  <1> DEFINE id == [b \in B |-> b.id]
  <1>11. \A b \in B : id[b] = b.id /\ id[b] \in Int
    BY <1>1
  <1> HIDE DEF id
  <1>12. /\ current \subseteq begun /\ IsFiniteSet(current) /\ Cardinality(current) \in Nat
         /\ Cardinality(current) <= 1
         /\ \A b, c \in current : b = c
         /\ begun # {} => current # {}
    <2> DEFINE key == [b \in B |-> 0 - b.read]
    <2>1. \A b \in begun : /\ b \in B /\ id[b] = b.id
                           /\ key[b] = 0 - b.read /\ key[b] \in Int /\ b.read \in Int
      BY <1>1, <1>9, <1>10, <1>11
    <2>2. IsFiniteSet(begun)
      BY <1>8, <1>9, <1>10
    <2> HIDE DEF key
    <2>3. \A b, c \in begun : /\ key[b] < key[c] <=> b.read > c.read
                              /\ key[b] = key[c] <=> b.read = c.read
      <3> TAKE b, c \in begun
      <3>1. /\ key[b] = 0 - b.read /\ b.read \in Int
            /\ key[c] = 0 - c.read /\ c.read \in Int
        BY <2>1
      <3>2. QED BY <3>1
    <2>4. current = FirstBy(begun, key, id)
      BY <1>4, <2>1, <2>3 DEF FirstBy
    <2>5. /\ \A b \in begun : key[b] \in Int /\ id[b] \in Int
          /\ \A b, c \in begun : id[b] = id[c] => b = c
      BY <1>11, <2>1
    <2>6. QED BY <2>2, <2>4, <2>5, OneIsForemost
  <1>13. /\ r.next \subseteq volumes /\ IsFiniteSet(r.next) /\ Cardinality(r.next) \in Nat
         /\ Cardinality(r.next) <= 1
         /\ \A b, c \in r.next : b = c
         /\ volumes # {} => r.next # {}
    <2> DEFINE key == [b \in B |-> b.order]
    <2>1. \A b \in volumes : /\ b \in B /\ id[b] = b.id
                             /\ key[b] = b.order /\ key[b] \in Int /\ b.order \in Int
      BY <1>1, <1>9, <1>10, <1>11
    <2>2. IsFiniteSet(volumes)
      BY <1>8, <1>9, <1>10
    <2> HIDE DEF key
    <2>3. \A b, c \in volumes : /\ key[b] < key[c] <=> b.order < c.order
                                /\ key[b] = key[c] <=> b.order = c.order
      <3> TAKE b, c \in volumes
      <3>1. /\ key[b] = b.order /\ b.order \in Int
            /\ key[c] = c.order /\ c.order \in Int
        BY <2>1
      <3>2. QED BY <3>1
    <2>4. r.next = FirstBy(volumes, key, id)
      BY <1>5, <2>1, <2>3 DEF FirstBy
    <2>5. /\ \A b \in volumes : key[b] \in Int /\ id[b] \in Int
          /\ \A b, c \in volumes : id[b] = id[c] => b = c
      BY <1>11, <2>1
    <2>6. QED BY <2>2, <2>4, <2>5, OneIsForemost
  <1>14. /\ r.back \subseteq left /\ IsFiniteSet(r.back) /\ Cardinality(r.back) \in Nat
         /\ Cardinality(r.back) <= 1
         /\ \A b, c \in r.back : b = c
         /\ left # {} => r.back # {}
    <2> DEFINE key == [b \in B |-> b.read]
    <2>1. \A b \in left : /\ b \in B /\ id[b] = b.id
                          /\ key[b] = b.read /\ key[b] \in Int /\ b.read \in Int
      BY <1>1, <1>9, <1>10, <1>11
    <2>2. IsFiniteSet(left)
      BY <1>8, <1>9, <1>10
    <2> HIDE DEF key
    <2>3. \A b, c \in left : /\ key[b] < key[c] <=> b.read < c.read
                             /\ key[b] = key[c] <=> b.read = c.read
      <3> TAKE b, c \in left
      <3>1. /\ key[b] = b.read /\ b.read \in Int
            /\ key[c] = c.read /\ c.read \in Int
        BY <2>1
      <3>2. QED BY <3>1
    <2>4. r.back = FirstBy(left, key, id)
      BY <1>6, <2>1, <2>3 DEF FirstBy
    <2>5. /\ \A b \in left : key[b] \in Int /\ id[b] \in Int
          /\ \A b, c \in left : id[b] = id[c] => b = c
      BY <1>11, <2>1
    <2>6. QED BY <2>2, <2>4, <2>5, OneIsForemost
  <1>15. /\ r.fresh \subseteq others /\ IsFiniteSet(r.fresh) /\ Cardinality(r.fresh) \in Nat
         /\ Cardinality(r.fresh) <= 1
         /\ \A b, c \in r.fresh : b = c
         /\ others # {} => r.fresh # {}
    <2> DEFINE key == [b \in B |-> 0 - b.added]
    <2>1. \A b \in others : /\ b \in B /\ id[b] = b.id
                            /\ key[b] = 0 - b.added /\ key[b] \in Int /\ b.added \in Int
      BY <1>1, <1>9, <1>10, <1>11
    <2>2. IsFiniteSet(others)
      BY <1>8, <1>9, <1>10
    <2> HIDE DEF key
    <2>3. \A b, c \in others : /\ key[b] < key[c] <=> b.added > c.added
                               /\ key[b] = key[c] <=> b.added = c.added
      <3> TAKE b, c \in others
      <3>1. /\ key[b] = 0 - b.added /\ b.added \in Int
            /\ key[c] = 0 - c.added /\ c.added \in Int
        BY <2>1
      <3>2. QED BY <3>1
    <2>4. r.fresh = FirstBy(others, key, id)
      BY <1>7, <2>1, <2>3 DEF FirstBy
    <2>5. /\ \A b \in others : key[b] \in Int /\ id[b] \in Int
          /\ \A b, c \in others : id[b] = id[c] => b = c
      BY <1>11, <2>1
    <2>6. QED BY <2>2, <2>4, <2>5, OneIsForemost
  <1>16. Cardinality(recommended)
            = Cardinality(r.next) + Cardinality(r.back) + Cardinality(r.fresh)
    <2>1. r.next \cap r.back = {} /\ (r.next \cup r.back) \cap r.fresh = {}
      BY <1>9, <1>10, <1>13, <1>14, <1>15
    <2>2. /\ IsFiniteSet(r.next \cup r.back)
          /\ Cardinality(r.next \cup r.back) = Cardinality(r.next) + Cardinality(r.back) - 0
      BY <1>13, <1>14, <2>1, FS_Union, FS_EmptySet
    <2>3. Cardinality(recommended) = Cardinality(r.next \cup r.back) + Cardinality(r.fresh) - 0
      BY <1>15, <2>1, <2>2, FS_Union, FS_EmptySet
    <2> HIDE DEF recommended
    <2>4. QED BY <1>13, <1>14, <1>15, <2>2, <2>3
  <1>17. recommended \cap current = {}
    BY <1>9, <1>10, <1>13, <1>14, <1>15
  <1>18. ASSUME NEW n \in r.next, NEW c \in current, NEW b \in unread,
                b.series = n.series, b.order \in c.order + 1..n.order - 1
         PROVE  FALSE
    <2>1. n \in volumes /\ n \in B /\ c \in B /\ b \in B \ begun
      BY <1>2, <1>9, <1>10, <1>13
    <2>2. n.order \in Int /\ c.order \in Int /\ b.order \in Int
      BY <1>1, <2>1
    <2>3. c.series # {} /\ n.series = c.series
      BY <1>12, <2>1 DEF volumes
    <2>4. b.order > c.order /\ b.order < n.order
      BY <1>18, <2>2
    <2>5. b \in volumes
      BY <1>18, <2>1, <2>3, <2>4 DEF volumes
    <2>6. n.order < b.order \/ n.order = b.order
      BY <1>5, <2>2, <2>4, <2>5
    <2>7. QED BY <2>2, <2>4, <2>6
  <1>19. unread # {} => recommended \cap unread # {}
    <2>1. CASE others # {}
      <3>1. PICK b \in r.fresh : b \in others
        BY <1>15, <2>1
      <3>2. b \in recommended /\ b \in unread
        BY <1>2, <1>10, <3>1
      <3>3. QED BY <3>2
    <2>2. CASE others = {} /\ unread # {}
      BY <1>2, <1>10, <1>13, <2>2 DEF others
    <2>3. QED BY <2>1, <2>2
  <1>20. ASSUME r.back = {}, NEW b \in B \ (unread \cup current)
         PROVE  b.done \/ LocalDate(b.read, offset) > today - ReturnAfter
    <2>1. b \in begun \ current /\ b \notin left
      <3>1. left = {}
        BY <1>14, <1>20
      <3>2. QED BY <1>2, <3>1
    <2>2. LocalDate(b.read, offset) \in Int
      BY <1>1, ActivityAssumption, Midnight
    <2>3. b.done \/ ~(today - LocalDate(b.read, offset) >= ReturnAfter)
      BY <2>1 DEF left
    <2> DEFINE date == LocalDate(b.read, offset)
    <2> HIDE DEF date
    <2>4. ~(today - date >= ReturnAfter) => date > today - ReturnAfter
      BY <2>2 DEF date, ReturnAfter
    <2>5. QED BY <2>3, <2>4 DEF date
  <1> DEFINE holds(rec) ==
        LET cur == current
            all == rec.next \cup rec.back \cup rec.fresh
        IN  /\ \A S \in {rec.next, rec.back, rec.fresh, cur} : Cardinality(S) <= 1
            /\ Cardinality(all)
                  = Cardinality(rec.next) + Cardinality(rec.back) + Cardinality(rec.fresh)
            /\ all \cap cur = {}
            /\ \A n \in rec.next, c \in cur :
                  ~\E b \in unread : b.series = n.series /\ b.order \in c.order + 1..n.order - 1
            /\ unread # {} => all \cap unread # {}
            /\ rec.back = {} => \A b \in B \ (unread \cup cur) :
                                   b.done \/ LocalDate(b.read, offset) > today - ReturnAfter
  <1>21. holds(r)
    BY <1>12, <1>13, <1>14, <1>15, <1>16, <1>17, <1>18, <1>19, <1>20
  <1>22. QED BY <1>21 DEF RecommendationsHold, current, begun, unread, r
=============================================================================
