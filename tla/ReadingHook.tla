----------------------------- MODULE ReadingHook -----------------------------
(***************************************************************************)
(* The React hook features/reader/useReadingActivity.ts, composed with the *)
(* session protocol it drives.  Every mounted effect keeps a handle on its *)
(* session and a promise chain of observations; a command is asynchronous: *)
(* it is sent, executed by the backend and answered in three steps, and    *)
(* anything may happen in between (the window loses focus, the effect is   *)
(* disposed and its successor mounted, the history is deleted, the process *)
(* restarts).                                                              *)
(***************************************************************************)
EXTENDS ReadingSessions, Sequences, FiniteSetsExt

CONSTANTS MaxEffects,       \* bound: how many times the effect is mounted
          MaxEvents,        \* bound: window events, deletions and restarts
          MaxErrors,        \* bound: commands that fail with INTERNAL_ERROR
          MaxRedeliveries,  \* bound: commands delivered twice
          MaxBeats,         \* bound: heartbeats of a visible session
          MaxQueue          \* bound: a heartbeat waits while the chain is this long

ASSUME HookAssumption ==
    {MaxEffects, MaxEvents, MaxErrors, MaxRedeliveries, MaxBeats, MaxQueue} \subseteq Nat

\* A UUID is told from what stands in its place when there is none.
ASSUME SessionIdAssumption == SessionId \cap {"none", "idle", "sent", "error"} = {}

VARIABLES fg,             \* isReaderForeground(): visible and focused
          effect,         \* effect[e]: the closure of the e-th mounted effect
          events, errors, redeliveries,   \* budgets spent
          lapsed          \* history: sessions whose reader left the foreground since
                          \* the last accepted observation, with the handle in hand

envVars == <<events, errors, redeliveries>>
vars == <<state, seq, fg, effect, envVars, lapsed>>

Effect == 1..MaxEffects

\* session = null
None == "none"
Null == [id |-> None, seq |-> 0, state |-> "ended"]

\* A link of commandQueue; latest says that its revision is still requestRevision.
Task == [state: ActivityState, session: SessionId, latest: BOOLEAN]

\* call: the observation the head of the chain awaits ("idle", "sent"), or its answer:
\* a receipt (its state), "gone" (NOT_FOUND or CONFLICT), "error" (anything else).
CallState == {"idle", "sent", "gone", "error"} \cup ActivityState

\* begin: the begin_reading_activity in flight or its answer; starting is begin # "idle".
Closure ==
    [phase: {"unmounted", "mounted", "disposed"},
     pageHidden: BOOLEAN,
     startTimer: BOOLEAN,
     session: [id: SessionId \cup {None}, seq: 0..MaxSeq, state: ActivityState],
     requested: ActivityState \cup {None},
     queue: Seq(Task),
     call: CallState,
     begin: {"idle", "sent", "error"} \cup SessionId]

Unmounted ==
    [phase |-> "unmounted", pageHidden |-> FALSE, startTimer |-> FALSE,
     session |-> Null, requested |-> None, queue |-> <<>>, call |-> "idle",
     begin |-> "idle"]

Holds(r) == r.session.id # None
IsForeground(r, f) == f /\ ~r.pageHidden

-----------------------------------------------------------------------------
(* The closures of the effect, as functions of its variables. *)

\* ++requestRevision: no task already queued is the latest any more.
Superseded(queue) == [i \in DOMAIN queue |-> [queue[i] EXCEPT !.latest = FALSE]]

\* enqueueObservation
EnqueueObservation(r, st, force) ==
    IF ~Holds(r) \/ r.session.state = "ended" \/ (~force /\ r.requested = st)
    THEN r
    ELSE [r EXCEPT !.requested = st,
                   !.queue = Append(Superseded(@), [state |-> st,
                                                    session |-> r.session.id,
                                                    latest |-> TRUE])]

\* beginIfForeground, called in the foreground.
StartSession(r) ==
    IF r.phase = "mounted" /\ r.begin = "idle" /\ ~Holds(r)
    THEN [r EXCEPT !.begin = "sent"]
    ELSE r

\* syncForegroundState
SyncForegroundState(r, f) ==
    CASE IsForeground(r, f) /\ Holds(r)  -> EnqueueObservation(r, "visible", FALSE)
      [] IsForeground(r, f) /\ ~Holds(r) -> StartSession(r)
      [] OTHER                           -> EnqueueObservation(r, "paused", FALSE)

\* The guards a task passes when its turn comes: the handle is still the one it was
\* queued for, and a queued heartbeat is not proof that the reader is still visible.
MaySend(r, task, f) ==
    /\ Holds(r)
    /\ r.session.state # "ended"
    /\ r.session.id = task.session
    /\ task.state = "visible" => r.phase # "disposed" /\ IsForeground(r, f)

\* What the microtasks after a callback do: while no command is in flight, the tasks of
\* the chain run up to the first that sends one.
Settled(r, f) ==
    LET sendable == {i \in DOMAIN r.queue : MaySend(r, r.queue[i], f)}
    IN  IF r.call # "idle" THEN r
        ELSE IF sendable = {} THEN [r EXCEPT !.queue = <<>>]
        ELSE [r EXCEPT !.queue = SubSeq(@, Min(sendable), Len(@)), !.call = "sent"]

\* A callback runs in effect e, and then its microtasks do.
Runs(e, r, f) == effect' = [effect EXCEPT ![e] = Settled(r, f)]

\* The visible sessions that an effect holds, without a confirmation under way.
HeldVisible ==
    {s \in SessionId : state[s] = "visible" /\ \E e \in Effect :
        /\ effect[e].session.id = s
        /\ effect[e].call = "sent" => Head(effect[e].queue).state # "visible"}

-----------------------------------------------------------------------------
(* The environment: React, the window, the user. *)

Spend == events < MaxEvents /\ events' = events + 1

\* The effect runs: its cleanup has run before, and a timer starts the first begin.
Mount(e) ==
    /\ effect[e].phase = "unmounted"
    /\ \A d \in Effect : d < e => effect[d].phase = "disposed"
    /\ effect' = [effect EXCEPT ![e].phase = "mounted", ![e].startTimer = TRUE]
    /\ UNCHANGED <<state, seq, fg, envVars, lapsed>>

\* The cleanup of the effect: listeners and timers go, the chain stays.
Dispose(e) ==
    /\ effect[e].phase = "mounted"
    /\ Spend
    /\ Runs(e, EnqueueObservation([effect[e] EXCEPT !.phase = "disposed",
                                                    !.startTimer = FALSE],
                                  "ended", FALSE), fg)
    /\ UNCHANGED <<state, seq, fg, errors, redeliveries, lapsed>>

\* visibilitychange, focus and blur; the foreground need not have changed.
WindowEvent(f) ==
    /\ Spend
    /\ fg' = f
    /\ effect' = [e \in Effect |-> IF effect[e].phase = "mounted"
                                   THEN Settled(SyncForegroundState(effect[e], f), f)
                                   ELSE effect[e]]
    /\ lapsed' = IF f THEN lapsed ELSE lapsed \cup HeldVisible
    /\ UNCHANGED <<state, seq, errors, redeliveries>>

\* pagehide and pageshow
PageHide(e) ==
    /\ effect[e].phase = "mounted"
    /\ ~effect[e].pageHidden
    /\ Spend
    /\ Runs(e, EnqueueObservation([effect[e] EXCEPT !.pageHidden = TRUE], "paused", FALSE), fg)
    /\ lapsed' = lapsed \cup HeldVisible
    /\ UNCHANGED <<state, seq, fg, errors, redeliveries>>

PageShow(e) ==
    /\ effect[e].phase = "mounted"
    /\ effect[e].pageHidden
    /\ Spend
    /\ Runs(e, SyncForegroundState([effect[e] EXCEPT !.pageHidden = FALSE], fg), fg)
    /\ UNCHANGED <<state, seq, fg, errors, redeliveries, lapsed>>

\* The timer that defers the first begin.
StartTimer(e) ==
    /\ effect[e].startTimer
    /\ Runs(e, SyncForegroundState([effect[e] EXCEPT !.startTimer = FALSE], fg), fg)
    /\ UNCHANGED <<state, seq, fg, envVars, lapsed>>

\* The interval timer: every 30 s, long after the start timer.
Heartbeat(e) ==
    LET r == effect[e]
    IN  /\ r.phase = "mounted"
        /\ ~r.startTimer
        /\ IsForeground(r, fg)
        /\ \/ /\ Holds(r)
              /\ Len(r.queue) < MaxQueue
              /\ r.session.seq < MaxBeats \/ state[r.session.id] # "visible"
              /\ Runs(e, EnqueueObservation(r, "visible", TRUE), fg)
           \/ /\ ~Holds(r)
              /\ Runs(e, StartSession(r), fg)
        /\ UNCHANGED <<state, seq, fg, envVars, lapsed>>

\* delete_reading_history, from the insights page.
DeleteHistory(S) ==
    /\ Spend
    /\ DeleteSessions(S)
    /\ lapsed' = lapsed \ S
    /\ UNCHANGED <<fg, effect, errors, redeliveries>>

\* The process exits at any moment; the next start ends what was live.
Restart ==
    /\ Spend
    /\ RecoverSessions
    /\ effect' = [e \in Effect |-> IF effect[e].phase = "unmounted"
                                   THEN Unmounted
                                   ELSE [Unmounted EXCEPT !.phase = "disposed"]]
    /\ lapsed' = {}
    /\ UNCHANGED <<fg, errors, redeliveries>>

-----------------------------------------------------------------------------
(* The backend and its answers. *)

\* Uuid::new_v4; the identifiers are interchangeable.
FreshId == CHOOSE s \in SessionId : state[s] = "unused"

\* begin_reading_activity
ServeBegin(e) ==
    /\ effect[e].begin = "sent"
    /\ \E s \in SessionId : state[s] = "unused"
    /\ BeginSession(FreshId)
    /\ effect' = [effect EXCEPT ![e].begin = FreshId]
    /\ UNCHANGED <<fg, envVars, lapsed>>

\* observe_reading_activity: accepted, the last sequence again, or refused.
ServeObservation(e) ==
    LET r == effect[e]
        s == r.session.id
        q == r.session.seq + 1
        st == Head(r.queue).state
    IN  /\ r.call = "sent"
        /\ \/ /\ q = seq[s] + 1
              /\ AcceptObservation(s, st)
              /\ effect' = [effect EXCEPT ![e].call = st]
              /\ lapsed' = lapsed \ {s}
           \/ /\ Exists(s)
              /\ q = seq[s]
              /\ effect' = [effect EXCEPT ![e].call = state[s]]
              /\ UNCHANGED <<state, seq, lapsed>>
           \/ /\ Exists(s) => q # seq[s]
              /\ Live(s) => q # seq[s] + 1
              /\ effect' = [effect EXCEPT ![e].call = "gone"]
              /\ UNCHANGED <<state, seq, lapsed>>
        /\ UNCHANGED <<fg, envVars>>

\* A command fails without effect (SQLite busy, I/O error, poisoned lock).
Fail(e) ==
    /\ errors < MaxErrors
    /\ errors' = errors + 1
    /\ \/ effect[e].call = "sent" /\ effect' = [effect EXCEPT ![e].call = "error"]
       \/ effect[e].begin = "sent" /\ effect' = [effect EXCEPT ![e].begin = "error"]
    /\ UNCHANGED <<state, seq, fg, events, redeliveries, lapsed>>

\* The IPC layer delivers a command again when the first transport failed to answer.
Redeliver(e) ==
    /\ redeliveries < MaxRedeliveries
    /\ redeliveries' = redeliveries + 1
    /\ \/ effect[e].call \in ActivityState /\ effect' = [effect EXCEPT ![e].call = "sent"]
       \/ /\ effect[e].begin \in SessionId
          /\ \E s \in SessionId : state[s] = "unused"
          /\ effect' = [effect EXCEPT ![e].begin = "sent"]
    /\ UNCHANGED <<state, seq, fg, events, errors, lapsed>>

\* Mutants: a disposed effect keeps, or a background one counts, a late session.
BegunKept(r, f) ==
    LET held == [r EXCEPT !.session = [id |-> r.begin, seq |-> 0, state |-> "visible"],
                          !.requested = "visible",
                          !.begin = "idle"]
    IN  IF r.phase # "disposed" /\ ~IsForeground(r, f)
        THEN EnqueueObservation(held, "paused", FALSE)
        ELSE held
BegunVisible(r, f) ==
    LET held == [r EXCEPT !.session = [id |-> r.begin, seq |-> 0, state |-> "visible"],
                          !.requested = "visible",
                          !.begin = "idle"]
    IN  IF r.phase = "disposed" THEN EnqueueObservation(held, "ended", FALSE) ELSE held

\* The .then of beginReadingActivity
Begun(r, f) ==
    LET held == [r EXCEPT !.session = [id |-> r.begin, seq |-> 0, state |-> "visible"],
                          !.requested = "visible",
                          !.begin = "idle"]
    IN  CASE r.phase = "disposed"  -> EnqueueObservation(held, "ended", FALSE)
          [] r.phase # "disposed" /\ ~IsForeground(r, f)
                                   -> EnqueueObservation(held, "paused", FALSE)
          [] OTHER                 -> held

AnswerBegin(e) ==
    LET r == effect[e]
    IN  /\ r.begin \notin {"idle", "sent"}
        /\ Runs(e, IF r.begin = "error" THEN [r EXCEPT !.begin = "idle"] ELSE Begun(r, fg), fg)
        /\ UNCHANGED <<state, seq, fg, envVars, lapsed>>

\* Mutant: the receipt is not stored.
AnsweredForgetful(r) ==
    [r EXCEPT !.requested = IF Head(r.queue).latest THEN r.call ELSE @,
              !.queue = Tail(@),
              !.call = "idle"]

\* The receipt becomes the handle; a later intention is not overwritten.
Answered(r) ==
    [r EXCEPT !.session = [id |-> @.id, seq |-> @.seq + 1, state |-> r.call],
              !.requested = IF Head(r.queue).latest THEN r.call ELSE @,
              !.queue = Tail(@),
              !.call = "idle"]

\* Mutant: the handle of a session that is gone is kept.
RefusedKept(r) ==
    [r EXCEPT !.queue = Tail(@), !.call = "idle"]

\* NOT_FOUND or CONFLICT: the handle is discarded.
Refused(r) ==
    [r EXCEPT !.session = Null,
              !.requested = None,
              !.queue = Superseded(Tail(@)),
              !.call = "idle"]

\* Any other error: the state stays what the last receipt said.
Failed(r) ==
    [r EXCEPT !.requested = IF Head(r.queue).latest THEN r.session.state ELSE @,
              !.queue = Tail(@),
              !.call = "idle"]

AnswerObservation(e) ==
    LET r == effect[e]
    IN  /\ r.call \notin {"idle", "sent"}
        /\ Runs(e, CASE r.call = "gone"  -> Refused(r)
                     [] r.call = "error" -> Failed(r)
                     [] OTHER            -> Answered(r), fg)
        /\ UNCHANGED <<state, seq, fg, envVars, lapsed>>

-----------------------------------------------------------------------------
Init ==
    /\ SessionsInit
    /\ fg \in BOOLEAN
    /\ effect = [e \in Effect |-> Unmounted]
    /\ events = 0 /\ errors = 0 /\ redeliveries = 0
    /\ lapsed = {}

Environment ==
    \/ \E f \in BOOLEAN : WindowEvent(f)
    \/ \E e \in Effect : Mount(e) \/ Dispose(e) \/ PageHide(e) \/ PageShow(e)
    \/ \E S \in SUBSET SessionId : DeleteHistory(S)
    \/ Restart
    \/ \E e \in Effect : Fail(e) \/ Redeliver(e)

Work(e) ==
    \/ StartTimer(e)
    \/ ServeBegin(e)
    \/ ServeObservation(e)
    \/ AnswerBegin(e)
    \/ AnswerObservation(e)

Next ==
    \/ Environment
    \/ \E e \in Effect : Work(e) \/ Heartbeat(e)

\* Timers fire, promises settle and commands are served; nothing else is owed.
Fairness ==
    \A e \in Effect :
        /\ WF_vars(StartTimer(e))
        /\ WF_vars(ServeBegin(e))
        /\ WF_vars(ServeObservation(e))
        /\ WF_vars(AnswerBegin(e))
        /\ WF_vars(AnswerObservation(e))
        /\ WF_vars(Heartbeat(e))

Spec == Init /\ [][Next]_vars /\ Fairness

-----------------------------------------------------------------------------
TypeOK ==
    /\ SessionsTypeOK
    /\ fg \in BOOLEAN
    /\ effect \in [Effect -> Closure]
    /\ \A e \in Effect :
           /\ effect[e].requested = None <=> effect[e].session = Null
           /\ effect[e].call # "idle" => Holds(effect[e]) /\ effect[e].queue # <<>>
    /\ events \in 0..MaxEvents
    /\ errors \in 0..MaxErrors
    /\ redeliveries \in 0..MaxRedeliveries
    /\ lapsed \subseteq SessionId

(***************************************************************************)
(* Between two commands a handle agrees with the row it stands for, unless *)
(* somebody else ended or deleted the session: the chain never sends a     *)
(* sequence number the backend would refuse or mistake for a duplicate.    *)
(***************************************************************************)
HandleInStep ==
    \A e \in Effect :
        LET r == effect[e]
        IN  Holds(r) /\ r.call \in {"idle", "sent"} /\ Live(r.session.id)
              => \/ seq[r.session.id] = r.session.seq /\ state[r.session.id] = r.session.state
                 \/ /\ redeliveries > 0
                    /\ r.call = "sent" \/ errors > 0
                    /\ seq[r.session.id] = r.session.seq + 1

\* The state is well formed and the handles are in step with their rows.
HookOK == TypeOK /\ HandleInStep

\* Nobody will end s in time: no mounted effect holds it or is about to.
Orphan(s) ==
    /\ Live(s)
    /\ \A e \in Effect : effect[e].phase = "mounted" => s \notin {effect[e].session.id, effect[e].begin}

(***************************************************************************)
(* A session that no mounted reader stands behind does not stay live: it   *)
(* is ended by the disposed effect's chain, by the next begin or by the    *)
(* next start, as long as no command fails.                                *)
(***************************************************************************)
OrphansEnd ==
    \A s \in SessionId : Orphan(s) ~> (~Orphan(s) \/ errors > 0)

(***************************************************************************)
(* A reader in the background stops counting: unless a command fails, no   *)
(* session stays visible while no mounted reader is in the foreground.     *)
(***************************************************************************)
BackgroundPauses ==
    (\A e \in Effect : effect[e].phase = "mounted" => ~IsForeground(effect[e], fg))
      ~> \/ \A s \in SessionId : state[s] # "visible"
         \/ \E e \in Effect : effect[e].phase = "mounted" /\ IsForeground(effect[e], fg)
         \/ errors > 0

(***************************************************************************)
(* A reader that stays in the foreground is counted, although commands may *)
(* fail, be delivered twice, or find the session gone.                     *)
(***************************************************************************)
ForegroundCounts ==
    \A e \in Effect :
        (effect[e].phase = "mounted" /\ IsForeground(effect[e], fg))
          ~> \/ \E s \in SessionId : state[s] = "visible"
             \/ ~(effect[e].phase = "mounted" /\ IsForeground(effect[e], fg))
             \/ \A s \in SessionId : state[s] # "unused"

\* A session is confirmed from one visible observation to the next.
Confirms(s) ==
    /\ state[s] = "visible"
    /\ state'[s] = "visible"
    /\ seq'[s] = seq[s] + 1

(***************************************************************************)
(* Time spent away from the reader is not confirmed as visible: once the   *)
(* reader has left the foreground, a pause is accepted before the session  *)
(* is observed visible again.                                              *)
(***************************************************************************)
CountsOnlyForeground ==
    [][\A s \in lapsed : ~Confirms(s)]_vars
=============================================================================
