--------------------------- MODULE ReadingSessions ---------------------------
(***************************************************************************)
(* What the reading-activity commands promise to their callers, stated     *)
(* without clocks, segments or books: a session is begun once, moves       *)
(* between visible and paused under strictly increasing sequence numbers,  *)
(* ends for good, and no two sessions are live at the same time.           *)
(*                                                                         *)
(* ReadingActivity implements this specification; ReadingHook composes it  *)
(* with the frontend hook that drives it.                                  *)
(***************************************************************************)
EXTENDS Naturals

CONSTANTS SessionId,   \* the session identifiers (UUIDs, never reused)
          MaxSeq       \* bound: observations accepted per session

ASSUME MaxSeqAssumption == MaxSeq \in Nat

VARIABLES state,       \* state[s]: the session row's state, or why there is none
          seq          \* seq[s]: the session row's last_sequence

sessionVars == <<state, seq>>

\* ReadingActivityState; "ended" is terminal.
LiveState == {"visible", "paused"}
ActivityState == LiveState \cup {"ended"}

\* "unused": the UUID is not generated yet; "deleted": its row was deleted.
RowState == ActivityState \cup {"unused", "deleted"}

Exists(s) == state[s] \in ActivityState
Live(s) == state[s] \in LiveState

SessionsTypeOK ==
    /\ state \in [SessionId -> RowState]
    /\ seq \in [SessionId -> 0..MaxSeq]

SessionsInit ==
    /\ state = [s \in SessionId |-> "unused"]
    /\ seq = [s \in SessionId |-> 0]

\* recover_interrupted_reading_activities_in_transaction
AllEnded == [s \in SessionId |-> IF Live(s) THEN "ended" ELSE state[s]]

\* Mutant: the sessions that were live stay so.
BeginBeside(s) ==
    /\ state[s] = "unused"
    /\ state' = [state EXCEPT ![s] = "visible"]
    /\ UNCHANGED seq

\* begin_reading_activity: ends whatever was live, then starts s.
BeginSession(s) ==
    /\ state[s] = "unused"
    /\ state' = [AllEnded EXCEPT ![s] = "visible"]
    /\ UNCHANGED seq

\* observe_reading_activity with the next sequence number.
AcceptObservation(s, st) ==
    /\ Live(s)
    /\ seq[s] < MaxSeq
    /\ state' = [state EXCEPT ![s] = st]
    /\ seq' = [seq EXCEPT ![s] = @ + 1]

\* Startup recovery.
RecoverSessions ==
    /\ state' = AllEnded
    /\ UNCHANGED seq

\* delete_reading_history: the rows in S, whatever scope selected them.
DeleteSessions(S) ==
    /\ S # {}
    /\ \A s \in S : Exists(s)
    /\ state' = [s \in SessionId |-> IF s \in S THEN "deleted" ELSE state[s]]
    /\ seq' = [s \in SessionId |-> IF s \in S THEN 0 ELSE seq[s]]

SessionsNext ==
    \/ \E s \in SessionId : BeginSession(s)
    \/ \E s \in SessionId, st \in ActivityState : AcceptObservation(s, st)
    \/ RecoverSessions
    \/ \E S \in SUBSET SessionId : DeleteSessions(S)

SessionsSpec == SessionsInit /\ [][SessionsNext]_sessionVars

(***************************************************************************)
(* At most one session is live: begin_reading_activity ends the others in  *)
(* the transaction that inserts the new one, so two readers (an old effect *)
(* and its replacement) never both accumulate reading time.                *)
(***************************************************************************)
AtMostOneLive ==
    \A s, t \in SessionId : Live(s) /\ Live(t) => s = t

(***************************************************************************)
(* "ended" is terminal and sequence numbers only advance: an ended session *)
(* is never observed again, and a deleted one never comes back.            *)
(***************************************************************************)
EndedIsFinal ==
    [][\A s \in SessionId :
          /\ state[s] = "ended" => state'[s] \in {"ended", "deleted"}
          /\ state[s] = "deleted" => state'[s] = "deleted"
          /\ seq'[s] # seq[s] =>
                \/ Live(s) /\ seq'[s] = seq[s] + 1
                \/ state'[s] = "deleted"
      ]_sessionVars
=============================================================================
