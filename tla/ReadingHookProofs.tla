------------------------- MODULE ReadingHookProofs -------------------------
(***************************************************************************)
(* What the session protocol promises whatever drives it, and that the     *)
(* hook that drives it keeps its handles in step with the rows: for any    *)
(* number of sessions, effects, events, failures and repeated deliveries.  *)
(***************************************************************************)
EXTENDS ReadingHook, SequenceTheorems, WellFoundedInduction, TLAPS

USE MaxSeqAssumption

\* Recovery ends what was live and touches nothing else.
LEMMA AllEndedStates ==
    ASSUME SessionsTypeOK
    PROVE  /\ AllEnded \in [SessionId -> RowState]
           /\ \A s \in SessionId :
                 /\ AllEnded[s] \notin LiveState
                 /\ AllEnded[s] = IF Live(s) THEN "ended" ELSE state[s]
    BY DEF AllEnded, SessionsTypeOK, Live, LiveState, RowState, ActivityState

LEMMA TypeNext == SessionsTypeOK /\ [SessionsNext]_sessionVars => SessionsTypeOK'
  <1>. SUFFICES ASSUME SessionsTypeOK, [SessionsNext]_sessionVars PROVE SessionsTypeOK'
    OBVIOUS
  <1>1. ASSUME NEW s \in SessionId, BeginSession(s) PROVE SessionsTypeOK'
    BY <1>1, AllEndedStates
       DEF BeginSession, SessionsTypeOK, RowState, ActivityState, LiveState
  <1>2. ASSUME NEW s \in SessionId, NEW st \in ActivityState, AcceptObservation(s, st)
        PROVE  SessionsTypeOK'
    BY <1>2 DEF AcceptObservation, SessionsTypeOK, RowState
  <1>3. CASE RecoverSessions
    BY <1>3, AllEndedStates DEF RecoverSessions, SessionsTypeOK
  <1>4. ASSUME NEW S \in SUBSET SessionId, DeleteSessions(S) PROVE SessionsTypeOK'
    BY <1>4 DEF DeleteSessions, SessionsTypeOK, RowState
  <1>5. CASE UNCHANGED sessionVars
    BY <1>5 DEF sessionVars, SessionsTypeOK
  <1>6. QED
    BY <1>1, <1>2, <1>3, <1>4, <1>5 DEF SessionsNext

(***************************************************************************)
(* A row holds one of the protocol's states, and its last sequence number  *)
(* stays within the bound.                                                 *)
(***************************************************************************)
THEOREM SessionsTyped == SessionsSpec => []SessionsTypeOK
  <1>1. SessionsInit => SessionsTypeOK
    BY DEF SessionsInit, SessionsTypeOK, RowState
  <1>2. QED
    BY <1>1, TypeNext, PTL DEF SessionsSpec

(***************************************************************************)
(* Two readers never accumulate reading time at the same moment.           *)
(***************************************************************************)
THEOREM OneLiveSession == SessionsSpec => []AtMostOneLive
  <1>1. SessionsInit => AtMostOneLive
    BY DEF SessionsInit, AtMostOneLive, Live, LiveState
  <1>2. SessionsTypeOK /\ AtMostOneLive /\ [SessionsNext]_sessionVars => AtMostOneLive'
    <2>. SUFFICES ASSUME SessionsTypeOK, AtMostOneLive, [SessionsNext]_sessionVars
                  PROVE  AtMostOneLive'
      OBVIOUS
    <2>1. ASSUME NEW s \in SessionId, BeginSession(s) PROVE AtMostOneLive'
      <3>1. \A t \in SessionId : t # s => state'[t] \notin LiveState
        BY <2>1, AllEndedStates DEF BeginSession, SessionsTypeOK
      <3>2. QED
        BY <3>1 DEF AtMostOneLive, Live
    <2>2. ASSUME NEW s \in SessionId, NEW st \in ActivityState, AcceptObservation(s, st)
          PROVE  AtMostOneLive'
      BY <2>2 DEF AcceptObservation, AtMostOneLive, Live, SessionsTypeOK
    <2>3. CASE RecoverSessions
      BY <2>3, AllEndedStates DEF RecoverSessions, AtMostOneLive, Live
    <2>4. ASSUME NEW S \in SUBSET SessionId, DeleteSessions(S) PROVE AtMostOneLive'
      BY <2>4 DEF DeleteSessions, AtMostOneLive, Live, LiveState
    <2>5. CASE UNCHANGED sessionVars
      BY <2>5 DEF sessionVars, AtMostOneLive, Live
    <2>6. QED
      BY <2>1, <2>2, <2>3, <2>4, <2>5 DEF SessionsNext
  <1>3. QED
    BY <1>1, <1>2, SessionsTyped, PTL DEF SessionsSpec

(***************************************************************************)
(* An ended session is never observed again and a deleted one never comes  *)
(* back; sequence numbers advance one by one, in live sessions only.       *)
(***************************************************************************)
THEOREM EndedForGood == SessionsSpec => EndedIsFinal
  <1>. DEFINE Final(s) ==
                 /\ state[s] = "ended" => state'[s] \in {"ended", "deleted"}
                 /\ state[s] = "deleted" => state'[s] = "deleted"
                 /\ seq'[s] # seq[s] =>
                       \/ Live(s) /\ seq'[s] = seq[s] + 1
                       \/ state'[s] = "deleted"
  <1>1. ASSUME SessionsTypeOK, SessionsNext, NEW s \in SessionId PROVE Final(s)
    <2>1. ASSUME NEW t \in SessionId, BeginSession(t) PROVE Final(s)
      BY <1>1, <2>1, AllEndedStates DEF BeginSession, SessionsTypeOK, Live, LiveState
    <2>2. ASSUME NEW t \in SessionId, NEW st \in ActivityState, AcceptObservation(t, st)
          PROVE  Final(s)
      BY <1>1, <2>2 DEF AcceptObservation, SessionsTypeOK, Live, LiveState
    <2>3. CASE RecoverSessions
      BY <1>1, <2>3, AllEndedStates DEF RecoverSessions, Live, LiveState
    <2>4. ASSUME NEW S \in SUBSET SessionId, DeleteSessions(S) PROVE Final(s)
      BY <1>1, <2>4 DEF DeleteSessions, Exists, ActivityState, LiveState
    <2>5. QED
      BY <1>1, <2>1, <2>2, <2>3, <2>4 DEF SessionsNext
  <1>2. SessionsTypeOK /\ [SessionsNext]_sessionVars
            => [\A s \in SessionId : Final(s)]_sessionVars
    BY <1>1
  <1>3. QED
    BY <1>2, SessionsTyped, PTL DEF SessionsSpec, EndedIsFinal

-----------------------------------------------------------------------------
(* The hook. *)

USE HookAssumption, SessionIdAssumption

\* A set of numbers that is not empty has a least one.
LEMMA LeastOf ==
    ASSUME NEW S \in SUBSET Nat, S # {}
    PROVE  Min(S) \in S /\ \A n \in S : Min(S) <= n
  <1> DEFINE R == {p \in Nat \X Nat : p[1] < p[2]}
  <1>1. IsWellFoundedOn(R, Nat)
    BY NatLessThanWellFounded DEF OpToRel
  <1>2. PICK m \in S : \A n \in S : <<n, m>> \notin R
    <2> HIDE DEF R
    <2>1. QED BY <1>1, WFMin
  <1>3. \A n \in S : m <= n
    <2>1. ASSUME NEW n \in S, n < m PROVE FALSE
      <3>1. <<n, m>> \in Nat \X Nat /\ <<n, m>>[1] < <<n, m>>[2]
        BY <2>1
      <3>2. QED BY <3>1, <1>2
    <2>2. QED BY <2>1
  <1>4. QED BY <1>3 DEF Min

\* What every effect's variables satisfy between two callbacks: an intention is there with a
\* handle only, a command in flight has its handle and its task, nothing is begun beside a
\* handle, and an accepted answer leaves room for its number.
Proper(r) ==
    /\ r \in Closure
    /\ r.requested = None <=> r.session = Null
    /\ ~Holds(r) => r.session = Null
    /\ r.call # "idle" => Holds(r) /\ r.queue # <<>>
    /\ r.begin # "idle" => ~Holds(r)
    /\ r.call \in ActivityState => r.session.seq < MaxSeq

\* What a callback of the window, a timer or a cleanup leaves alone: the handle, and what
\* has been sent; it may start a begin, or send a task of an idle chain.
Quiet(x, r) ==
    /\ x.session = r.session
    /\ x.begin = r.begin \/ x.begin \in {"idle", "sent", "error"}
    /\ x.call = r.call \/ (r.call = "idle" /\ x.call = "sent")

LEMMA MarkersApart ==
    /\ None \notin SessionId
    /\ SessionId \cap {"idle", "sent", "error"} = {}
    /\ None \notin ActivityState
    /\ ActivityState \cap {"idle", "sent", "gone", "error"} = {}
    /\ ActivityState = {"visible", "paused", "ended"}
    BY DEF None, ActivityState, LiveState

LEMMA ClosureFields ==
    ASSUME NEW r \in Closure
    PROVE  /\ r.phase \in {"unmounted", "mounted", "disposed"}
           /\ r.pageHidden \in BOOLEAN
           /\ r.startTimer \in BOOLEAN
           /\ r.session \in [id: SessionId \cup {None}, seq: 0..MaxSeq, state: ActivityState]
           /\ r.session.id \in SessionId \cup {None}
           /\ r.session.seq \in 0..MaxSeq
           /\ r.session.state \in ActivityState
           /\ r.requested \in ActivityState \cup {None}
           /\ r.queue \in Seq(Task)
           /\ r.call \in CallState
           /\ r.begin \in {"idle", "sent", "error"} \cup SessionId
    BY DEF Closure

LEMMA UnmountedIsProper == Proper(Unmounted)
  <1>1. <<>> \in Seq(Task)
    OBVIOUS
  <1>2. Unmounted \in Closure
    BY <1>1 DEF Unmounted, Closure, Null, None, CallState, ActivityState
  <1>3. QED
    BY <1>2, MarkersApart DEF Proper, Unmounted, Holds, Null

LEMMA SupersededIsQueue ==
    ASSUME NEW queue \in Seq(Task)
    PROVE  Superseded(queue) \in Seq(Task)
  <1> DEFINE after(i) == [queue[i] EXCEPT !.latest = FALSE]
  <1>1. ASSUME NEW i \in 1..Len(queue) PROVE after(i) \in Task
    <2>1. queue[i] \in Task
      BY ElementOfSeq
    <2>2. QED BY <2>1 DEF Task
  <1>2. DOMAIN queue = 1..Len(queue) /\ Len(queue) \in Nat
    OBVIOUS
  <1>3. Superseded(queue) = [i \in 1..Len(queue) |-> after(i)]
    BY <1>2 DEF Superseded
  <1> HIDE DEF after
  <1>4. QED BY <1>1, <1>2, <1>3, IsASeq

LEMMA EnqueueIsQuiet ==
    ASSUME NEW r, Proper(r), NEW st \in ActivityState, NEW force \in BOOLEAN
    PROVE  /\ Proper(EnqueueObservation(r, st, force))
           /\ Quiet(EnqueueObservation(r, st, force), r)
  <1> DEFINE task == [state |-> st, session |-> r.session.id, latest |-> TRUE]
             x == [r EXCEPT !.requested = st, !.queue = Append(Superseded(@), task)]
  <1>1. CASE ~Holds(r) \/ r.session.state = "ended" \/ (~force /\ r.requested = st)
    BY <1>1 DEF EnqueueObservation, Quiet
  <1>2. CASE ~(~Holds(r) \/ r.session.state = "ended" \/ (~force /\ r.requested = st))
    <2>1. EnqueueObservation(r, st, force) = x
      BY <1>2 DEF EnqueueObservation
    <2>2. r \in Closure /\ Holds(r)
      BY <1>2 DEF Proper
    <2>3. task \in Task
      BY <2>2, ClosureFields DEF Task, Holds
    <2>4. r.queue \in Seq(Task)
      BY <2>2, ClosureFields
    <2> DEFINE q == Append(Superseded(r.queue), task)
    <2>5. q \in Seq(Task) /\ q # <<>>
      <3> HIDE DEF task
      <3>1. QED BY <2>3, <2>4, SupersededIsQueue, AppendProperties
    <2>6. x = [r EXCEPT !.requested = st, !.queue = q]
      OBVIOUS
    <2> HIDE DEF q, x
    <2>7. /\ x \in Closure /\ x.requested = st /\ x.queue = q
          /\ x.session = r.session /\ x.call = r.call /\ x.begin = r.begin
      BY <2>2, <2>5, <2>6 DEF Closure
    <2>8. Proper(x) /\ Quiet(x, r)
      BY <2>2, <2>5, <2>7, MarkersApart DEF Proper, Quiet, Holds, Null
    <2>9. QED BY <2>1, <2>8
  <1>3. QED BY <1>1, <1>2

LEMMA StartIsQuiet ==
    ASSUME NEW r, Proper(r)
    PROVE  Proper(StartSession(r)) /\ Quiet(StartSession(r), r)
  <1>1. CASE ~(r.phase = "mounted" /\ r.begin = "idle" /\ ~Holds(r))
    BY <1>1 DEF StartSession, Quiet
  <1>2. CASE r.phase = "mounted" /\ r.begin = "idle" /\ ~Holds(r)
    <2> DEFINE x == [r EXCEPT !.begin = "sent"]
    <2>1. /\ x \in Closure /\ x.begin = "sent" /\ x.requested = r.requested
          /\ x.session = r.session /\ x.queue = r.queue /\ x.call = r.call
      BY DEF Proper, Closure
    <2> HIDE DEF x
    <2>2. Proper(x) /\ Quiet(x, r)
      BY <1>2, <2>1 DEF Proper, Quiet, Holds
    <2>3. QED BY <1>2, <2>2 DEF StartSession, x
  <1>3. QED BY <1>1, <1>2

LEMMA SyncIsQuiet ==
    ASSUME NEW r, Proper(r), NEW f \in BOOLEAN
    PROVE  Proper(SyncForegroundState(r, f)) /\ Quiet(SyncForegroundState(r, f), r)
  <1>1. "visible" \in ActivityState /\ "paused" \in ActivityState
    BY MarkersApart
  <1>2. IsForeground(r, f) \in BOOLEAN /\ Holds(r) \in BOOLEAN
    BY DEF IsForeground, Holds
  <1>3. CASE IsForeground(r, f) /\ Holds(r)
    BY <1>1, <1>3, EnqueueIsQuiet DEF SyncForegroundState
  <1>4. CASE IsForeground(r, f) /\ ~Holds(r)
    BY <1>4, StartIsQuiet DEF SyncForegroundState
  <1>5. CASE ~IsForeground(r, f)
    BY <1>1, <1>5, EnqueueIsQuiet DEF SyncForegroundState
  <1>6. QED BY <1>3, <1>4, <1>5

LEMMA SettledIsQuiet ==
    ASSUME NEW r, Proper(r), NEW f \in BOOLEAN
    PROVE  Proper(Settled(r, f)) /\ Quiet(Settled(r, f), r)
  <1> DEFINE sendable == {i \in DOMAIN r.queue : MaySend(r, r.queue[i], f)}
             first == SubSeq(r.queue, Min(sendable), Len(r.queue))
             none == [r EXCEPT !.queue = <<>>]
             x == [r EXCEPT !.queue = SubSeq(@, Min(sendable), Len(@)), !.call = "sent"]
  <1>1. CASE r.call # "idle"
    BY <1>1 DEF Settled, Quiet
  <1>2. CASE r.call = "idle" /\ sendable = {}
    <2>1. Settled(r, f) = none
      BY <1>2 DEF Settled
    <2>2. <<>> \in Seq(Task)
      OBVIOUS
    <2>3. /\ none \in Closure /\ none.requested = r.requested /\ none.session = r.session
          /\ none.call = r.call /\ none.begin = r.begin
      BY <2>2 DEF Proper, Closure
    <2> HIDE DEF none
    <2>4. QED BY <1>2, <2>1, <2>3, MarkersApart DEF Proper, Quiet, Holds
  <1>3. CASE r.call = "idle" /\ sendable # {}
    <2>1. Settled(r, f) = x
      BY <1>3 DEF Settled
    <2>2. r.queue \in Seq(Task)
      BY ClosureFields DEF Proper
    <2>3. sendable \in SUBSET Nat /\ \A i \in sendable : i \in 1..Len(r.queue)
      BY <2>2
    <2>4. Min(sendable) \in sendable
      <3> HIDE DEF sendable
      <3>1. QED BY <1>3, <2>3, LeastOf
    <2>5. Holds(r)
      BY <2>4 DEF MaySend
    <2> DEFINE m == Min(sendable)
    <2>6. m \in 1..Len(r.queue)
      BY <2>3, <2>4
    <2> HIDE DEF m, sendable
    <2>7. first \in Seq(Task) /\ Len(first) = Len(r.queue) - m + 1
      <3>1. \A i \in m..Len(r.queue) : r.queue[i] \in Task
        BY <2>2, <2>6
      <3>2. m \in Int /\ Len(r.queue) \in Int
        BY <2>2, <2>6
      <3>3. QED BY <2>6, <3>1, <3>2, SubSeqProperties DEF m
    <2>8. first # <<>>
      <3>1. Len(first) >= 1
        BY <2>2, <2>6, <2>7
      <3>2. Len(<<>>) = 0
        OBVIOUS
      <3> HIDE DEF first
      <3>3. QED BY <3>1, <3>2
    <2>9. x = [r EXCEPT !.queue = first, !.call = "sent"]
      OBVIOUS
    <2> HIDE DEF x, first
    <2>10. /\ x \in Closure /\ x.requested = r.requested /\ x.session = r.session
           /\ x.queue = first /\ x.call = "sent" /\ x.begin = r.begin
      BY <2>7, <2>9 DEF Proper, Closure, CallState
    <2>11. QED BY <1>3, <2>1, <2>5, <2>8, <2>10, MarkersApart DEF Proper, Quiet, Holds
  <1>4. QED BY <1>1, <1>2, <1>3

-----------------------------------------------------------------------------
(* Types. *)

\* What every action leaves well typed.
Shape ==
    /\ SessionsTypeOK
    /\ fg \in BOOLEAN
    /\ effect \in [Effect -> Closure]
    /\ \A e \in Effect : Proper(effect[e])
    /\ events \in 0..MaxEvents
    /\ errors \in 0..MaxErrors
    /\ redeliveries \in 0..MaxRedeliveries
    /\ lapsed \subseteq SessionId

\* The sessions an effect stands for.
Names(r) == {r.session.id, r.begin} \cap SessionId

\* The handle r agrees with its row, of which row and number are the state and the last
\* sequence number.
InStep(r, row, number, repeated, failed) ==
    \/ /\ r.call \in {"idle", "sent", "error"}
       /\ number = r.session.seq
       /\ row = r.session.state
    \/ /\ r.call \in {"idle", "sent", "error"}
       /\ repeated > 0
       /\ r.call = "sent" \/ failed > 0
       /\ number = r.session.seq + 1
    \/ /\ r.call \in ActivityState
       /\ number = r.session.seq + 1
       /\ row = r.call

\* Effects stand for sessions of their own that have been begun, and live ones are in step
\* with the handles on them.
Handles ==
    /\ \A s \in SessionId : state[s] = "unused" => seq[s] = 0
    /\ \A e \in Effect : \A s \in Names(effect[e]) : state[s] # "unused"
    /\ \A d, e \in Effect : d # e => Names(effect[d]) \cap Names(effect[e]) = {}
    /\ \A e \in Effect :
           LET s == effect[e].session.id
           IN  Holds(effect[e]) /\ Live(s)
                   => InStep(effect[e], state[s], seq[s], redeliveries, errors)
    /\ \A e \in Effect :
           effect[e].begin \in SessionId /\ Live(effect[e].begin)
               => seq[effect[e].begin] = 0 /\ state[effect[e].begin] = "visible"

HookInv == Shape /\ Handles

LEMMA HookStarts == Init => HookInv
  <1> SUFFICES ASSUME Init PROVE HookInv
    OBVIOUS
  <1>1. \A e \in Effect : effect[e] = Unmounted
    BY DEF Init
  <1>2. Unmounted \in Closure /\ Unmounted.session.id = None /\ Unmounted.begin = "idle"
    BY UnmountedIsProper DEF Proper, Unmounted, Null
  <1>3. Shape
    <2>1. SessionsTypeOK
      BY DEF Init, SessionsInit, SessionsTypeOK, RowState
    <2>2. effect \in [Effect -> Closure]
      BY <1>2 DEF Init
    <2>3. QED BY <1>1, <2>1, <2>2, UnmountedIsProper DEF Shape, Init
  <1>4. \A e \in Effect : Names(effect[e]) = {} /\ ~Holds(effect[e]) /\ effect[e].begin \notin SessionId
    BY <1>1, <1>2, MarkersApart DEF Names, Holds
  <1>5. Handles
    BY <1>4 DEF Handles, Init, SessionsInit
  <1>6. QED BY <1>3, <1>5 DEF HookInv

LEMMA OneEffect ==
    ASSUME Shape, NEW e \in Effect, NEW x, Proper(x), effect' = [effect EXCEPT ![e] = x]
    PROVE  /\ effect' \in [Effect -> Closure]
           /\ \A d \in Effect : Proper(effect'[d])
           /\ effect'[e] = x
           /\ \A d \in Effect : d # e => effect'[d] = effect[d]
  <1>1. x \in Closure
    BY DEF Proper
  <1>2. effect \in [Effect -> Closure]
    BY DEF Shape
  <1>3. QED BY <1>1, <1>2 DEF Shape

LEMMA QuietAfterQuiet ==
    ASSUME NEW x, NEW y, NEW z, Quiet(x, y), Quiet(y, z)
    PROVE  Quiet(x, z)
    BY DEF Quiet

LEMMA NothingIsQuiet == \A x : Quiet(x, x)
    BY DEF Quiet

\* A quiet effect stands for no other session, and is as much in step as it was.
LEMMA QuietNames ==
    ASSUME NEW x, NEW r, Quiet(x, r), Proper(r)
    PROVE  Names(x) \subseteq Names(r) /\ (x.begin \in SessionId => x.begin = r.begin)
    BY MarkersApart DEF Quiet, Names

LEMMA QuietInStep ==
    ASSUME NEW x, NEW r, Quiet(x, r), NEW row, NEW number,
           NEW p \in Nat, NEW q \in Nat, NEW pp \in Nat, NEW qq \in Nat, p <= pp, q <= qq,
           InStep(r, row, number, p, q)
    PROVE  InStep(x, row, number, pp, qq)
    BY MarkersApart DEF InStep, Quiet

LEMMA QuietStep ==
    ASSUME HookInv, UNCHANGED <<state, seq>>,
           effect' \in [Effect -> Closure],
           \A d \in Effect : Proper(effect'[d]) /\ Quiet(effect'[d], effect[d]),
           fg' \in BOOLEAN, lapsed' \subseteq SessionId,
           events' \in 0..MaxEvents, errors' \in 0..MaxErrors,
           redeliveries' \in 0..MaxRedeliveries,
           errors <= errors', redeliveries <= redeliveries'
    PROVE  HookInv'
  <1>1. Shape'
    BY DEF HookInv, Shape, SessionsTypeOK
  <1>2. \A d \in Effect : /\ Names(effect'[d]) \subseteq Names(effect[d])
                          /\ effect'[d].begin \in SessionId => effect'[d].begin = effect[d].begin
                          /\ effect'[d].session = effect[d].session
    BY QuietNames DEF HookInv, Shape, Quiet
  <1>3. \A s \in SessionId : state'[s] = "unused" => seq'[s] = 0
    BY DEF HookInv, Handles
  <1>4. \A d \in Effect : \A s \in Names(effect'[d]) : state'[s] # "unused"
    BY <1>2 DEF HookInv, Handles
  <1>5. \A d, e \in Effect : d # e => Names(effect'[d]) \cap Names(effect'[e]) = {}
    BY <1>2 DEF HookInv, Handles
  <1>6. ASSUME NEW d \in Effect, Holds(effect'[d]), state'[effect'[d].session.id] \in LiveState
        PROVE  InStep(effect'[d], state'[effect'[d].session.id], seq'[effect'[d].session.id],
                      redeliveries', errors')
    <2> DEFINE s == effect[d].session.id
    <2>1. InStep(effect[d], state[s], seq[s], redeliveries, errors)
      BY <1>2, <1>6 DEF HookInv, Handles, Holds, Live
    <2>2. errors \in Nat /\ redeliveries \in Nat /\ errors' \in Nat /\ redeliveries' \in Nat
      BY DEF HookInv, Shape
    <2>3. InStep(effect'[d], state[s], seq[s], redeliveries', errors')
      BY <2>1, <2>2, QuietInStep
    <2>4. QED BY <1>2, <2>3
  <1>7. ASSUME NEW d \in Effect, effect'[d].begin \in SessionId,
               state'[effect'[d].begin] \in LiveState
        PROVE  seq'[effect'[d].begin] = 0 /\ state'[effect'[d].begin] = "visible"
    BY <1>2, <1>7 DEF HookInv, Handles, Live
  <1>8. Handles'
    BY <1>3, <1>4, <1>5, <1>6, <1>7 DEF Handles, Live, Holds
  <1>9. QED BY <1>1, <1>8 DEF HookInv

\* A step that takes one effect over to x and leaves the rows alone.
LEMMA HandoverStep ==
    ASSUME HookInv, UNCHANGED <<state, seq, fg, lapsed>>,
           NEW e \in Effect, NEW x, Proper(x), effect' = [effect EXCEPT ![e] = x],
           events' \in 0..MaxEvents, errors' \in 0..MaxErrors,
           redeliveries' \in 0..MaxRedeliveries,
           errors <= errors', redeliveries <= redeliveries',
           Names(x) \subseteq Names(effect[e]),
           x.begin \in SessionId => x.begin = effect[e].begin,
           Holds(x) /\ Live(x.session.id)
               => InStep(x, state[x.session.id], seq[x.session.id], redeliveries', errors')
    PROVE  HookInv'
  <1>1. /\ effect' \in [Effect -> Closure]
        /\ \A d \in Effect : Proper(effect'[d])
        /\ effect'[e] = x
        /\ \A d \in Effect : d # e => effect'[d] = effect[d]
    BY OneEffect DEF HookInv
  <1>2. Shape'
    BY <1>1 DEF HookInv, Shape, SessionsTypeOK
  <1>3. \A d \in Effect : /\ Names(effect'[d]) \subseteq Names(effect[d])
                          /\ effect'[d].begin \in SessionId => effect'[d].begin = effect[d].begin
    BY <1>1
  <1>4. \A s \in SessionId : state'[s] = "unused" => seq'[s] = 0
    BY DEF HookInv, Handles
  <1>5. \A d \in Effect : \A s \in Names(effect'[d]) : state'[s] # "unused"
    BY <1>3 DEF HookInv, Handles
  <1>6. \A c, d \in Effect : c # d => Names(effect'[c]) \cap Names(effect'[d]) = {}
    BY <1>3 DEF HookInv, Handles
  <1>7. ASSUME NEW d \in Effect, Holds(effect'[d]), state'[effect'[d].session.id] \in LiveState
        PROVE  InStep(effect'[d], state'[effect'[d].session.id], seq'[effect'[d].session.id],
                      redeliveries', errors')
    <2>1. CASE d = e
      BY <1>1, <1>7, <2>1 DEF Live
    <2>2. CASE d # e
      <3> DEFINE s == effect[d].session.id
      <3>1. InStep(effect[d], state[s], seq[s], redeliveries, errors)
        BY <1>1, <1>7, <2>2 DEF HookInv, Handles, Holds, Live
      <3>2. errors \in Nat /\ redeliveries \in Nat /\ errors' \in Nat /\ redeliveries' \in Nat
        BY DEF HookInv, Shape
      <3>3. InStep(effect[d], state[s], seq[s], redeliveries', errors')
        BY <3>1, <3>2, QuietInStep, NothingIsQuiet
      <3>4. QED BY <1>1, <2>2, <3>3
    <2>3. QED BY <2>1, <2>2
  <1>8. ASSUME NEW d \in Effect, effect'[d].begin \in SessionId,
               state'[effect'[d].begin] \in LiveState
        PROVE  seq'[effect'[d].begin] = 0 /\ state'[effect'[d].begin] = "visible"
    BY <1>3, <1>8 DEF HookInv, Handles, Live
  <1>9. Handles'
    BY <1>4, <1>5, <1>6, <1>7, <1>8 DEF Handles, Live, Holds
  <1>10. QED BY <1>2, <1>9 DEF HookInv

-----------------------------------------------------------------------------
(* One lemma for each action: the window and the timers first. *)

LEMMA RunsQuietly ==
    ASSUME HookInv, NEW e \in Effect, NEW y, Proper(y), Quiet(y, effect[e]), Runs(e, y, fg)
    PROVE  /\ effect' \in [Effect -> Closure]
           /\ \A d \in Effect : Proper(effect'[d]) /\ Quiet(effect'[d], effect[d])
  <1>1. Proper(Settled(y, fg)) /\ Quiet(Settled(y, fg), y)
    BY SettledIsQuiet DEF HookInv, Shape
  <1>2. effect' = [effect EXCEPT ![e] = Settled(y, fg)]
    BY DEF Runs
  <1>3. Quiet(Settled(y, fg), effect[e])
    BY <1>1, QuietAfterQuiet
  <1>4. QED BY <1>1, <1>2, <1>3, OneEffect, NothingIsQuiet DEF HookInv

\* The flags of an effect are nobody's handle.
LEMMA FlagsAreQuiet ==
    ASSUME NEW r, Proper(r), NEW p \in {"unmounted", "mounted", "disposed"},
           NEW h \in BOOLEAN, NEW t \in BOOLEAN
    PROVE  LET both == [r EXCEPT !.phase = p, !.startTimer = t]
               hidden == [r EXCEPT !.pageHidden = h]
               started == [r EXCEPT !.startTimer = t]
           IN  /\ Proper(both) /\ Quiet(both, r)
               /\ Proper(hidden) /\ Quiet(hidden, r)
               /\ Proper(started) /\ Quiet(started, r)
  <1> DEFINE both == [r EXCEPT !.phase = p, !.startTimer = t]
             hidden == [r EXCEPT !.pageHidden = h]
             started == [r EXCEPT !.startTimer = t]
  <1>1. r \in Closure
    BY DEF Proper
  <1> DEFINE Same(x) == /\ x \in Closure
                        /\ x.session = r.session /\ x.requested = r.requested
                        /\ x.queue = r.queue /\ x.call = r.call /\ x.begin = r.begin
  <1>2. \A x \in {both, hidden, started} : Same(x)
    <2>1. Same(both)
      BY <1>1 DEF Closure
    <2>2. Same(hidden)
      BY <1>1 DEF Closure
    <2>3. Same(started)
      BY <1>1 DEF Closure
    <2> HIDE DEF both, hidden, started, Same
    <2>4. QED BY <2>1, <2>2, <2>3
  <1>3. \A x \in {both, hidden, started} : Proper(x) /\ Quiet(x, r)
    <2> HIDE DEF both, hidden, started
    <2>1. QED BY <1>2 DEF Proper, Quiet, Holds
  <1>4. QED BY <1>3

LEMMA MountKeeps ==
    ASSUME HookInv, NEW e \in Effect, Mount(e)
    PROVE  HookInv'
  <1> DEFINE x == [effect[e] EXCEPT !.phase = "mounted", !.startTimer = TRUE]
  <1>1. Proper(effect[e]) /\ effect[e] \in Closure
    BY DEF HookInv, Shape
  <1>2. effect' = [effect EXCEPT ![e] = x]
    BY DEF Mount, HookInv, Shape
  <1>3. Proper(x) /\ Quiet(x, effect[e])
    BY <1>1, FlagsAreQuiet
  <1> HIDE DEF x
  <1>4. /\ effect' \in [Effect -> Closure]
        /\ \A d \in Effect : Proper(effect'[d]) /\ Quiet(effect'[d], effect[d])
    BY <1>2, <1>3, OneEffect, NothingIsQuiet DEF HookInv
  <1>5. QED BY <1>4, QuietStep DEF Mount, envVars, HookInv, Shape

LEMMA DisposeKeeps ==
    ASSUME HookInv, NEW e \in Effect, Dispose(e)
    PROVE  HookInv'
  <1> DEFINE y == [effect[e] EXCEPT !.phase = "disposed", !.startTimer = FALSE]
             z == EnqueueObservation(y, "ended", FALSE)
  <1>1. Proper(effect[e])
    BY DEF HookInv, Shape
  <1>2. Proper(y) /\ Quiet(y, effect[e])
    BY <1>1, FlagsAreQuiet
  <1> HIDE DEF y
  <1>3. Proper(z) /\ Quiet(z, effect[e])
    BY <1>2, EnqueueIsQuiet, QuietAfterQuiet, MarkersApart
  <1>4. Runs(e, z, fg)
    BY DEF Dispose, y
  <1> HIDE DEF z
  <1>5. /\ effect' \in [Effect -> Closure]
        /\ \A d \in Effect : Proper(effect'[d]) /\ Quiet(effect'[d], effect[d])
    BY <1>3, <1>4, RunsQuietly
  <1>6. QED BY <1>5, QuietStep DEF Dispose, Spend, HookInv, Shape

LEMMA HeldVisibleSessions == HeldVisible \subseteq SessionId
    BY DEF HeldVisible

LEMMA WindowEventKeeps ==
    ASSUME HookInv, NEW f \in BOOLEAN, WindowEvent(f)
    PROVE  HookInv'
  <1> DEFINE y(d) == SyncForegroundState(effect[d], f)
  <1>1. ASSUME NEW d \in Effect
        PROVE  /\ Proper(effect'[d]) /\ Quiet(effect'[d], effect[d])
               /\ effect'[d] \in Closure
    <2>1. Proper(effect[d])
      BY DEF HookInv, Shape
    <2>2. Proper(y(d)) /\ Quiet(y(d), effect[d])
      BY <2>1, SyncIsQuiet
    <2>3. Proper(Settled(y(d), f)) /\ Quiet(Settled(y(d), f), effect[d])
      <3> HIDE DEF y
      <3>1. QED BY <2>2, SettledIsQuiet, QuietAfterQuiet
    <2>4. effect'[d] = Settled(y(d), f) \/ effect'[d] = effect[d]
      BY DEF WindowEvent
    <2>5. QED BY <2>1, <2>3, <2>4, NothingIsQuiet DEF Proper
  <1>2. effect' \in [Effect -> Closure]
    BY <1>1 DEF WindowEvent
  <1>3. lapsed' \subseteq SessionId
    BY HeldVisibleSessions DEF WindowEvent, HookInv, Shape
  <1>4. QED BY <1>1, <1>2, <1>3, QuietStep DEF WindowEvent, Spend, HookInv, Shape

LEMMA PageHideKeeps ==
    ASSUME HookInv, NEW e \in Effect, PageHide(e)
    PROVE  HookInv'
  <1> DEFINE y == [effect[e] EXCEPT !.pageHidden = TRUE]
             z == EnqueueObservation(y, "paused", FALSE)
  <1>1. Proper(effect[e])
    BY DEF HookInv, Shape
  <1>2. Proper(y) /\ Quiet(y, effect[e])
    BY <1>1, FlagsAreQuiet
  <1> HIDE DEF y
  <1>3. Proper(z) /\ Quiet(z, effect[e])
    BY <1>2, EnqueueIsQuiet, QuietAfterQuiet, MarkersApart
  <1>4. Runs(e, z, fg)
    BY DEF PageHide, y
  <1> HIDE DEF z
  <1>5. /\ effect' \in [Effect -> Closure]
        /\ \A d \in Effect : Proper(effect'[d]) /\ Quiet(effect'[d], effect[d])
    BY <1>3, <1>4, RunsQuietly
  <1>6. lapsed' \subseteq SessionId
    BY HeldVisibleSessions DEF PageHide, HookInv, Shape
  <1>7. QED BY <1>5, <1>6, QuietStep DEF PageHide, Spend, HookInv, Shape

LEMMA PageShowKeeps ==
    ASSUME HookInv, NEW e \in Effect, PageShow(e)
    PROVE  HookInv'
  <1> DEFINE y == [effect[e] EXCEPT !.pageHidden = FALSE]
             z == SyncForegroundState(y, fg)
  <1>1. Proper(effect[e]) /\ fg \in BOOLEAN
    BY DEF HookInv, Shape
  <1>2. Proper(y) /\ Quiet(y, effect[e])
    BY <1>1, FlagsAreQuiet
  <1> HIDE DEF y
  <1>3. Proper(z) /\ Quiet(z, effect[e])
    BY <1>1, <1>2, SyncIsQuiet, QuietAfterQuiet
  <1>4. Runs(e, z, fg)
    BY DEF PageShow, y
  <1> HIDE DEF z
  <1>5. /\ effect' \in [Effect -> Closure]
        /\ \A d \in Effect : Proper(effect'[d]) /\ Quiet(effect'[d], effect[d])
    BY <1>3, <1>4, RunsQuietly
  <1>6. QED BY <1>5, QuietStep DEF PageShow, Spend, HookInv, Shape

LEMMA StartTimerKeeps ==
    ASSUME HookInv, NEW e \in Effect, StartTimer(e)
    PROVE  HookInv'
  <1> DEFINE y == [effect[e] EXCEPT !.startTimer = FALSE]
             z == SyncForegroundState(y, fg)
  <1>1. Proper(effect[e]) /\ fg \in BOOLEAN
    BY DEF HookInv, Shape
  <1>2. Proper(y) /\ Quiet(y, effect[e])
    BY <1>1, FlagsAreQuiet
  <1> HIDE DEF y
  <1>3. Proper(z) /\ Quiet(z, effect[e])
    BY <1>1, <1>2, SyncIsQuiet, QuietAfterQuiet
  <1>4. Runs(e, z, fg)
    BY DEF StartTimer, y
  <1> HIDE DEF z
  <1>5. /\ effect' \in [Effect -> Closure]
        /\ \A d \in Effect : Proper(effect'[d]) /\ Quiet(effect'[d], effect[d])
    BY <1>3, <1>4, RunsQuietly
  <1>6. QED BY <1>5, QuietStep DEF StartTimer, envVars, HookInv, Shape

LEMMA HeartbeatKeeps ==
    ASSUME HookInv, NEW e \in Effect, Heartbeat(e)
    PROVE  HookInv'
  <1> DEFINE y == EnqueueObservation(effect[e], "visible", TRUE)
             z == StartSession(effect[e])
  <1>1. Proper(effect[e])
    BY DEF HookInv, Shape
  <1>2. Proper(y) /\ Quiet(y, effect[e]) /\ Proper(z) /\ Quiet(z, effect[e])
    BY <1>1, EnqueueIsQuiet, StartIsQuiet, MarkersApart
  <1>3. Runs(e, y, fg) \/ Runs(e, z, fg)
    BY DEF Heartbeat
  <1> HIDE DEF y, z
  <1>4. /\ effect' \in [Effect -> Closure]
        /\ \A d \in Effect : Proper(effect'[d]) /\ Quiet(effect'[d], effect[d])
    BY <1>2, <1>3, RunsQuietly
  <1>5. QED BY <1>4, QuietStep DEF Heartbeat, envVars, HookInv, Shape

-----------------------------------------------------------------------------
(* The user, the process, the commands and their answers. *)

LEMMA DeleteHistoryKeeps ==
    ASSUME HookInv, NEW S \in SUBSET SessionId, DeleteHistory(S)
    PROVE  HookInv'
  <1>1. /\ UNCHANGED <<fg, effect, errors, redeliveries>>
        /\ events' \in 0..MaxEvents /\ lapsed' \subseteq SessionId
        /\ DeleteSessions(S)
    BY DEF DeleteHistory, Spend, HookInv, Shape
  <1>2. \A s \in SessionId : /\ state'[s] = IF s \in S THEN "deleted" ELSE state[s]
                             /\ seq'[s] = IF s \in S THEN 0 ELSE seq[s]
    BY <1>1 DEF DeleteSessions
  <1>3. SessionsTypeOK'
    BY <1>1 DEF HookInv, Shape, DeleteSessions, SessionsTypeOK, RowState
  <1>4. Shape'
    BY <1>1, <1>3 DEF HookInv, Shape
  <1>5. \A s \in SessionId :
            state'[s] \in LiveState => state'[s] = state[s] /\ seq'[s] = seq[s]
    BY <1>2 DEF LiveState
  <1>6. \A e \in Effect : Holds(effect[e]) => effect[e].session.id \in SessionId
    BY ClosureFields DEF HookInv, Shape, Holds
  <1>7. Handles'
    <2>1. \A s \in SessionId : state'[s] = "unused" => seq'[s] = 0
      BY <1>2 DEF HookInv, Handles
    <2>2. \A e \in Effect : \A s \in Names(effect[e]) : state'[s] # "unused"
      BY <1>2 DEF HookInv, Handles, Names
    <2>3. ASSUME NEW e \in Effect, Holds(effect[e]),
                 state'[effect[e].session.id] \in LiveState
          PROVE  InStep(effect[e], state'[effect[e].session.id], seq'[effect[e].session.id],
                        redeliveries, errors)
      BY <1>5, <1>6, <2>3 DEF HookInv, Handles, Live
    <2>4. ASSUME NEW e \in Effect, effect[e].begin \in SessionId,
                 state'[effect[e].begin] \in LiveState
          PROVE  seq'[effect[e].begin] = 0 /\ state'[effect[e].begin] = "visible"
      BY <1>5, <2>4 DEF HookInv, Handles, Live
    <2>5. QED BY <1>1, <2>1, <2>2, <2>3, <2>4 DEF HookInv, Handles, Live
  <1>8. QED BY <1>4, <1>7 DEF HookInv

LEMMA RestartKeeps ==
    ASSUME HookInv, Restart
    PROVE  HookInv'
  <1> DEFINE gone == [Unmounted EXCEPT !.phase = "disposed"]
  <1>1. /\ Unmounted.session.id = None /\ Unmounted.begin = "idle"
        /\ Unmounted \in Closure
        /\ gone.session.id = None /\ gone.begin = "idle"
        /\ Proper(gone) /\ gone \in Closure
    <2>1. Unmounted.session.id = None /\ Unmounted.begin = "idle"
      BY DEF Unmounted, Null
    <2>2. gone.session.id = None /\ gone.begin = "idle"
      BY DEF Unmounted, Null
    <2>3. Unmounted \in Closure
      BY UnmountedIsProper DEF Proper
    <2>5. gone \in Closure
      BY <2>3 DEF Closure
    <2>6. /\ gone.session = Null /\ gone.requested = None /\ gone.call = "idle"
          /\ "idle" \notin ActivityState
      BY MarkersApart DEF Unmounted
    <2>7. Proper(gone)
      BY <2>2, <2>5, <2>6 DEF Proper, Holds, Null
    <2>8. QED BY <2>1, <2>2, <2>3, <2>5, <2>7
  <1> HIDE DEF gone
  <1>2. \A e \in Effect : effect'[e] \in {Unmounted, gone}
    BY DEF Restart, gone
  <1>3. effect' \in [Effect -> Closure]
    BY <1>1 DEF Restart, gone
  <1>4. \A e \in Effect : /\ Proper(effect'[e])
                          /\ Names(effect'[e]) = {}
                          /\ ~Holds(effect'[e])
                          /\ effect'[e].begin \notin SessionId
    BY <1>1, <1>2, UnmountedIsProper, MarkersApart DEF Names, Holds
  <1>5. SessionsTypeOK
    BY DEF HookInv, Shape
  <1>6. SessionsTypeOK' /\ \A s \in SessionId : state'[s] = "unused" => state[s] = "unused"
    BY <1>5, AllEndedStates DEF Restart, RecoverSessions, SessionsTypeOK
  <1>7. Shape'
    BY <1>3, <1>4, <1>6 DEF HookInv, Shape, Restart, Spend
  <1>8. Handles'
    BY <1>4, <1>6 DEF HookInv, Handles, Restart, RecoverSessions
  <1>9. QED BY <1>7, <1>8 DEF HookInv

LEMMA ServeBeginKeeps ==
    ASSUME HookInv, NEW e \in Effect, ServeBegin(e)
    PROVE  HookInv'
  <1> DEFINE fresh == FreshId
             x == [effect[e] EXCEPT !.begin = fresh]
  <1>1. fresh \in SessionId /\ state[fresh] = "unused"
    BY DEF ServeBegin, FreshId
  <1>2. /\ UNCHANGED <<fg, envVars, lapsed, seq>>
        /\ effect[e].begin = "sent"
        /\ state' = [AllEnded EXCEPT ![fresh] = "visible"]
        /\ effect' = [effect EXCEPT ![e].begin = fresh]
    BY DEF ServeBegin, BeginSession
  <1> HIDE DEF fresh
  <1>3. Proper(effect[e]) /\ SessionsTypeOK /\ effect \in [Effect -> Closure]
    BY DEF HookInv, Shape
  <1>4. /\ x \in Closure /\ x.begin = fresh /\ x.requested = effect[e].requested
        /\ x.session = effect[e].session /\ x.queue = effect[e].queue
        /\ x.call = effect[e].call
    BY ZenonT(60), <1>1, <1>3 DEF Closure
  <1>5. effect' = [effect EXCEPT ![e] = x]
    BY <1>2, <1>3
  <1> HIDE DEF x
  <1>6. ~Holds(effect[e])
    BY <1>2, <1>3 DEF Proper
  <1>7. Proper(x) /\ ~Holds(x)
    BY <1>3, <1>4, <1>6 DEF Proper, Holds
  <1>8. /\ effect' \in [Effect -> Closure]
        /\ \A d \in Effect : Proper(effect'[d])
        /\ effect'[e] = x
        /\ \A d \in Effect : d # e => effect'[d] = effect[d]
    BY <1>5, <1>7, OneEffect DEF HookInv
  <1>9. /\ state'[fresh] = "visible"
        /\ \A s \in SessionId \ {fresh} : state'[s] \notin LiveState
        /\ \A s \in SessionId : state'[s] = "unused" => state[s] = "unused"
        /\ SessionsTypeOK'
    BY <1>1, <1>2, <1>3, AllEndedStates
       DEF SessionsTypeOK, RowState, ActivityState, LiveState
  <1>10. Shape'
    BY <1>2, <1>8, <1>9 DEF HookInv, Shape, envVars
  <1>11. Names(x) = {fresh}
    BY <1>1, <1>4, <1>6, MarkersApart DEF Names, Holds
  <1>12. \A d \in Effect : fresh \notin Names(effect[d])
    BY <1>1 DEF HookInv, Handles
  <1>13. Handles'
    <2>1. \A s \in SessionId : state'[s] = "unused" => seq'[s] = 0
      BY <1>2, <1>9 DEF HookInv, Handles
    <2>2. \A d \in Effect : \A s \in Names(effect'[d]) : state'[s] # "unused"
      <3>1. ASSUME NEW d \in Effect, NEW s \in Names(effect'[d])
            PROVE  state'[s] # "unused"
        <4>1. CASE d = e
          BY <1>8, <1>9, <1>11, <3>1, <4>1
        <4>2. CASE d # e
          BY <1>8, <1>9, <3>1, <4>2 DEF HookInv, Handles, Names
        <4>3. QED BY <4>1, <4>2
      <3>2. QED BY <3>1
    <2>3. \A c, d \in Effect : c # d => Names(effect'[c]) \cap Names(effect'[d]) = {}
      BY <1>8, <1>11, <1>12 DEF HookInv, Handles
    <2>4. ASSUME NEW d \in Effect, Holds(effect'[d])
          PROVE  state'[effect'[d].session.id] \notin LiveState
      <3>1. d # e /\ effect'[d] = effect[d]
        BY <1>7, <1>8, <2>4
      <3>2. effect[d].session.id \in Names(effect[d])
        BY <2>4, <3>1, ClosureFields DEF HookInv, Shape, Holds, Names
      <3>3. effect[d].session.id \in SessionId \ {fresh}
        BY <1>12, <3>2 DEF Names
      <3>4. QED BY <1>9, <3>1, <3>3
    <2>5. ASSUME NEW d \in Effect, effect'[d].begin \in SessionId,
                 state'[effect'[d].begin] \in LiveState
          PROVE  seq'[effect'[d].begin] = 0 /\ state'[effect'[d].begin] = "visible"
      <3>1. effect'[d].begin = fresh
        BY <1>9, <2>5
      <3>2. seq'[fresh] = 0
        BY <1>1, <1>2 DEF HookInv, Handles
      <3>3. QED BY <1>9, <3>1, <3>2
    <2>6. QED BY <2>1, <2>2, <2>3, <2>4, <2>5 DEF Handles, Live
  <1>14. QED BY <1>10, <1>13 DEF HookInv

\* What is in flight is for a session with a row, and has a task.
LEMMA CallsHaveTasks ==
    ASSUME HookInv, NEW e \in Effect, effect[e].call # "idle"
    PROVE  /\ effect[e] \in Closure /\ Proper(effect[e]) /\ Holds(effect[e])
           /\ effect[e].session.id \in SessionId
           /\ effect[e].session.id \in Names(effect[e])
           /\ effect[e].begin = "idle"
           /\ Head(effect[e].queue) \in Task
           /\ Tail(effect[e].queue) \in Seq(Task)
           /\ Head(effect[e].queue).state \in ActivityState
           /\ Head(effect[e].queue).latest \in BOOLEAN
  <1>1. effect[e] \in Closure /\ Proper(effect[e])
    BY DEF HookInv, Shape
  <1>2. Holds(effect[e]) /\ effect[e].queue # <<>> /\ effect[e].begin = "idle"
    BY <1>1 DEF Proper
  <1>3. effect[e].session.id \in SessionId /\ effect[e].session.id \in Names(effect[e])
    BY <1>1, <1>2, ClosureFields DEF Holds, Names
  <1>4. effect[e].queue \in Seq(Task)
    BY <1>1, ClosureFields
  <1>5. Head(effect[e].queue) \in Task /\ Tail(effect[e].queue) \in Seq(Task)
    BY <1>2, <1>4, HeadTailProperties
  <1>6. QED BY <1>1, <1>2, <1>3, <1>5 DEF Task

\* Only the answer to the command in flight changes.
LEMMA CallSet ==
    ASSUME NEW r, Proper(r), r.call # "idle", NEW c \in CallState,
           c \in ActivityState => r.session.seq < MaxSeq
    PROVE  LET x == [r EXCEPT !.call = c]
           IN  /\ Proper(x) /\ x.session = r.session /\ x.begin = r.begin /\ x.call = c
               /\ Holds(x) /\ Names(x) = Names(r)
  <1> DEFINE x == [r EXCEPT !.call = c]
  <1>1. /\ x \in Closure /\ x.begin = r.begin /\ x.requested = r.requested
        /\ x.session = r.session /\ x.queue = r.queue /\ x.call = c
    BY DEF Proper, Closure
  <1> HIDE DEF x
  <1>2. Proper(x) /\ Holds(x) /\ Names(x) = Names(r)
    BY <1>1 DEF Proper, Holds, Names
  <1>3. QED BY <1>1, <1>2 DEF x

LEMMA AcceptKeeps ==
    ASSUME HookInv, NEW e \in Effect, NEW st \in ActivityState, effect[e].call = "sent",
           UNCHANGED <<fg, envVars>>, lapsed' \subseteq SessionId,
           seq[effect[e].session.id] = effect[e].session.seq,
           AcceptObservation(effect[e].session.id, st),
           effect' = [effect EXCEPT ![e].call = st]
    PROVE  HookInv'
  <1> DEFINE s == effect[e].session.id
             x == [effect[e] EXCEPT !.call = st]
  <1>1. /\ effect[e] \in Closure /\ Proper(effect[e]) /\ s \in SessionId
        /\ s \in Names(effect[e]) /\ effect[e].begin = "idle" /\ Holds(effect[e])
    BY CallsHaveTasks
  <1>2. Live(s) /\ seq[s] < MaxSeq
    BY DEF AcceptObservation
  <1>3. SessionsTypeOK /\ effect \in [Effect -> Closure]
    BY DEF HookInv, Shape
  <1>4. /\ state'[s] = st /\ seq'[s] = seq[s] + 1
        /\ \A t \in SessionId \ {s} : state'[t] = state[t] /\ seq'[t] = seq[t]
        /\ SessionsTypeOK'
    BY <1>1, <1>2, <1>3 DEF AcceptObservation, SessionsTypeOK, RowState
  <1>5. effect' = [effect EXCEPT ![e] = x]
    BY <1>3
  <1>6. st \in CallState
    BY DEF CallState
  <1>7. /\ Proper(x) /\ x.session = effect[e].session /\ x.begin = effect[e].begin
        /\ x.call = st /\ Names(x) = Names(effect[e])
    BY <1>1, <1>2, <1>6, CallSet
  <1> HIDE DEF x
  <1>8. /\ effect' \in [Effect -> Closure]
        /\ \A d \in Effect : Proper(effect'[d])
        /\ effect'[e] = x
        /\ \A d \in Effect : d # e => effect'[d] = effect[d]
    BY <1>5, <1>7, OneEffect DEF HookInv
  <1>9. Shape'
    BY <1>4, <1>8 DEF HookInv, Shape, envVars
  <1>10. \A d \in Effect : Names(effect'[d]) = Names(effect[d])
    BY <1>7, <1>8
  <1>11. \A d \in Effect : d # e => s \notin Names(effect[d])
    BY <1>1 DEF HookInv, Handles
  <1> HIDE DEF s
  <1>12. \A t \in SessionId : state'[t] = "unused" => state[t] = "unused" /\ seq'[t] = seq[t]
    BY <1>1, <1>4, MarkersApart
  <1>13. Handles'
    <2>1. \A t \in SessionId : state'[t] = "unused" => seq'[t] = 0
      BY <1>12 DEF HookInv, Handles
    <2>2. \A d \in Effect : \A t \in Names(effect'[d]) : state'[t] # "unused"
      BY <1>10, <1>12 DEF HookInv, Handles, Names
    <2>3. \A c, d \in Effect : c # d => Names(effect'[c]) \cap Names(effect'[d]) = {}
      BY <1>10 DEF HookInv, Handles
    <2>4. ASSUME NEW d \in Effect, Holds(effect'[d]),
                 state'[effect'[d].session.id] \in LiveState
          PROVE  InStep(effect'[d], state'[effect'[d].session.id],
                        seq'[effect'[d].session.id], redeliveries', errors')
      <3>1. CASE d = e
        BY <1>4, <1>7, <1>8, <3>1 DEF InStep, s
      <3>2. CASE d # e
        <4>1. effect'[d] = effect[d]
          BY <1>8, <3>2
        <4>2. effect[d].session.id \in Names(effect[d])
          BY <2>4, <4>1, ClosureFields DEF HookInv, Shape, Holds, Names
        <4>3. effect[d].session.id \in SessionId \ {s}
          BY <1>11, <3>2, <4>2 DEF Names
        <4>4. QED BY <1>4, <2>4, <4>1, <4>3 DEF HookInv, Handles, Live, envVars
      <3>3. QED BY <3>1, <3>2
    <2>5. ASSUME NEW d \in Effect, effect'[d].begin \in SessionId,
                 state'[effect'[d].begin] \in LiveState
          PROVE  seq'[effect'[d].begin] = 0 /\ state'[effect'[d].begin] = "visible"
      <3>1. d # e /\ effect'[d] = effect[d]
        BY <1>1, <1>7, <1>8, <2>5, MarkersApart
      <3>2. effect[d].begin \in SessionId \ {s}
        BY <1>11, <2>5, <3>1 DEF Names
      <3>3. QED BY <1>4, <2>5, <3>1, <3>2 DEF HookInv, Handles, Live
    <2>6. QED BY <2>1, <2>2, <2>3, <2>4, <2>5 DEF Handles, Live
  <1>14. QED BY <1>9, <1>13 DEF HookInv

LEMMA ServeObservationKeeps ==
    ASSUME HookInv, NEW e \in Effect, ServeObservation(e)
    PROVE  HookInv'
  <1> DEFINE r == effect[e]
             s == effect[e].session.id
             st == Head(effect[e].queue).state
             q == effect[e].session.seq + 1
             x(c) == [effect[e] EXCEPT !.call = c]
  <1>1. r.call = "sent" /\ UNCHANGED <<fg, envVars>>
    BY DEF ServeObservation
  <1>2. r \in Closure /\ Proper(r) /\ Holds(r) /\ s \in SessionId /\ st \in ActivityState
    BY <1>1, CallsHaveTasks
  <1>3. SessionsTypeOK /\ effect \in [Effect -> Closure] /\ r.session.seq \in Nat
    BY <1>2, ClosureFields DEF HookInv, Shape
  <1>4. seq[s] \in 0..MaxSeq /\ state[s] \in RowState
    BY <1>2, <1>3 DEF SessionsTypeOK
  <1>5. Live(s) => InStep(r, state[s], seq[s], redeliveries, errors)
    BY <1>2 DEF HookInv, Handles
  <1>10. /\ events' \in 0..MaxEvents /\ errors' \in 0..MaxErrors
         /\ redeliveries' \in 0..MaxRedeliveries
         /\ errors <= errors' /\ redeliveries <= redeliveries'
    BY <1>1 DEF HookInv, Shape, envVars
  <1>6. CASE q = seq[s] + 1 /\ AcceptObservation(s, st)
             /\ effect' = [effect EXCEPT ![e].call = st] /\ lapsed' = lapsed \ {s}
    <2>1. seq[s] = r.session.seq
      BY <1>3, <1>4, <1>6
    <2>2. lapsed' \subseteq SessionId
      BY <1>6 DEF HookInv, Shape
    <2>3. QED BY <1>1, <1>2, <1>6, <2>1, <2>2, AcceptKeeps
  <1>7. CASE Exists(s) /\ q = seq[s] /\ effect' = [effect EXCEPT ![e].call = state[s]]
             /\ UNCHANGED <<state, seq, lapsed>>
    <2>1. state[s] \in ActivityState /\ state[s] \in CallState
      BY <1>7 DEF Exists, CallState
    <2>2. r.session.seq < MaxSeq
      BY <1>3, <1>4, <1>7
    <2>3. /\ Proper(x(state[s])) /\ x(state[s]).session = r.session
          /\ x(state[s]).begin = r.begin /\ x(state[s]).call = state[s]
          /\ Names(x(state[s])) = Names(r)
      BY <1>1, <1>2, <2>1, <2>2, CallSet
    <2>4. effect' = [effect EXCEPT ![e] = x(state[s])]
      BY <1>3, <1>7
    <2> HIDE DEF x
    <2>5. InStep(x(state[s]), state[s], seq[s], redeliveries', errors')
      BY <1>7, <2>1, <2>3 DEF InStep
    <2>6. QED BY <1>1, <1>7, <1>10, <2>3, <2>4, <2>5, HandoverStep
  <1>8. CASE (Exists(s) => q # seq[s]) /\ (Live(s) => q # seq[s] + 1)
             /\ effect' = [effect EXCEPT ![e].call = "gone"] /\ UNCHANGED <<state, seq, lapsed>>
    <2>1. ~Live(s)
      <3>1. SUFFICES ASSUME Live(s) PROVE FALSE
        OBVIOUS
      <3>2. Exists(s)
        BY <3>1 DEF Live, Exists, ActivityState
      <3>3. seq[s] = r.session.seq \/ seq[s] = r.session.seq + 1
        BY <1>5, <3>1 DEF InStep
      <3>4. QED BY <1>8, <3>1, <3>2, <3>3
    <2>2. "gone" \in CallState /\ "gone" \notin ActivityState
      BY MarkersApart DEF CallState
    <2>3. /\ Proper(x("gone")) /\ x("gone").session = r.session
          /\ x("gone").begin = r.begin /\ x("gone").call = "gone"
          /\ Names(x("gone")) = Names(r)
      BY <1>1, <1>2, <2>2, CallSet
    <2>4. effect' = [effect EXCEPT ![e] = x("gone")]
      BY <1>3, <1>8
    <2> HIDE DEF x
    <2>5. QED BY <1>1, <1>8, <1>10, <2>1, <2>3, <2>4, HandoverStep
  <1>9. QED BY <1>6, <1>7, <1>8 DEF ServeObservation

LEMMA FailKeeps ==
    ASSUME HookInv, NEW e \in Effect, Fail(e)
    PROVE  HookInv'
  <1>1. /\ errors < MaxErrors /\ errors' = errors + 1
        /\ UNCHANGED <<state, seq, fg, events, redeliveries, lapsed>>
    BY DEF Fail
  <1>2. errors' \in 0..MaxErrors /\ errors <= errors' /\ errors' > 0
    BY <1>1 DEF HookInv, Shape
  <1>3. Proper(effect[e]) /\ effect[e] \in Closure /\ effect \in [Effect -> Closure]
    BY DEF HookInv, Shape
  <1>4. CASE effect[e].call = "sent" /\ effect' = [effect EXCEPT ![e].call = "error"]
    <2> DEFINE x == [effect[e] EXCEPT !.call = "error"]
               s == effect[e].session.id
    <2>1. "error" \in CallState /\ "error" \notin ActivityState
      BY MarkersApart DEF CallState
    <2>2. /\ Proper(x) /\ x.session = effect[e].session
          /\ x.begin = effect[e].begin /\ x.call = "error" /\ Names(x) = Names(effect[e])
      BY <1>3, <1>4, <2>1, CallSet
    <2>3. effect' = [effect EXCEPT ![e] = x]
      BY <1>3, <1>4
    <2> HIDE DEF x
    <2>4. Holds(effect[e]) /\ Live(s) => InStep(x, state[s], seq[s], redeliveries', errors')
      <3>1. SUFFICES ASSUME Holds(effect[e]), Live(s)
                     PROVE  InStep(x, state[s], seq[s], redeliveries', errors')
        OBVIOUS
      <3>2. InStep(effect[e], state[s], seq[s], redeliveries, errors)
        BY <3>1 DEF HookInv, Handles
      <3>3. QED BY <1>1, <1>2, <1>4, <2>2, <3>2, MarkersApart DEF InStep
    <2>5. Holds(x) /\ Live(x.session.id)
            => InStep(x, state[x.session.id], seq[x.session.id], redeliveries', errors')
      BY <2>2, <2>4 DEF Holds
    <2>6. /\ events' \in 0..MaxEvents /\ errors' \in 0..MaxErrors
          /\ redeliveries' \in 0..MaxRedeliveries
          /\ errors <= errors' /\ redeliveries <= redeliveries'
      BY <1>1, <1>2 DEF HookInv, Shape
    <2>7. QED BY <1>1, <2>2, <2>3, <2>5, <2>6, HandoverStep
  <1>5. CASE effect[e].begin = "sent" /\ effect' = [effect EXCEPT ![e].begin = "error"]
    <2> DEFINE x == [effect[e] EXCEPT !.begin = "error"]
    <2>1. /\ x \in Closure /\ x.begin = "error" /\ x.requested = effect[e].requested
          /\ x.session = effect[e].session /\ x.queue = effect[e].queue
          /\ x.call = effect[e].call
      BY <1>3 DEF Closure
    <2>2. effect' = [effect EXCEPT ![e] = x]
      BY <1>3, <1>5
    <2> HIDE DEF x
    <2>3. Proper(x) /\ Quiet(x, effect[e])
      BY <1>3, <1>5, <2>1 DEF Proper, Holds, Quiet
    <2>4. /\ effect' \in [Effect -> Closure]
          /\ \A d \in Effect : Proper(effect'[d]) /\ Quiet(effect'[d], effect[d])
      BY <2>2, <2>3, OneEffect, NothingIsQuiet DEF HookInv
    <2>5. QED BY <1>1, <1>2, <2>4, QuietStep DEF HookInv, Shape
  <1>6. QED BY <1>4, <1>5 DEF Fail

LEMMA RedeliverKeeps ==
    ASSUME HookInv, NEW e \in Effect, Redeliver(e)
    PROVE  HookInv'
  <1>1. /\ redeliveries < MaxRedeliveries /\ redeliveries' = redeliveries + 1
        /\ UNCHANGED <<state, seq, fg, events, errors, lapsed>>
    BY DEF Redeliver
  <1>2. /\ redeliveries' \in 0..MaxRedeliveries /\ redeliveries <= redeliveries'
        /\ redeliveries' > 0
    BY <1>1 DEF HookInv, Shape
  <1>3. Proper(effect[e]) /\ effect[e] \in Closure /\ effect \in [Effect -> Closure]
    BY DEF HookInv, Shape
  <1>4. CASE effect[e].call \in ActivityState /\ effect' = [effect EXCEPT ![e].call = "sent"]
    <2> DEFINE x == [effect[e] EXCEPT !.call = "sent"]
               s == effect[e].session.id
    <2>1. "sent" \in CallState /\ "sent" \notin ActivityState /\ effect[e].call # "idle"
      BY <1>4, MarkersApart DEF CallState
    <2>2. /\ Proper(x) /\ x.session = effect[e].session
          /\ x.begin = effect[e].begin /\ x.call = "sent" /\ Names(x) = Names(effect[e])
      BY <1>3, <2>1, CallSet
    <2>3. effect' = [effect EXCEPT ![e] = x]
      BY <1>3, <1>4
    <2> HIDE DEF x
    <2>4. Holds(effect[e]) /\ Live(s) => InStep(x, state[s], seq[s], redeliveries', errors')
      <3>1. SUFFICES ASSUME Holds(effect[e]), Live(s)
                     PROVE  InStep(x, state[s], seq[s], redeliveries', errors')
        OBVIOUS
      <3>2. InStep(effect[e], state[s], seq[s], redeliveries, errors)
        BY <3>1 DEF HookInv, Handles
      <3>3. seq[s] = effect[e].session.seq + 1
        BY <1>4, <3>2, MarkersApart DEF InStep
      <3>4. QED BY <1>2, <2>2, <3>3 DEF InStep
    <2>5. Holds(x) /\ Live(x.session.id)
            => InStep(x, state[x.session.id], seq[x.session.id], redeliveries', errors')
      BY <2>2, <2>4 DEF Holds
    <2>6. /\ events' \in 0..MaxEvents /\ errors' \in 0..MaxErrors
          /\ redeliveries' \in 0..MaxRedeliveries
          /\ errors <= errors' /\ redeliveries <= redeliveries'
      BY <1>1, <1>2 DEF HookInv, Shape
    <2>7. QED BY <1>1, <2>2, <2>3, <2>5, <2>6, HandoverStep
  <1>5. CASE effect[e].begin \in SessionId /\ effect' = [effect EXCEPT ![e].begin = "sent"]
    <2> DEFINE x == [effect[e] EXCEPT !.begin = "sent"]
    <2>1. /\ x \in Closure /\ x.begin = "sent" /\ x.requested = effect[e].requested
          /\ x.session = effect[e].session /\ x.queue = effect[e].queue
          /\ x.call = effect[e].call
      BY <1>3 DEF Closure
    <2>2. effect' = [effect EXCEPT ![e] = x]
      BY <1>3, <1>5
    <2> HIDE DEF x
    <2>3. effect[e].begin # "idle"
      BY <1>5, MarkersApart
    <2>4. Proper(x) /\ Quiet(x, effect[e])
      BY <1>3, <2>1, <2>3 DEF Proper, Holds, Quiet
    <2>5. /\ effect' \in [Effect -> Closure]
          /\ \A d \in Effect : Proper(effect'[d]) /\ Quiet(effect'[d], effect[d])
      BY <2>2, <2>4, OneEffect, NothingIsQuiet DEF HookInv
    <2>6. QED BY <1>1, <1>2, <2>5, QuietStep DEF HookInv, Shape
  <1>6. QED BY <1>4, <1>5 DEF Redeliver

\* The session just begun becomes the handle; nothing else has been sent.
LEMMA HeldIsProper ==
    ASSUME NEW r, Proper(r), r.begin \in SessionId
    PROVE  LET held == [r EXCEPT !.session = [id |-> r.begin, seq |-> 0, state |-> "visible"],
                                 !.requested = "visible",
                                 !.begin = "idle"]
           IN  /\ Proper(held) /\ r.call = "idle"
               /\ held.session = [id |-> r.begin, seq |-> 0, state |-> "visible"]
               /\ held.begin = "idle" /\ held.call = "idle"
  <1> DEFINE new == [id |-> r.begin, seq |-> 0, state |-> "visible"]
             held == [r EXCEPT !.session = new, !.requested = "visible", !.begin = "idle"]
  <1>1. r.begin # "idle" /\ r.begin # None
    BY MarkersApart
  <1>2. r \in Closure /\ ~Holds(r) /\ r.call = "idle"
    BY <1>1 DEF Proper
  <1>3. new \in [id: SessionId \cup {None}, seq: 0..MaxSeq, state: ActivityState]
    BY MarkersApart
  <1>4. new.id = r.begin
    OBVIOUS
  <1> HIDE DEF new
  <1>5. /\ held \in Closure /\ held.session = new /\ held.requested = "visible"
        /\ held.begin = "idle" /\ held.queue = r.queue /\ held.call = "idle"
    BY <1>2, <1>3, MarkersApart DEF Closure
  <1> HIDE DEF held
  <1>6. "visible" # None /\ new # Null
    BY <1>1, <1>4 DEF Null, None
  <1>7. Proper(held)
    BY <1>1, <1>4, <1>5, <1>6, MarkersApart DEF Proper, Holds
  <1>8. QED BY <1>2, <1>5, <1>7 DEF held, new

LEMMA BegunIsProper ==
    ASSUME NEW r, Proper(r), r.begin \in SessionId, NEW f \in BOOLEAN
    PROVE  /\ Proper(Begun(r, f))
           /\ Begun(r, f).session = [id |-> r.begin, seq |-> 0, state |-> "visible"]
           /\ Begun(r, f).begin \notin SessionId
           /\ Begun(r, f).call \in {"idle", "sent"}
  <1> DEFINE held == [r EXCEPT !.session = [id |-> r.begin, seq |-> 0, state |-> "visible"],
                               !.requested = "visible",
                               !.begin = "idle"]
             ended == EnqueueObservation(held, "ended", FALSE)
             paused == EnqueueObservation(held, "paused", FALSE)
  <1>1. /\ Proper(held) /\ r.call = "idle"
        /\ held.session = [id |-> r.begin, seq |-> 0, state |-> "visible"]
        /\ held.begin = "idle" /\ held.call = "idle"
    BY HeldIsProper
  <1>2. IsForeground(r, f) \in BOOLEAN
    BY DEF IsForeground
  <1>3. Begun(r, f) \in {held, ended, paused}
    <2> HIDE DEF held, ended, paused
    <2>1. Begun(r, f) = IF r.phase = "disposed" THEN ended
                        ELSE IF ~IsForeground(r, f) THEN paused ELSE held
      BY <1>2 DEF Begun, held, ended, paused
    <2>2. QED BY <2>1
  <1> HIDE DEF held
  <1>4. \A x \in {held, ended, paused} : Proper(x) /\ Quiet(x, held)
    BY <1>1, EnqueueIsQuiet, NothingIsQuiet, MarkersApart
  <1>5. QED BY <1>1, <1>3, <1>4, MarkersApart DEF Quiet

LEMMA AnswerBeginKeeps ==
    ASSUME HookInv, NEW e \in Effect, AnswerBegin(e)
    PROVE  HookInv'
  <1> DEFINE r == effect[e]
             y == IF r.begin = "error" THEN [r EXCEPT !.begin = "idle"] ELSE Begun(r, fg)
  <1>1. /\ r.begin \notin {"idle", "sent"} /\ UNCHANGED <<state, seq, fg, envVars, lapsed>>
        /\ Runs(e, y, fg)
    BY DEF AnswerBegin
  <1>2. Proper(r) /\ r \in Closure /\ fg \in BOOLEAN
    BY DEF HookInv, Shape
  <1>3. /\ events' \in 0..MaxEvents /\ errors' \in 0..MaxErrors
        /\ redeliveries' \in 0..MaxRedeliveries
        /\ errors <= errors' /\ redeliveries <= redeliveries'
    BY <1>1 DEF HookInv, Shape, envVars
  <1>4. CASE r.begin = "error"
    <2> DEFINE z == [r EXCEPT !.begin = "idle"]
    <2>1. /\ z \in Closure /\ z.begin = "idle" /\ z.requested = r.requested
          /\ z.session = r.session /\ z.queue = r.queue /\ z.call = r.call
      BY <1>2 DEF Closure
    <2>2. Runs(e, z, fg)
      BY <1>1, <1>4
    <2> HIDE DEF z
    <2>3. Proper(z) /\ z.session = r.session /\ z.call = r.call /\ z.begin = "idle"
      BY <1>2, <1>4, <2>1 DEF Proper, Holds
    <2> DEFINE x == Settled(z, fg)
    <2>4. Proper(x) /\ Quiet(x, z) /\ effect' = [effect EXCEPT ![e] = x]
      BY <1>2, <2>2, <2>3, SettledIsQuiet DEF Runs
    <2> HIDE DEF x
    <2>5. x.session = r.session /\ x.begin \notin SessionId
      BY <2>3, <2>4, MarkersApart DEF Quiet
    <2>6. Names(x) \subseteq Names(r)
      BY <2>5 DEF Names
    <2>7. ~Holds(r) /\ ~Holds(x)
      BY <1>2, <1>4, <2>5 DEF Proper, Holds
    <2>8. QED BY <1>1, <1>3, <2>4, <2>5, <2>6, <2>7, HandoverStep
  <1>5. CASE r.begin # "error"
    <2> DEFINE z == Begun(r, fg)
               x == Settled(z, fg)
    <2>1. r.begin \in SessionId
      BY <1>1, <1>2, <1>5, ClosureFields
    <2>2. /\ Proper(z) /\ z.session = [id |-> r.begin, seq |-> 0, state |-> "visible"]
          /\ z.begin \notin SessionId /\ z.call \in {"idle", "sent"}
      BY <1>2, <2>1, BegunIsProper
    <2>3. Runs(e, z, fg)
      BY <1>1, <1>5
    <2> HIDE DEF z
    <2>4. Proper(x) /\ Quiet(x, z) /\ effect' = [effect EXCEPT ![e] = x]
      BY <1>2, <2>2, <2>3, SettledIsQuiet DEF Runs
    <2> HIDE DEF x
    <2>5. /\ x.session.id = r.begin /\ x.session.seq = 0 /\ x.session.state = "visible"
          /\ x.begin \notin SessionId /\ x.call \in {"idle", "sent"}
      BY <2>2, <2>4, MarkersApart DEF Quiet
    <2>6. Names(x) \subseteq Names(r)
      BY <2>5 DEF Names
    <2>7. Live(r.begin) => seq[r.begin] = 0 /\ state[r.begin] = "visible"
      BY <2>1 DEF HookInv, Handles
    <2>8. Holds(x) /\ Live(x.session.id)
            => InStep(x, state[x.session.id], seq[x.session.id], redeliveries', errors')
      BY <2>5, <2>7 DEF InStep
    <2>9. QED BY <1>1, <1>3, <2>4, <2>5, <2>6, <2>8, HandoverStep
  <1>6. QED BY <1>4, <1>5

\* What the answer to an observation leaves: no call, and the handle of its receipt, the
\* handle as it was, or none.
LEMMA AnsweredIsProper ==
    ASSUME NEW r, Proper(r), r.call \in ActivityState, Holds(r),
           Head(r.queue) \in Task, Tail(r.queue) \in Seq(Task)
    PROVE  /\ Proper(Answered(r)) /\ Answered(r).call = "idle"
           /\ Answered(r).begin = r.begin
           /\ Answered(r).session = [id |-> r.session.id, seq |-> r.session.seq + 1,
                                     state |-> r.call]
  <1> DEFINE new == [id |-> r.session.id, seq |-> r.session.seq + 1, state |-> r.call]
             want == IF Head(r.queue).latest THEN r.call ELSE r.requested
             x == [r EXCEPT !.session = new, !.requested = want,
                            !.queue = Tail(@), !.call = "idle"]
  <1>1. Answered(r) = x
    BY DEF Answered
  <1>2. r \in Closure /\ r.session.seq < MaxSeq /\ r.requested # None
    BY DEF Proper, Holds, Null
  <1>3. r.session.seq + 1 \in 0..MaxSeq /\ r.session.id \in SessionId \cup {None}
    BY <1>2, ClosureFields
  <1>4. new \in [id: SessionId \cup {None}, seq: 0..MaxSeq, state: ActivityState]
        /\ new.id = r.session.id
    BY <1>3
  <1>5. want \in ActivityState \cup {None} /\ want # None
    BY <1>2, ClosureFields, MarkersApart
  <1> HIDE DEF new, want
  <1>6. /\ x \in Closure /\ x.session = new /\ x.requested = want
        /\ x.begin = r.begin /\ x.call = "idle"
    BY <1>2, <1>4, <1>5 DEF Closure, CallState
  <1> HIDE DEF x
  <1>7. new # Null
    BY <1>4 DEF Holds, Null
  <1>8. Proper(x)
    BY <1>4, <1>5, <1>6, <1>7, MarkersApart DEF Proper, Holds
  <1>9. QED BY <1>1, <1>6, <1>8 DEF new

LEMMA RefusedIsProper ==
    ASSUME NEW r, Proper(r), r.call # "idle", Tail(r.queue) \in Seq(Task)
    PROVE  /\ Proper(Refused(r)) /\ Refused(r).call = "idle"
           /\ Refused(r).begin = r.begin /\ Refused(r).session = Null
  <1> DEFINE q == Superseded(Tail(r.queue))
             x == [r EXCEPT !.session = Null, !.requested = None, !.queue = q, !.call = "idle"]
  <1>1. Refused(r) = x
    BY DEF Refused
  <1>2. r \in Closure /\ r.begin = "idle"
    BY DEF Proper
  <1>3. q \in Seq(Task)
    BY SupersededIsQueue
  <1>4. Null \in [id: SessionId \cup {None}, seq: 0..MaxSeq, state: ActivityState]
    BY MarkersApart DEF Null
  <1> HIDE DEF q
  <1>5. /\ x \in Closure /\ x.session = Null /\ x.requested = None
        /\ x.begin = r.begin /\ x.call = "idle"
    BY <1>2, <1>3, <1>4 DEF Closure, CallState
  <1> HIDE DEF x
  <1>6. Proper(x)
    BY <1>2, <1>5, MarkersApart DEF Proper, Holds, Null
  <1>7. QED BY <1>1, <1>5, <1>6

LEMMA FailedIsProper ==
    ASSUME NEW r, Proper(r), r.call # "idle", Head(r.queue) \in Task,
           Tail(r.queue) \in Seq(Task)
    PROVE  /\ Proper(Failed(r)) /\ Failed(r).call = "idle"
           /\ Failed(r).begin = r.begin /\ Failed(r).session = r.session
  <1> DEFINE want == IF Head(r.queue).latest THEN r.session.state ELSE r.requested
             x == [r EXCEPT !.requested = want, !.queue = Tail(@), !.call = "idle"]
  <1>1. Failed(r) = x
    BY DEF Failed
  <1>2. r \in Closure /\ Holds(r) /\ r.requested # None /\ r.begin = "idle"
    BY DEF Proper, Holds, Null
  <1>3. want \in ActivityState \cup {None} /\ want # None
    BY <1>2, ClosureFields, MarkersApart
  <1> HIDE DEF want
  <1>4. /\ x \in Closure /\ x.session = r.session /\ x.requested = want
        /\ x.begin = r.begin /\ x.call = "idle"
    BY <1>2, <1>3 DEF Closure, CallState
  <1> HIDE DEF x
  <1>5. r.session # Null
    BY <1>2 DEF Proper
  <1>6. Proper(x)
    BY <1>2, <1>3, <1>4, <1>5, MarkersApart DEF Proper, Holds
  <1>7. QED BY <1>1, <1>4, <1>6

LEMMA AnswerObservationKeeps ==
    ASSUME HookInv, NEW e \in Effect, AnswerObservation(e)
    PROVE  HookInv'
  <1> DEFINE r == effect[e]
             s == effect[e].session.id
             y == CASE r.call = "gone"  -> Refused(r)
                    [] r.call = "error" -> Failed(r)
                    [] OTHER            -> Answered(r)
             x == Settled(y, fg)
  <1>1. /\ r.call \notin {"idle", "sent"} /\ UNCHANGED <<state, seq, fg, envVars, lapsed>>
        /\ Runs(e, y, fg)
    BY DEF AnswerObservation
  <1>2. /\ r \in Closure /\ Proper(r) /\ Holds(r) /\ s \in SessionId /\ s \in Names(r)
        /\ r.begin = "idle" /\ Head(r.queue) \in Task /\ Tail(r.queue) \in Seq(Task)
    BY <1>1, CallsHaveTasks
  <1>3. /\ events' \in 0..MaxEvents /\ errors' \in 0..MaxErrors
        /\ redeliveries' \in 0..MaxRedeliveries
        /\ errors <= errors' /\ redeliveries <= redeliveries'
    BY <1>1 DEF HookInv, Shape, envVars
  <1>4. Live(s) => InStep(r, state[s], seq[s], redeliveries, errors)
    BY <1>2 DEF HookInv, Handles
  <1>5. r.call \in ActivityState \cup {"gone", "error"}
    BY <1>1, <1>2, ClosureFields DEF CallState
  <1>6. fg \in BOOLEAN /\ errors' = errors /\ redeliveries' = redeliveries
    BY <1>1 DEF HookInv, Shape, envVars
  <1>7. effect' = [effect EXCEPT ![e] = x]
    BY <1>1 DEF Runs
  <1>8. CASE r.call = "gone"
    <2>1. y = Refused(r)
      BY <1>8
    <2>2. Proper(y) /\ y.call = "idle" /\ y.begin = "idle" /\ y.session = Null
      BY <1>2, <1>1, <2>1, RefusedIsProper
    <2> HIDE DEF y
    <2>3. Proper(x) /\ Quiet(x, y)
      BY <1>6, <2>2, SettledIsQuiet
    <2> HIDE DEF x
    <2>4. x.session.id = None /\ x.begin \notin SessionId
      BY <2>2, <2>3, MarkersApart DEF Quiet, Null
    <2>5. Names(x) = {} /\ ~Holds(x)
      BY <2>4, MarkersApart DEF Names, Holds
    <2>6. QED BY <1>1, <1>3, <1>7, <2>3, <2>4, <2>5, HandoverStep
  <1>9. CASE r.call = "error"
    <2>1. y = Failed(r)
      BY <1>9
    <2>2. Proper(y) /\ y.call = "idle" /\ y.begin = "idle" /\ y.session = r.session
      BY <1>2, <1>1, <2>1, FailedIsProper
    <2> HIDE DEF y
    <2>3. Proper(x) /\ Quiet(x, y)
      BY <1>6, <2>2, SettledIsQuiet
    <2> HIDE DEF x
    <2>4. x.session = r.session /\ x.begin \notin SessionId /\ x.call \in {"idle", "sent"}
      BY <2>2, <2>3, MarkersApart DEF Quiet
    <2>5. Names(x) \subseteq Names(r)
      BY <2>4 DEF Names
    <2>6. Live(s) => InStep(x, state[s], seq[s], redeliveries, errors)
      BY <1>4, <1>9, <2>4, MarkersApart DEF InStep
    <2>7. Holds(x) /\ Live(x.session.id)
            => InStep(x, state[x.session.id], seq[x.session.id], redeliveries', errors')
      BY <1>6, <2>4, <2>6
    <2>8. QED BY <1>1, <1>3, <1>7, <2>3, <2>4, <2>5, <2>7, HandoverStep
  <1>10. CASE r.call \in ActivityState
    <2>1. y = Answered(r)
      BY <1>10, MarkersApart
    <2>2. /\ Proper(y) /\ y.call = "idle" /\ y.begin = "idle"
          /\ y.session = [id |-> s, seq |-> r.session.seq + 1, state |-> r.call]
      BY <1>2, <1>10, <2>1, AnsweredIsProper
    <2> HIDE DEF y
    <2>3. Proper(x) /\ Quiet(x, y)
      BY <1>6, <2>2, SettledIsQuiet
    <2> HIDE DEF x
    <2>4. /\ x.session.id = s /\ x.session.seq = r.session.seq + 1
          /\ x.session.state = r.call
          /\ x.begin \notin SessionId /\ x.call \in {"idle", "sent"}
      BY <2>2, <2>3, MarkersApart DEF Quiet
    <2>5. Names(x) \subseteq Names(r)
      BY <1>2, <2>4 DEF Names
    <2>6. Live(s) => seq[s] = r.session.seq + 1 /\ state[s] = r.call
      BY <1>4, <1>10, MarkersApart DEF InStep
    <2>7. Holds(x) /\ Live(x.session.id)
            => InStep(x, state[x.session.id], seq[x.session.id], redeliveries', errors')
      BY <2>4, <2>6 DEF InStep
    <2>8. QED BY <1>1, <1>3, <1>7, <2>3, <2>4, <2>5, <2>7, HandoverStep
  <1>11. QED BY <1>5, <1>8, <1>9, <1>10

-----------------------------------------------------------------------------

LEMMA HookKeeps == HookInv /\ [Next]_vars => HookInv'
  <1> SUFFICES ASSUME HookInv, [Next]_vars PROVE HookInv'
    OBVIOUS
  <1>1. CASE UNCHANGED vars
    <2>1. /\ state' = state /\ seq' = seq /\ fg' = fg /\ effect' = effect /\ events' = events
          /\ errors' = errors /\ redeliveries' = redeliveries /\ lapsed' = lapsed
      BY <1>1 DEF vars, envVars
    <2>2. QED BY <2>1, NothingIsQuiet, QuietStep DEF HookInv, Shape
  <1>2. ASSUME NEW e \in Effect,
               \/ Mount(e) \/ Dispose(e) \/ PageHide(e) \/ PageShow(e)
               \/ StartTimer(e) \/ Heartbeat(e)
        PROVE  HookInv'
    BY <1>2, MountKeeps, DisposeKeeps, PageHideKeeps, PageShowKeeps, StartTimerKeeps,
       HeartbeatKeeps
  <1>3. ASSUME NEW e \in Effect,
               \/ ServeBegin(e) \/ ServeObservation(e) \/ Fail(e) \/ Redeliver(e)
               \/ AnswerBegin(e) \/ AnswerObservation(e)
        PROVE  HookInv'
    BY <1>3, ServeBeginKeeps, ServeObservationKeeps, FailKeeps, RedeliverKeeps,
       AnswerBeginKeeps, AnswerObservationKeeps
  <1>4. ASSUME NEW f \in BOOLEAN, WindowEvent(f) PROVE HookInv'
    BY <1>4, WindowEventKeeps
  <1>5. ASSUME NEW S \in SUBSET SessionId, DeleteHistory(S) PROVE HookInv'
    BY <1>5, DeleteHistoryKeeps
  <1>6. CASE Restart
    BY <1>6, RestartKeeps
  <1>7. QED
    BY <1>1, <1>2, <1>3, <1>4, <1>5, <1>6 DEF Next, Environment, Work

(***************************************************************************)
(* Whatever the window, React, the user and the IPC layer do, the hook's   *)
(* variables keep their shape, and a handle is in step with its row: the   *)
(* chain never sends a number that the backend refuses or takes for one it *)
(* has had, unless a command was delivered again.                          *)
(***************************************************************************)
THEOREM HandlesInStep == Spec => []HookOK
  <1>1. HookInv => HookOK
    <2> SUFFICES ASSUME HookInv PROVE HookOK
      OBVIOUS
    <2>1. TypeOK
      BY DEF HookInv, Shape, TypeOK, Proper
    <2>2. HandleInStep
      <3>1. ASSUME NEW e \in Effect, Holds(effect[e]), effect[e].call \in {"idle", "sent"},
                   Live(effect[e].session.id)
            PROVE  LET s == effect[e].session.id
                   IN  \/ seq[s] = effect[e].session.seq /\ state[s] = effect[e].session.state
                       \/ /\ redeliveries > 0
                          /\ effect[e].call = "sent" \/ errors > 0
                          /\ seq[s] = effect[e].session.seq + 1
        <4>1. InStep(effect[e], state[effect[e].session.id], seq[effect[e].session.id],
                     redeliveries, errors)
          BY <3>1 DEF HookInv, Handles
        <4>2. QED BY <3>1, <4>1, MarkersApart DEF InStep
      <3>2. QED BY <3>1 DEF HandleInStep
    <2>3. QED BY <2>1, <2>2 DEF HookOK
  <1>2. QED
    BY <1>1, HookStarts, HookKeeps, PTL DEF Spec

LEMMA HookStepIsSessionsStep ==
    HookInv /\ [Next]_vars => [SessionsNext]_sessionVars
  <1> SUFFICES ASSUME HookInv, [Next]_vars PROVE [SessionsNext]_sessionVars
    OBVIOUS
  <1>1. ASSUME NEW e \in Effect, ServeBegin(e) PROVE SessionsNext
    <2>1. FreshId \in SessionId
      BY <1>1 DEF ServeBegin, FreshId
    <2>2. QED BY <1>1, <2>1 DEF ServeBegin, SessionsNext
  <1>2. ASSUME NEW e \in Effect, ServeObservation(e) PROVE [SessionsNext]_sessionVars
    <2>1. effect[e].session.id \in SessionId /\ Head(effect[e].queue).state \in ActivityState
      BY <1>2, CallsHaveTasks, MarkersApart DEF ServeObservation
    <2>2. QED BY <1>2, <2>1 DEF ServeObservation, SessionsNext, sessionVars
  <1>3. ASSUME NEW S \in SUBSET SessionId, DeleteHistory(S) PROVE SessionsNext
    BY <1>3 DEF DeleteHistory, SessionsNext
  <1>4. CASE Restart
    BY <1>4 DEF Restart, SessionsNext
  <1>5. ASSUME NEW e \in Effect,
               \/ Mount(e) \/ Dispose(e) \/ PageHide(e) \/ PageShow(e)
               \/ StartTimer(e) \/ Heartbeat(e) \/ Fail(e) \/ Redeliver(e)
               \/ AnswerBegin(e) \/ AnswerObservation(e)
        PROVE  UNCHANGED sessionVars
    BY <1>5 DEF sessionVars, Mount, Dispose, PageHide, PageShow, StartTimer, Heartbeat, Fail,
                Redeliver, AnswerBegin, AnswerObservation
  <1>6. ASSUME NEW f \in BOOLEAN, WindowEvent(f) PROVE UNCHANGED sessionVars
    BY <1>6 DEF sessionVars, WindowEvent
  <1>7. CASE UNCHANGED vars
    BY <1>7 DEF vars, sessionVars
  <1>8. QED
    BY <1>1, <1>2, <1>3, <1>4, <1>5, <1>6, <1>7 DEF Next, Environment, Work

(***************************************************************************)
(* The hook and its backend together are an instance of the protocol:      *)
(* every step of them is a step of the protocol's or none.                 *)
(***************************************************************************)
THEOREM HookImplementsSessions == Spec => SessionsSpec
  <1>1. Init => SessionsInit
    BY DEF Init
  <1>2. QED
    BY <1>1, HookStarts, HookKeeps, HookStepIsSessionsStep, PTL DEF Spec, SessionsSpec

(***************************************************************************)
(* However its effects are replaced, two readers never accumulate reading  *)
(* time at the same moment.                                                *)
(***************************************************************************)
THEOREM HookHasOneLiveSession == Spec => []AtMostOneLive
  <1>1. QED
    BY HookImplementsSessions, OneLiveSession, PTL
=============================================================================
