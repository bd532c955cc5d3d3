--------------------------- MODULE ReadingProgress ---------------------------
(***************************************************************************)
(* How stores/readerStore.ts opens and closes books and keeps the reading  *)
(* position: reader sessions whose open() is suspended at every await, the *)
(* throttled save, the chain of progress writes of each book, and settings *)
(* changes that rebuild the rendition.  EPUB.js and the commands answer in *)
(* their own time, and the reader leaves at any time.                      *)
(***************************************************************************)
EXTENDS Naturals, Sequences

CONSTANTS Book,
          MaxPage,      \* bound: the pages the reader turns to are 1..MaxPage
          MaxSessions,  \* bound: books opened and closed
          MaxTurns,     \* bound: page turns
          MaxApplies,   \* bound: settings changes
          MaxErrors     \* bound: commands and EPUB.js calls that fail or time out

ASSUME ProgressAssumption ==
    {MaxPage, MaxSessions, MaxTurns, MaxApplies, MaxErrors} \subseteq Nat

VARIABLES progress,  \* the table reading_progress: the saved location of each book
          session,   \* readerSession
          store,     \* the store: book, location, EPUB.js objects, settings
          timer,     \* saveTimer: the location it will save
          writes,    \* progressWrites: the chain of writes of each book
          opening,   \* opening[s]: where the open() of session s stands
          applies,   \* applies[g]: where the g-th applyReadingSettings stands
          live,      \* EPUB.js objects not destroyed: [books, renditions]
          turns, errors,  \* budgets spent
          reached,   \* history: the last location reported for each book
          failed     \* history: books whose last finished write failed

extras == <<turns, errors, reached, failed>>
vars == <<progress, session, store, timer, writes, opening, applies, live, extras>>

Session == 1..MaxSessions
Apply == 1..MaxApplies
Flow == {"paginated", "scrolled"}

\* A CFI; page 0 is what EPUB.js displays without a target.
None == <<>>
Cfi == Book \X (0..MaxPage)
StartOf(b) == <<b, 0>>

\* A rendition is known by its session and the settings change that built it (or 0).
NoRendition == <<>>
Rendition == Session \X (0..MaxApplies)

NoBook == "none"
ASSUME NoBookAssumption == NoBook \notin Book

Closed == [book |-> NoBook, cfi |-> None, epub |-> FALSE, rendition |-> NoRendition,
           built |-> "paginated", flow |-> "paginated"]

Idle == [pc |-> "idle", book |-> NoBook, asked |-> FALSE, target |-> None, ahead |-> 0]

\* The awaits of open(), in their order, and its ends.
Awaiting == {"loading", "chain", "rejected", "reading", "read", "displaying"}
OpeningPc == {"idle", "open", "failed", "retired"} \cup Awaiting

NoApply == [pc |-> "idle", session |-> 0, book |-> NoBook, flow |-> "paginated",
            rebuild |-> FALSE, target |-> None, ahead |-> 0]

-----------------------------------------------------------------------------
(* The chain of writes of a book: only its head is with the backend. *)

\* Mutant: writes of a book are sent beside each other.
QueuedBeside(w, b, cfi) ==
    [w EXCEPT ![b] = Append(@, [cfi |-> cfi, status |-> "sent"])]

\* queuedSaveReadingProgress
Queued(w, b, cfi) ==
    [w EXCEPT ![b] = Append(@, [cfi |-> cfi,
                                status |-> IF w[b] = <<>> THEN "sent" ELSE "queued"])]

\* flushPendingProgress: what the timer would save is written now, as the store has it.
Flushed(w) ==
    IF timer # None /\ store.book # NoBook /\ store.cfi # None
    THEN Queued(w, store.book, store.cfi)
    ELSE w

\* The promise that p awaits, ahead places down the chain, comes nearer or settles.
Nearer(p, rejected) ==
    IF p.ahead = 1 /\ rejected
    THEN [p EXCEPT !.ahead = 0, !.pc = "rejected"]
    ELSE [p EXCEPT !.ahead = IF @ = 0 THEN 0 ELSE @ - 1]

\* Mutant: a failed write holds up the ones queued behind it.
ReleasedOnSuccess(rest, rejected) ==
    IF rest # <<>> /\ ~rejected /\ Head(rest).status = "queued"
    THEN [rest EXCEPT ![1].status = "sent"]
    ELSE rest

\* previous.catch(...).then(...): the next write is sent whatever became of the last.
Released(rest, rejected) ==
    IF rest # <<>> /\ Head(rest).status = "queued"
    THEN [rest EXCEPT ![1].status = "sent"]
    ELSE rest

\* save_reading_progress is executed: the row is replaced, or nothing happens, and an
\* error may also be reported of a row that was written.
ServeWrite(b) ==
    /\ \E i \in DOMAIN writes[b] :
        LET w == writes[b][i]
        IN  /\ w.status = "sent"
            /\ \/ /\ writes' = [writes EXCEPT ![b][i].status = "done"]
                  /\ progress' = [progress EXCEPT ![b] = w.cfi]
                  /\ UNCHANGED errors
               \/ /\ errors < MaxErrors
                  /\ errors' = errors + 1
                  /\ writes' = [writes EXCEPT ![b][i].status = "failed"]
                  /\ progress' \in {progress, [progress EXCEPT ![b] = w.cfi]}
    /\ UNCHANGED <<session, store, timer, opening, applies, live, turns, reached, failed>>

\* The answer arrives: the next write is sent, and whoever awaits the chain moves up.
AnswerWrite(b) ==
    /\ writes[b] # <<>>
    /\ Head(writes[b]).status \in {"done", "failed"}
    /\ LET rejected == Head(writes[b]).status = "failed"
       IN  /\ writes' = [writes EXCEPT ![b] = Released(Tail(@), rejected)]
           /\ opening' = [s \in Session |-> IF opening[s].book = b
                                            THEN Nearer(opening[s], rejected)
                                            ELSE opening[s]]
           /\ applies' = [g \in Apply |-> IF applies[g].book = b
                                          THEN Nearer(applies[g], rejected)
                                          ELSE applies[g]]
           /\ failed' = IF rejected THEN failed \cup {b} ELSE failed \ {b}
    /\ UNCHANGED <<progress, session, store, timer, live, turns, errors, reached>>

-----------------------------------------------------------------------------
(* Leaving a book. *)

\* Mutant: the book of an opening that has not reached the store is forgotten.
RetiredOnlyShown ==
    [books |-> live.books \ (IF store.epub THEN {session} ELSE {}),
     renditions |-> live.renditions \ {store.rendition}]

\* initialDisplay.retire(), destroyRendition and destroyEpubBook of what the store shows
Retired ==
    [books |-> live.books \ ((IF store.epub THEN {session} ELSE {})
                             \cup {s \in {session} \cap Session : opening[s].pc \in Awaiting}),
     renditions |-> live.renditions \ {store.rendition}]

\* open(), up to its first await.  Settings are paginated at first, without loss of generality.
Open(b, href) ==
    /\ session < MaxSessions
    /\ session' = session + 1
    /\ writes' = Flushed(writes)
    /\ timer' = None
    /\ store' = [Closed EXCEPT !.book = b]
    /\ live' = [Retired EXCEPT !.books = @ \cup {session'}]
    /\ opening' = [opening EXCEPT ![session'] =
                      [Idle EXCEPT !.pc = "loading", !.book = b, !.asked = (href # None),
                                   !.target = href]]
    /\ UNCHANGED <<progress, applies, extras>>

\* Mutant: leaving cancels the pending save.
CloseUnsaved ==
    /\ session < MaxSessions
    /\ store.book # NoBook
    /\ session' = session + 1
    /\ timer' = None
    /\ store' = Closed
    /\ live' = Retired
    /\ UNCHANGED <<progress, writes, opening, applies, extras>>

\* close()
Close ==
    /\ session < MaxSessions
    /\ store.book # NoBook
    /\ session' = session + 1
    /\ writes' = Flushed(writes)
    /\ timer' = None
    /\ store' = Closed
    /\ live' = Retired
    /\ UNCHANGED <<progress, opening, applies, extras>>

-----------------------------------------------------------------------------
(* The continuations of open(). *)

IsCurrentSession(s) == s = session

\* EPUB.js has opened and parsed the book: the rendition is created and shown, and the
\* exit write of an earlier session is awaited.
Loaded(s) ==
    LET o == opening[s]
    IN  /\ o.pc = "loading"
        /\ IsCurrentSession(s)
        /\ store' = [store EXCEPT !.epub = TRUE, !.rendition = <<s, 0>>]
        /\ live' = [live EXCEPT !.renditions = @ \cup {<<s, 0>>}]
        /\ opening' = [opening EXCEPT ![s].pc = "chain", ![s].ahead = Len(writes[o.book])]
        /\ UNCHANGED <<progress, session, timer, writes, applies, extras>>

\* Mutant: the saved location is requested while the exit write may be under way.
RequestAtOnce(s) ==
    /\ opening[s].pc = "chain"
    /\ IsCurrentSession(s)
    /\ opening' = [opening EXCEPT ![s].pc = "reading", ![s].ahead = 0]
    /\ UNCHANGED <<progress, session, store, timer, writes, applies, live, extras>>

\* getReadingProgress is sent once the awaited write has been answered.
RequestProgress(s) ==
    /\ opening[s].pc = "chain"
    /\ opening[s].ahead = 0
    /\ IsCurrentSession(s)
    /\ opening' = [opening EXCEPT ![s].pc = "reading"]
    /\ UNCHANGED <<progress, session, store, timer, writes, applies, live, extras>>

\* get_reading_progress is executed, initialHref || saved?.location_cfi; the answer to a
\* session that is over is not looked at.
ServeRead(s) ==
    LET o == opening[s]
    IN  /\ o.pc = "reading"
        /\ IsCurrentSession(s)
        /\ opening' = [opening EXCEPT ![s].pc = "read",
                                      ![s].target = IF @ # None THEN @ ELSE progress[o.book]]
        /\ UNCHANGED <<progress, session, store, timer, writes, applies, live, extras>>

\* rendition.display(target), or display() when there is none.
Display(s) ==
    LET o == opening[s]
    IN  /\ o.pc = "read"
        /\ IsCurrentSession(s)
        /\ opening' = [opening EXCEPT ![s].pc = "displaying",
                                      ![s].target = IF @ = None THEN StartOf(o.book) ELSE @]
        /\ UNCHANGED <<progress, session, store, timer, writes, applies, live, extras>>

\* The display and then settleInitialPagination are over.
Displayed(s) ==
    /\ opening[s].pc = "displaying"
    /\ IsCurrentSession(s)
    /\ opening' = [opening EXCEPT ![s].pc = "open"]
    /\ UNCHANGED <<progress, session, store, timer, writes, applies, live, extras>>

\* Mutant: a failed read of the saved location counts as none.
OpenFailedReading(s) ==
    /\ opening[s].pc \in Awaiting
    /\ IsCurrentSession(s)
    /\ errors < MaxErrors /\ errors' = errors + 1
    /\ opening' = [opening EXCEPT ![s].pc = "displaying",
                                  ![s].target = StartOf(opening[s].book)]
    /\ store' = [store EXCEPT !.epub = TRUE, !.rendition = <<s, 0>>]
    /\ live' = [live EXCEPT !.renditions = @ \cup {<<s, 0>>}]
    /\ UNCHANGED <<progress, session, timer, writes, applies, turns, reached, failed>>

\* The catch of the current session: something failed, or took 30 seconds.
OpenFailed(s) ==
    /\ opening[s].pc \in Awaiting
    /\ IsCurrentSession(s)
    /\ \/ opening[s].pc = "rejected" /\ UNCHANGED errors
       \/ errors < MaxErrors /\ errors' = errors + 1
    /\ store' = [store EXCEPT !.epub = FALSE, !.rendition = NoRendition]
    /\ live' = [books |-> live.books \ {s}, renditions |-> live.renditions \ {<<s, 0>>}]
    /\ opening' = [opening EXCEPT ![s] = [Idle EXCEPT !.pc = "failed"]]
    /\ UNCHANGED <<progress, session, timer, writes, applies, turns, reached, failed>>

\* A continuation of a session that is over disposes of what is left of it.
Abandoned(s) ==
    /\ opening[s].pc \in Awaiting
    /\ ~IsCurrentSession(s)
    /\ live' = [books |-> live.books \ {s}, renditions |-> live.renditions \ {<<s, 0>>}]
    /\ opening' = [opening EXCEPT ![s] = [Idle EXCEPT !.pc = "retired"]]
    /\ UNCHANGED <<progress, session, store, timer, writes, applies, extras>>

-----------------------------------------------------------------------------
(* applyReadingSettings. *)

\* A call: it takes its place in the settings queue of its session.
ApplyReadingSettings(g, f) ==
    /\ applies[g].pc = "idle"
    /\ \A h \in 1..(g - 1) : applies[h].pc # "idle"
    /\ store.book # NoBook
    /\ applies' = [applies EXCEPT ![g] =
                      [NoApply EXCEPT !.pc = "queued", !.session = session,
                                      !.book = store.book, !.flow = f]]
    /\ UNCHANGED <<progress, session, store, timer, writes, opening, live, extras>>

\* Mutant: a newer request is the one that is skipped.
SupersededByOlder(g) == \E h \in 1..(g - 1) : applies[h].pc # "idle"

\* generation !== settingsApplyGeneration
IsSuperseded(g) == \E h \in (g + 1)..MaxApplies : applies[h].pc # "idle"

\* settingsApplyQueue, which open() and close() start afresh
IsNext(g) == \A h \in 1..(g - 1) : applies[h].session = applies[g].session => applies[h].pc = "done"

Ends(g) ==
    [applies EXCEPT ![g] = [NoApply EXCEPT !.pc = "done", !.session = applies[g].session,
                                           !.flow = applies[g].flow]]

\* Its turn comes: the call is void, or waits for the initial display and then writes
\* the location down before anything moves.
StartApply(g) ==
    LET a == applies[g]
        void == a.session # session \/ IsSuperseded(g)
    IN  /\ a.pc = "queued"
        /\ IsNext(g)
        /\ void \/ opening[session].pc \notin Awaiting
        /\ \/ /\ void \/ store.rendition = NoRendition
              /\ applies' = Ends(g)
              /\ UNCHANGED <<store, writes>>
           \/ /\ ~void
              /\ store.rendition # NoRendition
              /\ store' = [store EXCEPT !.flow = a.flow]
              /\ writes' = IF store.cfi # None THEN Queued(writes, a.book, store.cfi) ELSE writes
              /\ applies' = [applies EXCEPT ![g] =
                                [a EXCEPT !.pc = "saving", !.target = store.cfi,
                                          !.rebuild = (store.flow # a.flow),
                                          !.ahead = IF store.cfi # None
                                                    THEN Len(writes[a.book]) + 1 ELSE 0]]
        /\ UNCHANGED <<progress, session, timer, opening, live, extras>>

\* The write has been answered: a rendition of the other flow replaces the shown one and
\* displays the first visible line, or the location written if none can be captured.
Rebuild(g) ==
    LET a == applies[g]
        replacement == <<session, g>>
    IN  /\ a.pc = "saving" /\ a.ahead = 0
        /\ a.session = session
        /\ a.rebuild
        /\ store' = [store EXCEPT !.rendition = replacement, !.built = a.flow]
        /\ live' = [live EXCEPT !.renditions = (@ \ {store.rendition}) \cup {replacement}]
        /\ \E t \in {a.target, store.cfi} :
              applies' = [applies EXCEPT ![g].pc = "displaying",
                                         ![g].target = IF t = None THEN StartOf(a.book) ELSE t]
        /\ UNCHANGED <<progress, session, timer, writes, opening, extras>>

\* Nothing is left to do: the same flow is reflowed in place, the write failed, the
\* replacement is displayed (or failed to be), or the session is over.
EndApply(g) ==
    LET a == applies[g]
    IN  /\ \/ a.pc = "saving" /\ a.ahead = 0 /\ (a.rebuild => a.session # session)
           \/ a.pc \in {"displaying", "rejected"}
        /\ applies' = Ends(g)
        /\ UNCHANGED <<progress, session, store, timer, writes, opening, live, extras>>

-----------------------------------------------------------------------------
(* What the reader and EPUB.js do meanwhile. *)

\* The relocated handler of the shown rendition: the store, then throttledSave.
Reported(cfi) ==
    /\ store' = [store EXCEPT !.cfi = cfi]
    /\ timer' = cfi
    /\ reached' = [reached EXCEPT ![store.book] = cfi]

\* What EPUB.js has been told to display and the store does not show yet: the target of
\* the opening, or of a replacement.
Unreported ==
    {opening[s].target : s \in {t \in Session \cap {session} :
                                  \/ opening[t].pc = "displaying"
                                  \/ opening[t].pc = "open" /\ store.cfi = None}}
    \cup {applies[g].target : g \in {h \in Apply : applies[h].pc = "displaying"
                                                   /\ store.rendition = <<session, h>>}}

\* EPUB.js reports it, before the display ends or after.
RelocatedTarget ==
    /\ \E cfi \in Unreported : cfi # store.cfi /\ Reported(cfi)
    /\ UNCHANGED <<progress, session, writes, opening, applies, live, turns, errors, failed>>

\* isLoading is false: the reader can turn pages.
Interactive ==
    /\ store.rendition # NoRendition
    /\ opening[session].pc = "open"
    /\ \A g \in Apply : applies[g].pc = "displaying" => applies[g].session # session

Turn(p) ==
    /\ Interactive
    /\ turns < MaxTurns
    /\ turns' = turns + 1
    /\ Reported(<<store.book, p>>)
    /\ UNCHANGED <<progress, session, writes, opening, applies, live, errors, failed>>

\* The callback of saveTimer
TimerFires ==
    /\ timer # None
    /\ writes' = Queued(writes, timer[1], timer)
    /\ timer' = None
    /\ UNCHANGED <<progress, session, store, opening, applies, live, extras>>

\* visibilitychange and pagehide, once installProgressLifecycle has run: flushProgress
Suspend ==
    /\ session > 0
    /\ opening[session].pc = "open"
    /\ timer # None
    /\ writes' = Flushed(writes)
    /\ timer' = None
    /\ UNCHANGED <<progress, session, store, opening, applies, live, extras>>

-----------------------------------------------------------------------------
Init ==
    /\ progress = [b \in Book |-> None]
    /\ session = 0
    /\ store = Closed
    /\ timer = None
    /\ writes = [b \in Book |-> <<>>]
    /\ opening = [s \in Session |-> Idle]
    /\ applies = [g \in Apply |-> NoApply]
    /\ live = [books |-> {}, renditions |-> {}]
    /\ turns = 0 /\ errors = 0
    /\ reached = progress
    /\ failed = {}

Reader ==
    \/ \E b \in Book : \E href \in {None} \cup ({b} \X (1..MaxPage)) : Open(b, href)
    \/ Close
    \/ \E p \in 1..MaxPage : Turn(p)
    \/ \E g \in Apply, f \in Flow : ApplyReadingSettings(g, f)
    \/ Suspend

Continuation(s) ==
    \/ Loaded(s)
    \/ RequestProgress(s)
    \/ ServeRead(s)
    \/ Display(s)
    \/ Displayed(s)
    \/ OpenFailed(s)
    \/ Abandoned(s)

Settling(g) == StartApply(g) \/ Rebuild(g) \/ EndApply(g)

Next ==
    \/ Reader
    \/ \E s \in Session : Continuation(s)
    \/ \E g \in Apply : Settling(g)
    \/ RelocatedTarget
    \/ TimerFires
    \/ \E b \in Book : ServeWrite(b) \/ AnswerWrite(b)

\* Promises settle, commands are answered and timers fire; the reader owes nothing.
Fairness ==
    /\ \A s \in Session : WF_vars(Continuation(s))
    /\ \A g \in Apply : WF_vars(Settling(g))
    /\ WF_vars(TimerFires)
    /\ \A b \in Book : WF_vars(ServeWrite(b)) /\ WF_vars(AnswerWrite(b))

Spec == Init /\ [][Next]_vars /\ Fairness

-----------------------------------------------------------------------------
Write == [cfi: Cfi, status: {"queued", "sent", "done", "failed"}]

\* Whoever awaits a write awaits one of the chain.
Awaits(p, w) == p.ahead > 0 => p.book \in Book /\ p.ahead <= Len(w[p.book])

TypeOK ==
    /\ progress \in [Book -> Cfi \cup {None}]
    /\ session \in 0..MaxSessions
    /\ store \in [book: Book \cup {NoBook}, cfi: Cfi \cup {None}, epub: BOOLEAN,
                  rendition: Rendition \cup {NoRendition}, built: Flow, flow: Flow]
    /\ timer \in Cfi \cup {None}
    /\ writes \in [Book -> Seq(Write)]
    /\ opening \in [Session -> [pc: OpeningPc, book: Book \cup {NoBook}, asked: BOOLEAN,
                                target: Cfi \cup {None}, ahead: Nat]]
    /\ applies \in [Apply -> [pc: {"idle", "queued", "saving", "rejected", "displaying", "done"},
                              session: 0..MaxSessions, book: Book \cup {NoBook}, flow: Flow,
                              rebuild: BOOLEAN, target: Cfi \cup {None}, ahead: Nat]]
    /\ live \in [books: SUBSET Session, renditions: SUBSET Rendition]
    /\ turns \in 0..MaxTurns
    /\ errors \in 0..MaxErrors
    /\ reached \in [Book -> Cfi \cup {None}]
    /\ failed \subseteq Book
    /\ \A s \in Session : Awaits(opening[s], writes)
    /\ \A g \in Apply : Awaits(applies[g], writes)

\* Nothing is on its way to the row of b.
Quiet(b) == writes[b] = <<>> /\ (timer = None \/ timer[1] # b)

(***************************************************************************)
(* The last location reported for a book is the one its row ends up with,  *)
(* however the reader left it and whatever writes were under way, unless   *)
(* the last write was refused.                                             *)
(***************************************************************************)
LastLocationWins ==
    \A b \in Book : Quiet(b) /\ b \notin failed => progress[b] = reached[b]

(***************************************************************************)
(* A book opened again continues where it was left: open() awaits the exit *)
(* write before it reads the row.                                          *)
(***************************************************************************)
ResumesWhereLeft ==
    \A s \in Session :
        LET o == opening[s]
        IN  /\ o.pc = "read" /\ IsCurrentSession(s)
            /\ ~o.asked /\ o.book \notin failed
            => o.target = reached[o.book]

(***************************************************************************)
(* "A failed read is not 'no saved progress'": the first page is displayed *)
(* (and will be saved) only for a book that has no other saved location.   *)
(***************************************************************************)
NeverBackToStart ==
    \A s \in Session :
        LET o == opening[s]
        IN  o.pc = "displaying" /\ IsCurrentSession(s) /\ o.target = StartOf(o.book)
            => progress[o.book] \in {None, StartOf(o.book)}

(***************************************************************************)
(* The location of one book is never saved under another.                  *)
(***************************************************************************)
LocationsStayApart ==
    /\ \A b \in Book : progress[b] # None => progress[b][1] = b
    /\ \A b \in Book : \A i \in DOMAIN writes[b] : writes[b][i].cfi[1] = b

(***************************************************************************)
(* The state is well formed, and of every book the row is the last         *)
(* location of this book and no other.                                     *)
(***************************************************************************)
LocationsOK == TypeOK /\ LocationsStayApart /\ LastLocationWins

(***************************************************************************)
(* Every EPUB.js book and rendition is destroyed as soon as its session or *)
(* its flow is over, and what the store shows is never a destroyed one.    *)
(***************************************************************************)
ObjectsRetired ==
    /\ live.books \subseteq {session}
    /\ live.renditions = {store.rendition} \ {NoRendition}
    /\ store.epub => session \in live.books

(***************************************************************************)
(* Once the settings queue of an open reader is at rest, the rendition has *)
(* the flow of the last request, unless something failed on the way.       *)
(***************************************************************************)
LatestSettingsShown ==
    \A g \in Apply :
        /\ applies[g].session = session /\ applies[g].pc = "done"
        /\ \A h \in Apply : h > g => applies[h].pc = "idle"
        /\ opening[session].pc = "open"
        /\ errors = 0
        => store.built = applies[g].flow

Busy ==
    \/ \E s \in Session : opening[s].pc \in Awaiting
    \/ \E g \in Apply : applies[g].pc \notin {"idle", "done"}
    \/ timer # None
    \/ \E b \in Book : writes[b] # <<>>

(***************************************************************************)
(* Nobody waits for ever, although open() waits for a chain of writes,     *)
(* settings changes for open(), for each other and for the chain, and all  *)
(* of them may fail: a reader that is left alone comes to rest.            *)
(***************************************************************************)
EverythingSettles == Busy ~> ~Busy

-----------------------------------------------------------------------------
(* The promise: writes that were executed and not answered are stored or refused. *)

Executed(q) == q # <<>> /\ q[1].status \in {"done", "failed"}

\* The locations that are still on their way.
OnTheirWay(q) ==
    LET gone == IF Executed(q) THEN 1 ELSE 0
    IN  [i \in 1..(Len(q) - gone) |-> q[i + gone].cfi]

WasRefused(b) == IF Executed(writes[b]) THEN writes[b][1].status = "failed" ELSE b \in failed

Places == INSTANCE ReadingPlaces WITH
    Place <- Cfi, NoPlace <- None,
    place <- reached,
    waiting <- [b \in Book |-> IF timer # None /\ store.book = b THEN timer ELSE None],
    sent <- [b \in Book |-> OnTheirWay(writes[b])],
    saved <- progress,
    refused <- {b \in Book : WasRefused(b)}

(***************************************************************************)
(* However books are opened, closed and changed in their looks, and        *)
(* whatever fails, a row only moves forward along the places reached in    *)
(* its book, and ends at the last one.                                     *)
(***************************************************************************)
ImplementsPlaces == Places!PlacesSpec
=============================================================================
