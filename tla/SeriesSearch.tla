----------------------------- MODULE SeriesSearch -----------------------------
(***************************************************************************)
(* features/library/seriesSearch.ts and the part of ArchiveSearchPage.tsx  *)
(* that runs it, composed with SearchIndex: a search of a series ensures   *)
(* its index, polls the status and asks for the results.  Between a        *)
(* command and its answer the reader may cancel, search again, choose      *)
(* another series or leave the page.  The r-th search asks for task r, as  *)
(* every task has a uuid of its own.                                       *)
(***************************************************************************)
EXTENDS SearchIndex

CONSTANT MaxPolls     \* bound: repetitions of a poll (240 in the code)

ASSUME SeriesSearchAssumption ==
    Task \subseteq Nat \ {0} /\ MaxPolls \in Nat

VARIABLES page,       \* the current search, the task it owns, whether the button waits
          search,     \* where each search is
          cancels     \* cancel_search_index on its way, by task

searchVars == <<page, search, cancels>>
allVars == <<vars, searchVars>>

None == 0
LeftPage == [run |-> None, owned |-> None, searching |-> FALSE]

\* "ensure" and "poll" wait for a command to be executed, "ensured", "refused" and
\* "polled" for its answer.
Unused == [pc |-> "unused", series |-> NoSeries, seen |-> "nothing", polls |-> 0]

Reaches(r, step) == search' = [search EXCEPT ![r].pc = step]
Is(r, step) == search[r].pc = step
IsCurrent(r) == page.run = r

\* cancelOwnedSearchTask: nobody waits for its answer.
Cancelled(t) == cancels \cup ({t} \ {None})

-----------------------------------------------------------------------------
(* The reader. *)

\* retireSearch, then a search of its own; the button is disabled during a search.
Submit(r, s) ==
    /\ ~page.searching
    /\ Is(r, "unused") /\ \A q \in Task : q < r => ~Is(q, "unused")
    /\ cancels' = Cancelled(page.owned)
    /\ page' = [run |-> r, owned |-> None, searching |-> TRUE]
    /\ search' = [search EXCEPT ![r] = [Unused EXCEPT !.pc = "list", !.series = s]]

\* The cancel button, another series or scope, or leaving the page.
Retire ==
    /\ page.run # None
    /\ cancels' = Cancelled(page.owned)
    /\ page' = LeftPage
    /\ UNCHANGED search

-----------------------------------------------------------------------------
(* searchSeriesChapters *)

\* Mutant: a search that fails forgets its task.
OwnedNoMore(r) == None

\* The finally of handleSubmit: a task is known to be over when the last status said so.
OwnedAfter(r) ==
    IF search[r].seen \in {"ready", "error"} THEN None ELSE page.owned

\* The search returns or throws.
Returned(r) == [search EXCEPT ![r] = [Unused EXCEPT !.pc = "over", !.seen = search[r].seen]]

Over(r) ==
    /\ search' = Returned(r)
    /\ page' = IF IsCurrent(r)
               THEN [page EXCEPT !.searching = FALSE, !.owned = OwnedAfter(r)]
               ELSE page
    /\ UNCHANGED cancels

\* A search that was retired returns at its next isCurrent(), a series without books
\* throws.
Listed(r) ==
    /\ Is(r, "list")
    /\ IF IsCurrent(r) /\ Members(search[r].series) # {}
       THEN Reaches(r, "ensure") /\ UNCHANGED <<page, cancels>>
       ELSE Over(r)
    /\ UNCHANGED vars

\* One task at a time for a series, also while a cancelled one is on its way out.
ServeEnsure(r) ==
    /\ Is(r, "ensure")
    /\ \/ Ensure(r, search[r].series, FALSE) /\ Reaches(r, "ensured")
       \/ /\ \E t \in Task : Registered(t) /\ task[t].series = search[r].series
          /\ Reaches(r, "refused")
          /\ UNCHANGED vars
    /\ UNCHANGED <<page, cancels>>

Ensured(r) ==
    /\ \/ /\ Is(r, "ensured") /\ IsCurrent(r)
          /\ page' = [page EXCEPT !.owned = r]
          /\ Reaches(r, "poll")
          /\ UNCHANGED cancels
       \/ /\ Is(r, "ensured") /\ ~IsCurrent(r)
          /\ cancels' = Cancelled(r)
          /\ search' = Returned(r)
          /\ UNCHANGED page
       \/ Is(r, "refused") /\ Over(r)
    /\ UNCHANGED vars

\* What waitForSeriesIndex makes of a status.  The detail it looks at is that of any book
\* that has one: an interrupted book, also before the new task has come to it; one with an
\* error, which may be a cancellation's if it has documents; a ready one.
Seen(s) ==
    LET rows == {index[b] : b \in Members(s)}
        interrupted == {x \in rows : x.status = "pending"}
        cancelled == {x \in rows : x.status = "error" /\ x.print # NoFingerprint}
        others == {x \in rows : x.status \in {"error", "ready"}}
    IN  CASE SeriesStatus(s) \in {"ready", "error"} -> {SeriesStatus(s)}
          [] OTHER -> {"stopped" : x \in interrupted \cup cancelled}
                      \cup (IF interrupted # {} /\ others = {} THEN {} ELSE {"waiting"})

ServePoll(r) ==
    /\ Is(r, "poll")
    /\ \E seen \in Seen(search[r].series) :
          search' = [search EXCEPT ![r].pc = "polled", ![r].seen = seen]
    /\ UNCHANGED <<vars, page, cancels>>

\* The last poll that still waits gives the search up, and the task stays its own.
Polled(r) ==
    /\ Is(r, "polled")
    /\ CASE ~IsCurrent(r) -> Over(r)
         [] IsCurrent(r) /\ search[r].seen = "ready" ->
              Reaches(r, "query") /\ UNCHANGED <<page, cancels>>
         [] IsCurrent(r) /\ search[r].seen = "waiting" /\ search[r].polls < MaxPolls ->
              /\ search' = [search EXCEPT ![r].pc = "poll", ![r].polls = @ + 1]
              /\ UNCHANGED <<page, cancels>>
         [] OTHER -> Over(r)
    /\ UNCHANGED vars

Queried(r) == Is(r, "query") /\ Over(r) /\ UNCHANGED vars

\* A command fails, after the task was begun or before.
CommandFails(r) ==
    /\ search[r].pc \in {"list", "ensure", "poll", "query"}
    /\ Over(r)
    /\ Happens
    /\ UNCHANGED <<library, tables, task>>

\* cancel_search_index; of a task that is over it is refused.
CancelArrives(t) ==
    /\ t \in cancels
    /\ cancels' = cancels \ {t}
    /\ task' = [task EXCEPT ![t].cancelled = Registered(t)]
    /\ UNCHANGED <<library, tables, happened, page, search>>

\* The page goes with the process.
RestartAll ==
    /\ Restart
    /\ page' = LeftPage /\ cancels' = {}
    /\ search' = [r \in Task |-> IF Is(r, "unused") THEN Unused
                                 ELSE [Unused EXCEPT !.pc = "over"]]

-----------------------------------------------------------------------------

SeriesSearchInit ==
    /\ Init
    /\ page = LeftPage /\ cancels = {}
    /\ search = [r \in Task |-> Unused]

Answers(r) ==
    \/ Listed(r) \/ ServeEnsure(r) \/ Ensured(r) \/ ServePoll(r) \/ Polled(r)
    \/ Queried(r)

Reader ==
    \/ \E r \in Task, s \in Series : Submit(r, s) /\ UNCHANGED vars
    \/ Retire /\ UNCHANGED vars

\* Bounds: sources do not change and books are not moved, which tell the client nothing
\* that failures and deletions do not; books are deleted, on the shelf, when no worker is
\* at work (SearchIndex has them deleted at any time).
Around ==
    \/ \E t \in Task : OpenMixed(t) \/ Fail(t) \/ Refuse(t)
    \/ page.run = None /\ (\A t \in Task : ~Registered(t)) /\ \E b \in Book : Delete(b)

SeriesSearchNext ==
    \/ Reader
    \/ \E r \in Task : Answers(r) \/ CommandFails(r) \/ CancelArrives(r)
    \/ RestartAll
    \/ Around /\ UNCHANGED searchVars
    \/ \E t \in Task : Work(t) /\ UNCHANGED searchVars

\* As long as a command is unanswered, a cancellation on its way or a worker at work,
\* one of them goes on; the reader owes nothing.  No process repeats a step for ever, so
\* that which of them goes on may stay open.
Proceeds ==
    \E r \in Task :
        Answers(r) \/ CancelArrives(r) \/ (Work(r) /\ UNCHANGED searchVars)

SeriesSearchSpec ==
    SeriesSearchInit /\ [][SeriesSearchNext]_allVars /\ WF_allVars(Proceeds)

-----------------------------------------------------------------------------

\* Someone stands behind a task that works: the search that is to get it, the page that
\* owns it or a cancellation that is on its way; a page that gave up waiting still owns
\* it.  (A status that an earlier task left may tell the page that its own is over.)
Attended(t) ==
    Registered(t) /\ ~task[t].cancelled =>
        \/ Is(t, "ensured") \/ page.owned = t \/ t \in cancels
        \/ search[t].seen \in {"ready", "error"}

\* The page has its answer, and every series can be indexed again.
AtRest == ~page.searching /\ \A t \in Task : ~Registered(t)

\* Every task is attended, and whatever the reader, deletions, failures and restarts do
\* meanwhile, all comes to rest again: every search comes to an answer and every task
\* leaves the registry, however it ends.  (There are finitely many searches; a reader who
\* never ceases to search may keep some task at work.)
SearchesEnd ==
    /\ [](\A t \in Task : Attended(t))
    /\ []<>AtRest
=============================================================================
