-------------------------- MODULE SearchIndexProofs --------------------------
(***************************************************************************)
(* What the runs of SearchIndex and SeriesSearch check with two workers    *)
(* and two books, proved for every number of books, series, workers,       *)
(* versions, chapters, searches, polls and events, and for every budget;   *)
(* and the ranges of EpubResources, for every length.                      *)
(***************************************************************************)
EXTENDS SeriesSearch, EpubResources, TotalsProofs, SequenceTheorems

USE SearchAssumption

-----------------------------------------------------------------------------
(* Types. *)

\* The books that a worker is given are a list of the series' books.
LEMMA ListsAreSequences ==
    ASSUME NEW S \in SUBSET Book, NEW todo \in SetToSeqs(S)
    PROVE  todo \in Seq(Book)
  <1>1. IsFiniteSet(S)
    BY FS_Subset
  <1>2. Cardinality(S) \in Nat
    BY <1>1, FS_CardinalityType
  <1>3. todo \in [1..Cardinality(S) -> S]
    BY DEF SetToSeqs
  <1>4. QED BY <1>2, <1>3

LEMMA FieldsTyped ==
    ASSUME NEW w \in Worker
    PROVE  /\ w.pc \in PC /\ w.todo \in Seq(Book) /\ w.print \in Fingerprint
           /\ w.version \in Text
           /\ w.count \in Nat /\ w.bytes \in Nat /\ w.cut \in BOOLEAN
           /\ w.todo # <<>> => Head(w.todo) \in Book /\ Tail(w.todo) \in Seq(Book)
  BY DEF Worker

LEMMA Bounds == MaxVersion \in Nat /\ 1 \in Version /\ MaxEvents \in Nat /\ IndexLimit \in Nat
  BY DEF Version

LEMMA IndexTypes ==
    /\ NoRow \in [status: Status, print: Fingerprint]
    /\ NoDocs \in [version: Text, count: Nat]
    /\ Idle \in Worker
    /\ Fingerprint \subseteq Nat /\ Text \subseteq Nat
    /\ Version \subseteq Text /\ Mixed \in Text /\ NoFingerprint \in Text
  BY DEF NoRow, NoDocs, Idle, Worker, Status, Fingerprint, NoFingerprint, PC, Version, Text, Mixed

\* The two parts of TypeOK.
RegistryOK ==
    /\ task \in [Task -> Worker]
    /\ \A t \in Task : task[t].pc \notin {"idle", "next", "end"} => task[t].todo # <<>>
TablesOK ==
    /\ books \subseteq Book
    /\ series \in [Book -> Series \cup {NoSeries}]
    /\ source \in [Book -> Version]
    /\ index \in [Book -> [status: Status, print: Fingerprint]]
    /\ docs \in [Book -> [version: Text, count: Nat]]
    /\ events \in Nat /\ refusals \in Nat /\ events + refusals <= MaxEvents

\* At the steps in between the worker has a book.
LEMMA WorkerHasBook ==
    ASSUME RegistryOK, NEW t \in Task, task[t].pc \notin {"idle", "next", "end"}
    PROVE  task[t].todo # <<>> /\ BookOf(t) \in Book
  BY FieldsTyped DEF RegistryOK, BookOf

\* A step of one worker leaves the others where they are.
Steps(t) ==
    /\ task' \in [Task -> Worker]
    /\ \A u \in Task : u # t => task'[u] = task[u]
LEMMA StepRegistered ==
    ASSUME RegistryOK, NEW t \in Task, Steps(t),
           task'[t].pc \notin {"idle", "next", "end"} => task'[t].todo # <<>>
    PROVE  RegistryOK'
  BY DEF RegistryOK, Steps

\* The worker goes on to a step, or to the next book.
LEMMA GoesSteps ==
    ASSUME RegistryOK, NEW t \in Task, NEW step \in PC, Goes(t, step)
    PROVE  /\ Steps(t)
           /\ task'[t].pc = step /\ task'[t].todo = task[t].todo
           /\ task'[t].cut = task[t].cut /\ task'[t].count = task[t].count
           /\ task'[t].print = task[t].print /\ task'[t].version = task[t].version
  <1> DEFINE w == [task[t] EXCEPT !.pc = step]
  <1>1. /\ w \in Worker /\ w.pc = step /\ w.todo = task[t].todo /\ w.cut = task[t].cut
        /\ w.count = task[t].count /\ w.print = task[t].print
        /\ w.version = task[t].version
    BY DEF RegistryOK, Worker
  <1>2. task' = [task EXCEPT ![t] = w]
    BY DEF Goes
  <1> HIDE DEF w
  <1>3. QED BY <1>1, <1>2 DEF RegistryOK, Steps

LEMMA GoesOnSteps ==
    ASSUME RegistryOK, NEW t \in Task, task[t].todo # <<>>, GoesOn(t)
    PROVE  Steps(t) /\ task'[t].pc = "next"
  <1> DEFINE w == [task[t] EXCEPT !.pc = "next", !.todo = Tail(@), !.print = NoFingerprint,
                                  !.version = NoFingerprint, !.count = 0, !.cut = FALSE,
                                  !.final = FALSE]
  <1>1. Tail(task[t].todo) \in Seq(Book)
    BY FieldsTyped DEF RegistryOK
  <1>2. /\ "next" \in PC /\ NoFingerprint \in Fingerprint /\ NoFingerprint \in Text
        /\ 0 \in Nat
    BY DEF PC, Fingerprint, Text
  <1>3. w \in Worker /\ w.pc = "next"
    BY <1>1, <1>2 DEF RegistryOK, Worker
  <1>4. task' = [task EXCEPT ![t] = w]
    BY DEF GoesOn
  <1> HIDE DEF w
  <1>5. QED BY <1>3, <1>4 DEF RegistryOK, Steps

LEMMA AcquireSteps ==
    ASSUME RegistryOK, TablesOK, NEW t \in Task, Acquire(t)
    PROVE  Steps(t) /\ task'[t].pc = "check" /\ task'[t].todo = task[t].todo
  <1>1. source[BookOf(t)] \in Fingerprint
    BY WorkerHasBook DEF Acquire, At, TablesOK, Fingerprint
  <1>2. task' \in [Task -> Worker]
    <2>1. "check" \in PC
      BY DEF PC
    <2>2. QED BY ZenonT(60), <1>1, <2>1 DEF RegistryOK, Acquire, Worker
  <1>3. QED BY <1>2 DEF RegistryOK, Acquire, Steps, Worker

LEMMA OpenSteps ==
    ASSUME RegistryOK, NEW t \in Task, NEW v \in Text, Opens(t, v)
    PROVE  /\ Steps(t) /\ task'[t].pc = "extract" /\ task'[t].todo = task[t].todo
           /\ task'[t].print = task[t].print /\ task'[t].version = v
           /\ task'[t].cancelled = task[t].cancelled
  <1> DEFINE w == [task[t] EXCEPT !.pc = "extract", !.version = v]
  <1>1. "extract" \in PC
    BY DEF PC
  <1>2. /\ w \in Worker /\ w.pc = "extract" /\ w.todo = task[t].todo
        /\ w.print = task[t].print /\ w.version = v /\ w.cancelled = task[t].cancelled
    BY <1>1 DEF RegistryOK, Worker
  <1>3. task' = [task EXCEPT ![t] = w]
    BY DEF Opens
  <1> HIDE DEF w
  <1>4. QED BY <1>2, <1>3 DEF RegistryOK, Steps

\* The texts that may be opened for a fingerprint, none of them older.
LEMMA OpenedText ==
    ASSUME RegistryOK, TablesOK, NEW t \in Task, Open(t)
    PROVE  \E v \in Text : /\ Opens(t, v)
                           /\ task[t].print <= v /\ v <= source[BookOf(t)]
  <1>1. PICK v \in task[t].print..source[BookOf(t)] : Opens(t, v)
    BY DEF Open
  <1>2. task[t].print \in Nat /\ source[BookOf(t)] \in Version
    BY FieldsTyped, IndexTypes, WorkerHasBook DEF Open, At, RegistryOK, TablesOK
  <1>3. v \in Text
    BY <1>2, Bounds, IndexTypes DEF Version, Text, NoFingerprint
  <1>4. QED BY <1>1, <1>2, <1>3 DEF Version

LEMMA ExtractSteps ==
    ASSUME RegistryOK, NEW t \in Task, Extract(t)
    PROVE  /\ Steps(t) /\ task'[t].todo = task[t].todo
           /\ task'[t].print = task[t].print /\ task'[t].version = task[t].version
           /\ task'[t].pc \in {"extract", "budget"}
           /\ task'[t].pc = "budget" /\ ~task'[t].cut
                => task'[t].count = Chapters[task'[t].version]
  <1>1. task[t].count + 1 \in Nat
    BY FieldsTyped DEF RegistryOK
  <1>2. CASE task' = [task EXCEPT ![t].count = @ + 1]
    <2>1. task' \in [Task -> Worker]
      BY ZenonT(60), <1>1, <1>2 DEF RegistryOK, Worker
    <2>2. QED BY <1>2, <2>1 DEF RegistryOK, Extract, At, Steps, Worker
  <1>3. CASE task' = [task EXCEPT ![t].pc = "budget", ![t].cut = TRUE]
    <2>1. task' \in [Task -> Worker]
      <3>1. "budget" \in PC
        BY DEF PC
      <3>2. QED BY ZenonT(60), <1>3, <3>1 DEF RegistryOK, Worker
    <2>2. QED BY <1>3, <2>1 DEF RegistryOK, Steps, Worker
  <1>4. CASE task[t].count = Chapters[task[t].version] /\ Goes(t, "budget")
    BY <1>4, GoesSteps DEF PC
  <1>5. QED BY <1>2, <1>3, <1>4 DEF Extract

LEMMA BudgetSteps ==
    ASSUME RegistryOK, NEW t \in Task, Budget(t)
    PROVE  /\ Steps(t) /\ task'[t].todo = task[t].todo
           /\ task'[t].pc \in {"overrun", "persist"}
           /\ task'[t].cut = task[t].cut /\ task'[t].count = task[t].count
           /\ task'[t].print = task[t].print /\ task'[t].version = task[t].version
  <1> DEFINE total == task[t].bytes + task[t].count
             step == IF total > TaskLimit THEN "overrun" ELSE "persist"
             last == total > TaskLimit
  <1>1. total \in Nat /\ step \in PC /\ last \in BOOLEAN
    BY FieldsTyped DEF RegistryOK, PC
  <1>2. task' = [task EXCEPT ![t].bytes = total, ![t].pc = step, ![t].final = last]
    BY DEF Budget
  <1>3. step \in {"overrun", "persist"}
    OBVIOUS
  <1> HIDE DEF total, step, last
  <1>4. task' \in [Task -> Worker]
    <2> DEFINE w == [task[t] EXCEPT !.bytes = total, !.pc = step, !.final = last]
    <2>1. w \in Worker
      BY <1>1 DEF RegistryOK, Worker
    <2>2. task' = [task EXCEPT ![t] = w]
      BY <1>2 DEF RegistryOK
    <2> HIDE DEF w
    <2>3. QED BY <2>1, <2>2 DEF RegistryOK
  <1>5. QED BY <1>2, <1>3, <1>4 DEF RegistryOK, Steps, Worker

\* What a worker may do when it stores the documents.
Stores(t) ==
    LET b == BookOf(t)
    IN  /\ Fits(b, task[t].count) /\ Known(b)
        /\ docs' = [docs EXCEPT ![b] = [version |-> task[t].version, count |-> task[t].count]]
        /\ index' = [index EXCEPT ![b] = [status |-> Outcome(task[t].cut),
                                          print |-> task[t].print]]
LEMMA PersistSteps ==
    ASSUME RegistryOK, NEW t \in Task, Persist(t)
    PROVE  /\ Steps(t)
           /\ \/ /\ task'[t].pc \in {"overrun", "spoiled"}
                 /\ task'[t].todo = task[t].todo
                 /\ UNCHANGED tables
              \/ task'[t].pc = "next" /\ Stores(t)
  <1>1. task[t].todo # <<>>
    BY WorkerHasBook DEF Persist, At
  <1>2. ASSUME NEW step \in {"overrun", "spoiled"},
               task' = [task EXCEPT ![t].pc = step, ![t].final = TRUE]
        PROVE  Steps(t) /\ task'[t].pc = step /\ task'[t].todo = task[t].todo
    <2> DEFINE w == [task[t] EXCEPT !.pc = step, !.final = TRUE]
    <2>1. step \in PC
      BY DEF PC
    <2>2. w \in Worker /\ w.pc = step /\ w.todo = task[t].todo
      BY <2>1 DEF RegistryOK, Worker
    <2>3. task' = [task EXCEPT ![t] = w]
      BY <1>2 DEF RegistryOK
    <2> HIDE DEF w
    <2>4. task' \in [Task -> Worker] /\ task'[t] = w
      BY <2>2, <2>3 DEF RegistryOK
    <2>5. QED BY <2>2, <2>3, <2>4 DEF RegistryOK, Steps
  <1>3. CASE ~Fits(BookOf(t), task[t].count)
    BY <1>2, <1>3 DEF Persist
  <1>4. CASE Fits(BookOf(t), task[t].count) /\ ~Known(BookOf(t))
    BY <1>2, <1>4 DEF Persist
  <1>5. CASE Fits(BookOf(t), task[t].count) /\ Known(BookOf(t))
    BY <1>1, <1>5, GoesOnSteps DEF Persist, Stores
  <1>6. QED BY <1>3, <1>4, <1>5

LEMMA FailSteps ==
    ASSUME RegistryOK, NEW t \in Task, Fail(t)
    PROVE  /\ Steps(t) /\ task'[t].todo = task[t].todo
           /\ task'[t].pc \in {"overrun", "spoiled"}
           /\ task[t].pc \notin {"idle", "next", "end"}
           /\ UNCHANGED <<library, tables, refusals>>
  <1>1. CASE \E step \in {"spoiled", "overrun"} : Goes(t, step)
    BY <1>1, GoesSteps DEF PC, Fail, At, Happens
  <1>2. ASSUME NEW step \in {"overrun", "spoiled"},
               task' = [task EXCEPT ![t].pc = step, ![t].final = TRUE]
        PROVE  Steps(t) /\ task'[t].pc = step /\ task'[t].todo = task[t].todo
    <2> DEFINE w == [task[t] EXCEPT !.pc = step, !.final = TRUE]
    <2>1. step \in PC
      BY DEF PC
    <2>2. w \in Worker /\ w.pc = step /\ w.todo = task[t].todo
      BY <2>1 DEF RegistryOK, Worker
    <2>3. task' = [task EXCEPT ![t] = w]
      BY <1>2 DEF RegistryOK
    <2> HIDE DEF w
    <2>4. task' \in [Task -> Worker] /\ task'[t] = w
      BY <2>2, <2>3 DEF RegistryOK
    <2>5. QED BY <2>2, <2>3, <2>4 DEF RegistryOK, Steps
  <1>3. QED BY <1>1, <1>2 DEF Fail, At, Happens

LEMMA CancelSteps ==
    ASSUME RegistryOK, NEW t \in Task, Cancel(t)
    PROVE  /\ Steps(t)
           /\ task'[t].pc = task[t].pc /\ task'[t].todo = task[t].todo
           /\ task'[t].cut = task[t].cut /\ task'[t].count = task[t].count
           /\ task'[t].print = task[t].print /\ task'[t].version = task[t].version
  <1>1. task' \in [Task -> Worker]
    BY ZenonT(60) DEF RegistryOK, Cancel, Worker
  <1>2. QED BY <1>1 DEF RegistryOK, Cancel, Steps, Worker

LEMMA EnsureSteps ==
    ASSUME RegistryOK, TablesOK, NEW t \in Task, NEW s \in Series, NEW rebuild \in BOOLEAN,
           Ensure(t, s, rebuild)
    PROVE  Steps(t) /\ task'[t].pc = "next" /\ task[t].pc = "idle"
  <1>1. PICK todo \in SetToSeqs(Members(s)) :
           task' = [task EXCEPT ![t] = [Idle EXCEPT !.pc = "next", !.series = s,
                                                    !.todo = todo, !.rebuild = rebuild]]
    BY DEF Ensure
  <1>2. todo \in Seq(Book)
    BY ListsAreSequences DEF Members, TablesOK
  <1> DEFINE w == [Idle EXCEPT !.pc = "next", !.series = s, !.todo = todo, !.rebuild = rebuild]
  <1>3. w \in Worker /\ w.pc = "next"
    BY <1>2 DEF Idle, Worker, PC, Fingerprint, Text, NoFingerprint
  <1>4. task' = [task EXCEPT ![t] = w]
    BY <1>1
  <1> HIDE DEF w
  <1>5. QED BY <1>3, <1>4 DEF RegistryOK, Steps, Ensure, Registered

LEMMA EndSteps ==
    ASSUME RegistryOK, NEW t \in Task, End(t)
    PROVE  Steps(t) /\ task'[t].pc = "idle" /\ task[t].pc = "end"
  <1>1. Idle \in Worker /\ Idle.pc = "idle"
    BY IndexTypes DEF Idle
  <1>2. QED BY <1>1 DEF End, At, RegistryOK, Steps

-----------------------------------------------------------------------------
(* The inductive invariant. *)

\* What is ready is whole and no older than its fingerprint, whether the book is in a
\* series or not.
ReadyIsWhole ==
    \A b \in Book : index[b].status = "ready" =>
        /\ docs[b].count = Chapters[docs[b].version]
        /\ docs[b].version # Mixed =>
              index[b].print <= docs[b].version /\ docs[b].version <= source[b]

\* A worker reads a text no older than the fingerprint it took, and has all of it when it
\* is about to store what was not cut short.
ReadsTruly(w) ==
    /\ w.pc \in {"budget", "persist"} /\ ~w.cut => w.count = Chapters[w.version]
    /\ w.pc \in {"extract", "budget", "persist"} /\ w.version # Mixed =>
          w.print <= w.version /\ w.version <= source[Head(w.todo)]

\* Where a worker is while its book is shown as building.
Building == {"open", "extract", "budget", "persist", "spoiled", "overrun"}
WorksOn(t, b) == task[t].pc \in Building /\ BookOf(t) = b
BuildingHasWorker ==
    \A b \in Book : index[b].status = "building" /\ refusals = 0 =>
        \E t \in Task : WorksOn(t, b)

IndexInv ==
    /\ RegistryOK /\ TablesOK
    /\ IndexWithinBudget
    /\ DeletedStaysGone
    /\ ReadyIsWhole
    /\ \A t \in Task : ReadsTruly(task[t])
    /\ BuildingHasWorker

\* The invariant holds before anything is indexed.
LEMMA IndexBegins == Init => IndexInv
  <1> SUFFICES ASSUME Init PROVE IndexInv
    OBVIOUS
  <1>1. \A t \in Task : task[t] = Idle /\ task[t].pc = "idle"
    BY DEF Init, Idle
  <1>2. source \in [Book -> Version]
    BY Bounds DEF Init
  <1>3. RegistryOK /\ TablesOK
    BY <1>1, <1>2, Bounds, IndexTypes DEF Init, RegistryOK, TablesOK
  <1>4. IndexWithinBudget
    <2> DEFINE counts == [b \in Book |-> docs[b].count]
    <2>1. counts \in [Book -> Nat] /\ \A b \in Book : counts[b] = 0
      BY DEF Init, NoDocs
    <2> HIDE DEF counts
    <2>2. Total(counts) = 0
      BY <2>1, TotalOfZeros
    <2>3. QED BY <2>2, Bounds DEF IndexWithinBudget, counts
  <1>5. \A b \in Book : index[b] = NoRow /\ docs[b] = NoDocs /\ index[b].status = "none"
    BY DEF Init, NoRow
  <1>6. QED BY <1>1, <1>3, <1>4, <1>5
            DEF IndexInv, DeletedStaysGone, ReadyIsWhole, ReadsTruly, BuildingHasWorker

\* A worker's step that touches neither the library nor the search tables: it must not
\* leave a book that is building, nor claim what it has not read.
LEMMA Bystander ==
    ASSUME IndexInv, NEW t \in Task, Steps(t), UNCHANGED <<library, tables, refusals>>,
           events' \in Nat /\ events' + refusals' <= MaxEvents,
           task'[t].pc \notin {"idle", "next", "end"} => task'[t].todo # <<>>,
           ReadsTruly(task'[t]),
           task[t].pc \in Building => task'[t].pc \in Building /\ task'[t].todo = task[t].todo
    PROVE  IndexInv'
  <1>1. RegistryOK'
    BY StepRegistered DEF IndexInv
  <1>2. TablesOK'
    BY DEF IndexInv, TablesOK, library, tables
  <1>3. IndexWithinBudget' /\ DeletedStaysGone' /\ ReadyIsWhole'
    BY DEF IndexInv, IndexWithinBudget, DeletedStaysGone, ReadyIsWhole, library, tables
  <1>4. \A u \in Task : ReadsTruly(task[u])'
    BY DEF IndexInv, Steps, ReadsTruly, library
  <1>5. BuildingHasWorker'
    BY DEF IndexInv, Steps, BuildingHasWorker, WorksOn, BookOf, tables
  <1>6. QED BY <1>1, <1>2, <1>3, <1>4, <1>5 DEF IndexInv

LEMMA RegistryKeeps ==
    ASSUME IndexInv, NEW t \in Task,
           \/ \E s \in Series, rebuild \in BOOLEAN : Ensure(t, s, rebuild)
           \/ Cancel(t) \/ End(t)
    PROVE  IndexInv'
  <1> USE DEF IndexInv
  <1>1. ASSUME NEW s \in Series, NEW rebuild \in BOOLEAN, Ensure(t, s, rebuild) PROVE IndexInv'
    <2>1. ReadsTruly(task'[t])
      BY <1>1, EnsureSteps DEF ReadsTruly
    <2>2. UNCHANGED <<library, tables, refusals>> /\ UNCHANGED events
      BY <1>1 DEF Ensure, happened
    <2>3. QED BY <1>1, <2>1, <2>2, EnsureSteps, Bystander DEF Building, TablesOK
  <1>2. CASE Cancel(t)
    <2>1. ReadsTruly(task'[t])
      BY <1>2, CancelSteps DEF ReadsTruly
    <2>2. /\ UNCHANGED <<library, tables, refusals>>
          /\ events' \in Nat /\ events' + refusals' <= MaxEvents
      BY <1>2, Bounds DEF Cancel, Happens, TablesOK
    <2>3. QED BY <1>2, <2>1, <2>2, CancelSteps, Bystander DEF RegistryOK
  <1>3. CASE End(t)
    <2>1. ReadsTruly(task'[t])
      BY <1>3, EndSteps DEF ReadsTruly
    <2>2. UNCHANGED <<library, tables, refusals>> /\ UNCHANGED events
      BY <1>3 DEF End, happened
    <2>3. QED BY <1>3, <2>1, <2>2, EndSteps, Bystander DEF Building, TablesOK
  <1>4. QED BY <1>1, <1>2, <1>3

LEMMA SetOutKeeps ==
    ASSUME IndexInv, NEW t \in Task, NextBook(t) \/ Lookup(t) \/ Acquire(t) \/ Check(t)
    PROVE  IndexInv'
  <1> USE DEF IndexInv
  <1>1. UNCHANGED <<library, tables, refusals>> /\ UNCHANGED events
    BY DEF NextBook, Lookup, Acquire, Check, happened
  <1>2. task[t].pc \notin Building
    BY DEF NextBook, Lookup, Acquire, Check, At, Building
  <1>3. /\ Steps(t) /\ ReadsTruly(task'[t])
        /\ task'[t].pc \notin {"idle", "next", "end"} => task'[t].todo # <<>>
    <2>1. CASE NextBook(t)
      <3>1. PICK step \in {"end", "lookup"} :
               Goes(t, step) /\ (step = "lookup" => task[t].todo # <<>>)
        BY <2>1 DEF NextBook
      <3>2. step \in PC
        BY DEF PC
      <3>3. QED BY <3>1, <3>2, GoesSteps DEF ReadsTruly
    <2>2. CASE Lookup(t)
      <3>1. PICK step \in {"end", "acquire"} : Goes(t, step)
        BY <2>2 DEF Lookup
      <3>2. step \in PC /\ task[t].todo # <<>>
        BY <2>2, WorkerHasBook DEF PC, Lookup, At
      <3>3. QED BY <3>1, <3>2, GoesSteps DEF ReadsTruly
    <2>3. CASE Acquire(t)
      BY <2>3, AcquireSteps, WorkerHasBook DEF Acquire, At, ReadsTruly
    <2>4. CASE Check(t)
      <3>1. task[t].todo # <<>> /\ "mark" \in PC
        BY <2>4, WorkerHasBook DEF PC, Check, At
      <3>2. GoesOn(t) \/ Goes(t, "mark")
        BY <2>4 DEF Check
      <3>3. QED BY <3>1, <3>2, GoesSteps, GoesOnSteps DEF ReadsTruly
    <2>5. QED BY <2>1, <2>2, <2>3, <2>4
  <1>4. QED BY <1>1, <1>2, <1>3, Bystander DEF TablesOK

\* Reading: a cancelled extraction is marked as cut, a whole one has every chapter.
LEMMA ReadingKeeps ==
    ASSUME IndexInv, NEW t \in Task,
           Open(t) \/ OpenMixed(t) \/ Extract(t) \/ Budget(t) \/ Fail(t)
    PROVE  IndexInv'
  <1> USE DEF IndexInv
  <1>1. /\ UNCHANGED <<library, tables, refusals>>
        /\ events' \in Nat /\ events' + refusals' <= MaxEvents
    BY Bounds DEF Open, OpenMixed, Opens, Extract, Budget, Fail, Happens, happened, TablesOK
  <1>2. task[t].todo # <<>>
    BY WorkerHasBook, FailSteps DEF Open, OpenMixed, Extract, Budget, At
  <1>3. /\ Steps(t) /\ ReadsTruly(task'[t])
        /\ task'[t].pc \in Building /\ task'[t].todo = task[t].todo
    <2>1. CASE Extract(t)
      BY <2>1, ExtractSteps DEF Building, ReadsTruly, Extract, At
    <2>2. CASE Budget(t)
      BY <2>2, BudgetSteps DEF Building, ReadsTruly, Budget, At
    <2>3. CASE Fail(t)
      BY <2>3, FailSteps DEF Building, ReadsTruly
    <2>4. CASE Open(t)
      <3>1. PICK v \in Text : /\ Opens(t, v)
                             /\ task[t].print <= v /\ v <= source[BookOf(t)]
        BY <2>4, OpenedText
      <3>2. QED BY <3>1, OpenSteps DEF Building, ReadsTruly, BookOf
    <2>5. CASE OpenMixed(t)
      BY <2>5, OpenSteps, IndexTypes DEF OpenMixed, Building, ReadsTruly
    <2>6. QED BY <2>1, <2>2, <2>3, <2>4, <2>5
  <1>4. QED BY <1>1, <1>2, <1>3, Bystander

\* The task ends where it is when the database refuses: what it was building stays.
LEMMA RefusalKeeps ==
    ASSUME IndexInv, NEW t \in Task, Refuse(t)
    PROVE  IndexInv'
  <1> USE DEF IndexInv
  <1>1. Steps(t) /\ task'[t].pc = "end"
    BY GoesSteps DEF Refuse, PC
  <1>2. RegistryOK'
    BY <1>1, StepRegistered
  <1>3. TablesOK' /\ refusals' # 0
    BY Bounds DEF Refuse, TablesOK, library, tables
  <1>4. IndexWithinBudget' /\ DeletedStaysGone' /\ ReadyIsWhole'
    BY DEF Refuse, IndexWithinBudget, DeletedStaysGone, ReadyIsWhole, library, tables
  <1>5. \A u \in Task : ReadsTruly(task[u])'
    BY <1>1 DEF Steps, ReadsTruly, Refuse, library
  <1>6. QED BY <1>2, <1>3, <1>4, <1>5 DEF BuildingHasWorker

\* A book with an error, or stored, or building under worker t, needs no other worker.
LEMMA OneBookChanges ==
    ASSUME IndexInv, NEW t \in Task, Steps(t), NEW b \in Book, UNCHANGED refusals,
           \A c \in Book : c # b => index'[c] = index[c],
           \/ index'[b].status # "building"
           \/ task'[t].pc \in Building /\ task'[t].todo = task[t].todo /\ b = BookOf(t),
           task[t].pc \in Building => BookOf(t) = b
    PROVE  BuildingHasWorker'
  <1> SUFFICES ASSUME NEW c \in Book, index'[c].status = "building", refusals = 0
               PROVE  \E u \in Task : WorksOn(u, c)'
    BY DEF BuildingHasWorker
  <1>1. CASE c = b
    BY <1>1 DEF WorksOn, BookOf
  <1>2. CASE c # b
    <2>1. PICK u \in Task : WorksOn(u, c)
      BY <1>2 DEF IndexInv, BuildingHasWorker
    <2>2. u # t
      BY <1>2, <2>1 DEF WorksOn
    <2>3. QED BY <2>1, <2>2 DEF WorksOn, BookOf, Steps
  <1>3. QED BY <1>1, <1>2

\* The budget holds when a book's documents are fewer than before, or fit.
LEMMA FewerFit ==
    ASSUME IndexInv,
           docs' \in [Book -> [version: Text, count: Nat]],
           \A c \in Book : docs'[c].count <= docs[c].count
    PROVE  IndexWithinBudget'
  <1> DEFINE before == [c \in Book |-> docs[c].count]
             after == [c \in Book |-> docs'[c].count]
  <1>1. before \in [Book -> Nat] /\ after \in [Book -> Nat]
    BY DEF IndexInv, TablesOK
  <1>2. \A c \in Book : after[c] <= before[c]
    OBVIOUS
  <1>3. Total(before) <= IndexLimit
    BY DEF IndexInv, IndexWithinBudget
  <1> HIDE DEF before, after
  <1>4. Total(after) <= Total(before) /\ Total(before) \in Nat /\ Total(after) \in Nat
    BY <1>1, <1>2, TotalOfPart, TotalNatural
  <1>5. Total(after) <= IndexLimit
    BY <1>3, <1>4, Bounds
  <1>6. QED BY <1>5 DEF IndexWithinBudget, after

LEMMA StoredFit ==
    ASSUME IndexInv, NEW b \in Book, NEW n \in Nat, Fits(b, n),
           docs' \in [Book -> [version: Text, count: Nat]],
           docs'[b].count = n, \A c \in Book : c # b => docs'[c] = docs[c]
    PROVE  IndexWithinBudget'
  <1> DEFINE others == [c \in Book \ {b} |-> docs[c].count]
             after == [c \in Book |-> docs'[c].count]
  <1>1. others \in [Book \ {b} -> Nat] /\ after \in [Book -> Nat]
    BY DEF IndexInv, TablesOK
  <1>2. \A c \in Book \ {b} : others[c] = after[c]
    OBVIOUS
  <1>3. Total(others) + n <= IndexLimit
    BY DEF Fits
  <1>4. after[b] = n
    OBVIOUS
  <1> HIDE DEF others, after
  <1>5. Total(after) = Total(others) + n
    <2>1. IsFiniteSet(Book)
      OBVIOUS
    <2>2. Total(after) = Total(others) + after[b]
      BY ONLY ZenonT(60), <1>1, <1>2, <2>1, TotalPlusOne
    <2>3. QED BY <1>4, <2>2
  <1>6. Total(after) <= IndexLimit
    BY <1>3, <1>5
  <1>7. QED BY <1>6 DEF IndexWithinBudget, after

\* mark_building: the worker is on its way to the documents.
LEMMA MarkKeeps == ASSUME IndexInv, NEW t \in Task, Mark(t) PROVE IndexInv'
  <1> USE DEF IndexInv
  <1>1. task[t].todo # <<>> /\ BookOf(t) \in Book /\ {"open", "end"} \subseteq PC
    BY WorkerHasBook DEF Mark, At, PC
  <1>2. task[t].pc \notin Building
    BY DEF Mark, At, Building
  <1>3. CASE Known(BookOf(t))
    <2> DEFINE b == BookOf(t)
    <2>1. index' = [index EXCEPT ![b].status = "building"] /\ Goes(t, "open")
      BY <1>3 DEF Mark
    <2>2. Steps(t) /\ task'[t].pc = "open" /\ task'[t].todo = task[t].todo
      BY <1>1, <2>1, GoesSteps
    <2>3. RegistryOK'
      BY <1>1, <2>2, StepRegistered
    <2>4. TablesOK'
      <3>1. index' \in [Book -> [status: Status, print: Fingerprint]]
        BY <2>1 DEF TablesOK, Status
      <3>2. QED BY <3>1 DEF Mark, TablesOK, library, happened
    <2>5. IndexWithinBudget'
      BY DEF Mark, IndexWithinBudget
    <2>6. DeletedStaysGone'
      BY <1>3, <2>1 DEF Mark, DeletedStaysGone, Known, library
    <2>7. ReadyIsWhole'
      BY <1>1, <2>1 DEF Mark, ReadyIsWhole, TablesOK, library
    <2>8. \A u \in Task : ReadsTruly(task[u])'
      BY <2>2 DEF Mark, Steps, ReadsTruly, library
    <2>9. BuildingHasWorker'
      <3>1. \A c \in Book : c # b => index'[c] = index[c]
        BY <2>1 DEF TablesOK
      <3>2. task'[t].pc \in Building /\ UNCHANGED refusals
        BY <2>2 DEF Building, Mark, happened
      <3>3. QED BY <1>1, <1>2, <2>2, <3>1, <3>2, OneBookChanges
    <2>10. QED BY <2>3, <2>4, <2>5, <2>6, <2>7, <2>8, <2>9
  <1>4. CASE ~Known(BookOf(t))
    <2>1. UNCHANGED <<library, tables, refusals>> /\ UNCHANGED events /\ Goes(t, "end")
      BY <1>4 DEF Mark, tables, happened
    <2>2. QED BY <1>1, <1>2, <2>1, GoesSteps, Bystander DEF ReadsTruly, TablesOK
  <1>5. QED BY <1>3, <1>4

\* persist_documents
LEMMA PersistKeeps == ASSUME IndexInv, NEW t \in Task, Persist(t) PROVE IndexInv'
  <1> USE DEF IndexInv
  <1>1. /\ task[t].todo # <<>> /\ BookOf(t) \in Book
        /\ UNCHANGED <<library, refusals>> /\ UNCHANGED events
        /\ task[t].pc = "persist"
    BY WorkerHasBook DEF Persist, At, happened
  <1>2. CASE /\ task'[t].pc \in {"overrun", "spoiled"}
             /\ task'[t].todo = task[t].todo
             /\ UNCHANGED tables
    <2>1. ReadsTruly(task'[t]) /\ task'[t].pc \in Building
      BY <1>2 DEF ReadsTruly, Building
    <2>2. QED BY <1>1, <1>2, <2>1, PersistSteps, Bystander DEF TablesOK
  <1>3. CASE task'[t].pc = "next" /\ Stores(t)
    <2> DEFINE b == BookOf(t)
               n == task[t].count
    <2>1. /\ Fits(b, n) /\ Known(b)
          /\ docs' = [docs EXCEPT ![b] = [version |-> task[t].version, count |-> n]]
          /\ index' = [index EXCEPT ![b] = [status |-> Outcome(task[t].cut),
                                            print |-> task[t].print]]
      BY <1>3 DEF Stores
    <2>2. /\ n \in Nat /\ task[t].print \in Fingerprint /\ task[t].version \in Text
          /\ Steps(t)
      BY FieldsTyped, PersistSteps DEF RegistryOK
    <2>3. RegistryOK'
      BY <1>3, <2>2, StepRegistered
    <2>4. /\ docs' \in [Book -> [version: Text, count: Nat]]
          /\ index' \in [Book -> [status: Status, print: Fingerprint]]
      BY <1>1, <2>1, <2>2 DEF TablesOK, Outcome, Status
    <2>5. TablesOK'
      BY <1>1, <2>4 DEF TablesOK, library
    <2>6. \A c \in Book : c # b => docs'[c] = docs[c] /\ index'[c] = index[c]
      BY <2>1 DEF TablesOK
    <2>7. docs'[b] = [version |-> task[t].version, count |-> n]
      BY <1>1, <2>1 DEF TablesOK
    <2>8. index'[b] = [status |-> Outcome(task[t].cut), print |-> task[t].print]
      BY <1>1, <2>1 DEF TablesOK
    <2>9. IndexWithinBudget'
      <3>1. docs'[b].count = n
        BY <2>7
      <3>2. QED BY <1>1, <2>1, <2>2, <2>4, <2>6, <3>1, StoredFit
    <2>10. DeletedStaysGone'
      BY <1>1, <2>1, <2>6 DEF DeletedStaysGone, Known, library
    <2>11. ReadyIsWhole'
      <3>1. index'[b].status = "ready" => n = Chapters[task[t].version]
        BY <1>1, <2>8 DEF Outcome, ReadsTruly
      <3>2. task[t].version # Mixed =>
               task[t].print <= task[t].version /\ task[t].version <= source[b]
        BY <1>1 DEF ReadsTruly, BookOf
      <3>3. source' = source /\ docs'[b].version = task[t].version /\ docs'[b].count = n
            /\ index'[b].print = task[t].print
        BY <1>1, <2>7, <2>8 DEF library
      <3>4. QED BY <2>6, <3>1, <3>2, <3>3 DEF ReadyIsWhole
    <2>12. \A u \in Task : ReadsTruly(task[u])'
      BY <1>1, <1>3, <2>2 DEF Steps, ReadsTruly, library
    <2>13. BuildingHasWorker'
      <3>1. index'[b].status # "building"
        BY <2>8 DEF Outcome
      <3>2. QED BY <1>1, <2>2, <2>6, <3>1, OneBookChanges
    <2>14. QED BY <2>3, <2>5, <2>9, <2>10, <2>11, <2>12, <2>13
  <1>4. QED BY <1>2, <1>3, PersistSteps

\* A book that is gone is not building: a worker may leave it.
LEMMA GoneBookLeft ==
    ASSUME IndexInv, NEW t \in Task, UNCHANGED <<library, tables, happened>>,
           BookOf(t) \in Book, ~Known(BookOf(t)), Goes(t, "end")
    PROVE  IndexInv'
  <1> USE DEF IndexInv
  <1>1. Steps(t) /\ task'[t].pc = "end"
    BY GoesSteps DEF PC
  <1>2. RegistryOK'
    BY <1>1, StepRegistered
  <1>3. TablesOK'
    BY DEF TablesOK, library, tables, happened
  <1>4. IndexWithinBudget' /\ DeletedStaysGone' /\ ReadyIsWhole'
    BY DEF IndexWithinBudget, DeletedStaysGone, ReadyIsWhole, library, tables
  <1>5. \A u \in Task : ReadsTruly(task[u])'
    BY <1>1 DEF Steps, ReadsTruly, library
  <1>6. BuildingHasWorker'
    <2>1. index[BookOf(t)].status # "building"
      BY DEF DeletedStaysGone, Known, NoRow
    <2>2. UNCHANGED refusals /\ UNCHANGED index
      BY DEF happened, tables
    <2>3. QED BY <1>1, <2>1, <2>2, OneBookChanges
  <1>7. QED BY <1>2, <1>3, <1>4, <1>5, <1>6

\* persist_error, and mark_budget_error_preserving_documents
LEMMA ErrorKeeps == ASSUME IndexInv, NEW t \in Task, Spoil(t) \/ Overrun(t) PROVE IndexInv'
  <1> USE DEF IndexInv
  <1> DEFINE b == BookOf(t)
  <1>1. /\ task[t].todo # <<>> /\ b \in Book
        /\ UNCHANGED <<library, happened>>
        /\ task[t].pc \in Building
    BY WorkerHasBook DEF Spoil, Overrun, At, Building
  <1>2. CASE ~Known(b)
    <2>1. UNCHANGED tables /\ Goes(t, "end")
      BY <1>2 DEF Spoil, Overrun, tables
    <2>2. QED BY <1>1, <1>2, <2>1, GoneBookLeft
  <1>3. CASE Known(b)
    <2>1. GoesOn(t) \/ Goes(t, "end")
      BY <1>3 DEF Spoil, Overrun
    <2>2. Steps(t) /\ task'[t].pc \in {"next", "end"}
      BY <1>1, <2>1, GoesSteps, GoesOnSteps DEF PC
    <2>3. \/ index' = [index EXCEPT ![b] = [status |-> "error", print |-> NoFingerprint]]
          \/ index' = [index EXCEPT ![b].status = "error"]
      BY <1>3 DEF Spoil, Overrun
    <2>4. docs' = [docs EXCEPT ![b] = NoDocs] \/ docs' = docs
      BY <1>3 DEF Spoil, Overrun
    <2>5. RegistryOK'
      BY <2>2, StepRegistered
    <2>6. index' \in [Book -> [status: Status, print: Fingerprint]]
      <3>1. "error" \in Status /\ NoFingerprint \in Fingerprint
        BY DEF Status, Fingerprint
      <3>2. index[b] \in [status: Status, print: Fingerprint]
        BY <1>1 DEF TablesOK
      <3>3. index'[b] \in [status: Status, print: Fingerprint]
        <4>1. CASE index' = [index EXCEPT ![b] = [status |-> "error", print |-> NoFingerprint]]
          BY <1>1, <3>1, <4>1 DEF TablesOK
        <4>2. CASE index' = [index EXCEPT ![b].status = "error"]
          <5>1. index'[b] = [index[b] EXCEPT !.status = "error"]
            BY <1>1, <4>2 DEF TablesOK
          <5>2. QED BY <3>1, <3>2, <5>1
        <4>3. QED BY <2>3, <4>1, <4>2
      <3>4. QED BY <2>3, <3>3 DEF TablesOK
    <2>7. docs' \in [Book -> [version: Text, count: Nat]]
      BY <2>4, IndexTypes DEF TablesOK
    <2>8. TablesOK'
      BY <1>1, <2>6, <2>7 DEF TablesOK, library, happened
    <2>9. index'[b].status = "error" /\ \A c \in Book : c # b => index'[c] = index[c]
      BY <1>1, <2>3 DEF TablesOK
    <2>10. \A c \in Book : c # b => docs'[c] = docs[c]
      BY <2>4 DEF TablesOK
    <2>11. IndexWithinBudget'
      <3>1. \A c \in Book : docs[c].count \in Nat
        BY DEF TablesOK
      <3>2. docs'[b].count \in {0, docs[b].count}
        BY <1>1, <2>4 DEF NoDocs, TablesOK
      <3>3. \A c \in Book : docs'[c].count <= docs[c].count
        BY <2>10, <3>1, <3>2
      <3>4. QED BY <1>1, <2>7, <3>3, FewerFit
    <2>12. DeletedStaysGone'
      BY <1>1, <1>3, <2>9, <2>10 DEF DeletedStaysGone, Known, library
    <2>13. ReadyIsWhole'
      BY <1>1, <2>9, <2>10 DEF ReadyIsWhole, library
    <2>14. \A u \in Task : ReadsTruly(task[u])'
      BY <1>1, <2>2 DEF Steps, ReadsTruly, library
    <2>15. BuildingHasWorker'
      <3>1. UNCHANGED refusals
        BY <1>1 DEF happened
      <3>2. QED BY <1>1, <2>2, <2>9, <3>1, OneBookChanges
    <2>16. QED BY <2>5, <2>8, <2>11, <2>12, <2>13, <2>14, <2>15
  <1>4. QED BY <1>2, <1>3

\* A source changes, or a book moves to another series.
LEMMA LibraryKeeps ==
    ASSUME IndexInv,
           \/ \E b \in Book : SourceChanges(b)
           \/ \E b \in Book, s \in Series \cup {NoSeries} : Move(b, s)
    PROVE  IndexInv'
  <1> USE DEF IndexInv
  <1>1. UNCHANGED <<books, tables, task, refusals>>
    BY DEF SourceChanges, Move, Happens
  <1>2. events' \in Nat /\ events' + refusals' <= MaxEvents
    BY Bounds DEF SourceChanges, Move, Happens, TablesOK
  <1>3. source' \in [Book -> Version] /\ series' \in [Book -> Series \cup {NoSeries}]
    <2>1. ASSUME NEW b \in Book, SourceChanges(b) PROVE source' \in [Book -> Version]
      <3>1. source[b] + 1 \in Version
        BY <2>1, Bounds DEF SourceChanges, TablesOK, Version
      <3>2. QED BY <2>1, <3>1 DEF SourceChanges, TablesOK
    <2>2. QED BY <2>1 DEF SourceChanges, Move, TablesOK
  <1>4. TablesOK'
    BY <1>1, <1>2, <1>3 DEF TablesOK, tables
  <1>5. \A b \in Book : source[b] \in Nat /\ source'[b] \in Nat /\ source[b] <= source'[b]
    <2>1. \A b \in Book : source[b] \in Nat /\ source'[b] \in Nat
      BY <1>3, Bounds DEF TablesOK, Version
    <2>2. ASSUME NEW b \in Book, SourceChanges(b)
          PROVE  \A c \in Book : source[c] <= source'[c]
      BY <2>1, <2>2 DEF SourceChanges, TablesOK
    <2>3. QED BY <2>1, <2>2 DEF Move
  <1>6. ReadyIsWhole'
    <2> SUFFICES ASSUME NEW b \in Book, index[b].status = "ready"
                 PROVE  /\ docs[b].count = Chapters[docs[b].version]
                        /\ docs[b].version # Mixed =>
                              /\ index[b].print <= docs[b].version
                              /\ docs[b].version <= source'[b]
      BY <1>1 DEF ReadyIsWhole, tables
    <2>1. docs[b].version \in Nat
      BY IndexTypes DEF TablesOK
    <2>2. QED BY <1>5, <2>1 DEF ReadyIsWhole
  <1>7. \A t \in Task : ReadsTruly(task[t])'
    <2> SUFFICES ASSUME NEW t \in Task PROVE ReadsTruly(task[t])'
      OBVIOUS
    <2>1. CASE task[t].pc \in {"extract", "budget", "persist"}
      <3>1. BookOf(t) \in Book /\ task[t].version \in Nat
        BY <2>1, WorkerHasBook, FieldsTyped, IndexTypes DEF RegistryOK
      <3>2. task[t].version # Mixed =>
               task[t].print <= task[t].version /\ task[t].version <= source'[BookOf(t)]
        BY <1>5, <2>1, <3>1 DEF ReadsTruly, BookOf
      <3>3. QED BY <1>1, <3>2 DEF ReadsTruly, BookOf
    <2>2. QED BY <1>1, <2>1 DEF ReadsTruly
  <1>8. QED
    BY <1>1, <1>4, <1>6, <1>7 DEF RegistryOK, IndexWithinBudget, DeletedStaysGone,
                                  BuildingHasWorker, WorksOn, BookOf, tables

\* delete_book
LEMMA DeleteKeeps == ASSUME IndexInv, NEW b \in Book, Delete(b) PROVE IndexInv'
  <1> USE DEF IndexInv
  <1>1. index' \in [Book -> [status: Status, print: Fingerprint]]
    BY IndexTypes DEF Delete, TablesOK
  <1>2. docs' \in [Book -> [version: Text, count: Nat]]
    BY IndexTypes DEF Delete, TablesOK
  <1>3. /\ index'[b] = NoRow /\ docs'[b] = NoDocs
        /\ \A c \in Book : c # b => index'[c] = index[c] /\ docs'[c] = docs[c]
    BY DEF Delete, TablesOK
  <1>4. events' \in Nat /\ events' + refusals' <= MaxEvents
    BY Bounds DEF Delete, Happens, TablesOK
  <1>5. TablesOK'
    BY <1>1, <1>2, <1>4 DEF Delete, TablesOK, Happens
  <1>6. IndexWithinBudget'
    <2>1. \A c \in Book : docs[c].count \in Nat
      BY DEF TablesOK
    <2>2. \A c \in Book : docs'[c].count <= docs[c].count
      BY <1>3, <2>1 DEF NoDocs
    <2>3. QED BY <1>2, <2>2, FewerFit
  <1>7. DeletedStaysGone' /\ ReadyIsWhole'
    <2>1. index'[b].status # "ready" /\ books' = books \ {b}
      BY <1>3 DEF Delete, NoRow
    <2>2. ReadyIsWhole'
      BY <1>3, <2>1 DEF Delete, ReadyIsWhole
    <2>3. QED BY <1>3, <2>1, <2>2 DEF DeletedStaysGone
  <1>8. RegistryOK' /\ \A t \in Task : ReadsTruly(task[t])'
    BY DEF Delete, RegistryOK, ReadsTruly
  <1>9. BuildingHasWorker'
    BY <1>3 DEF Delete, Happens, BuildingHasWorker, WorksOn, BookOf, NoRow
  <1>10. QED BY <1>5, <1>6, <1>7, <1>8, <1>9

\* recover_interrupted_search_tasks: no row is left as building.
LEMMA RestartKeeps == ASSUME IndexInv, Restart PROVE IndexInv'
  <1> USE DEF IndexInv
  <1>1. task' \in [Task -> Worker] /\ \A t \in Task : task'[t].pc = "idle"
    BY IndexTypes DEF Restart, Idle
  <1>2. \A b \in Book :
            /\ index'[b] \in [status: Status, print: Fingerprint]
            /\ index'[b].status # "building"
            /\ index'[b].status = "ready" => index'[b] = index[b]
            /\ index[b] = NoRow => index'[b] = NoRow
    <2> TAKE b \in Book
    <2>1. index'[b] = IF index[b].status = "building"
                      THEN [index[b] EXCEPT !.status = "pending"] ELSE index[b]
      BY DEF Restart, Recovered
    <2>2. index[b] \in [status: Status, print: Fingerprint] /\ "pending" \in Status
      BY DEF TablesOK, Status
    <2>3. CASE index[b].status = "building"
      <3>1. index'[b] = [status |-> "pending", print |-> index[b].print]
        BY <2>1, <2>2, <2>3
      <3>2. QED BY <2>2, <2>3, <3>1 DEF NoRow
    <2>4. QED BY <2>1, <2>2, <2>3
  <1>3. index' \in [Book -> [status: Status, print: Fingerprint]]
    BY <1>2 DEF Restart, Recovered
  <1>4. events' \in Nat /\ events' + refusals' <= MaxEvents
    BY Bounds DEF Restart, Happens, TablesOK
  <1>5. RegistryOK' /\ TablesOK'
    BY <1>1, <1>3, <1>4 DEF Restart, RegistryOK, TablesOK, library, Happens
  <1>6. IndexWithinBudget'
    BY DEF Restart, IndexWithinBudget
  <1>7. DeletedStaysGone' /\ ReadyIsWhole'
    BY <1>2 DEF Restart, DeletedStaysGone, ReadyIsWhole, library
  <1>8. QED BY <1>1, <1>2, <1>5, <1>6, <1>7 DEF ReadsTruly, BuildingHasWorker

\* Every step keeps the invariant.
LEMMA IndexKept == IndexInv /\ [Next]_vars => IndexInv'
  <1> SUFFICES ASSUME IndexInv, [Next]_vars PROVE IndexInv'
    OBVIOUS
  <1>1. CASE UNCHANGED vars
    BY <1>1 DEF vars, library, tables, happened, IndexInv, RegistryOK, TablesOK,
                IndexWithinBudget, DeletedStaysGone, ReadyIsWhole, ReadsTruly,
                BuildingHasWorker, WorksOn, BookOf
  <1>2. CASE Environment
    <2>1. CASE \E t \in Task : Cancel(t) \/ OpenMixed(t) \/ Fail(t) \/ Refuse(t)
      BY <2>1, RegistryKeeps, ReadingKeeps, RefusalKeeps
    <2>2. CASE \E t \in Task, s \in Series, rebuild \in BOOLEAN : Ensure(t, s, rebuild)
      BY <2>2, RegistryKeeps
    <2>3. CASE \E b \in Book : SourceChanges(b) \/ Delete(b)
      BY <2>3, LibraryKeeps, DeleteKeeps
    <2>4. CASE \E b \in Book, s \in Series \cup {NoSeries} : Move(b, s)
      BY <2>4, LibraryKeeps
    <2>5. CASE Restart
      BY <2>5, RestartKeeps
    <2>6. QED BY <1>2, <2>1, <2>2, <2>3, <2>4, <2>5 DEF Environment
  <1>3. CASE \E t \in Task : Work(t)
    BY <1>3, RegistryKeeps, SetOutKeeps, ReadingKeeps, MarkKeeps, PersistKeeps, ErrorKeeps
       DEF Work
  <1>4. QED BY <1>1, <1>2, <1>3 DEF Next

LEMMA IndexInvariant == Spec => []IndexInv
  BY IndexBegins, IndexKept, PTL DEF Spec

-----------------------------------------------------------------------------
(* What follows. *)

\* The state is well formed, and the documents of all books together stay within
\* MAX_SEARCH_INDEX_BYTES, whichever workers extract at the same time: the sum is taken
\* again in the transaction that inserts.
THEOREM SearchIndexOK == Spec => []IndexOK
  <1>1. IndexInv => IndexOK
    BY DEF IndexInv, IndexOK, TypeOK, RegistryOK, TablesOK
  <1>2. QED BY <1>1, IndexInvariant, PTL

LEMMA WholeIsTrue == IndexInv => ReadyIsTrue
  <1>1. ASSUME IndexInv, NEW s \in Series, SeriesStatus(s) = "ready"
        PROVE  Searched(s) = Members(s)
    <2> DEFINE states == {IF index[b].status = "none" THEN "pending" ELSE index[b].status :
                             b \in Members(s)}
    <2>1. states \cap {"building", "pending", "error"} = {}
      BY <1>1 DEF SeriesStatus
    <2>2. ASSUME NEW b \in Members(s) PROVE index[b].status = "ready"
      <3>1. index[b].status \in Status
        BY <1>1 DEF IndexInv, TablesOK, Members
      <3>2. (IF index[b].status = "none" THEN "pending" ELSE index[b].status) \in states
        OBVIOUS
      <3>3. QED BY <2>1, <3>1, <3>2 DEF Status
    <2>3. QED BY <2>2 DEF Searched
  <1>2. QED
    BY <1>1 DEF IndexInv, ReadyIsTrue, ReadyIsWhole, Searched, Members, TablesOK

\* What a search reads is all that one pass over the file opened for it gave, of a version
\* no older than the fingerprint it is stored under unless that file was itself mixed, and
\* what a series reports as ready is what a search reads (build_series_index,
\* persist_documents, get_search_index_status, search_series).
THEOREM SearchReadsWhatIsReady == Spec => []ReadyIsTrue
  BY WholeIsTrue, IndexInvariant, PTL

\* A book shown as building is being built, unless the database refused a worker.
THEOREM NothingIsLeftBuilding == Spec => []BuildingIsWorkedOn
  <1>1. IndexInv => BuildingIsWorkedOn
    BY DEF IndexInv, BuildingIsWorkedOn, BuildingHasWorker, WorksOn, Building
  <1>2. QED BY <1>1, IndexInvariant, PTL

\* A worker that outlives its book writes nothing for it.
THEOREM DeletedBooksStayGone == Spec => []DeletedStaysGone
  <1>1. IndexInv => DeletedStaysGone
    BY DEF IndexInv
  <1>2. QED BY <1>1, IndexInvariant, PTL

-----------------------------------------------------------------------------
(* The search page and its workers. *)

\* What a worker's step leaves alone: the other tasks, and whether its own was cancelled.
LEMMA GoesOnCancelled ==
    ASSUME RegistryOK, NEW t \in Task, GoesOn(t)
    PROVE  task'[t].cancelled = task[t].cancelled
  BY DEF GoesOn, RegistryOK, Worker

LEMMA GoesCancelled ==
    ASSUME RegistryOK, NEW t \in Task, NEW step \in PC, Goes(t, step)
    PROVE  task'[t].cancelled = task[t].cancelled
  BY DEF Goes, RegistryOK, Worker

\* Nobody but the page cancels: a worker that goes on is as cancelled as it was.
OnlyWorks(t) ==
    /\ Registered(t)
    /\ \A u \in Task : u # t => task'[u] = task[u]
    /\ task'[t].pc # "idle" => task'[t].cancelled = task[t].cancelled

LEMMA WorkersOnlyWork ==
    ASSUME IndexInv, NEW t \in Task, Work(t) \/ OpenMixed(t) \/ Fail(t) \/ Refuse(t)
    PROVE  OnlyWorks(t)
  <1> USE DEF IndexInv
  <1>1. Registered(t)
    BY DEF Work, NextBook, Lookup, Acquire, Check, Mark, Open, Extract, Budget, Persist, Spoil,
           Overrun, End, OpenMixed, Fail, Refuse, At, Registered
  <1>2. ASSUME NEW step \in PC, Goes(t, step) PROVE OnlyWorks(t)
    BY <1>1, <1>2, GoesSteps, GoesCancelled DEF OnlyWorks, Steps
  <1>3. ASSUME GoesOn(t), task[t].todo # <<>> PROVE OnlyWorks(t)
    BY <1>1, <1>3, GoesOnSteps, GoesOnCancelled DEF OnlyWorks, Steps
  <1>4. task[t].pc \notin {"idle", "next", "end"} => task[t].todo # <<>>
    BY DEF RegistryOK
  <1>5. {"next", "lookup", "acquire", "check", "mark", "open", "extract", "budget", "persist",
         "spoiled", "overrun", "end"} \subseteq PC
    BY DEF PC
  <1>6. CASE NextBook(t)
    <2>1. PICK step \in {"end", "lookup"} : Goes(t, step)
      BY <1>6 DEF NextBook
    <2>2. QED BY <2>1, <1>2, <1>5
  <1>7. CASE Lookup(t)
    <2>1. PICK step \in {"end", "acquire"} : Goes(t, step)
      BY <1>7 DEF Lookup
    <2>2. QED BY <2>1, <1>2, <1>5
  <1>8. CASE Acquire(t)
    <2>1. task'[t].cancelled = task[t].cancelled
      BY <1>8 DEF Acquire, RegistryOK, Worker
    <2>2. QED BY <1>1, <1>8, <2>1, AcquireSteps DEF OnlyWorks, Steps
  <1>9. CASE Check(t)
    <2>1. GoesOn(t) \/ Goes(t, "mark")
      BY <1>9 DEF Check
    <2>2. QED BY <1>2, <1>3, <1>4, <1>5, <1>9, <2>1 DEF Check, At
  <1>10. CASE Mark(t)
    <2>1. PICK step \in {"end", "open"} : Goes(t, step)
      BY <1>10 DEF Mark
    <2>2. QED BY <2>1, <1>2, <1>5
  <1>11. CASE Extract(t)
    <2>1. task'[t].cancelled = task[t].cancelled
      <3>1. CASE task' = [task EXCEPT ![t].count = @ + 1]
        BY <3>1 DEF RegistryOK, Worker
      <3>2. CASE task' = [task EXCEPT ![t].pc = "budget", ![t].cut = TRUE]
        BY <3>2 DEF RegistryOK, Worker
      <3>3. CASE Goes(t, "budget")
        BY <3>3, <1>5, GoesCancelled
      <3>4. QED BY <1>11, <3>1, <3>2, <3>3 DEF Extract
    <2>2. QED BY <1>1, <1>11, <2>1, ExtractSteps DEF OnlyWorks, Steps
  <1>12. CASE Budget(t)
    <2>1. PICK x, step, last :
             task' = [task EXCEPT ![t].bytes = x, ![t].pc = step, ![t].final = last]
      BY <1>12 DEF Budget
    <2>2. task'[t].cancelled = task[t].cancelled
      BY <2>1 DEF RegistryOK, Worker
    <2>3. QED BY <1>1, <1>12, <2>2, BudgetSteps DEF OnlyWorks, Steps
  <1>13. ASSUME NEW step, task' = [task EXCEPT ![t].pc = step, ![t].final = TRUE]
         PROVE  OnlyWorks(t)
    BY <1>1, <1>13 DEF OnlyWorks, RegistryOK, Worker
  <1>14. CASE Persist(t)
    BY <1>3, <1>4, <1>13, <1>14 DEF Persist, At
  <1>15. CASE Spoil(t) \/ Overrun(t)
    <2>1. Goes(t, "end") \/ GoesOn(t)
      BY <1>15 DEF Spoil, Overrun
    <2>2. QED BY <1>2, <1>3, <1>4, <1>5, <1>15, <2>1 DEF Spoil, Overrun, At
  <1>16. CASE End(t)
    BY <1>1, <1>16, EndSteps DEF OnlyWorks, Steps
  <1>17. CASE Fail(t)
    <2>1. \/ \E step \in {"spoiled", "overrun"} : Goes(t, step)
          \/ \E step : task' = [task EXCEPT ![t].pc = step, ![t].final = TRUE]
      BY <1>17 DEF Fail
    <2>2. QED BY <2>1, <1>2, <1>5, <1>13
  <1>18. CASE Refuse(t)
    BY <1>2, <1>5, <1>18 DEF Refuse
  <1>19. CASE Open(t) \/ OpenMixed(t)
    <2>1. \E v \in Text : Opens(t, v)
      BY <1>19, OpenedText, IndexTypes DEF OpenMixed
    <2>2. QED BY <1>1, <2>1, OpenSteps DEF OnlyWorks, Steps
  <1>20. QED
    BY <1>6, <1>7, <1>8, <1>9, <1>10, <1>11, <1>12, <1>14, <1>15, <1>16, <1>17, <1>18, <1>19
       DEF Work

\* Where a search can be, and what a status may have told it.
SearchState ==
    [pc: {"unused", "list", "ensure", "ensured", "refused", "poll", "polled", "query", "over"},
     series: Series \cup {NoSeries},
     seen: {"nothing", "waiting", "stopped", "ready", "error"},
     polls: Nat]
PageOK ==
    /\ page \in [run: Task \cup {None}, owned: Task \cup {None}, searching: BOOLEAN]
    /\ search \in [Task -> SearchState]
    /\ cancels \subseteq Task

\* A search knows its series, and before its index is ensured there is no task of its
\* name; nor has it an answer before it was given one to its last question.
Asks(r) ==
    /\ search[r].pc \in {"list", "ensure"} => search[r].series \in Series
    /\ search[r].pc \in {"unused", "list", "ensure", "refused"} => ~Registered(r)
    /\ search[r].pc \in {"unused", "list", "ensure", "ensured", "refused", "poll"}
          => search[r].seen \notin {"ready", "error"}

\* The page owns the task of the search it shows or none, and its button waits while
\* that search is under way.
ShowsItsSearch ==
    /\ page.owned \in {None, page.run}
    /\ page.searching <=> page.run # None /\ search[page.run].pc \notin {"unused", "over"}

ClientInv ==
    /\ PageOK /\ ShowsItsSearch
    /\ \A r \in Task : Asks(r) /\ Attended(r)

LEMMA TasksAreNumbers == None \notin Task
  BY SeriesSearchAssumption DEF None

LEMMA ClientBegins == SeriesSearchInit => ClientInv
  <1> SUFFICES ASSUME SeriesSearchInit PROVE ClientInv
    OBVIOUS
  <1>1. \A t \in Task : ~Registered(t)
    BY DEF SeriesSearchInit, Init, Idle, Registered
  <1>2. PageOK /\ ShowsItsSearch
    BY DEF SeriesSearchInit, LeftPage, Unused, PageOK, SearchState, ShowsItsSearch
  <1>3. QED
    BY <1>1, <1>2 DEF SeriesSearchInit, Unused, ClientInv, Asks, Attended

\* The workers' steps disturb nothing: the client is told nothing by them.
LEMMA WorkKeepsClient ==
    ASSUME ClientInv, UNCHANGED searchVars,
           \/ UNCHANGED task
           \/ \E t \in Task : OnlyWorks(t)
    PROVE  ClientInv'
  <1>1. PageOK' /\ ShowsItsSearch'
    BY DEF ClientInv, PageOK, ShowsItsSearch, searchVars
  <1>2. ASSUME NEW r \in Task
        PROVE  Registered(r)' => Registered(r) /\ task'[r].cancelled = task[r].cancelled
    BY DEF OnlyWorks, Registered
  <1>3. QED
    BY <1>1, <1>2 DEF ClientInv, Asks, Attended, searchVars, Is

\* A step of one search: the other searches are where they were.
Advances(r) ==
    /\ search' \in [Task -> SearchState]
    /\ \A q \in Task : q # r => search'[q] = search[q]

LEMMA ReachesStep ==
    ASSUME PageOK, NEW r \in Task,
           NEW step \in {"ensure", "ensured", "refused", "poll", "query"}, Reaches(r, step)
    PROVE  /\ Advances(r)
           /\ search'[r].pc = step /\ search'[r].seen = search[r].seen
           /\ search'[r].series = search[r].series
  BY DEF PageOK, SearchState, Reaches, Advances

LEMMA ReturnedStep ==
    ASSUME PageOK, NEW r \in Task, search' = Returned(r)
    PROVE  Advances(r) /\ search'[r].pc = "over" /\ search'[r].seen = search[r].seen
  <1> DEFINE over == [Unused EXCEPT !.pc = "over", !.seen = search[r].seen]
  <1>1. over \in SearchState /\ over.pc = "over" /\ over.seen = search[r].seen
    BY DEF PageOK, SearchState, Unused
  <1>2. search' = [search EXCEPT ![r] = over]
    BY DEF Returned
  <1> HIDE DEF over
  <1>3. QED BY <1>1, <1>2 DEF PageOK, Advances

\* The search that was shown returns: unless it knows that its task is over, the page
\* still owns it.
LEMMA OverKeepsClient ==
    ASSUME ClientInv, NEW r \in Task, Over(r), ~Is(r, "ensured"), UNCHANGED task
    PROVE  ClientInv'
  <1> USE DEF ClientInv
  <1>1. Advances(r) /\ search'[r].pc = "over" /\ search'[r].seen = search[r].seen
    BY ReturnedStep DEF Over
  <1>2. page' \in [run: Task \cup {None}, owned: Task \cup {None}, searching: BOOLEAN]
    BY DEF Over, PageOK, OwnedAfter
  <1>3. PageOK'
    BY <1>1, <1>2 DEF PageOK, Advances, Over
  <1>4. ShowsItsSearch'
    <2>1. CASE IsCurrent(r)
      <3>1. /\ page'.run = r /\ page'.searching = FALSE
            /\ page'.owned \in {None, page.owned}
        BY <2>1 DEF Over, OwnedAfter, IsCurrent, PageOK
      <3>2. QED BY <2>1, <1>1, <3>1 DEF ShowsItsSearch, IsCurrent
    <2>2. CASE ~IsCurrent(r)
      <3>1. page' = page /\ (page.run # None => search'[page.run] = search[page.run])
        BY <2>2, <1>1 DEF Over, IsCurrent, Advances, PageOK
      <3>2. QED BY <3>1 DEF ShowsItsSearch
    <2>3. QED BY <2>1, <2>2
  <1>5. ASSUME NEW t \in Task PROVE Asks(t)' /\ Attended(t)'
    <2>1. Registered(t)' = Registered(t) /\ task'[t] = task[t] /\ cancels' = cancels
      BY DEF Registered, Over
    <2>2. CASE t = r
      <3>1. page.owned = r /\ search[r].seen \notin {"ready", "error"} => page'.owned = r
        BY DEF Over, OwnedAfter, ShowsItsSearch, PageOK, IsCurrent
      <3>2. QED BY <1>1, <2>1, <2>2, <3>1 DEF Asks, Attended, Is
    <2>3. CASE t # r
      <3>1. search'[t] = search[t]
        BY <1>1, <2>3 DEF Advances
      <3>2. page.owned = t => page'.owned = t
        BY <2>3, TasksAreNumbers DEF Over, IsCurrent, ShowsItsSearch, PageOK
      <3>3. QED BY <2>1, <3>1, <3>2 DEF Asks, Attended, Is
    <2>4. QED BY <2>2, <2>3
  <1>6. QED BY <1>3, <1>4, <1>5

\* A step that leaves page and tasks alone, and takes the search from a place where it
\* is under way to another.
LEMMA GoingOnKeepsClient ==
    ASSUME ClientInv, NEW r \in Task, Advances(r), UNCHANGED <<page, cancels, task>>,
           search[r].pc \notin {"unused", "over", "ensured"},
           search'[r].pc \notin {"unused", "over"},
           Asks(r)',
           search'[r].seen \in {"ready", "error"} \/ search[r].seen \notin {"ready", "error"}
    PROVE  ClientInv'
  <1> USE DEF ClientInv
  <1>1. PageOK' /\ ShowsItsSearch'
    BY DEF PageOK, ShowsItsSearch, Advances
  <1>2. ASSUME NEW t \in Task PROVE Asks(t)' /\ Attended(t)'
    <2>1. CASE t = r
      BY <2>1 DEF Attended, Is, Registered
    <2>2. CASE t # r
      BY <2>2 DEF Asks, Attended, Is, Registered, Advances
    <2>3. QED BY <2>1, <2>2
  <1>3. QED BY <1>1, <1>2

-----------------------------------------------------------------------------

LEMMA ReaderKeepsClient ==
    ASSUME ClientInv, UNCHANGED vars,
           Retire \/ \E r \in Task, s \in Series : Submit(r, s)
    PROVE  ClientInv'
  <1> USE DEF ClientInv
  <1>1. UNCHANGED task
    BY DEF vars
  <1>2. ASSUME NEW t \in Task, page.owned = t \/ t \in cancels, cancels' = Cancelled(page.owned)
        PROVE  t \in cancels'
    BY <1>2, TasksAreNumbers DEF Cancelled
  <1>3. ASSUME cancels' = Cancelled(page.owned) PROVE cancels' \subseteq Task
    BY <1>3 DEF Cancelled, PageOK
  <1>4. CASE Retire
    <2>1. PageOK' /\ ShowsItsSearch'
      BY <1>3, <1>4 DEF Retire, PageOK, LeftPage, ShowsItsSearch
    <2>2. ASSUME NEW t \in Task PROVE Asks(t)' /\ Attended(t)'
      BY <1>1, <1>2, <1>4 DEF Retire, Asks, Attended, Is, Registered
    <2>3. QED BY <2>1, <2>2
  <1>5. ASSUME NEW r \in Task, NEW s \in Series, Submit(r, s) PROVE ClientInv'
    <2> DEFINE asked == [Unused EXCEPT !.pc = "list", !.series = s]
    <2>1. /\ asked \in SearchState /\ asked.pc = "list" /\ asked.series = s
          /\ asked.seen = "nothing"
      BY DEF SearchState, Unused
    <2>2. /\ search' = [search EXCEPT ![r] = asked] /\ search[r].pc = "unused"
          /\ cancels' = Cancelled(page.owned)
          /\ page' = [run |-> r, owned |-> None, searching |-> TRUE]
      BY <1>5 DEF Submit, Is
    <2> HIDE DEF asked
    <2>3. Advances(r) /\ search'[r] = asked
      BY <2>1, <2>2 DEF Advances, PageOK
    <2>4. PageOK' /\ ShowsItsSearch'
      BY <1>3, <2>1, <2>2, <2>3, TasksAreNumbers DEF PageOK, ShowsItsSearch, Advances
    <2>5. ASSUME NEW t \in Task PROVE Asks(t)' /\ Attended(t)'
      <3>1. CASE t = r
        BY <1>1, <2>1, <2>2, <2>3, <3>1 DEF Asks, Attended, Registered
      <3>2. CASE t # r
        BY <1>1, <1>2, <2>2, <2>3, <3>2 DEF Asks, Attended, Is, Registered, Advances
      <3>3. QED BY <3>1, <3>2
    <2>6. QED BY <2>4, <2>5
  <1>6. QED BY <1>4, <1>5

\* The task begins as its search's own: nobody else ensures under its name.
LEMMA EnsureKeepsClient ==
    ASSUME IndexInv, ClientInv, NEW r \in Task, ServeEnsure(r)
    PROVE  IndexInv' /\ ClientInv'
  <1>1. /\ Is(r, "ensure") /\ UNCHANGED <<page, cancels>> /\ PageOK
        /\ search[r].series \in Series /\ search[r].seen \notin {"ready", "error"}
    BY DEF ServeEnsure, ClientInv, Asks, Is
  <1>2. CASE Reaches(r, "refused") /\ UNCHANGED vars
    <2>1. ~Registered(r)
      BY <1>1 DEF ClientInv, Asks, Is
    <2>2. UNCHANGED task /\ Registered(r)' = Registered(r)
      BY <1>2 DEF vars, Registered
    <2>3. Advances(r) /\ search'[r].pc = "refused" /\ search'[r].seen = search[r].seen
      BY <1>1, <1>2, ReachesStep
    <2>4. Asks(r)'
      BY <1>1, <2>1, <2>2, <2>3 DEF Asks
    <2>5. ClientInv'
      BY <1>1, <2>2, <2>3, <2>4, GoingOnKeepsClient DEF Is
    <2>6. IndexInv'
      BY <1>2, IndexKept
    <2>7. QED BY <2>5, <2>6
  <1>3. CASE Ensure(r, search[r].series, FALSE) /\ Reaches(r, "ensured")
    <2>1. Steps(r) /\ task'[r].pc = "next"
      BY <1>1, <1>3, EnsureSteps DEF IndexInv
    <2>2. Advances(r) /\ search'[r].pc = "ensured" /\ search'[r].seen = search[r].seen
      BY <1>1, <1>3, ReachesStep
    <2>3. PageOK' /\ ShowsItsSearch'
      BY <1>1, <2>2 DEF ClientInv, PageOK, ShowsItsSearch, Advances, Is
    <2>4. ASSUME NEW t \in Task PROVE Asks(t)' /\ Attended(t)'
      <3>1. CASE t = r
        BY <1>1, <2>2, <3>1 DEF Asks, Attended, Is
      <3>2. CASE t # r
        BY <1>1, <2>1, <2>2, <3>2
           DEF ClientInv, Asks, Attended, Is, Registered, Advances, Steps
      <3>3. QED BY <3>1, <3>2
    <2>5. IndexInv'
      BY <1>1, <1>3, RegistryKeeps
    <2>6. QED BY <2>3, <2>4, <2>5 DEF ClientInv
  <1>4. QED BY <1>2, <1>3 DEF ServeEnsure

\* The answer comes to the page that asked, or the task is cancelled for want of it.
LEMMA EnsuredKeepsClient ==
    ASSUME ClientInv, NEW r \in Task, Ensured(r)
    PROVE  ClientInv'
  <1> USE DEF ClientInv
  <1>1. UNCHANGED task
    BY DEF Ensured, vars
  <1>2. CASE Is(r, "ensured") /\ IsCurrent(r)
    <2>1. /\ page' = [page EXCEPT !.owned = r] /\ UNCHANGED cancels
          /\ Reaches(r, "poll")
      BY <1>2 DEF Ensured, Is
    <2>2. Advances(r) /\ search'[r].pc = "poll" /\ search'[r].seen = search[r].seen
      BY <2>1, ReachesStep
    <2>3. /\ page' \in [run: Task \cup {None}, owned: Task \cup {None}, searching: BOOLEAN]
          /\ page'.owned = r /\ page'.run = r /\ page.run = r
          /\ page'.searching = page.searching
      BY <1>2, <2>1 DEF PageOK, IsCurrent
    <2>4. PageOK' /\ ShowsItsSearch'
      BY <1>2, <2>1, <2>2, <2>3 DEF PageOK, ShowsItsSearch, Advances, Is
    <2>5. ASSUME NEW t \in Task PROVE Asks(t)' /\ Attended(t)'
      <3>1. CASE t = r
        BY <1>1, <1>2, <2>2, <2>3, <3>1 DEF Asks, Attended, Is
      <3>2. CASE t # r
        <4>1. page.owned # t
          BY <2>3, <3>2, TasksAreNumbers DEF ShowsItsSearch
        <4>2. QED BY <1>1, <2>1, <2>2, <3>2, <4>1
                     DEF Asks, Attended, Is, Registered, Advances
      <3>3. QED BY <3>1, <3>2
    <2>6. QED BY <2>4, <2>5
  <1>3. CASE Is(r, "ensured") /\ ~IsCurrent(r)
    <2>1. cancels' = Cancelled(r) /\ search' = Returned(r) /\ UNCHANGED page
      BY <1>3 DEF Ensured, Is
    <2>2. Advances(r) /\ search'[r].pc = "over" /\ search'[r].seen = search[r].seen
      BY <2>1, ReturnedStep
    <2>3. r \in cancels' /\ cancels \subseteq cancels' /\ cancels' \subseteq Task
      BY <2>1, TasksAreNumbers DEF Cancelled, PageOK
    <2>4. PageOK' /\ ShowsItsSearch'
      BY <1>3, <2>1, <2>2, <2>3 DEF PageOK, ShowsItsSearch, Advances, IsCurrent
    <2>5. ASSUME NEW t \in Task PROVE Asks(t)' /\ Attended(t)'
      <3>1. CASE t = r
        BY <1>1, <1>3, <2>2, <2>3, <3>1 DEF Asks, Attended, Is
      <3>2. CASE t # r
        BY <1>1, <2>1, <2>2, <2>3, <3>2 DEF Asks, Attended, Is, Registered, Advances
      <3>3. QED BY <3>1, <3>2
    <2>6. QED BY <2>4, <2>5
  <1>4. CASE Is(r, "refused") /\ Over(r)
    BY <1>1, <1>4, OverKeepsClient DEF Is
  <1>5. QED BY <1>2, <1>3, <1>4 DEF Ensured

\* What a status tells is one of the answers a search knows.
LEMMA SeenIsKnown ==
    ASSUME NEW s, NEW seen \in Seen(s)
    PROVE  seen \in {"waiting", "stopped", "ready", "error"}
  BY DEF Seen

LEMMA PollsKeepClient ==
    ASSUME ClientInv, NEW r \in Task, Listed(r) \/ ServePoll(r) \/ Polled(r) \/ Queried(r)
    PROVE  ClientInv'
  <1> USE DEF ClientInv
  <1>1. UNCHANGED task /\ Registered(r)' = Registered(r)
    BY DEF Listed, ServePoll, Polled, Queried, vars, Registered
  <1>2. CASE Listed(r)
    <2>1. CASE Over(r)
      BY <1>1, <1>2, <2>1, OverKeepsClient DEF Listed, Is
    <2>2. CASE Reaches(r, "ensure") /\ UNCHANGED <<page, cancels>>
      <3>1. /\ Advances(r) /\ search'[r].pc = "ensure" /\ search'[r].seen = search[r].seen
            /\ search'[r].series = search[r].series
        BY <2>2, ReachesStep
      <3>2. Asks(r)' /\ search[r].seen \notin {"ready", "error"} /\ search[r].pc = "list"
        BY <1>1, <1>2, <3>1 DEF Listed, Asks, Is
      <3>3. QED BY <1>1, <2>2, <3>1, <3>2, GoingOnKeepsClient
    <2>3. QED BY <1>2, <2>1, <2>2 DEF Listed
  <1>3. CASE ServePoll(r)
    <2>1. PICK seen \in Seen(search[r].series) :
             search' = [search EXCEPT ![r].pc = "polled", ![r].seen = seen]
      BY <1>3 DEF ServePoll
    <2>2. seen \in {"waiting", "stopped", "ready", "error"}
      BY <2>1, SeenIsKnown
    <2>3. Advances(r) /\ search'[r].pc = "polled"
      <3> DEFINE told == [search[r] EXCEPT !.pc = "polled", !.seen = seen]
      <3>1. told \in SearchState /\ told.pc = "polled"
        BY <2>2 DEF PageOK, SearchState
      <3>2. search' = [search EXCEPT ![r] = told]
        BY <2>1 DEF PageOK
      <3> HIDE DEF told
      <3>3. QED BY <3>1, <3>2 DEF PageOK, Advances
    <2>4. Asks(r)' /\ search[r].seen \notin {"ready", "error"} /\ search[r].pc = "poll"
      BY <1>3, <2>3 DEF ServePoll, Asks, Is
    <2>5. QED BY <1>1, <1>3, <2>3, <2>4, GoingOnKeepsClient DEF ServePoll
  <1>4. CASE Polled(r)
    <2>1. CASE Over(r)
      BY <1>1, <1>4, <2>1, OverKeepsClient DEF Polled, Is
    <2>2. CASE search[r].seen = "ready" /\ Reaches(r, "query") /\ UNCHANGED <<page, cancels>>
      <3>1. /\ Advances(r) /\ search'[r].pc = "query" /\ search'[r].seen = "ready"
        BY <2>2, ReachesStep
      <3>2. Asks(r)' /\ search[r].pc = "polled"
        BY <1>4, <3>1 DEF Polled, Asks, Is
      <3>3. QED BY <1>1, <2>2, <3>1, <3>2, GoingOnKeepsClient
    <2>3. CASE /\ search[r].seen = "waiting" /\ UNCHANGED <<page, cancels>>
               /\ search' = [search EXCEPT ![r].pc = "poll", ![r].polls = @ + 1]
      <3>1. /\ Advances(r) /\ search'[r].pc = "poll" /\ search'[r].seen = "waiting"
        <4> DEFINE again == [search[r] EXCEPT !.pc = "poll", !.polls = @ + 1]
        <4>1. again \in SearchState /\ again.pc = "poll" /\ again.seen = "waiting"
          BY <2>3 DEF PageOK, SearchState
        <4>2. search' = [search EXCEPT ![r] = again]
          BY <2>3 DEF PageOK
        <4> HIDE DEF again
        <4>3. QED BY <4>1, <4>2 DEF PageOK, Advances
      <3>2. Asks(r)' /\ search[r].pc = "polled"
        BY <1>4, <3>1 DEF Polled, Asks, Is
      <3>3. QED BY <1>1, <2>3, <3>1, <3>2, GoingOnKeepsClient
    <2>4. QED BY <1>4, <2>1, <2>2, <2>3 DEF Polled
  <1>5. CASE Queried(r)
    BY <1>1, <1>5, OverKeepsClient DEF Queried, Is
  <1>6. QED BY <1>2, <1>3, <1>4, <1>5

\* A cancellation that arrives leaves a registered task cancelled.
LEMMA CancelKeepsClient ==
    ASSUME IndexInv, ClientInv, NEW t \in Task, CancelArrives(t)
    PROVE  IndexInv' /\ ClientInv'
  <1>1. RegistryOK
    BY DEF IndexInv
  <1>2. Registered(t) \in BOOLEAN
    BY DEF Registered
  <1> DEFINE w == [task[t] EXCEPT !.cancelled = Registered(t)]
  <1>3. /\ w \in Worker /\ w.pc = task[t].pc /\ w.todo = task[t].todo /\ w.cut = task[t].cut
        /\ w.count = task[t].count /\ w.print = task[t].print
        /\ w.version = task[t].version /\ w.cancelled = Registered(t)
    BY <1>1, <1>2 DEF RegistryOK, Worker
  <1>4. task' = [task EXCEPT ![t] = w]
    BY DEF CancelArrives
  <1> HIDE DEF w
  <1>5. Steps(t) /\ task'[t] = w
    BY <1>1, <1>3, <1>4 DEF RegistryOK, Steps
  <1>6. IndexInv'
    <2>1. ReadsTruly(task'[t])
      BY <1>3, <1>5 DEF ReadsTruly, IndexInv
    <2>2. /\ UNCHANGED <<library, tables, refusals>>
          /\ events' \in Nat /\ events' + refusals' <= MaxEvents
      BY DEF CancelArrives, happened, IndexInv, TablesOK
    <2>3. QED BY <1>1, <1>3, <1>5, <2>1, <2>2, Bystander DEF RegistryOK
  <1>7. ClientInv'
    <2>1. PageOK' /\ ShowsItsSearch'
      BY DEF ClientInv, PageOK, ShowsItsSearch, CancelArrives
    <2>2. ASSUME NEW u \in Task PROVE Asks(u)' /\ Attended(u)'
      <3>1. CASE u = t
        BY <1>3, <1>5, <3>1 DEF ClientInv, Asks, Attended, Registered, CancelArrives
      <3>2. CASE u # t
        BY <1>5, <3>2 DEF ClientInv, Asks, Attended, Registered, CancelArrives, Steps, Is
      <3>3. QED BY <3>1, <3>2
    <2>3. QED BY <2>1, <2>2 DEF ClientInv
  <1>8. QED BY <1>6, <1>7

\* With the process go the tasks and the page.
LEMMA RestartKeepsClient ==
    ASSUME ClientInv, RestartAll
    PROVE  ClientInv'
  <1>1. \A t \in Task : ~Registered(t)'
    BY DEF RestartAll, Restart, Registered, Idle
  <1>2. \A r \in Task : /\ search'[r] \in SearchState
                        /\ search'[r].pc \in {"unused", "over"} /\ search'[r].seen = "nothing"
    BY DEF RestartAll, Unused, SearchState
  <1>3. search' \in [Task -> SearchState]
    BY <1>2 DEF RestartAll
  <1>4. PageOK' /\ ShowsItsSearch'
    BY <1>3 DEF RestartAll, LeftPage, PageOK, ShowsItsSearch
  <1>5. QED BY <1>1, <1>2, <1>4 DEF ClientInv, Asks, Attended

\* Every step keeps both invariants: the page and the workers do not disturb each other.
LEMMA ClientKept == IndexInv /\ ClientInv /\ [SeriesSearchNext]_allVars => IndexInv' /\ ClientInv'
  <1> SUFFICES ASSUME IndexInv, ClientInv, [SeriesSearchNext]_allVars
               PROVE  IndexInv' /\ ClientInv'
    OBVIOUS
  <1>1. CASE UNCHANGED allVars
    BY <1>1, IndexKept, WorkKeepsClient DEF allVars, vars
  <1>2. CASE Reader
    BY <1>2, IndexKept, ReaderKeepsClient DEF Reader
  <1>3. ASSUME NEW r \in Task, Answers(r) PROVE IndexInv' /\ ClientInv'
    <2>1. CASE ServeEnsure(r)
      BY <2>1, EnsureKeepsClient
    <2>2. CASE Ensured(r)
      BY <2>2, IndexKept, EnsuredKeepsClient DEF Ensured
    <2>3. CASE Listed(r) \/ ServePoll(r) \/ Polled(r) \/ Queried(r)
      <3>1. UNCHANGED vars
        BY <2>3 DEF Listed, ServePoll, Polled, Queried, vars
      <3>2. QED BY <2>3, <3>1, IndexKept, PollsKeepClient
    <2>4. QED BY <1>3, <2>1, <2>2, <2>3 DEF Answers
  <1>4. ASSUME NEW r \in Task, CommandFails(r) PROVE IndexInv' /\ ClientInv'
    <2>1. UNCHANGED task /\ ~Is(r, "ensured") /\ Over(r)
      BY <1>4 DEF CommandFails, Is
    <2>2. UNCHANGED <<library, tables, task, refusals>>
      BY <1>4 DEF CommandFails, Happens
    <2>3. events' \in Nat /\ events' + refusals' <= MaxEvents
      BY <1>4, Bounds DEF CommandFails, Happens, IndexInv, TablesOK
    <2>4. TablesOK'
      BY <2>2, <2>3 DEF IndexInv, TablesOK, library, tables
    <2>5. IndexInv'
      BY <2>2, <2>4 DEF IndexInv, RegistryOK, IndexWithinBudget, DeletedStaysGone,
                        ReadyIsWhole, ReadsTruly, BuildingHasWorker, WorksOn, BookOf,
                        library, tables
    <2>6. QED BY <2>1, <2>5, OverKeepsClient
  <1>5. ASSUME NEW r \in Task, CancelArrives(r) PROVE IndexInv' /\ ClientInv'
    BY <1>5, CancelKeepsClient
  <1>6. CASE RestartAll
    BY <1>6, RestartKeepsClient, RestartKeeps DEF RestartAll
  <1>7. CASE Around /\ UNCHANGED searchVars
    <2>1. CASE \E t \in Task : OpenMixed(t) \/ Fail(t) \/ Refuse(t)
      BY <1>7, <2>1, WorkersOnlyWork, WorkKeepsClient, ReadingKeeps, RefusalKeeps
    <2>2. CASE \E b \in Book : Delete(b)
      <3>1. UNCHANGED task
        BY <2>2 DEF Delete
      <3>2. QED BY <1>7, <2>2, <3>1, WorkKeepsClient, DeleteKeeps
    <2>3. QED BY <1>7, <2>1, <2>2 DEF Around
  <1>8. CASE \E t \in Task : Work(t) /\ UNCHANGED searchVars
    <2>1. IndexInv'
      BY <1>8, IndexKept DEF Next
    <2>2. QED BY <1>8, <2>1, WorkersOnlyWork, WorkKeepsClient
  <1>9. QED
    BY <1>1, <1>2, <1>3, <1>4, <1>5, <1>6, <1>7, <1>8 DEF SeriesSearchNext

LEMMA ClientInvariant == SeriesSearchSpec => [](IndexInv /\ ClientInv)
  <1>1. SeriesSearchInit => IndexInv /\ ClientInv
    BY IndexBegins, ClientBegins DEF SeriesSearchInit
  <1>2. QED BY <1>1, ClientKept, PTL DEF SeriesSearchSpec

(***************************************************************************)
(* No task works on unattended, whenever its search was cancelled,         *)
(* replaced or left: the search that is to get it, the page that owns it   *)
(* or a cancellation on its way stands behind it, unless a status told     *)
(* that search that it is over (ownedSearchTaskId, retireSearch).          *)
(***************************************************************************)
THEOREM TasksAreAttended == SeriesSearchSpec => [](\A t \in Task : Attended(t))
  <1>1. ClientInv => \A t \in Task : Attended(t)
    BY DEF ClientInv
  <1>2. QED BY <1>1, ClientInvariant, PTL

(***************************************************************************)
(* The button waits exactly while the search the page shows is under way,  *)
(* and the page owns no task but that search's, whatever answers of older  *)
(* searches come in.                                                       *)
(***************************************************************************)
THEOREM PageShowsItsSearch == SeriesSearchSpec => []ShowsItsSearch
  <1>1. ClientInv => ShowsItsSearch
    BY DEF ClientInv
  <1>2. QED BY <1>1, ClientInvariant, PTL

(***************************************************************************)
(* The index keeps its promises under the page's commands, too: its        *)
(* workers are started and cancelled as the page's searches come and go.   *)
(* What is promised of the text is what ReadyIsTrue says, no more: it is   *)
(* that of the file opened after the fingerprint was taken.                *)
(***************************************************************************)
THEOREM IndexServesThePage ==
    SeriesSearchSpec =>
        [](IndexOK /\ ReadyIsTrue /\ DeletedStaysGone /\ BuildingIsWorkedOn)
  <1>1. IndexInv => IndexOK /\ DeletedStaysGone /\ BuildingIsWorkedOn
    BY DEF IndexInv, IndexOK, TypeOK, RegistryOK, TablesOK, BuildingIsWorkedOn,
           BuildingHasWorker, WorksOn, Building
  <1>2. QED BY <1>1, WholeIsTrue, ClientInvariant, PTL

-----------------------------------------------------------------------------
(* What is read from an EPUB. *)

(***************************************************************************)
(* A range serves the bytes it asks for, those at the end if it has no     *)
(* first, and is refused exactly if there are none (serve_range).          *)
(***************************************************************************)
THEOREM RangesServeWhatIsAsked == \A n \in Nat : RangesHold(n)
  <1> SUFFICES ASSUME NEW n \in Nat, NEW length \in 0..n,
                      NEW first \in (0..(n + 1)) \cup {NoBound},
                      NEW last \in (0..(n + 1)) \cup {NoBound}
               PROVE  LET Asked(i) == IF first = NoBound
                                      THEN last # NoBound /\ i + last >= length
                                      ELSE i >= first /\ (last # NoBound => i <= last)
                          asked == {i \in 0..(length - 1) : Asked(i)}
                          r == ServedRange(length, first, last)
                      IN  IF first = NoBound /\ last = NoBound
                          THEN r.status = 200 /\ r.from = 0 /\ r.to = length
                          ELSE /\ r.status = (IF asked = {} THEN 416 ELSE 206)
                               /\ {i \in 0..length : r.from <= i /\ i < r.to} = asked
    BY DEF RangesHold
  <1> DEFINE Asked(i) == IF first = NoBound
                         THEN last # NoBound /\ i + last >= length
                         ELSE i >= first /\ (last # NoBound => i <= last)
             asked == {i \in 0..(length - 1) : Asked(i)}
             r == ServedRange(length, first, last)
             served == {i \in 0..length : r.from <= i /\ i < r.to}
             lastByte == IF length = 0 THEN 0 ELSE length - 1
             end == IF last < lastByte THEN last ELSE lastByte
  <1>0. NoBound \notin Nat /\ length \in Nat
    BY ResourcesAssumption
  \* What is served, by the bounds of the part; it is refused if the part has none.
  <1>1. ASSUME NEW from \in Nat, NEW to \in Nat, to <= length,
               r = [status |-> 206, from |-> from, to |-> to], from < to,
               \A i \in 0..(length - 1) : Asked(i) <=> from <= i /\ i < to
        PROVE  r.status = (IF asked = {} THEN 416 ELSE 206) /\ served = asked
    <2>1. r.status = 206 /\ r.from = from /\ r.to = to
      BY <1>1
    <2>2. from \in asked
      BY <1>0, <1>1
    <2>3. served = asked
      <3> HIDE DEF Asked, r
      <3>1. \A i : i \in served <=> i \in 0..(length - 1) /\ from <= i /\ i < to
        BY <1>0, <1>1, <2>1
      <3>2. \A i : i \in asked <=> i \in 0..(length - 1) /\ from <= i /\ i < to
        BY <1>1
      <3>3. QED BY <3>1, <3>2
    <2> HIDE DEF asked, served, r
    <2>4. QED BY <2>1, <2>2, <2>3
  <1>2. ASSUME r = [status |-> 416, from |-> 0, to |-> 0],
               \A i \in 0..(length - 1) : ~Asked(i)
        PROVE  r.status = (IF asked = {} THEN 416 ELSE 206) /\ served = asked
    <2>1. r.status = 416 /\ r.from = 0 /\ r.to = 0
      BY <1>2
    <2>2. asked = {}
      BY <1>2
    <2>3. served = {}
      BY <2>1, <1>0
    <2> HIDE DEF asked, served, r
    <2>4. QED BY <2>1, <2>2, <2>3
  <1>3. CASE first = NoBound /\ last = NoBound
    BY <1>3 DEF ServedRange
  <1>4. CASE first = NoBound /\ last # NoBound
    <2>1. last \in Nat
      BY <1>4
    <2>2. CASE last = 0 \/ length = 0
      <3>1. r = [status |-> 416, from |-> 0, to |-> 0]
        BY <1>4, <2>2 DEF ServedRange
      <3>2. \A i \in 0..(length - 1) : ~Asked(i)
        BY <1>0, <1>4, <2>1, <2>2
      <3>3. QED BY <1>2, <1>4, <3>1, <3>2
    <2>3. CASE ~(last = 0 \/ length = 0)
      <3> DEFINE from == IF last < length THEN length - last ELSE 0
      <3>1. r = [status |-> 206, from |-> from, to |-> length]
        BY <1>4, <2>3 DEF ServedRange
      <3>2. from \in Nat /\ from < length
        BY <1>0, <2>1, <2>3
      <3>3. \A i \in 0..(length - 1) : Asked(i) <=> from <= i /\ i < length
        BY <1>0, <1>4, <2>1
      <3> HIDE DEF from, Asked, r
      <3>4. length \in Nat /\ length <= length
        BY <1>0
      <3>5. r.status = (IF asked = {} THEN 416 ELSE 206) /\ served = asked
        BY <1>1, <3>1, <3>2, <3>3, <3>4
      <3>6. QED BY <1>4, <3>5 DEF Asked, r
    <2>4. QED BY <2>2, <2>3
  <1>5. CASE first # NoBound /\ last = NoBound
    <2>1. first \in Nat
      BY <1>5
    <2>2. CASE first >= length
      <3>1. r = [status |-> 416, from |-> 0, to |-> 0]
        BY <1>5, <2>2 DEF ServedRange
      <3>2. \A i \in 0..(length - 1) : ~Asked(i)
        BY <1>0, <1>5, <2>1, <2>2
      <3>3. QED BY <1>2, <1>5, <3>1, <3>2
    <2>3. CASE ~(first >= length)
      <3>1. r = [status |-> 206, from |-> first, to |-> length]
        BY <1>5, <2>3 DEF ServedRange
      <3>2. first < length
        BY <1>0, <2>1, <2>3
      <3>3. \A i \in 0..(length - 1) : Asked(i) <=> first <= i /\ i < length
        BY <1>0, <1>5, <2>1
      <3>4. QED BY <1>0, <1>1, <1>5, <2>1, <3>1, <3>2, <3>3
    <2>4. QED BY <2>2, <2>3
  <1>6. CASE first # NoBound /\ last # NoBound
    <2>1. first \in Nat /\ last \in Nat /\ end \in Nat
      BY <1>0, <1>6
    <2>2. CASE first > end \/ first >= length
      <3>1. r = [status |-> 416, from |-> 0, to |-> 0]
        BY <1>6, <2>2 DEF ServedRange
      <3>2. \A i \in 0..(length - 1) : ~Asked(i)
        BY <1>0, <1>6, <2>1, <2>2
      <3>3. QED BY <1>2, <1>6, <3>1, <3>2
    <2>3. CASE ~(first > end \/ first >= length)
      <3>1. r = [status |-> 206, from |-> first, to |-> end + 1]
        BY <1>6, <2>3 DEF ServedRange
      <3>2. first < end + 1 /\ end + 1 \in Nat /\ end + 1 <= length
        BY <1>0, <2>1, <2>3
      <3>3. \A i \in 0..(length - 1) : Asked(i) <=> first <= i /\ i < end + 1
        BY <1>0, <1>6, <2>1, <2>3
      <3> HIDE DEF end
      <3>4. QED BY <1>1, <1>6, <2>1, <3>1, <3>2, <3>3
    <2>4. QED BY <2>2, <2>3
  <1>7. QED BY <1>3, <1>4, <1>5, <1>6

=============================================================================
