-------------------------- MODULE SourceCacheProofs --------------------------
(***************************************************************************)
(* The source cache's state stays well formed whoever runs with whom;      *)
(* leases are sound, fingerprints tell the truth and the hard limit holds  *)
(* for every book whose misses do not overlap other requests for it,       *)
(* whatever happens to the other books: for every number of books,         *)
(* requests, versions, failures and restarts.                              *)
(***************************************************************************)
EXTENDS SourceCache, TotalsProofs

\* The invariant's first part, which needs no hypothesis: what an acquisition has at
\* every step of it, and that inodes are named after their books.
Planned(q) == Total([b \in q.plan |-> q.size[b]])
Shaped(q) ==
    /\ q.pc = "idle" => q = Idle
    /\ q.pc # "idle" => q.book \in Book
    /\ q.pc \notin {"idle", "found"} => q.version \in Version
    /\ q.pc \in {"copy", "reading"} => q.inode # NoFile /\ q.inode[1] = q.book
    /\ q.pc \notin {"copy", "reading"} => q.inode = NoFile
    /\ q.pc # "evict" => q.plan = {}
    /\ Planned(q) <= q.total

WorldTyped ==
    /\ books \subseteq Book /\ doomed \subseteq Book
    /\ source \in [Book -> Version]

DiskTyped ==
    /\ file \in [Book -> Inode \cup {NoFile}]
    /\ tmp \in [Book -> Inode \cup {NoFile}]
    /\ fingerprint \in [Book -> Version \cup {NoVersion}]
    /\ content \in [Inode -> Seq(Version \cup {NoVersion})]
    /\ \A b \in Book : /\ file[b] # NoFile => file[b][1] = b
                       /\ tmp[b] # NoFile => tmp[b][1] = b

TableTyped ==
    /\ rows \subseteq books /\ IsOrder(older, rows)
    /\ rowSize \in [Book -> Nat]

RequestsTyped == req \in [Request -> Acquisition] /\ \A r \in Request : Shaped(req[r])

BudgetTyped == events \in Nat /\ faults \in Nat /\ events + faults <= MaxEvents

ShapeInv == WorldTyped /\ DiskTyped /\ TableTyped /\ RequestsTyped /\ BudgetTyped

-----------------------------------------------------------------------------
(* What the steps of the requests do to the acquisitions. *)

\* The bound on inodes is a number, and what no book's file is called.
LEMMA Names ==
    /\ Version \subseteq Nat /\ NoVersion \notin Version /\ 1 \in Version
    /\ NoFile \notin Inode
    /\ IsFiniteSet(Slot) /\ Cardinality(Slot) = Cardinality(Request) + 2
    /\ Cardinality(Request) \in Nat
  <1>1. Cardinality(Request) \in Nat
    BY CacheAssumption, FS_CardinalityType
  <1>2. IsFiniteSet(Slot) /\ Cardinality(Slot) = Cardinality(Request) + 2
    <2> DEFINE n == 2 + Cardinality(Request)
    <2>1. 1 \in Int /\ n \in Int /\ ~(1 > n)
      BY <1>1
    <2>2. IsFiniteSet(1..n) /\ Cardinality(1..n) = n - 1 + 1
      <3> HIDE DEF n
      <3>1. QED BY <2>1, FS_Interval
    <2>3. QED BY <1>1, <2>2 DEF Slot
  <1>3. \A n \in Slot : n # 0
    BY <1>1 DEF Slot
  <1>4. NoFile \notin Inode
    BY <1>3 DEF NoFile, Inode
  <1>5. QED BY <1>1, <1>2, <1>4, CacheAssumption DEF Version, NoVersion

LEMMA PlanOfNothing ==
    ASSUME NEW q, q.plan = {}
    PROVE  Planned(q) = 0
  <1> DEFINE f == [b \in q.plan |-> q.size[b]]
  <1>1. f \in [{} -> Nat] /\ \A x \in {} : f[x] = 0
    BY DEF f
  <1> HIDE DEF f
  <1>2. Total(f) = 0
    BY <1>1, TotalOfZeros
  <1>3. QED BY <1>2 DEF Planned, f

LEMMA IdleIsShaped == Idle \in Acquisition /\ Shaped(Idle)
  <1>1. Idle \in Acquisition
    BY DEF Idle, Acquisition, PC, Idling, NoSizes
  <1>2. Planned(Idle) = 0
    BY PlanOfNothing DEF Idle
  <1>3. Idle.pc = "idle" /\ Idle.inode = NoFile /\ Idle.plan = {} /\ Idle.total = 0
    BY DEF Idle
  <1>4. QED BY <1>1, <1>2, <1>3 DEF Shaped

\* A step of a request leaves the others alone.
LEMMA OneMoves ==
    ASSUME RequestsTyped, NEW r \in Request, NEW q \in Acquisition, Shaped(q),
           req' = [req EXCEPT ![r] = q]
    PROVE  /\ RequestsTyped'
           /\ req'[r] = q
           /\ \A s \in Request \ {r} : req'[s] = req[s]
  <1>1. /\ req' \in [Request -> Acquisition]
        /\ req'[r] = q
        /\ \A s \in Request \ {r} : req'[s] = req[s]
    BY DEF RequestsTyped
  <1>2. \A s \in Request : Shaped(req'[s])
    BY <1>1 DEF RequestsTyped
  <1>3. QED BY <1>1, <1>2 DEF RequestsTyped

LEMMA OneEnds ==
    ASSUME RequestsTyped, NEW r \in Request, Ends(r)
    PROVE  /\ RequestsTyped'
           /\ req'[r] = Idle
           /\ \A s \in Request \ {r} : req'[s] = req[s]
  <1>1. req' = [req EXCEPT ![r] = Idle]
    BY DEF Ends
  <1>2. QED BY <1>1, IdleIsShaped, OneMoves

\* The steps that neither hold a file nor have a plan.
Plain == {"check", "touch", "clear", "create", "verify", "stamp", "record", "survey", "leased"}

LEMMA OneMovesOn ==
    ASSUME RequestsTyped, NEW r \in Request, req[r].pc \in Plain,
           NEW step \in Plain, Moves(r, step)
    PROVE  /\ RequestsTyped'
           /\ req'[r] = [req[r] EXCEPT !.pc = step]
           /\ \A s \in Request \ {r} : req'[s] = req[s]
  <1> DEFINE q == [req[r] EXCEPT !.pc = step]
  <1>1. req[r] \in Acquisition /\ Shaped(req[r])
    BY DEF RequestsTyped
  <1>2. /\ q \in Acquisition /\ q.pc = step /\ q.book = req[r].book
        /\ q.version = req[r].version /\ q.inode = req[r].inode
        /\ q.plan = req[r].plan /\ q.size = req[r].size /\ q.total = req[r].total
    BY <1>1 DEF Acquisition, PC, Missing, Plain, Copying, Holding
  <1>3. req' = [req EXCEPT ![r] = q]
    BY <1>1 DEF Moves, RequestsTyped
  <1> HIDE DEF q
  <1>4. Planned(q) <= q.total
    BY <1>1, <1>2 DEF Shaped, Planned
  <1>5. Shaped(q)
    BY <1>1, <1>2, <1>4 DEF Shaped, Plain
  <1>6. QED BY <1>2, <1>3, <1>5, OneMoves DEF q

-----------------------------------------------------------------------------
(* What the steps do to the disk and to the table. *)

LEMMA DiskSame ==
    ASSUME DiskTyped, UNCHANGED disk
    PROVE  DiskTyped'
  BY DEF DiskTyped, disk

\* An inode that still has a name or a handle keeps its content.
KeepsContent == \A i \in Inode \cap Linked(file', tmp', req') : content'[i] = content[i]

LEMMA DiskCollected ==
    ASSUME DiskTyped, content' = Collected(content),
           fingerprint' \in [Book -> Version \cup {NoVersion}],
           file' \in [Book -> Inode \cup {NoFile}], tmp' \in [Book -> Inode \cup {NoFile}],
           \A b \in Book : file'[b] # NoFile => file'[b][1] = b,
           \A b \in Book : tmp'[b] # NoFile => tmp'[b][1] = b
    PROVE  DiskTyped' /\ KeepsContent
  <1>1. content' = [i \in Inode |->
                       IF i \in Linked(file', tmp', req') THEN content[i] ELSE <<>>]
    BY DEF Collected
  <1>2. content \in [Inode -> Seq(Version \cup {NoVersion})]
    BY DEF DiskTyped
  <1>3. content' \in [Inode -> Seq(Version \cup {NoVersion})]
    BY <1>1, <1>2
  <1>4. KeepsContent
    BY <1>1 DEF KeepsContent
  <1>5. QED BY <1>3, <1>4 DEF DiskTyped

LEMMA SameKeeps ==
    ASSUME UNCHANGED disk
    PROVE  KeepsContent
  BY DEF KeepsContent, disk

\* A file that is removed, with its fingerprint.
LEMMA Unlinked ==
    ASSUME DiskTyped, NEW b \in Book, Unlinks(b)
    PROVE  /\ DiskTyped' /\ KeepsContent
           /\ file'[b] = NoFile /\ fingerprint'[b] = NoVersion
           /\ \A c \in Book \ {b} : file'[c] = file[c] /\ fingerprint'[c] = fingerprint[c]
           /\ tmp' = tmp
  <1>1. /\ file' = [file EXCEPT ![b] = NoFile]
        /\ fingerprint' = [fingerprint EXCEPT ![b] = NoVersion]
        /\ tmp' = tmp
        /\ content' = Collected(content)
    BY DEF Unlinks
  <1>2. /\ file \in [Book -> Inode \cup {NoFile}]
        /\ tmp \in [Book -> Inode \cup {NoFile}]
        /\ fingerprint \in [Book -> Version \cup {NoVersion}]
        /\ \A c \in Book : /\ file[c] # NoFile => file[c][1] = c
                           /\ tmp[c] # NoFile => tmp[c][1] = c
    BY DEF DiskTyped
  <1>3. /\ file'[b] = NoFile /\ fingerprint'[b] = NoVersion
        /\ \A c \in Book \ {b} : file'[c] = file[c] /\ fingerprint'[c] = fingerprint[c]
    BY <1>1, <1>2
  <1>4. DiskTyped' /\ KeepsContent
    BY <1>1, <1>2, <1>3, DiskCollected
  <1>5. QED BY <1>1, <1>3, <1>4

\* The file alone is removed.
LEMMA FileRemoved ==
    ASSUME DiskTyped, NEW b \in Book, file' = [file EXCEPT ![b] = NoFile],
           UNCHANGED <<tmp, fingerprint>>, content' = Collected(content)
    PROVE  /\ DiskTyped' /\ KeepsContent
           /\ file'[b] = NoFile
           /\ \A c \in Book \ {b} : file'[c] = file[c]
  <1>1. /\ file \in [Book -> Inode \cup {NoFile}]
        /\ tmp \in [Book -> Inode \cup {NoFile}]
        /\ fingerprint \in [Book -> Version \cup {NoVersion}]
        /\ \A c \in Book : /\ file[c] # NoFile => file[c][1] = c
                           /\ tmp[c] # NoFile => tmp[c][1] = c
    BY DEF DiskTyped
  <1>2. DiskTyped' /\ KeepsContent
    BY <1>1, DiskCollected
  <1>3. QED BY <1>1, <1>2

LEMMA TableSame ==
    ASSUME TableTyped, UNCHANGED <<table, books>>
    PROVE  TableTyped'
  BY DEF TableTyped, table

LEMMA TableAccessed ==
    ASSUME TableTyped, UNCHANGED books, NEW b \in books, Accessed(b),
           rowSize' \in [Book -> Nat]
    PROVE  TableTyped'
  <1>1. IsOrder(older', rows')
    BY TouchOrders DEF Accessed, TableTyped
  <1>2. QED BY <1>1 DEF Accessed, TableTyped

LEMMA TableRemoved ==
    ASSUME TableTyped, NEW b \in Book, Removed(b), books \ {b} \subseteq books'
    PROVE  TableTyped'
  <1>1. IsOrder(older', rows')
    BY WithoutOrders DEF Removed, TableTyped
  <1>2. QED BY <1>1 DEF Removed, TableTyped

\* The file's size, if there is one, is what the row gets.
LEMMA SizeNatural ==
    ASSUME DiskTyped, NEW b \in Cached
    PROVE  file[b] \in Inode /\ Size(b) \in Nat /\ b \in Book
  BY DEF DiskTyped, Cached, Size

LEMMA TablePersisted ==
    ASSUME TableTyped, DiskTyped, UNCHANGED books, NEW b \in Cached, Persisted(b)
    PROVE  TableTyped'
  <1>1. CASE b \in books
    <2>1. Accessed(b) /\ rowSize' = [rowSize EXCEPT ![b] = Size(b)]
      BY <1>1 DEF Persisted
    <2>2. rowSize' \in [Book -> Nat]
      BY <2>1, SizeNatural DEF TableTyped
    <2>3. QED BY <1>1, <2>1, <2>2, TableAccessed
  <1>2. CASE b \notin books
    BY <1>2, TableSame DEF Persisted
  <1>3. QED BY <1>1, <1>2

-----------------------------------------------------------------------------
(* Every step keeps the state well formed.  Each lemma also says what the step leaves *)
(* of the acquisition.                                                                *)

LEMMA AskShapes ==
    ASSUME ShapeInv, NEW r \in Request, NEW b \in Book, Ask(r, b)
    PROVE  /\ ShapeInv'
           /\ req'[r].pc = "found"
           /\ \A s \in Request \ {r} : req'[s] = req[s]
  <1> DEFINE q == [Idle EXCEPT !.pc = "found", !.book = b]
  <1>1. /\ q \in Acquisition /\ q.pc = "found" /\ q.book = b /\ q.inode = NoFile
        /\ q.plan = {} /\ q.total = 0
    BY IdleIsShaped DEF Acquisition, PC, Idling, Idle
  <1>2. req' = [req EXCEPT ![r] = q] /\ UNCHANGED <<disk, table, world, budget>>
    BY DEF Ask
  <1> HIDE DEF q
  <1>3. Shaped(q)
    BY <1>1, PlanOfNothing DEF Shaped
  <1>4. RequestsTyped' /\ req'[r] = q /\ \A s \in Request \ {r} : req'[s] = req[s]
    BY <1>1, <1>2, <1>3, OneMoves DEF ShapeInv
  <1>5. DiskTyped' /\ TableTyped'
    BY <1>2, DiskSame, TableSame DEF ShapeInv, world
  <1>6. QED BY <1>1, <1>2, <1>4, <1>5 DEF ShapeInv, WorldTyped, BudgetTyped, world, budget

LEMMA OpenShapes ==
    ASSUME ShapeInv, NEW r \in Request, Open(r)
    PROVE  /\ ShapeInv'
           /\ req'[r].pc = "check" /\ req'[r].book = req[r].book
           /\ req'[r].version = source[req[r].book]
           /\ \A s \in Request \ {r} : req'[s] = req[s]
  <1> DEFINE q == [req[r] EXCEPT !.pc = "check", !.version = source[req[r].book]]
  <1>1. req[r] \in Acquisition /\ Shaped(req[r]) /\ req[r].pc = "found"
    BY DEF ShapeInv, RequestsTyped, Open, At
  <1>2. req[r].book \in Book /\ source[req[r].book] \in Version
    BY <1>1 DEF Shaped, ShapeInv, WorldTyped
  <1>3. /\ q \in Acquisition /\ q.pc = "check" /\ q.book = req[r].book
        /\ q.version = source[req[r].book] /\ q.inode = req[r].inode
        /\ q.plan = req[r].plan /\ q.size = req[r].size /\ q.total = req[r].total
    BY <1>1, <1>2 DEF Acquisition, PC
  <1>4. req' = [req EXCEPT ![r] = q] /\ UNCHANGED <<disk, table, world, budget>>
    BY <1>1 DEF Open, ShapeInv, RequestsTyped, BookOf
  <1> HIDE DEF q
  <1>5. Planned(q) <= q.total
    BY <1>1, <1>3 DEF Shaped, Planned
  <1>6. Shaped(q)
    BY <1>1, <1>2, <1>3, <1>5 DEF Shaped
  <1>7. RequestsTyped' /\ req'[r] = q /\ \A s \in Request \ {r} : req'[s] = req[s]
    BY <1>3, <1>4, <1>6, OneMoves DEF ShapeInv
  <1>8. DiskTyped' /\ TableTyped'
    BY <1>4, DiskSame, TableSame DEF ShapeInv, world
  <1>9. QED BY <1>3, <1>4, <1>7, <1>8 DEF ShapeInv, WorldTyped, BudgetTyped, world, budget

LEMMA CheckShapes ==
    ASSUME ShapeInv, NEW r \in Request, Check(r)
    PROVE  /\ ShapeInv'
           /\ req'[r] = [req[r] EXCEPT !.pc = IF Hit(req[r].book, req[r].version)
                                              THEN "touch" ELSE "clear"]
           /\ \A s \in Request \ {r} : req'[s] = req[s]
  <1> DEFINE step == IF Hit(req[r].book, req[r].version) THEN "touch" ELSE "clear"
  <1>1. step \in Plain /\ req[r].pc \in Plain
    BY DEF Plain, Check, At
  <1>2. Moves(r, step) /\ UNCHANGED <<disk, table, world, budget>>
    BY DEF Check, BookOf
  <1>3. /\ RequestsTyped' /\ req'[r] = [req[r] EXCEPT !.pc = step]
        /\ \A s \in Request \ {r} : req'[s] = req[s]
    BY <1>1, <1>2, OneMovesOn DEF ShapeInv
  <1>4. DiskTyped' /\ TableTyped'
    BY <1>2, DiskSame, TableSame DEF ShapeInv, world
  <1>5. QED BY <1>2, <1>3, <1>4 DEF ShapeInv, WorldTyped, BudgetTyped, world, budget

LEMMA BookIsOne ==
    ASSUME ShapeInv, NEW r \in Request, req[r].pc # "idle"
    PROVE  req[r].book \in Book
  BY DEF ShapeInv, RequestsTyped, Shaped

LEMMA TouchShapes ==
    ASSUME ShapeInv, NEW r \in Request, Touch(r)
    PROVE  /\ ShapeInv'
           /\ \/ req'[r] = Idle
              \/ req'[r] = [req[r] EXCEPT !.pc = "leased"]
           /\ \A s \in Request \ {r} : req'[s] = req[s]
  <1> DEFINE b == req[r].book
  <1>1. req[r].pc = "touch" /\ b \in Book
    BY BookIsOne DEF Touch, At
  <1>2. UNCHANGED <<disk, world, budget>>
    BY DEF Touch
  <1>3. /\ RequestsTyped'
        /\ req'[r] = Idle \/ req'[r] = [req[r] EXCEPT !.pc = "leased"]
        /\ \A s \in Request \ {r} : req'[s] = req[s]
    <2>1. CASE Ends(r)
      BY <2>1, OneEnds DEF ShapeInv
    <2>2. CASE Moves(r, "leased")
      <3>1. "leased" \in Plain /\ req[r].pc \in Plain
        BY <1>1 DEF Plain
      <3>2. QED BY <2>2, <3>1, OneMovesOn DEF ShapeInv
    <2>3. QED BY <2>1, <2>2 DEF Touch
  <1>4. TableTyped'
    <2>1. CASE b \in rows /\ Accessed(b) /\ UNCHANGED rowSize
      <3>1. b \in books /\ rowSize' \in [Book -> Nat]
        BY <2>1 DEF ShapeInv, TableTyped
      <3>2. QED BY <1>2, <2>1, <3>1, TableAccessed DEF ShapeInv, world
    <2>2. CASE b \in Cached /\ Persisted(b)
      BY <1>2, <2>2, TablePersisted DEF ShapeInv, world
    <2>3. CASE UNCHANGED table
      BY <1>2, <2>3, TableSame DEF ShapeInv, world
    <2>4. QED BY <2>1, <2>2, <2>3 DEF Touch, BookOf
  <1>5. DiskTyped'
    BY <1>2, DiskSame DEF ShapeInv
  <1>6. QED BY <1>2, <1>3, <1>4, <1>5 DEF ShapeInv, WorldTyped, BudgetTyped, world, budget

LEMMA ClearShapes ==
    ASSUME ShapeInv, NEW r \in Request, Clear(r)
    PROVE  /\ ShapeInv' /\ KeepsContent
           /\ Unlinks(req[r].book)
           /\ req'[r] = [req[r] EXCEPT !.pc = "create"]
           /\ \A s \in Request \ {r} : req'[s] = req[s]
  <1>1. /\ Unlinks(req[r].book) /\ Moves(r, "create")
        /\ UNCHANGED <<table, world, budget>>
    BY DEF Clear, Unlinks, BookOf
  <1>2. req[r].book \in Book /\ req[r].pc \in Plain /\ "create" \in Plain
    BY BookIsOne DEF Clear, At, Plain
  <1>3. /\ RequestsTyped' /\ req'[r] = [req[r] EXCEPT !.pc = "create"]
        /\ \A s \in Request \ {r} : req'[s] = req[s]
    BY <1>1, <1>2, OneMovesOn DEF ShapeInv
  <1>4. DiskTyped' /\ KeepsContent
    BY <1>1, <1>2, Unlinked DEF ShapeInv
  <1>5. TableTyped'
    BY <1>1, TableSame DEF ShapeInv, world
  <1>6. QED BY <1>1, <1>3, <1>4, <1>5 DEF ShapeInv, WorldTyped, BudgetTyped, world, budget

\* The inodes of a book are its file's, its temporary file's and one a request at most: one
\* is free when there is no temporary file.
LEMMA FreeInode ==
    ASSUME ShapeInv, NEW b \in Book, tmp[b] = NoFile
    PROVE  \E n \in Slot : <<b, n>> \notin Linked(file, tmp, req)
  <1> DEFINE Taken == Slot \ {file[b][2]}
             handle == [n \in Taken |-> CHOOSE r \in Request : req[r].inode = <<b, n>>]
  <1> SUFFICES ASSUME \A n \in Slot : <<b, n>> \in Linked(file, tmp, req) PROVE FALSE
    OBVIOUS
  <1>1. ASSUME NEW n \in Taken PROVE \E r \in Request : req[r].inode = <<b, n>>
    <2>1. <<b, n>> # NoFile
      BY Names DEF Inode
    <2>2. ASSUME NEW c \in Book PROVE file[c] # <<b, n>> /\ tmp[c] # <<b, n>>
      <3>1. <<b, n>>[1] = b /\ <<b, n>>[2] = n /\ n # file[b][2]
        OBVIOUS
      <3>2. /\ file[c] # NoFile => file[c][1] = c
            /\ tmp[c] # NoFile => tmp[c][1] = c
        BY DEF ShapeInv, DiskTyped
      <3>3. QED BY <2>1, <3>1, <3>2
    <2>3. QED BY <2>2 DEF Linked
  <1>2. handle \in [Taken -> Request] /\ \A n \in Taken : req[handle[n]].inode = <<b, n>>
    BY <1>1
  <1>3. /\ IsFiniteSet(Taken)
        /\ Cardinality(Taken) >= Cardinality(Slot) - 1
    <2> DEFINE x == file[b][2]
    <2> HIDE DEF x
    <2>1. /\ IsFiniteSet(Slot \ {x})
          /\ Cardinality(Slot \ {x}) = IF x \in Slot THEN Cardinality(Slot) - 1
                                                     ELSE Cardinality(Slot)
      BY Names, FS_RemoveElement
    <2>2. Cardinality(Slot) \in Nat
      BY Names
    <2>3. Cardinality(Slot \ {x}) >= Cardinality(Slot) - 1
      BY <2>1, <2>2
    <2>4. QED BY <2>1, <2>3 DEF x
  <1>4. Cardinality(Request) < Cardinality(Taken)
    <2>1. Cardinality(Taken) \in Nat
      BY <1>3, FS_CardinalityType
    <2>2. QED BY <1>3, <2>1, Names
  <1>5. PICK m, n \in Taken : m # n /\ handle[m] = handle[n]
    <2> HIDE DEF handle, Taken
    <2>1. QED BY <1>2, <1>3, <1>4, CacheAssumption, FS_PigeonHole
  <1>6. <<b, m>> = <<b, n>>
    BY <1>2, <1>5
  <1>7. QED BY <1>5, <1>6

\* inode: what the temporary file's path names then.
LEMMA CreateShapes ==
    ASSUME ShapeInv, NEW r \in Request, Create(r)
    PROVE  \E inode \in Inode :
             /\ ShapeInv'
             /\ inode[1] = req[r].book
             /\ tmp[req[r].book] # NoFile => inode = tmp[req[r].book]
             /\ tmp' = [tmp EXCEPT ![req[r].book] = inode]
             /\ content' = [content EXCEPT ![inode] = <<>>]
             /\ req'[r] = [req[r] EXCEPT !.pc = "copy", !.inode = inode, !.copied = 0]
             /\ \A s \in Request \ {r} : req'[s] = req[s]
  <1> DEFINE b == req[r].book
             inode == IF tmp[b] # NoFile THEN tmp[b]
                      ELSE <<b, CHOOSE n \in Slot : <<b, n>> \notin Linked(file, tmp, req)>>
             q == [req[r] EXCEPT !.pc = "copy", !.inode = inode, !.copied = 0]
  <1>1. /\ tmp' = [tmp EXCEPT ![b] = inode]
        /\ content' = [content EXCEPT ![inode] = <<>>]
        /\ req' = [req EXCEPT ![r].pc = "copy", ![r].inode = inode, ![r].copied = 0]
        /\ UNCHANGED <<file, fingerprint, table, world, budget>>
    BY DEF Create, BookOf
  <1>2. /\ req[r] \in Acquisition /\ Shaped(req[r]) /\ req[r].pc = "create"
        /\ req \in [Request -> Acquisition] /\ b \in Book
    BY BookIsOne DEF ShapeInv, RequestsTyped, Create, At
  <1>3. inode \in Inode /\ inode[1] = b
    <2>1. CASE tmp[b] # NoFile
      BY <1>2, <2>1 DEF ShapeInv, DiskTyped
    <2>2. CASE tmp[b] = NoFile
      <3> DEFINE n == CHOOSE k \in Slot : <<b, k>> \notin Linked(file, tmp, req)
      <3>1. n \in Slot
        BY <1>2, <2>2, FreeInode
      <3> HIDE DEF n
      <3>2. <<b, n>> \in Inode /\ <<b, n>>[1] = b
        BY <1>2, <3>1 DEF Inode
      <3>3. QED BY <2>2, <3>2 DEF n
    <2>3. QED BY <2>1, <2>2
  <1>4. tmp[b] # NoFile => inode = tmp[b]
    OBVIOUS
  <1> HIDE DEF inode
  <1>5. inode # NoFile
    BY <1>3, Names
  <1>6. /\ q \in Acquisition /\ q.pc = "copy" /\ q.book = b /\ q.inode = inode
        /\ q.version = req[r].version
        /\ q.plan = req[r].plan /\ q.size = req[r].size /\ q.total = req[r].total
    BY <1>2, <1>3 DEF Acquisition, PC, Missing, Copying
  <1>7. req' = [req EXCEPT ![r] = q]
    BY <1>1, <1>2
  <1> DEFINE q2 == q
  <1> HIDE DEF q2
  <1>8. Shaped(q2)
    <2>1. /\ q2.pc = "copy" /\ q2.book = b /\ q2.inode = inode
          /\ q2.version = req[r].version
          /\ q2.plan = req[r].plan /\ q2.size = req[r].size /\ q2.total = req[r].total
      BY <1>6 DEF q2
    <2>2. Planned(q2) <= q2.total
      BY <1>2, <2>1 DEF Shaped, Planned
    <2>3. QED BY <1>2, <1>3, <1>5, <2>1, <2>2 DEF Shaped
  <1>9. RequestsTyped' /\ req'[r] = q /\ \A s \in Request \ {r} : req'[s] = req[s]
    <2>1. q2 \in Acquisition /\ req' = [req EXCEPT ![r] = q2]
      BY <1>6, <1>7 DEF q2
    <2>2. RequestsTyped' /\ req'[r] = q2 /\ \A s \in Request \ {r} : req'[s] = req[s]
      BY <1>8, <2>1, OneMoves DEF ShapeInv
    <2>3. QED BY <2>2 DEF q2
  <1>10. DiskTyped'
    <2>1. <<>> \in Seq(Version \cup {NoVersion})
      OBVIOUS
    <2>2. content' \in [Inode -> Seq(Version \cup {NoVersion})]
      BY <1>1, <2>1 DEF ShapeInv, DiskTyped
    <2>3. QED BY <1>1, <1>2, <1>3, <2>2 DEF ShapeInv, DiskTyped
  <1>11. TableTyped'
    BY <1>1, TableSame DEF ShapeInv, world
  <1>12. ShapeInv'
    BY <1>1, <1>9, <1>10, <1>11 DEF ShapeInv, WorldTyped, BudgetTyped, world, budget
  <1>13. QED BY <1>1, <1>3, <1>4, <1>9, <1>12

LEMMA CopyShapes ==
    ASSUME ShapeInv, NEW r \in Request, Copy(r)
    PROVE  /\ ShapeInv'
           /\ req[r].inode \in Inode /\ req[r].copied \in Nat
           /\ req'[r] = [req[r] EXCEPT !.copied = req[r].copied + 1]
           /\ \A s \in Request \ {r} : req'[s] = req[s]
  <1> DEFINE k == req[r].copied + 1
             v == source[req[r].book]
             i == req[r].inode
             q == [req[r] EXCEPT !.copied = k]
  <1>1. /\ req[r] \in Acquisition /\ Shaped(req[r]) /\ req[r].pc = "copy"
        /\ req \in [Request -> Acquisition] /\ req[r].book \in Book
    BY BookIsOne DEF ShapeInv, RequestsTyped, Copy, At
  <1>2. i \in Inode /\ k \in Nat /\ v \in Version /\ req[r].copied \in Nat
    BY <1>1 DEF Acquisition, Shaped, ShapeInv, WorldTyped
  <1>3. /\ content' = [content EXCEPT ![i] = Written(@, k, v)]
        /\ req' = [req EXCEPT ![r] = q]
        /\ UNCHANGED <<file, tmp, fingerprint, table, world, budget>>
    BY <1>1 DEF Copy, BookOf
  <1>4. /\ q \in Acquisition /\ q.pc = "copy" /\ q.book = req[r].book /\ q.inode = i
        /\ q.version = req[r].version
        /\ q.plan = req[r].plan /\ q.size = req[r].size /\ q.total = req[r].total
    BY <1>1, <1>2 DEF Acquisition
  <1>5. content' \in [Inode -> Seq(Version \cup {NoVersion})]
    <2> DEFINE c == content[i]
               n == IF k > Len(c) THEN k ELSE Len(c)
    <2>1. c \in Seq(Version \cup {NoVersion}) /\ Len(c) \in Nat
      BY <1>2 DEF ShapeInv, DiskTyped
    <2>2. n \in Nat
      BY <1>2, <2>1
    <2>3. \A j \in 1..Len(c) : c[j] \in Version \cup {NoVersion}
      BY <2>1
    <2> HIDE DEF c
    <2>4. Written(c, k, v) \in [1..n -> Version \cup {NoVersion}]
      <3>1. ASSUME NEW j \in 1..n
            PROVE  (IF j = k THEN v ELSE IF j <= Len(c) THEN c[j] ELSE NoVersion)
                      \in Version \cup {NoVersion}
        <4>1. j \in Nat /\ j >= 1
          BY <2>2
        <4>2. j <= Len(c) => j \in 1..Len(c)
          BY <2>1, <4>1
        <4>3. QED BY <1>2, <2>3, <4>2
      <3>2. QED BY <3>1 DEF Written
    <2>5. Written(c, k, v) \in Seq(Version \cup {NoVersion})
      <3> DEFINE w == Written(c, k, v)
                 m == n
      <3>1. w \in [1..m -> Version \cup {NoVersion}] /\ m \in Nat
        BY <2>2, <2>4
      <3> HIDE DEF w, m
      <3>2. w \in Seq(Version \cup {NoVersion})
        BY <3>1
      <3>3. QED BY <3>2 DEF w
    <2>6. content' = [content EXCEPT ![i] = Written(c, k, v)]
      BY <1>3 DEF c
    <2>7. QED BY <2>5, <2>6 DEF ShapeInv, DiskTyped
  <1> HIDE DEF q
  <1>6. Planned(q) <= q.total
    BY <1>1, <1>4 DEF Shaped, Planned
  <1>7. Shaped(q)
    BY <1>1, <1>4, <1>6 DEF Shaped
  <1>8. RequestsTyped' /\ req'[r] = q /\ \A s \in Request \ {r} : req'[s] = req[s]
    BY <1>3, <1>4, <1>7, OneMoves DEF ShapeInv
  <1>9. DiskTyped' /\ TableTyped'
    BY <1>3, <1>5, TableSame DEF ShapeInv, DiskTyped, world
  <1>10. ShapeInv'
    BY <1>3, <1>8, <1>9 DEF ShapeInv, WorldTyped, BudgetTyped, world, budget
  <1>11. QED BY <1>2, <1>8, <1>10 DEF q

LEMMA RenameShapes ==
    ASSUME ShapeInv, NEW r \in Request, Rename(r)
    PROVE  /\ ShapeInv' /\ KeepsContent
           /\ UNCHANGED fingerprint
           /\ \/ /\ tmp[req[r].book] # NoFile
                 /\ file' = [file EXCEPT ![req[r].book] = tmp[req[r].book]]
                 /\ tmp' = [tmp EXCEPT ![req[r].book] = NoFile]
                 /\ req'[r] = [req[r] EXCEPT !.pc = "verify", !.inode = NoFile, !.copied = 0]
              \/ /\ tmp[req[r].book] = NoFile /\ req'[r] = Idle
                 /\ UNCHANGED <<file, tmp>>
           /\ \A s \in Request \ {r} : req'[s] = req[s]
  <1> DEFINE b == req[r].book
             q == [req[r] EXCEPT !.pc = "verify", !.inode = NoFile, !.copied = 0]
             Found == /\ tmp[b] # NoFile
                      /\ file' = [file EXCEPT ![b] = tmp[b]]
                      /\ tmp' = [tmp EXCEPT ![b] = NoFile]
             Nameless == tmp[b] = NoFile /\ UNCHANGED <<file, tmp>>
  <1>1. /\ req[r] \in Acquisition /\ Shaped(req[r]) /\ req[r].pc = "copy"
        /\ req \in [Request -> Acquisition] /\ b \in Book
    BY BookIsOne DEF ShapeInv, RequestsTyped, Rename, At
  <1>2. /\ content' = Collected(content)
        /\ UNCHANGED <<fingerprint, table, world, budget>>
        /\ \/ Found /\ req' = [req EXCEPT ![r].pc = "verify", ![r].inode = NoFile, ![r].copied = 0]
           \/ Nameless /\ Ends(r)
    BY DEF Rename, BookOf
  <1>3. DiskTyped' /\ KeepsContent
    <2>1. /\ fingerprint' \in [Book -> Version \cup {NoVersion}]
          /\ file' \in [Book -> Inode \cup {NoFile}] /\ tmp' \in [Book -> Inode \cup {NoFile}]
          /\ \A c \in Book : file'[c] # NoFile => file'[c][1] = c
          /\ \A c \in Book : tmp'[c] # NoFile => tmp'[c][1] = c
      BY ZenonT(60), <1>1, <1>2 DEF ShapeInv, DiskTyped
    <2>2. QED BY <1>2, <2>1, DiskCollected DEF ShapeInv
  <1>4. /\ RequestsTyped'
        /\ \/ Found /\ req'[r] = q
           \/ Nameless /\ req'[r] = Idle
        /\ \A s \in Request \ {r} : req'[s] = req[s]
    <2>1. CASE Nameless /\ Ends(r)
      BY <2>1, OneEnds DEF ShapeInv
    <2>2. CASE Found /\ req' = [req EXCEPT ![r].pc = "verify", ![r].inode = NoFile,
                                           ![r].copied = 0]
      <3>1. /\ q \in Acquisition /\ q.pc = "verify" /\ q.book = b /\ q.inode = NoFile
            /\ q.version = req[r].version
            /\ q.plan = req[r].plan /\ q.size = req[r].size /\ q.total = req[r].total
        BY <1>1 DEF Acquisition, PC, Missing
      <3>2. req' = [req EXCEPT ![r] = q]
        BY <1>1, <2>2
      <3> HIDE DEF q
      <3>3. Planned(q) <= q.total
        BY <1>1, <3>1 DEF Shaped, Planned
      <3>4. Shaped(q)
        BY <1>1, <3>1, <3>3 DEF Shaped
      <3>5. QED BY <2>2, <3>1, <3>2, <3>4, OneMoves DEF ShapeInv
    <2>3. QED BY <1>2, <2>1, <2>2
  <1>5. TableTyped'
    BY <1>2, TableSame DEF ShapeInv, world
  <1>6. ShapeInv'
    BY <1>2, <1>3, <1>4, <1>5 DEF ShapeInv, WorldTyped, BudgetTyped, world, budget
  <1>7. QED BY <1>2, <1>3, <1>4, <1>6

LEMMA VerifyShapes ==
    ASSUME ShapeInv, NEW r \in Request, Verify(r)
    PROVE  /\ ShapeInv' /\ KeepsContent
           /\ UNCHANGED <<tmp, fingerprint>>
           /\ \/ /\ Matches(req[r].book, req[r].version, source[req[r].book])
                 /\ UNCHANGED disk
                 /\ req'[r] = [req[r] EXCEPT !.pc = "stamp", !.version = source[req[r].book]]
              \/ /\ file' = [file EXCEPT ![req[r].book] = NoFile]
                 /\ req'[r] = Idle
           /\ \A s \in Request \ {r} : req'[s] = req[s]
  <1> DEFINE b == req[r].book
             q == [req[r] EXCEPT !.pc = "stamp", !.version = source[b]]
             Same == Matches(b, req[r].version, source[b]) /\ UNCHANGED disk
             Gone == /\ file' = [file EXCEPT ![b] = NoFile]
                     /\ UNCHANGED <<tmp, fingerprint>>
                     /\ content' = Collected(content)
  <1>1. /\ req[r] \in Acquisition /\ Shaped(req[r]) /\ req[r].pc = "verify"
        /\ req \in [Request -> Acquisition] /\ b \in Book /\ source[b] \in Version
    BY BookIsOne DEF ShapeInv, RequestsTyped, WorldTyped, Verify, At
  <1>2. /\ UNCHANGED <<table, world, budget>>
        /\ \/ Same /\ req' = [req EXCEPT ![r].pc = "stamp", ![r].version = source[b]]
           \/ Gone /\ Ends(r)
    BY DEF Verify, BookOf
  <1>3. DiskTyped' /\ KeepsContent
    BY <1>1, <1>2, DiskSame, SameKeeps, FileRemoved DEF ShapeInv
  <1>4. /\ RequestsTyped'
        /\ \/ Same /\ req'[r] = q
           \/ Gone /\ req'[r] = Idle
        /\ \A s \in Request \ {r} : req'[s] = req[s]
    <2>1. CASE Gone /\ Ends(r)
      BY <2>1, OneEnds DEF ShapeInv
    <2>2. CASE Same /\ req' = [req EXCEPT ![r].pc = "stamp", ![r].version = source[b]]
      <3>1. /\ q \in Acquisition /\ q.pc = "stamp" /\ q.book = b /\ q.inode = req[r].inode
            /\ q.version \in Version
            /\ q.plan = req[r].plan /\ q.size = req[r].size /\ q.total = req[r].total
        BY <1>1 DEF Acquisition, PC, Missing
      <3>2. req' = [req EXCEPT ![r] = q]
        BY <1>1, <2>2
      <3> HIDE DEF q
      <3>3. Planned(q) <= q.total
        BY <1>1, <3>1 DEF Shaped, Planned
      <3>4. Shaped(q)
        BY <1>1, <3>1, <3>3 DEF Shaped
      <3>5. QED BY <2>2, <3>1, <3>2, <3>4, OneMoves DEF ShapeInv
    <2>3. QED BY <1>2, <2>1, <2>2
  <1>5. TableTyped'
    BY <1>2, TableSame DEF ShapeInv, world
  <1>6. ShapeInv'
    BY <1>2, <1>3, <1>4, <1>5 DEF ShapeInv, WorldTyped, BudgetTyped, world, budget
  <1>7. UNCHANGED <<tmp, fingerprint>>
    BY <1>4 DEF disk
  <1>8. QED BY <1>3, <1>4, <1>6, <1>7

LEMMA StampShapes ==
    ASSUME ShapeInv, NEW r \in Request, Stamp(r)
    PROVE  /\ ShapeInv'
           /\ req'[r] = [req[r] EXCEPT !.pc = "record"]
           /\ \A s \in Request \ {r} : req'[s] = req[s]
  <1>1. /\ req[r].pc \in Plain /\ "record" \in Plain /\ Moves(r, "record")
        /\ UNCHANGED <<file, tmp, content, table, world, budget>>
    BY DEF Stamp, At, Plain
  <1>2. /\ RequestsTyped' /\ req'[r] = [req[r] EXCEPT !.pc = "record"]
        /\ \A s \in Request \ {r} : req'[s] = req[s]
    BY <1>1, OneMovesOn DEF ShapeInv
  <1>3. fingerprint' \in [Book -> Version \cup {NoVersion}]
    <2>1. req[r].version \in Version
      BY DEF Stamp, At, ShapeInv, RequestsTyped, Shaped
    <2>2. QED BY <2>1 DEF Stamp, ShapeInv, DiskTyped
  <1>4. DiskTyped' /\ TableTyped'
    BY <1>1, <1>3, TableSame DEF ShapeInv, DiskTyped, world
  <1>5. QED BY <1>1, <1>2, <1>4 DEF ShapeInv, WorldTyped, BudgetTyped, world, budget

LEMMA RecordShapes ==
    ASSUME ShapeInv, NEW r \in Request, Record(r)
    PROVE  /\ ShapeInv'
           /\ \/ req[r].book \notin Cached /\ req'[r] = Idle
              \/ req'[r] = [req[r] EXCEPT !.pc = "survey"]
           /\ \A s \in Request \ {r} : req'[s] = req[s]
  <1> DEFINE b == req[r].book
  <1>1. /\ req[r].pc \in Plain /\ "survey" \in Plain
        /\ UNCHANGED <<disk, world, budget>>
        /\ \/ b \in Cached /\ Persisted(b) /\ Moves(r, "survey")
           \/ b \notin Cached /\ Ends(r) /\ UNCHANGED table
    BY DEF Record, At, Plain, BookOf
  <1>2. /\ RequestsTyped'
        /\ \/ b \notin Cached /\ req'[r] = Idle
           \/ req'[r] = [req[r] EXCEPT !.pc = "survey"]
        /\ \A s \in Request \ {r} : req'[s] = req[s]
    BY <1>1, OneEnds, OneMovesOn DEF ShapeInv
  <1>3. TableTyped'
    <2>1. CASE b \in Cached /\ Persisted(b)
      BY <1>1, <2>1, TablePersisted DEF ShapeInv, world
    <2>2. CASE UNCHANGED table
      BY <1>1, <2>2, TableSame DEF ShapeInv, world
    <2>3. QED BY <1>1, <2>1, <2>2
  <1>4. DiskTyped'
    BY <1>1, DiskSame DEF ShapeInv
  <1>5. QED BY <1>1, <1>2, <1>3, <1>4 DEF ShapeInv, WorldTyped, BudgetTyped, world, budget

-----------------------------------------------------------------------------
(* Sums of bytes. *)

LEMMA BytesNatural ==
    ASSUME DiskTyped, NEW S \in SUBSET Cached
    PROVE  /\ Sizes \in [Book -> Nat] /\ IsFiniteSet(S)
           /\ Bytes(S) = Total([b \in S |-> Sizes[b]]) /\ Bytes(S) \in Nat
  <1>1. Cached \subseteq Book /\ \A b \in Cached : Size(b) \in Nat /\ Sizes[b] = Size(b)
    BY SizeNatural DEF Cached, Sizes
  <1>2. Sizes \in [Book -> Nat]
    BY <1>1 DEF Sizes
  <1>3. IsFiniteSet(S)
    <2>1. S \in SUBSET Book
      BY <1>1
    <2>2. QED BY <2>1, CacheAssumption, FS_Subset
  <1> DEFINE f == [b \in S |-> Size(b)]
  <1>4. f \in [S -> Nat] /\ f = [b \in S |-> Sizes[b]]
    BY <1>1
  <1>5. Bytes(S) = Total(f)
    BY DEF Bytes
  <1> HIDE DEF f
  <1>6. Total(f) \in Nat
    BY <1>3, <1>4, TotalNatural
  <1>7. QED BY <1>2, <1>3, <1>4, <1>5, <1>6

\* A plan without one of its files.
LEMMA PlanLess ==
    ASSUME NEW q \in Acquisition, NEW b \in q.plan
    PROVE  Total([c \in q.plan \ {b} |-> q.size[c]]) = Planned(q) - q.size[b]
           /\ Planned(q) \in Nat /\ q.size[b] \in Nat /\ q.size[b] <= Planned(q)
  <1> DEFINE P == q.plan
             f == [c \in P |-> q.size[c]]
             g == [c \in P \ {b} |-> q.size[c]]
  <1>1. P \in SUBSET Book /\ q.size \in [Book -> Nat]
    BY DEF Acquisition
  <1>2. IsFiniteSet(P)
    BY <1>1, CacheAssumption, FS_Subset
  <1>3. IsFiniteSet(P \ {b})
    BY <1>2, FS_RemoveElement
  <1>4. /\ f \in [P -> Nat] /\ g \in [P \ {b} -> Nat]
        /\ f[b] = q.size[b] /\ q.size[b] \in Nat /\ \A c \in P \ {b} : g[c] = f[c]
    BY <1>1
  <1> HIDE DEF f, g
  <1>5. Total(f) = Total(g) + f[b] /\ Total(f) \in Nat /\ Total(g) \in Nat
    <2>1. Total(f) \in Nat
      BY <1>2, <1>4, TotalNatural
    <2>2. Total(g) \in Nat
      BY <1>3, <1>4, TotalNatural
    <2>3. Total(f) = Total(g) + f[b]
      BY <1>2, <1>4, TotalPlusOne
    <2>4. QED BY <2>1, <2>2, <2>3
  <1>6. QED BY <1>4, <1>5 DEF f, g, Planned

LEMMA SurveyShapes ==
    ASSUME ShapeInv, NEW r \in Request, Survey(r)
    PROVE  /\ ShapeInv'
           /\ req'[r] = [req[r] EXCEPT !.pc = "evict", !.plan = Cached, !.size = Sizes,
                                       !.order = Order \cap (Cached \X Cached),
                                       !.total = Bytes(Cached)]
           /\ \A s \in Request \ {r} : req'[s] = req[s]
  <1> DEFINE order == Order \cap (Cached \X Cached)
             bytes == Bytes(Cached)
             q == [req[r] EXCEPT !.pc = "evict", !.plan = Cached, !.size = Sizes,
                                 !.order = order, !.total = bytes]
  <1>1. /\ req[r] \in Acquisition /\ Shaped(req[r]) /\ req[r].pc = "survey"
        /\ req \in [Request -> Acquisition]
    BY DEF ShapeInv, RequestsTyped, Survey, At
  <1>2. /\ Cached \in SUBSET Book /\ Sizes \in [Book -> Nat] /\ bytes \in Nat
        /\ order \in SUBSET (Book \X Book)
    <2>1. Cached \in SUBSET Book
      BY DEF Cached
    <2>2. QED BY <2>1, BytesNatural DEF ShapeInv
  <1> HIDE DEF order, bytes
  <1>3. /\ q \in Acquisition /\ q.pc = "evict" /\ q.book = req[r].book
        /\ q.version = req[r].version /\ q.inode = req[r].inode
        /\ q.plan = Cached /\ q.size = Sizes /\ q.total = bytes
    BY <1>1, <1>2 DEF Acquisition, PC
  <1>4. req' = [req EXCEPT ![r] = q] /\ UNCHANGED <<disk, table, world, budget>>
    BY <1>1 DEF Survey, order, bytes
  <1> HIDE DEF q
  <1>5. Planned(q) <= q.total
    <2>1. Planned(q) = Bytes(Cached) /\ Bytes(Cached) \in Nat
      BY <1>3, BytesNatural DEF ShapeInv, Planned
    <2>2. QED BY <1>3, <2>1 DEF bytes
  <1>6. Shaped(q)
    BY <1>1, <1>3, <1>5 DEF Shaped
  <1>7. RequestsTyped' /\ req'[r] = q /\ \A s \in Request \ {r} : req'[s] = req[s]
    BY <1>3, <1>4, <1>6, OneMoves DEF ShapeInv
  <1>8. DiskTyped' /\ TableTyped'
    BY <1>4, DiskSame, TableSame DEF ShapeInv, world
  <1>9. ShapeInv'
    BY <1>4, <1>7, <1>8 DEF ShapeInv, WorldTyped, BudgetTyped, world, budget
  <1>10. QED BY <1>7, <1>9 DEF q, order, bytes

\* b: the file of which the turn of the loop is.
LEMMA EvictShapes ==
    ASSUME ShapeInv, NEW r \in Request, Evict(r)
    PROVE  /\ ShapeInv' /\ KeepsContent
           /\ req[r].pc = "evict"
           /\ \E b \in req[r].plan :
                 \/ /\ UNCHANGED disk
                    /\ req'[r] = [req[r] EXCEPT !.plan = req[r].plan \ {b}]
                 \/ /\ ~Active(b) /\ Unlinks(b)
                    /\ req'[r] = [req[r] EXCEPT !.plan = req[r].plan \ {b},
                                                !.total = req[r].total - req[r].size[b]]
           /\ \A s \in Request \ {r} : req'[s] = req[s]
  <1> DEFINE Taken(b) == b # req[r].book /\ ~Active(b)
  <1>1. PICK b \in req[r].plan :
           /\ req' = [req EXCEPT ![r].plan = req[r].plan \ {b},
                                 ![r].total = IF Taken(b) THEN req[r].total - req[r].size[b]
                                              ELSE req[r].total]
           /\ IF Taken(b) THEN Unlinks(b) /\ Removed(b) ELSE UNCHANGED <<disk, table>>
    BY DEF Evict, Oldest, BookOf, Evictable, ShapeInv, RequestsTyped
  <1>2. UNCHANGED <<world, budget>> /\ req[r].pc = "evict"
    BY DEF Evict, At
  <1> DEFINE taken == Taken(b)
             total == IF taken THEN req[r].total - req[r].size[b] ELSE req[r].total
             q == [req[r] EXCEPT !.plan = req[r].plan \ {b}, !.total = total]
  <1>3. /\ req[r] \in Acquisition /\ Shaped(req[r]) /\ req \in [Request -> Acquisition]
        /\ b \in Book /\ req[r].total \in Nat
    <2>1. req[r] \in Acquisition /\ Shaped(req[r]) /\ req \in [Request -> Acquisition]
      BY DEF ShapeInv, RequestsTyped
    <2>2. QED BY <2>1 DEF Acquisition
  <1>4. /\ req' = [req EXCEPT ![r] = q]
        /\ \/ ~taken /\ UNCHANGED <<disk, table>>
           \/ taken /\ Unlinks(b) /\ Removed(b)
        /\ taken => ~Active(b)
    <2>1. req' = [req EXCEPT ![r] = q]
      BY <1>1, <1>3
    <2>2. QED BY <1>1, <2>1
  <1> HIDE DEF taken
  <1>5. /\ Total([c \in req[r].plan \ {b} |-> req[r].size[c]]) = Planned(req[r]) - req[r].size[b]
        /\ Planned(req[r]) \in Nat /\ req[r].size[b] \in Nat
        /\ req[r].size[b] <= Planned(req[r]) /\ Planned(req[r]) <= req[r].total
    BY <1>3, PlanLess DEF Shaped
  <1>6. total \in Nat /\ Planned(req[r]) - req[r].size[b] <= total
    BY <1>3, <1>5
  <1> HIDE DEF total
  <1>7. /\ q \in Acquisition /\ q.pc = "evict" /\ q.book = req[r].book
        /\ q.version = req[r].version /\ q.inode = req[r].inode
        /\ q.plan = req[r].plan \ {b} /\ q.size = req[r].size /\ q.total = total
    BY <1>2, <1>3, <1>6 DEF Acquisition
  <1>8. req'[r] = q
    BY <1>3, <1>4
  <1> HIDE DEF q
  <1>9. Planned(q) <= q.total
    BY <1>5, <1>6, <1>7 DEF Planned
  <1>10. Shaped(q)
    BY <1>2, <1>3, <1>7, <1>9 DEF Shaped
  <1>11. RequestsTyped' /\ \A s \in Request \ {r} : req'[s] = req[s]
    BY <1>4, <1>7, <1>10, OneMoves DEF ShapeInv
  <1>12. DiskTyped' /\ KeepsContent
    BY <1>3, <1>4, DiskSame, SameKeeps, Unlinked DEF ShapeInv
  <1>13. TableTyped'
    <2>1. UNCHANGED books
      BY <1>2 DEF world
    <2>2. QED BY <1>3, <1>4, <2>1, TableSame, TableRemoved DEF ShapeInv
  <1>14. ShapeInv'
    BY <1>2, <1>11, <1>12, <1>13 DEF ShapeInv, WorldTyped, BudgetTyped, world, budget
  <1>15. \/ UNCHANGED disk /\ req'[r] = [req[r] EXCEPT !.plan = req[r].plan \ {b}]
         \/ /\ ~Active(b) /\ Unlinks(b)
            /\ req'[r] = [req[r] EXCEPT !.plan = req[r].plan \ {b},
                                        !.total = req[r].total - req[r].size[b]]
    <2>1. CASE taken
      BY <1>4, <1>8, <2>1 DEF q, total
    <2>2. CASE ~taken
      <3>1. q = [req[r] EXCEPT !.plan = req[r].plan \ {b}]
        BY <1>3, <2>2 DEF q, total, Acquisition
      <3>2. QED BY <1>4, <1>8, <2>2, <3>1
    <2>3. QED BY <2>1, <2>2
  <1>16. QED BY <1>2, <1>11, <1>12, <1>14, <1>15

LEMMA AdmitShapes ==
    ASSUME ShapeInv, NEW r \in Request, Admit(r)
    PROVE  /\ ShapeInv' /\ KeepsContent
           /\ \/ /\ UNCHANGED <<disk, contended>> /\ req[r].total <= HardLimit
                 /\ req'[r] = [req[r] EXCEPT !.pc = "leased", !.plan = {}, !.size = NoSizes,
                                             !.order = {}, !.total = 0]
              \/ Unlinks(req[r].book) /\ req'[r] = Idle /\ Overlaps(r)
           /\ \A s \in Request \ {r} : req'[s] = req[s]
  <1> DEFINE b == req[r].book
             q == [req[r] EXCEPT !.pc = "leased", !.plan = {}, !.size = NoSizes,
                                 !.order = {}, !.total = 0]
  <1>1. /\ req[r] \in Acquisition /\ Shaped(req[r]) /\ req[r].pc = "evict"
        /\ req \in [Request -> Acquisition] /\ b \in Book
    BY BookIsOne DEF ShapeInv, RequestsTyped, Admit, At
  <1>2. /\ UNCHANGED <<world, budget>>
        /\ \/ Leased(r) /\ req[r].total <= HardLimit /\ UNCHANGED contended
           \/ Ends(r) /\ Unlinks(b) /\ Removed(b) /\ Overlaps(r)
    BY DEF Admit, BookOf, Invalidates
  <1>3. DiskTyped' /\ KeepsContent /\ TableTyped'
    <2>1. UNCHANGED books
      BY <1>2 DEF world
    <2>2. Leased(r) => UNCHANGED <<disk, table>>
      BY DEF Leased
    <2>3. QED BY <1>1, <1>2, <2>1, <2>2, DiskSame, SameKeeps, Unlinked, TableSame, TableRemoved
                 DEF ShapeInv
  <1>4. /\ RequestsTyped'
        /\ \/ UNCHANGED <<disk, contended>> /\ req[r].total <= HardLimit /\ req'[r] = q
           \/ Unlinks(b) /\ req'[r] = Idle /\ Overlaps(r)
        /\ \A s \in Request \ {r} : req'[s] = req[s]
    <2>1. CASE Ends(r) /\ Unlinks(b) /\ Removed(b) /\ Overlaps(r)
      BY <2>1, OneEnds DEF ShapeInv
    <2>2. CASE Leased(r) /\ req[r].total <= HardLimit /\ UNCHANGED contended
      <3>1. NoSizes \in [Book -> Nat]
        BY DEF NoSizes
      <3>2. /\ q \in Acquisition /\ q.pc = "leased" /\ q.book = b
            /\ q.inode = req[r].inode /\ q.version = req[r].version
            /\ q.plan = {} /\ q.total = 0
        BY <1>1, <3>1 DEF Acquisition, PC, Holding
      <3>3. req' = [req EXCEPT ![r] = q] /\ UNCHANGED disk
        BY <1>1, <2>2 DEF Leased
      <3> HIDE DEF q
      <3>4. Planned(q) = 0
        BY <3>2, PlanOfNothing
      <3>5. Shaped(q)
        BY <1>1, <3>2, <3>4 DEF Shaped
      <3>6. QED BY <2>2, <3>2, <3>3, <3>5, OneMoves DEF ShapeInv
    <2>3. QED BY <1>2, <2>1, <2>2
  <1>5. ShapeInv'
    BY <1>2, <1>3, <1>4 DEF ShapeInv, WorldTyped, BudgetTyped, world, budget
  <1>6. QED BY <1>3, <1>4, <1>5

LEMMA OpenReaderShapes ==
    ASSUME ShapeInv, NEW r \in Request, OpenReader(r)
    PROVE  /\ ShapeInv'
           /\ \/ /\ file[req[r].book] # NoFile
                 /\ req'[r] = [req[r] EXCEPT !.pc = "reading", !.inode = file[req[r].book]]
              \/ req'[r] = Idle
           /\ \A s \in Request \ {r} : req'[s] = req[s]
  <1> DEFINE b == req[r].book
             i == file[b]
             q == [req[r] EXCEPT !.pc = "reading", !.inode = i]
  <1>1. /\ req[r] \in Acquisition /\ Shaped(req[r]) /\ req[r].pc = "leased"
        /\ req \in [Request -> Acquisition] /\ b \in Book
    BY BookIsOne DEF ShapeInv, RequestsTyped, OpenReader, At
  <1>2. /\ UNCHANGED <<disk, table, world, budget>>
        /\ \/ i # NoFile /\ req' = [req EXCEPT ![r].pc = "reading", ![r].inode = i]
           \/ Ends(r)
    BY <1>1 DEF OpenReader, BookOf, Cached
  <1>3. /\ RequestsTyped'
        /\ (i # NoFile /\ req'[r] = q) \/ req'[r] = Idle
        /\ \A s \in Request \ {r} : req'[s] = req[s]
    <2>1. CASE Ends(r)
      BY <2>1, OneEnds DEF ShapeInv
    <2>2. CASE i # NoFile /\ req' = [req EXCEPT ![r].pc = "reading", ![r].inode = i]
      <3>1. i \in Inode /\ i[1] = b
        BY <1>1, <2>2 DEF ShapeInv, DiskTyped
      <3> HIDE DEF i
      <3>2. /\ q \in Acquisition /\ q.pc = "reading" /\ q.book = b /\ q.inode = i
            /\ q.version = req[r].version
            /\ q.plan = req[r].plan /\ q.size = req[r].size /\ q.total = req[r].total
        BY <1>1, <3>1 DEF Acquisition, PC, Holding
      <3>3. req' = [req EXCEPT ![r] = q]
        BY <1>1, <2>2
      <3> HIDE DEF q
      <3>4. Planned(q) <= q.total
        BY <1>1, <3>2 DEF Shaped, Planned
      <3>5. Shaped(q)
        BY <1>1, <2>2, <3>1, <3>2, <3>4 DEF Shaped
      <3>6. QED BY <2>2, <3>2, <3>3, <3>5, OneMoves DEF ShapeInv
    <2>3. QED BY <1>2, <2>1, <2>2
  <1>4. DiskTyped' /\ TableTyped'
    BY <1>2, DiskSame, TableSame DEF ShapeInv, world
  <1>5. ShapeInv'
    BY <1>2, <1>3, <1>4 DEF ShapeInv, WorldTyped, BudgetTyped, world, budget
  <1>6. QED BY <1>3, <1>5

LEMMA DropShapes ==
    ASSUME ShapeInv, NEW r \in Request, Drop(r)
    PROVE  /\ ShapeInv' /\ KeepsContent
           /\ UNCHANGED <<file, tmp, fingerprint>>
           /\ req'[r] = Idle
           /\ \A s \in Request \ {r} : req'[s] = req[s]
  <1>1. /\ Ends(r) /\ UNCHANGED <<file, tmp, fingerprint>>
        /\ content' = Collected(content)
        /\ UNCHANGED <<table, world, budget>>
    BY DEF Drop
  <1>2. RequestsTyped' /\ req'[r] = Idle /\ \A s \in Request \ {r} : req'[s] = req[s]
    BY <1>1, OneEnds DEF ShapeInv
  <1>3. DiskTyped' /\ KeepsContent
    BY <1>1, DiskCollected DEF ShapeInv, DiskTyped
  <1>4. TableTyped'
    BY <1>1, TableSame DEF ShapeInv, world
  <1>5. QED BY <1>1, <1>2, <1>3, <1>4 DEF ShapeInv, WorldTyped, BudgetTyped, world, budget

LEMMA FailShapes ==
    ASSUME ShapeInv, NEW r \in Request, Fail(r)
    PROVE  /\ ShapeInv' /\ KeepsContent
           /\ UNCHANGED <<file, fingerprint>>
           /\ tmp' = IF req[r].pc \in Copying THEN [tmp EXCEPT ![req[r].book] = NoFile] ELSE tmp
           /\ faults' > 0
           /\ req'[r] = Idle
           /\ \A s \in Request \ {r} : req'[s] = req[s]
  <1>1. /\ Ends(r) /\ UNCHANGED <<file, fingerprint>>
        /\ tmp' = IF req[r].pc \in Copying THEN [tmp EXCEPT ![req[r].book] = NoFile] ELSE tmp
        /\ content' = Collected(content)
        /\ UNCHANGED <<table, world, events>>
        /\ events + faults < MaxEvents /\ faults' = faults + 1
    BY DEF Fail, BookOf
  <1>2. RequestsTyped' /\ req'[r] = Idle /\ \A s \in Request \ {r} : req'[s] = req[s]
    BY <1>1, OneEnds DEF ShapeInv
  <1>3. DiskTyped' /\ KeepsContent
    <2>1. /\ tmp' \in [Book -> Inode \cup {NoFile}]
          /\ \A b \in Book : tmp'[b] # NoFile => tmp'[b][1] = b
      BY <1>1 DEF ShapeInv, DiskTyped
    <2>2. QED BY <1>1, <2>1, DiskCollected DEF ShapeInv, DiskTyped
  <1>4. TableTyped'
    BY <1>1, TableSame DEF ShapeInv, world
  <1>5. BudgetTyped' /\ faults' > 0
    BY <1>1, CacheAssumption DEF ShapeInv, BudgetTyped
  <1>6. QED BY <1>1, <1>2, <1>3, <1>4, <1>5 DEF ShapeInv, WorldTyped, world

-----------------------------------------------------------------------------
(* The world around. *)

LEMMA SourceChangesShapes ==
    ASSUME ShapeInv, NEW b \in Book, SourceChanges(b)
    PROVE  ShapeInv' /\ source'[b] >= source[b] /\ \A c \in Book \ {b} : source'[c] = source[c]
  <1>1. /\ source[b] < MaxVersion /\ source' = [source EXCEPT ![b] = @ + 1]
        /\ events + faults < MaxEvents /\ events' = events + 1 /\ UNCHANGED faults
        /\ UNCHANGED <<disk, table, books, doomed, req>>
    BY DEF SourceChanges, Happens
  <1>2. source[b] \in Version /\ source[b] + 1 \in Version /\ source[b] + 1 >= source[b]
    BY <1>1, CacheAssumption DEF ShapeInv, WorldTyped, Version
  <1>3. WorldTyped' /\ source'[b] >= source[b] /\ \A c \in Book \ {b} : source'[c] = source[c]
    BY <1>1, <1>2 DEF ShapeInv, WorldTyped
  <1>4. DiskTyped' /\ TableTyped'
    BY <1>1, DiskSame, TableSame DEF ShapeInv
  <1>5. RequestsTyped' /\ BudgetTyped'
    BY <1>1, CacheAssumption DEF ShapeInv, RequestsTyped, BudgetTyped
  <1>6. QED BY <1>3, <1>4, <1>5 DEF ShapeInv

LEMMA DeleteShapes ==
    ASSUME ShapeInv, NEW b \in Book, Delete(b)
    PROVE  ShapeInv'
  <1>1. /\ books' = books \ {b} /\ doomed' = {b} /\ Removed(b)
        /\ events + faults < MaxEvents /\ events' = events + 1 /\ UNCHANGED faults
        /\ UNCHANGED <<disk, source, req>>
    BY DEF Delete, Happens
  <1>2. WorldTyped'
    BY <1>1 DEF ShapeInv, WorldTyped
  <1>3. DiskTyped' /\ TableTyped'
    BY <1>1, DiskSame, TableRemoved DEF ShapeInv
  <1>4. RequestsTyped' /\ BudgetTyped'
    BY <1>1, CacheAssumption DEF ShapeInv, RequestsTyped, BudgetTyped
  <1>5. QED BY <1>2, <1>3, <1>4 DEF ShapeInv

LEMMA InvalidateShapes ==
    ASSUME ShapeInv, NEW b \in Book, Invalidate(b)
    PROVE  ShapeInv' /\ KeepsContent
  <1>1. /\ doomed' = doomed \ {b} /\ Unlinks(b) /\ Removed(b)
        /\ UNCHANGED <<books, source, req, budget>>
    BY DEF Invalidate, Invalidates
  <1>2. WorldTyped'
    BY <1>1 DEF ShapeInv, WorldTyped
  <1>3. DiskTyped' /\ KeepsContent /\ TableTyped'
    BY <1>1, Unlinked, TableRemoved DEF ShapeInv
  <1>4. RequestsTyped' /\ BudgetTyped'
    BY <1>1 DEF ShapeInv, RequestsTyped, BudgetTyped, budget
  <1>5. QED BY <1>2, <1>3, <1>4 DEF ShapeInv

LEMMA RestartShapes ==
    ASSUME ShapeInv, Restart
    PROVE  /\ ShapeInv' /\ KeepsContent
           /\ \A r \in Request : req'[r] = Idle
           /\ \A b \in Book : tmp'[b] = NoFile
           /\ \A b \in Book : \/ file'[b] = file[b] /\ fingerprint'[b] = fingerprint[b]
                              \/ file'[b] = NoFile
           /\ UNCHANGED <<books, source>> /\ doomed' = {}
           /\ Bytes(Cached)' <= SoftLimit
  <1> DEFINE valid == {b \in Book : Valid(b)}
             size == [b \in valid |-> Size(b)]
             kept == Newest(older, valid, size, SoftLimit)
  <1>1. /\ events + faults < MaxEvents /\ events' = events + 1 /\ UNCHANGED faults
        /\ req' = [r \in Request |-> Idle]
        /\ tmp' = [b \in Book |-> NoFile]
        /\ file' = [b \in Book |-> IF b \in kept THEN file[b] ELSE NoFile]
        /\ fingerprint' = [b \in Book |-> IF b \in kept THEN fingerprint[b] ELSE NoVersion]
        /\ rows' = kept /\ older' = older \cap (kept \X kept)
        /\ rowSize' = [b \in Book |-> IF b \in kept THEN rowSize[b] ELSE 0]
        /\ content' = Collected(content) /\ doomed' = {} /\ UNCHANGED <<books, source>>
    BY DEF Restart, Happens
  <1>2. valid \in SUBSET rows /\ valid \in SUBSET Cached /\ size \in [valid -> Nat]
    <2>1. valid \in SUBSET rows /\ valid \in SUBSET Cached
      BY DEF Valid
    <2>2. QED BY <2>1, SizeNatural DEF ShapeInv
  <1>3. IsFiniteSet(valid)
    <2>1. valid \in SUBSET Book
      OBVIOUS
    <2>2. QED BY <2>1, CacheAssumption, FS_Subset
  <1>4. kept \subseteq valid /\ Total([b \in kept |-> size[b]]) <= SoftLimit
    <2>1. IsOrder(older, rows) /\ SoftLimit \in Nat
      BY CacheAssumption DEF ShapeInv, TableTyped
    <2> DEFINE k == kept
    <2>2. k = Newest(older, valid, size, SoftLimit)
      OBVIOUS
    <2> HIDE DEF k, valid, size
    <2>3. k \subseteq valid /\ Total([b \in k |-> size[b]]) <= SoftLimit
      BY <1>2, <1>3, <2>1, <2>2, NewestFit
    <2>4. QED BY <2>3 DEF k
  <1>5. \A b \in kept : size[b] = Size(b)
    BY <1>4
  <1> HIDE DEF kept, size, valid
  <1>6. RequestsTyped' /\ \A r \in Request : req'[r] = Idle
    BY <1>1, IdleIsShaped DEF RequestsTyped
  <1>7. DiskTyped' /\ KeepsContent
    <2>1. /\ fingerprint' \in [Book -> Version \cup {NoVersion}]
          /\ file' \in [Book -> Inode \cup {NoFile}] /\ tmp' \in [Book -> Inode \cup {NoFile}]
          /\ \A c \in Book : file'[c] # NoFile => file'[c][1] = c
          /\ \A c \in Book : tmp'[c] # NoFile => tmp'[c][1] = c
      BY <1>1 DEF ShapeInv, DiskTyped
    <2>2. QED BY <1>1, <2>1, DiskCollected DEF ShapeInv
  <1>8. TableTyped'
    <2>1. kept \in SUBSET rows
      BY <1>2, <1>4
    <2>2. IsOrder(older', rows')
      BY <1>1, <2>1, PartOrders DEF ShapeInv, TableTyped
    <2>3. QED BY <1>1, <2>1, <2>2 DEF ShapeInv, TableTyped
  <1>9. WorldTyped' /\ BudgetTyped'
    BY <1>1, CacheAssumption DEF ShapeInv, WorldTyped, BudgetTyped
  <1>10. Bytes(Cached)' <= SoftLimit
    <2>1. kept \in SUBSET Book /\ \A b \in kept : file[b] # NoFile
      BY <1>2, <1>4 DEF Cached
    <2>2. Cached' = kept
      BY <1>1, <2>1 DEF Cached
    <2>3. \A b \in kept : Len(content'[file'[b]]) = size[b]
      <3>1. ASSUME NEW b \in kept PROVE content'[file'[b]] = content[file[b]]
        <4>1. file'[b] = file[b] /\ file[b] \in Inode
          BY <1>1, <2>1 DEF ShapeInv, DiskTyped
        <4>2. file'[b] \in Linked(file', tmp', req')
          BY <2>1 DEF Linked
        <4>3. QED BY <1>7, <4>1, <4>2 DEF KeepsContent
      <3>2. QED BY <1>5, <3>1 DEF Size
    <2>4. [b \in kept |-> Len(content'[file'[b]])] = [b \in kept |-> size[b]]
      BY <2>3
    <2>5. Bytes(Cached)' = Total([b \in kept |-> Len(content'[file'[b]])])
      BY <2>2 DEF Bytes, Size
    <2>6. QED BY <1>4, <2>4, <2>5
  <1>11. \A b \in Book : \/ file'[b] = file[b] /\ fingerprint'[b] = fingerprint[b]
                         \/ file'[b] = NoFile
    BY <1>1
  <1>12. ShapeInv'
    BY <1>6, <1>7, <1>8, <1>9 DEF ShapeInv
  <1>13. QED BY <1>1, <1>6, <1>7, <1>10, <1>11, <1>12

-----------------------------------------------------------------------------

LEMMA ShapeStarts == Init => ShapeInv
  <1> SUFFICES ASSUME Init PROVE ShapeInv
    OBVIOUS
  <1> USE DEF Init
  <1>1. WorldTyped /\ BudgetTyped
    BY Names, CacheAssumption DEF WorldTyped, BudgetTyped
  <1>2. DiskTyped
    <2>1. <<>> \in Seq(Version \cup {NoVersion})
      OBVIOUS
    <2>2. QED BY <2>1 DEF DiskTyped
  <1>3. TableTyped
    BY DEF TableTyped, IsOrder
  <1>4. RequestsTyped
    BY IdleIsShaped DEF RequestsTyped
  <1>5. QED BY <1>1, <1>2, <1>3, <1>4 DEF ShapeInv

LEMMA ShapeSame ==
    ASSUME ShapeInv, UNCHANGED vars
    PROVE  ShapeInv'
  BY DEF ShapeInv, WorldTyped, DiskTyped, TableTyped, RequestsTyped, BudgetTyped, vars, disk,
         table, world, budget

LEMMA ShapeStays ==
    ASSUME ShapeInv, [Next]_vars
    PROVE  ShapeInv'
  <1>1. CASE UNCHANGED vars
    BY <1>1, ShapeSame
  <1>2. ASSUME NEW b \in Book, SourceChanges(b) \/ Delete(b) \/ Invalidate(b) PROVE ShapeInv'
    BY <1>2, SourceChangesShapes, DeleteShapes, InvalidateShapes
  <1>3. CASE Restart
    BY <1>3, RestartShapes
  <1>4. ASSUME NEW r \in Request, Acquire(r) PROVE ShapeInv'
    <2>1. ASSUME NEW b \in Book, Ask(r, b) PROVE ShapeInv'
      BY <2>1, AskShapes
    <2>2. CASE Open(r) \/ Check(r) \/ Touch(r)
      BY <2>2, OpenShapes, CheckShapes, TouchShapes
    <2>3. CASE Clear(r) \/ Create(r) \/ Copy(r) \/ Rename(r) \/ Verify(r)
      BY <2>3, ClearShapes, CreateShapes, CopyShapes, RenameShapes, VerifyShapes
    <2>4. CASE Stamp(r) \/ Record(r) \/ Survey(r) \/ Evict(r) \/ Admit(r)
      BY <2>4, StampShapes, RecordShapes, SurveyShapes, EvictShapes, AdmitShapes
    <2>5. QED BY <1>4, <2>1, <2>2, <2>3, <2>4 DEF Acquire
  <1>5. ASSUME NEW r \in Request, Use(r) PROVE ShapeInv'
    BY <1>5, OpenReaderShapes, DropShapes, FailShapes DEF Use
  <1>6. QED BY <1>1, <1>2, <1>3, <1>4, <1>5 DEF Next, Environment

-----------------------------------------------------------------------------
(* The history: a miss that overlaps another request of its book is of a contended book. *)

Overlap ==
    \A r, s \in Request :
        r # s /\ req[r].book = req[s].book /\ req[r].pc \in Missing /\ req[s].pc \notin Idling
            => req[r].book \in contended

HistoryInv == contended \subseteq Book /\ Overlap

\* A request that is missing already, or is through, adds no overlap.
LEMMA MoveKeepsHistory ==
    ASSUME HistoryInv, NEW r \in Request, UNCHANGED contended,
           \A s \in Request \ {r} : req'[s] = req[s],
           \/ req'[r].pc \in Idling
           \/ /\ req'[r].book = req[r].book /\ req[r].pc \notin Idling
              /\ req'[r].pc \in Missing => req[r].pc \in Missing
    PROVE  HistoryInv'
  <1> SUFFICES ASSUME NEW t \in Request, NEW s \in Request, t # s, req'[t].book = req'[s].book,
                      req'[t].pc \in Missing, req'[s].pc \notin Idling
               PROVE  req'[t].book \in contended
    BY DEF HistoryInv, Overlap
  <1>1. req'[t].pc \notin Idling
    BY DEF Missing, Copying, Idling
  <1>2. /\ req'[t].book = req[t].book /\ req[t].pc \in Missing
        /\ req'[s].book = req[s].book /\ req[s].pc \notin Idling
    BY <1>1
  <1>3. QED BY <1>2 DEF HistoryInv, Overlap

LEMMA OpenKeepsHistory ==
    ASSUME ShapeInv, HistoryInv, NEW r \in Request, Open(r)
    PROVE  HistoryInv'
  <1>1. /\ req'[r].pc = "check" /\ req'[r].book = req[r].book
        /\ \A s \in Request \ {r} : req'[s] = req[s]
    BY OpenShapes
  <1>2. /\ req[r].book \in Book
        /\ contended' = contended \/ contended' = contended \cup {req[r].book}
        /\ (\E s \in Others(r) : req[s].pc \in Missing) => req[r].book \in contended'
    BY BookIsOne DEF Open, At, Overlaps, BookOf
  <1> SUFFICES ASSUME NEW t \in Request, NEW s \in Request, t # s, req'[t].book = req'[s].book,
                      req'[t].pc \in Missing, req'[s].pc \notin Idling
               PROVE  req'[t].book \in contended'
    BY <1>2 DEF HistoryInv, Overlap
  <1>3. t # r /\ req[t] = req'[t] /\ req[t].pc \notin Idling
    BY <1>1 DEF Missing, Copying, Idling
  <1>4. CASE s = r
    <2>1. t \in Others(r)
      BY <1>1, <1>3, <1>4 DEF Others, BookOf
    <2>2. QED BY <1>1, <1>2, <1>3, <1>4, <2>1
  <1>5. CASE s # r
    BY <1>1, <1>2, <1>3, <1>5 DEF HistoryInv, Overlap
  <1>6. QED BY <1>4, <1>5

LEMMA CheckKeepsHistory ==
    ASSUME ShapeInv, HistoryInv, NEW r \in Request, Check(r)
    PROVE  HistoryInv'
  <1> DEFINE hit == Hit(req[r].book, req[r].version)
  <1>1. /\ req'[r] = [req[r] EXCEPT !.pc = IF hit THEN "touch" ELSE "clear"]
        /\ \A s \in Request \ {r} : req'[s] = req[s]
    BY CheckShapes
  <1>2. /\ req[r].pc = "check" /\ req[r].book \in Book /\ req[r] \in Acquisition
        /\ hit => contended' = contended
        /\ ~hit => contended' = IF Others(r) = {} THEN contended
                                                  ELSE contended \cup {req[r].book}
    BY BookIsOne DEF Check, At, Overlaps, BookOf, ShapeInv, RequestsTyped
  <1>3. req'[r].pc = (IF hit THEN "touch" ELSE "clear") /\ req'[r].book = req[r].book
    BY <1>1, <1>2 DEF Acquisition
  <1> HIDE DEF hit
  <1>4. CASE hit
    <2>1. req'[r].pc \notin Missing /\ req[r].pc \notin Idling
      BY <1>2, <1>3, <1>4 DEF Missing, Copying, Idling
    <2>2. QED BY <1>1, <1>2, <1>3, <1>4, <2>1, MoveKeepsHistory
  <1>5. CASE ~hit
    <2> SUFFICES ASSUME NEW t \in Request, NEW s \in Request, t # s, req'[t].book = req'[s].book,
                        req'[t].pc \in Missing, req'[s].pc \notin Idling
                 PROVE  req'[t].book \in contended'
      BY <1>2, <1>5 DEF HistoryInv, Overlap
    <2>1. /\ req'[t].book = req[t].book /\ req'[s].book = req[s].book
          /\ req[t].pc \notin Idling /\ req[s].pc \notin Idling
      BY <1>1, <1>2, <1>3 DEF Missing, Copying, Idling
    <2>2. CASE t = r \/ s = r
      <3>1. Others(r) # {}
        BY <2>1, <2>2 DEF Others, BookOf
      <3>2. QED BY <1>2, <1>5, <2>1, <2>2, <3>1
    <2>3. CASE t # r /\ s # r
      <3>1. req'[t] = req[t]
        BY <1>1, <2>3
      <3>2. req[t].book \in contended
        BY <2>1, <3>1 DEF HistoryInv, Overlap
      <3>3. QED BY <1>2, <1>5, <3>1, <3>2
    <2>4. QED BY <2>2, <2>3
  <1>6. QED BY <1>4, <1>5

LEMMA ClearKeepsHistory ==
    ASSUME ShapeInv, HistoryInv, NEW r \in Request, Clear(r)
    PROVE  HistoryInv'
  <1>1. /\ req'[r] = [req[r] EXCEPT !.pc = "create"]
        /\ \A s \in Request \ {r} : req'[s] = req[s]
    BY ClearShapes
  <1>2. /\ req[r].pc = "clear" /\ req[r] \in Acquisition
        /\ contended' = IF Others(r) = {} THEN contended \ {req[r].book} ELSE contended
    BY DEF Clear, At, Begins, BookOf, ShapeInv, RequestsTyped
  <1>3. req'[r].pc = "create" /\ req'[r].book = req[r].book
    BY <1>1, <1>2 DEF Acquisition
  <1> SUFFICES ASSUME NEW t \in Request, NEW s \in Request, t # s, req'[t].book = req'[s].book,
                      req'[t].pc \in Missing, req'[s].pc \notin Idling
               PROVE  req'[t].book \in contended'
    BY <1>2 DEF HistoryInv, Overlap
  <1>4. /\ req'[t].book = req[t].book /\ req'[s].book = req[s].book
        /\ req[t].pc \in Missing /\ req[t].pc \notin Idling /\ req[s].pc \notin Idling
    BY <1>1, <1>2, <1>3 DEF Missing, Copying, Idling
  <1>5. req[t].book \in contended
    BY <1>4 DEF HistoryInv, Overlap
  <1>6. CASE t = r \/ s = r
    <2>1. Others(r) # {}
      BY <1>4, <1>6 DEF Others, BookOf
    <2>2. QED BY <1>2, <1>4, <1>5, <2>1
  <1>7. CASE t # r /\ s # r
    <2>1. Others(r) = {} => req[t].book # req[r].book
      BY <1>4, <1>7 DEF Others, BookOf
    <2>2. QED BY <1>2, <1>4, <1>5, <2>1
  <1>8. QED BY <1>6, <1>7

LEMMA AdmitKeepsHistory ==
    ASSUME ShapeInv, HistoryInv, NEW r \in Request, Admit(r)
    PROVE  HistoryInv'
  <1>1. /\ req'[r] = Idle \/ req'[r] = [req[r] EXCEPT !.pc = "leased", !.plan = {},
                                                 !.size = NoSizes, !.order = {}, !.total = 0]
        /\ \A s \in Request \ {r} : req'[s] = req[s]
    BY AdmitShapes
  <1>2. /\ req[r].pc = "evict" /\ req[r] \in Acquisition /\ req[r].book \in Book
        /\ contended' = contended \/ contended' = contended \cup {req[r].book}
    BY BookIsOne DEF Admit, At, Overlaps, BookOf, ShapeInv, RequestsTyped
  <1>3. /\ req'[r].pc \notin Missing
        /\ req'[r].pc \in Idling \/ req'[r].book = req[r].book
        /\ req[r].pc \notin Idling
    <2>1. CASE req'[r] = Idle
      BY <1>2, <2>1 DEF Idle, Idling, Missing, Copying
    <2>2. CASE req'[r] = [req[r] EXCEPT !.pc = "leased", !.plan = {}, !.size = NoSizes,
                                        !.order = {}, !.total = 0]
      BY <1>2, <2>2 DEF Acquisition, Idling, Missing, Copying
    <2>3. QED BY <1>1, <2>1, <2>2
  <1> SUFFICES ASSUME NEW t \in Request, NEW s \in Request, t # s, req'[t].book = req'[s].book,
                      req'[t].pc \in Missing, req'[s].pc \notin Idling
               PROVE  req'[t].book \in contended
    BY <1>2 DEF HistoryInv, Overlap
  <1>4. /\ req'[t].book = req[t].book /\ req[t].pc \in Missing
        /\ req'[s].book = req[s].book /\ req[s].pc \notin Idling
    BY <1>1, <1>3
  <1>5. QED BY <1>4 DEF HistoryInv, Overlap

\* The steps whose request goes on with its book, and begins no miss.
LEMMA OnwardKeepsHistory ==
    ASSUME ShapeInv, HistoryInv, NEW r \in Request,
           \/ Touch(r) \/ Create(r) \/ Copy(r) \/ Rename(r) \/ Verify(r) \/ Stamp(r)
           \/ Record(r) \/ Survey(r) \/ Evict(r) \/ OpenReader(r) \/ Drop(r) \/ Fail(r)
    PROVE  HistoryInv'
  <1>1. UNCHANGED contended
    BY DEF Touch, Create, Copy, Rename, Verify, Stamp, Record, Survey, Evict, OpenReader, Drop,
           Fail
  <1>2. req \in [Request -> Acquisition]
    BY DEF ShapeInv, RequestsTyped
  <1>3. \A s \in Request \ {r} : req'[s] = req[s]
    <2>1. CASE Evict(r)
      BY <2>1, EvictShapes
    <2>2. CASE Create(r)
      BY <2>2, CreateShapes
    <2>3. CASE ~Evict(r) /\ ~Create(r)
      BY <1>2, <2>3, TouchShapes, CopyShapes, RenameShapes, VerifyShapes, StampShapes,
         RecordShapes, SurveyShapes, OpenReaderShapes, DropShapes, FailShapes
    <2>4. QED BY <2>1, <2>2, <2>3
  <1>4. CASE req'[r] = Idle
    BY <1>1, <1>3, <1>4, MoveKeepsHistory DEF Idle, Idling
  <1>5. ASSUME req'[r] # Idle
        PROVE  /\ req'[r].book = req[r].book /\ req[r].pc \notin Idling
               /\ req'[r].pc \in Missing => req[r].pc \in Missing
    <2>0. req[r] \in Acquisition
      BY <1>2
    <2> USE DEF Idling, Missing, Copying
    <2>1. CASE Touch(r)
      <3>1. req'[r] = [req[r] EXCEPT !.pc = "leased"]
        BY <1>5, <2>1, TouchShapes
      <3>2. req[r].pc = "touch"
        BY <2>1 DEF Touch, At
      <3>3. QED BY <2>0, <3>1, <3>2 DEF Acquisition
    <2>2. CASE Create(r)
      <3>1. PICK i : req'[r] = [req[r] EXCEPT !.pc = "copy", !.inode = i, !.copied = 0]
        BY <2>2, CreateShapes
      <3>2. req[r].pc = "create"
        BY <2>2 DEF Create, At
      <3>3. QED BY <2>0, <3>1, <3>2 DEF Acquisition
    <2>3. CASE Copy(r)
      BY <1>2, <2>3 DEF Copy, At, Acquisition
    <2>4. CASE Rename(r)
      <3>1. req'[r] = [req[r] EXCEPT !.pc = "verify", !.inode = NoFile, !.copied = 0]
        BY <1>5, <2>4, RenameShapes
      <3>2. req[r].pc = "copy"
        BY <2>4 DEF Rename, At
      <3>3. QED BY <2>0, <3>1, <3>2 DEF Acquisition
    <2>5. CASE Verify(r)
      <3>1. req'[r] = [req[r] EXCEPT !.pc = "stamp", !.version = source[req[r].book]]
        BY <1>5, <2>5, VerifyShapes
      <3>2. req[r].pc = "verify"
        BY <2>5 DEF Verify, At
      <3>3. QED BY <2>0, <3>1, <3>2 DEF Acquisition
    <2>6. CASE Stamp(r)
      <3>1. req'[r] = [req[r] EXCEPT !.pc = "record"]
        BY <1>5, <2>6, StampShapes
      <3>2. req[r].pc = "stamp"
        BY <2>6 DEF Stamp, At
      <3>3. QED BY <2>0, <3>1, <3>2 DEF Acquisition
    <2>7. CASE Record(r)
      <3>1. req'[r] = [req[r] EXCEPT !.pc = "survey"]
        BY <1>5, <2>7, RecordShapes
      <3>2. req[r].pc = "record"
        BY <2>7 DEF Record, At
      <3>3. QED BY <2>0, <3>1, <3>2 DEF Acquisition
    <2>8. CASE Survey(r)
      <3>1. req[r].pc = "survey" /\ req[r] \in Acquisition
        BY <1>2, <2>8 DEF Survey, At
      <3>2. req'[r].book = req[r].book /\ req'[r].pc = "evict"
        <4>1. req'[r] = [req[r] EXCEPT !.pc = "evict", !.plan = Cached, !.size = Sizes,
                                       !.order = Order \cap (Cached \X Cached),
                                       !.total = Bytes(Cached)]
          BY <2>8, SurveyShapes
        <4>2. QED BY <3>1, <4>1 DEF Acquisition
      <3>3. QED BY <3>1, <3>2
    <2>9. CASE Evict(r)
      <3>1. req[r].pc = "evict" /\ req[r] \in Acquisition
        BY <1>2, <2>9 DEF Evict, At
      <3>2. req'[r].book = req[r].book /\ req'[r].pc = "evict"
        <4>1. PICK c \in req[r].plan :
                  \/ req'[r] = [req[r] EXCEPT !.plan = req[r].plan \ {c}]
                  \/ req'[r] = [req[r] EXCEPT !.plan = req[r].plan \ {c},
                                             !.total = req[r].total - req[r].size[c]]
          BY <2>9, EvictShapes
        <4>2. QED BY <3>1, <4>1 DEF Acquisition
      <3>3. QED BY <3>1, <3>2
    <2>10. CASE OpenReader(r)
      <3>1. req[r].pc = "leased" /\ req[r] \in Acquisition
        BY <1>2, <2>10 DEF OpenReader, At
      <3>2. req'[r] = [req[r] EXCEPT !.pc = "reading", !.inode = file[req[r].book]]
        BY <1>5, <2>10, OpenReaderShapes
      <3>3. req'[r].book = req[r].book /\ req'[r].pc = "reading"
        BY <3>1, <3>2 DEF Acquisition
      <3>4. QED BY <3>1, <3>3
    <2>11. CASE Drop(r) \/ Fail(r)
      BY <1>5, <2>11, DropShapes, FailShapes
    <2>12. QED BY <2>1, <2>2, <2>3, <2>4, <2>5, <2>6, <2>7, <2>8, <2>9, <2>10, <2>11
  <1>6. QED BY <1>1, <1>3, <1>4, <1>5, MoveKeepsHistory

LEMMA HistoryStays ==
    ASSUME ShapeInv, HistoryInv, [Next]_vars
    PROVE  HistoryInv'
  <1>1. CASE UNCHANGED <<req, contended>>
    BY <1>1 DEF HistoryInv, Overlap
  <1>2. CASE Restart
    <2>1. \A r \in Request : req'[r] = Idle
      BY <1>2, RestartShapes
    <2>2. UNCHANGED contended
      BY <1>2 DEF Restart
    <2>3. QED BY <2>1, <2>2 DEF HistoryInv, Overlap, Idle, Idling
  <1>3. ASSUME NEW r \in Request, Acquire(r) PROVE HistoryInv'
    <2>1. ASSUME NEW b \in Book, Ask(r, b) PROVE HistoryInv'
      <3>1. UNCHANGED contended
        BY <2>1 DEF Ask
      <3>2. QED BY <2>1, <3>1, AskShapes, MoveKeepsHistory DEF Idling
    <2>2. QED BY <1>3, <2>1, OpenKeepsHistory, CheckKeepsHistory, ClearKeepsHistory,
                 AdmitKeepsHistory, OnwardKeepsHistory DEF Acquire
  <1>4. ASSUME NEW r \in Request, Use(r) PROVE HistoryInv'
    BY <1>4, OnwardKeepsHistory DEF Use
  <1>5. QED BY <1>1, <1>2, <1>3, <1>4
            DEF Next, Environment, SourceChanges, Delete, Invalidate, vars

LEMMA HistoryStarts == Init => HistoryInv
  BY DEF Init, HistoryInv, Overlap, Idle, Idling

LEMMA ShapeIsOK == ShapeInv /\ HistoryInv => CacheOK
  BY DEF ShapeInv, HistoryInv, WorldTyped, DiskTyped, TableTyped, RequestsTyped, BudgetTyped,
         CacheOK, TypeOK, RowsAreOfBooks

\* Whatever acquisitions run together, fail or are overtaken by deletions and restarts, the
\* cache's state stays well formed: what an eviction counts down never goes below what it
\* has still to consider, a temporary file always finds a name, rows keep one order and are
\* of books of the library.
THEOREM CacheStaysWellFormed == Spec => []CacheOK
  <1>1. Init => ShapeInv /\ HistoryInv
    BY ShapeStarts, HistoryStarts
  <1>2. ShapeInv /\ HistoryInv /\ [Next]_vars => (ShapeInv /\ HistoryInv)'
    BY ShapeStays, HistoryStays
  <1>3. ShapeInv /\ HistoryInv => CacheOK
    BY ShapeIsOK
  <1>4. QED BY <1>1, <1>2, <1>3, PTL DEF Spec

-----------------------------------------------------------------------------
(* The invariant's second part: what an acquisition may rely on while its book is not      *)
(* contended.                                                                          *)

\* The steps after the copy, or the hit.
Copied == {"touch", "stamp", "record", "survey", "evict", "leased"}

Relies(r) ==
    LET q == req[r]
        b == q.book
        known == b \in Persistable
    IN  /\ q.pc \notin Idling => source[b] >= q.version
        /\ b \notin contended =>
              /\ q.pc \in Copying => file[b] = NoFile
              /\ q.pc \in Copying \cup {"verify", "stamp"} => fingerprint[b] = NoVersion
              /\ q.pc = "copy" => q.inode = tmp[b]
              /\ q.pc = "copy" /\ known /\ source[b] = q.version =>
                    /\ q.copied <= Length[q.version]
                    /\ content[q.inode] = [k \in 1..q.copied |-> q.version]
              /\ q.pc = "verify" /\ known /\ source[b] = q.version /\ file[b] # NoFile =>
                    Whole(content[file[b]], q.version)
              /\ q.pc \in Copied /\ known /\ file[b] # NoFile => Whole(content[file[b]], q.version)
              /\ q.pc \in Copied \cup {"verify"} /\ b \in books => file[b] # NoFile
              /\ q.pc = "reading" /\ known => Whole(content[q.inode], q.version)

\* A temporary file is one that a request writes.
TemporaryIsCopied ==
    \A b \in Book : tmp[b] # NoFile => \E r \in Request : req[r].pc = "copy" /\ req[r].book = b

CopyInv ==
    /\ \A r \in Request : Relies(r)
    /\ FingerprintTellsTruth
    /\ TemporaryIsCopied
    /\ books \cap doomed = {}

LEMMA CopyIsSound == ShapeInv /\ CopyInv => LeaseIsSound /\ FingerprintTellsTruth
  <1> SUFFICES ASSUME ShapeInv, CopyInv, NEW r \in Request
               PROVE  LET b == req[r].book
                          Sound(i) == /\ i # NoFile
                                      /\ b \in Persistable => Whole(content[i], req[r].version)
                      IN  /\ req[r].pc = "leased" /\ b \in books \ contended => Sound(file[b])
                          /\ req[r].pc = "reading" /\ b \notin contended => Sound(req[r].inode)
    BY DEF LeaseIsSound, CopyInv, BookOf, At
  <1>1. Relies(r) /\ Shaped(req[r])
    BY DEF CopyInv, ShapeInv, RequestsTyped
  <1>2. QED BY <1>1 DEF Relies, Shaped, Copied

LEMMA IdlingRelies ==
    ASSUME NEW r \in Request, req'[r].pc \in Idling
    PROVE  Relies(r)'
  BY DEF Relies, Idling, Copying, Copied

LEMMA IdleRelies ==
    ASSUME NEW r \in Request, req'[r] = Idle
    PROVE  Relies(r)'
  BY IdlingRelies DEF Idle, Idling

\* What a request relies on stays while nothing of its book changes, but the source, or
\* the file of a deleted book that is removed.
LEMMA StillRelies ==
    ASSUME ShapeInv, ShapeInv', NEW s \in Request, Relies(s), req'[s] = req[s],
           req[s].pc \notin Idling =>
              LET b == req[s].book
              IN  /\ source'[b] >= source[b]
                  /\ b \notin contended' =>
                        /\ b \notin contended /\ tmp'[b] = tmp[b]
                        /\ b \in books' => b \in books
                        /\ fingerprint'[b] \in {fingerprint[b], NoVersion}
                        /\ file'[b] = file[b] \/ (file'[b] = NoFile /\ b \notin books')
                        /\ \A i \in Inode \cap Linked(file', tmp', req') :
                              i[1] = b => content'[i] = content[i]
    PROVE  Relies(s)'
  <1> DEFINE q == req[s]
             b == q.book
  <1>1. CASE q.pc \in Idling
    BY <1>1, IdlingRelies
  <1>2. CASE q.pc \notin Idling /\ b \notin contended'
    <2>1. /\ b \in Book /\ Shaped(q) /\ q \in Acquisition
      BY <1>2, BookIsOne DEF Idling, ShapeInv, RequestsTyped
    <2>2. /\ source[b] \in Nat /\ source'[b] \in Nat /\ q.version \in Nat
      BY <1>2, <2>1, Names DEF Shaped, Idling, ShapeInv, WorldTyped
    <2>3. file'[b] # NoFile => content'[file'[b]] = content[file[b]] /\ file'[b] = file[b]
      <3> SUFFICES ASSUME file'[b] # NoFile
                   PROVE  content'[file'[b]] = content[file[b]] /\ file'[b] = file[b]
        OBVIOUS
      <3>1. file'[b] = file[b] /\ file'[b] \in Inode /\ file'[b][1] = b
        BY <1>2, <2>1 DEF ShapeInv, DiskTyped
      <3>2. file'[b] \in Linked(file', tmp', req')
        BY <2>1 DEF Linked
      <3>3. QED BY <1>2, <3>1, <3>2
    <2>4. q.pc \in {"copy", "reading"} => content'[q.inode] = content[q.inode]
      <3> SUFFICES ASSUME q.pc \in {"copy", "reading"}
                   PROVE  content'[q.inode] = content[q.inode]
        OBVIOUS
      <3>1. q.inode \in Inode /\ q.inode[1] = b
        BY <2>1 DEF Shaped, Acquisition
      <3>2. q.inode \in Linked(file', tmp', req')
        BY DEF Linked
      <3>3. QED BY <1>2, <3>1, <3>2
    <2>5. QED
      BY <1>2, <2>2, <2>3, <2>4 DEF Relies
  <1>3. CASE q.pc \notin Idling /\ b \in contended'
    <2>1. /\ b \in Book /\ Shaped(q)
      BY <1>3, BookIsOne DEF Idling, ShapeInv, RequestsTyped
    <2>2. /\ source[b] \in Nat /\ source'[b] \in Nat /\ q.version \in Nat
      BY <1>3, <2>1, Names DEF Shaped, Idling, ShapeInv, WorldTyped
    <2>3. source'[b] >= q.version
      BY <1>3, <2>2 DEF Relies
    <2>4. QED BY <1>3, <2>3 DEF Relies
  <1>4. QED BY <1>1, <1>2, <1>3

\* A fingerprint stays true while its file stays.
LEMMA StillTrue ==
    ASSUME ShapeInv, ShapeInv', FingerprintTellsTruth, KeepsContent,
           \A b \in Book \ contended' : file'[b] # NoFile =>
              /\ b \notin contended
              /\ file'[b] = file[b] /\ fingerprint'[b] \in {fingerprint[b], NoVersion}
    PROVE  FingerprintTellsTruth'
  <1> SUFFICES ASSUME NEW b \in Book \ contended', file'[b] # NoFile, fingerprint'[b] # NoVersion
               PROVE  Whole(content'[file'[b]], fingerprint'[b])
    BY DEF FingerprintTellsTruth, Cached, Whole
  <1>1. b \notin contended /\ file'[b] = file[b] /\ fingerprint'[b] = fingerprint[b]
    OBVIOUS
  <1>2. Whole(content[file[b]], fingerprint[b])
    BY <1>1 DEF FingerprintTellsTruth, Cached
  <1>3. content'[file'[b]] = content[file[b]]
    <2>1. file'[b] \in Inode
      BY DEF ShapeInv, DiskTyped
    <2>2. file'[b] \in Linked(file', tmp', req')
      BY DEF Linked
    <2>3. QED BY <1>1, <2>1, <2>2 DEF KeepsContent
  <1>4. QED BY <1>1, <1>2, <1>3

\* A step of a request that leaves the books of the others alone.
LEMMA StepKeepsCopies ==
    ASSUME ShapeInv, ShapeInv', CopyInv, NEW r \in Request, UNCHANGED world,
           \A s \in Request \ {r} : req'[s] = req[s],
           \A s \in Request \ {r} : req[s].pc \notin Idling /\ req[s].book \notin contended' =>
              LET b == req[s].book
              IN  /\ b \notin contended
                  /\ tmp'[b] = tmp[b] /\ fingerprint'[b] = fingerprint[b] /\ file'[b] = file[b]
                  /\ \A i \in Inode \cap Linked(file', tmp', req') :
                        i[1] = b => content'[i] = content[i],
           \A b \in Book : tmp'[b] # NoFile =>
              \/ req'[r].pc = "copy" /\ req'[r].book = b
              \/ tmp[b] # NoFile /\ ~(req[r].pc = "copy" /\ req[r].book = b),
           Relies(r)', FingerprintTellsTruth'
    PROVE  CopyInv'
  <1>1. UNCHANGED <<books, doomed, source>>
    BY DEF world
  <1>2. ASSUME NEW s \in Request \ {r} PROVE Relies(s)'
    <2>1. Relies(s) /\ req'[s] = req[s]
      BY DEF CopyInv
    <2>2. req[s].pc \notin Idling => source[req[s].book] \in Nat
      BY BookIsOne, Names DEF Idling, ShapeInv, WorldTyped
    <2>3. QED BY <1>1, <2>1, <2>2, StillRelies
  <1>3. TemporaryIsCopied'
    <2> SUFFICES ASSUME NEW b \in Book, tmp'[b] # NoFile
                 PROVE  \E s \in Request : req'[s].pc = "copy" /\ req'[s].book = b
      BY DEF TemporaryIsCopied
    <2>1. CASE tmp[b] # NoFile /\ ~(req[r].pc = "copy" /\ req[r].book = b)
      <3>1. PICK s \in Request : req[s].pc = "copy" /\ req[s].book = b
        BY <2>1 DEF CopyInv, TemporaryIsCopied
      <3>2. s # r
        BY <2>1, <3>1
      <3>3. QED BY <3>1, <3>2
    <2>2. QED BY <2>1
  <1>4. books' \cap doomed' = {}
    BY <1>1 DEF CopyInv
  <1>5. \A s \in Request : Relies(s)'
    BY <1>2
  <1>6. QED BY <1>3, <1>4, <1>5 DEF CopyInv

LEMMA QuietKeepsCopies ==
    ASSUME ShapeInv, ShapeInv', CopyInv, NEW r \in Request, UNCHANGED <<disk, world>>,
           contended \subseteq contended',
           req[r].pc # "copy", \A s \in Request \ {r} : req'[s] = req[s], Relies(r)'
    PROVE  CopyInv'
  <1>1. UNCHANGED <<file, tmp, fingerprint, content>>
    BY DEF disk
  <1>2. FingerprintTellsTruth'
    <2>1. KeepsContent
      BY SameKeeps
    <2>2. QED BY <1>1, <2>1, StillTrue DEF CopyInv
  <1>3. QED BY <1>1, <1>2, StepKeepsCopies

LEMMA MissIsAlone ==
    ASSUME HistoryInv, NEW r \in Request, req[r].pc \in Missing, req[r].book \notin contended
    PROVE  Others(r) = {}
  BY DEF HistoryInv, Overlap, Others, BookOf

LEMMA OtherBooks ==
    ASSUME ShapeInv, HistoryInv, CopyInv, NEW r \in Request, req[r].pc \in Missing,
           req[r].book \notin contended
    PROVE  /\ req[r].book \in Book
           /\ \A s \in Request \ {r} : req[s].pc \notin Idling => req[s].book # req[r].book
           /\ req[r].pc # "copy" => tmp[req[r].book] = NoFile
  <1>1. req[r].book \in Book
    BY BookIsOne DEF Missing, Copying
  <1>2. \A s \in Request \ {r} : req[s].pc \notin Idling => req[s].book # req[r].book
    BY MissIsAlone DEF Others, BookOf
  <1>3. ASSUME req[r].pc # "copy", tmp[req[r].book] # NoFile PROVE FALSE
    <2>1. PICK s \in Request : req[s].pc = "copy" /\ req[s].book = req[r].book
      BY <1>1, <1>3 DEF CopyInv, TemporaryIsCopied
    <2>2. QED BY <1>2, <1>3, <2>1 DEF Idling
  <1>4. QED BY <1>1, <1>2, <1>3

\* What a request does to a contended book concerns no other.
LEMMA ContendedKeepsCopies ==
    ASSUME ShapeInv, ShapeInv', CopyInv, NEW r \in Request, req[r].pc # "idle",
           req[r].book \in contended, UNCHANGED <<world, contended>>,
           \A s \in Request \ {r} : req'[s] = req[s],
           \A c \in Book \ {req[r].book} :
              file'[c] = file[c] /\ tmp'[c] = tmp[c] /\ fingerprint'[c] = fingerprint[c],
           \A i \in Inode \cap Linked(file', tmp', req') :
              i[1] # req[r].book => content'[i] = content[i],
           \/ req'[r].pc \in Idling
           \/ req'[r].book = req[r].book /\ source[req[r].book] >= req'[r].version,
           tmp'[req[r].book] # NoFile =>
              \/ req'[r].pc = "copy" /\ req'[r].book = req[r].book
              \/ tmp[req[r].book] # NoFile /\ req[r].pc # "copy"
    PROVE  CopyInv'
  <1> DEFINE b == req[r].book
  <1>1. b \in Book /\ UNCHANGED source
    BY BookIsOne DEF world
  <1>2. Relies(r)'
    BY <1>1, IdlingRelies DEF Relies
  <1>3. FingerprintTellsTruth'
    <2> SUFFICES ASSUME NEW c \in Book \ contended', file'[c] # NoFile, fingerprint'[c] # NoVersion
                 PROVE  Whole(content'[file'[c]], fingerprint'[c])
      BY DEF FingerprintTellsTruth, Cached, Whole
    <2>1. c # b /\ c \notin contended /\ file'[c] = file[c] /\ fingerprint'[c] = fingerprint[c]
      OBVIOUS
    <2>2. Whole(content[file[c]], fingerprint[c])
      BY <2>1 DEF CopyInv, FingerprintTellsTruth, Cached
    <2>3. file'[c] \in Inode /\ file'[c][1] = c /\ file'[c] \in Linked(file', tmp', req')
      BY DEF ShapeInv, DiskTyped, Linked
    <2>4. QED BY <2>1, <2>2, <2>3
  <1>4. ASSUME NEW s \in Request \ {r}, req[s].pc \notin Idling, req[s].book \notin contended'
        PROVE  LET c == req[s].book
               IN  /\ c \notin contended
                   /\ tmp'[c] = tmp[c] /\ fingerprint'[c] = fingerprint[c] /\ file'[c] = file[c]
                   /\ \A i \in Inode \cap Linked(file', tmp', req') :
                         i[1] = c => content'[i] = content[i]
    <2>1. req[s].book \in Book /\ req[s].book # b
      BY <1>4, BookIsOne DEF Idling
    <2>2. QED BY <1>4, <2>1
  <1>5. \A c \in Book : tmp'[c] # NoFile =>
           \/ req'[r].pc = "copy" /\ req'[r].book = c
           \/ tmp[c] # NoFile /\ ~(req[r].pc = "copy" /\ req[r].book = c)
    OBVIOUS
  <1>6. QED BY <1>2, <1>3, <1>4, <1>5, StepKeepsCopies

\* Steps that leave the disk as it is.
LEMMA AskCopies ==
    ASSUME ShapeInv, CopyInv, NEW r \in Request, NEW b \in Book, Ask(r, b)
    PROVE  CopyInv'
  <1>1. /\ ShapeInv' /\ req'[r].pc = "found" /\ \A s \in Request \ {r} : req'[s] = req[s]
    BY AskShapes
  <1>2. UNCHANGED <<disk, world, contended>> /\ req[r].pc = "idle"
    BY DEF Ask, At
  <1>3. Relies(r)'
    BY <1>1, IdlingRelies DEF Idling
  <1>4. QED BY <1>1, <1>2, <1>3, QuietKeepsCopies

LEMMA OpenCopies ==
    ASSUME ShapeInv, CopyInv, NEW r \in Request, Open(r)
    PROVE  CopyInv'
  <1>1. /\ ShapeInv' /\ req'[r].pc = "check" /\ req'[r].book = req[r].book
        /\ req'[r].version = source[req[r].book]
        /\ \A s \in Request \ {r} : req'[s] = req[s]
    BY OpenShapes
  <1>2. /\ UNCHANGED <<disk, world>> /\ req[r].pc = "found" /\ UNCHANGED source
        /\ contended \subseteq contended'
    BY DEF Open, At, world, Overlaps
  <1>3. source[req[r].book] \in Nat
    BY <1>2, BookIsOne, Names DEF ShapeInv, WorldTyped
  <1>4. Relies(r)'
    BY <1>1, <1>2, <1>3 DEF Relies, Idling, Copying, Copied
  <1>5. QED BY <1>1, <1>2, <1>4, QuietKeepsCopies

LEMMA CheckCopies ==
    ASSUME ShapeInv, CopyInv, NEW r \in Request, Check(r)
    PROVE  CopyInv'
  <1> DEFINE hit == Hit(req[r].book, req[r].version)
  <1>1. /\ ShapeInv' /\ req'[r] = [req[r] EXCEPT !.pc = IF hit THEN "touch" ELSE "clear"]
        /\ \A s \in Request \ {r} : req'[s] = req[s]
    BY CheckShapes
  <1>2. /\ UNCHANGED <<disk, world>> /\ req[r].pc = "check" /\ Relies(r)
        /\ req[r].book \in Book /\ req[r] \in Acquisition
        /\ UNCHANGED <<file, fingerprint, content, source, books>>
        /\ contended \subseteq contended'
    BY BookIsOne DEF Check, At, Overlaps, CopyInv, ShapeInv, RequestsTyped, disk, world
  <1>3. hit /\ req[r].book \notin contended =>
               /\ req[r].book \in Persistable /\ file[req[r].book] # NoFile
               /\ Whole(content[file[req[r].book]], req[r].version)
    BY <1>2 DEF Hit, Matches, CopyInv, FingerprintTellsTruth, Cached
  <1>4. /\ req'[r].pc = IF hit THEN "touch" ELSE "clear"
        /\ req'[r].book = req[r].book /\ req'[r].version = req[r].version
    BY <1>1, <1>2 DEF Acquisition
  <1> HIDE DEF hit
  <1>5. Relies(r)'
    BY <1>2, <1>3, <1>4 DEF Relies, Idling, Copying, Copied, Whole
  <1>6. QED BY <1>1, <1>2, <1>5, QuietKeepsCopies

LEMMA TouchCopies ==
    ASSUME ShapeInv, CopyInv, NEW r \in Request, Touch(r)
    PROVE  CopyInv'
  <1>1. /\ ShapeInv'
        /\ req'[r] = Idle \/ req'[r] = [req[r] EXCEPT !.pc = "leased"]
        /\ \A s \in Request \ {r} : req'[s] = req[s]
    BY TouchShapes
  <1>2. /\ UNCHANGED <<disk, world, contended>> /\ req[r].pc = "touch" /\ Relies(r)
        /\ req[r] \in Acquisition
        /\ UNCHANGED <<file, fingerprint, content, source, books>>
    BY DEF Touch, At, CopyInv, ShapeInv, RequestsTyped, disk, world
  <1>3. ASSUME req'[r] = [req[r] EXCEPT !.pc = "leased"] PROVE Relies(r)'
    <2>1. /\ req'[r].pc = "leased" /\ req'[r].book = req[r].book
          /\ req'[r].version = req[r].version
      BY <1>2, <1>3 DEF Acquisition
    <2>2. QED BY <1>2, <2>1 DEF Relies, Idling, Copying, Copied, Whole
  <1>4. Relies(r)'
    BY <1>1, <1>3, IdleRelies
  <1>5. QED BY <1>1, <1>2, <1>4, QuietKeepsCopies

LEMMA RecordCopies ==
    ASSUME ShapeInv, CopyInv, NEW r \in Request, Record(r)
    PROVE  CopyInv'
  <1>1. /\ ShapeInv'
        /\ req'[r] = Idle \/ req'[r] = [req[r] EXCEPT !.pc = "survey"]
        /\ \A s \in Request \ {r} : req'[s] = req[s]
    BY RecordShapes
  <1>2. /\ UNCHANGED <<disk, world, contended>> /\ req[r].pc = "record" /\ Relies(r)
        /\ req[r] \in Acquisition
        /\ UNCHANGED <<file, fingerprint, content, source, books>>
    BY DEF Record, At, CopyInv, ShapeInv, RequestsTyped, disk, world
  <1>3. ASSUME req'[r] = [req[r] EXCEPT !.pc = "survey"] PROVE Relies(r)'
    <2>1. /\ req'[r].pc = "survey" /\ req'[r].book = req[r].book
          /\ req'[r].version = req[r].version
      BY <1>2, <1>3 DEF Acquisition
    <2>2. QED BY <1>2, <2>1 DEF Relies, Idling, Copying, Copied, Whole
  <1>4. Relies(r)'
    BY <1>1, <1>3, IdleRelies
  <1>5. QED BY <1>1, <1>2, <1>4, QuietKeepsCopies

LEMMA SurveyCopies ==
    ASSUME ShapeInv, CopyInv, NEW r \in Request, Survey(r)
    PROVE  CopyInv'
  <1>1. /\ ShapeInv'
        /\ req'[r] = [req[r] EXCEPT !.pc = "evict", !.plan = Cached, !.size = Sizes,
                                    !.order = Order \cap (Cached \X Cached),
                                    !.total = Bytes(Cached)]
        /\ \A s \in Request \ {r} : req'[s] = req[s]
    BY SurveyShapes
  <1>2. /\ UNCHANGED <<disk, world, contended>> /\ req[r].pc = "survey" /\ Relies(r)
        /\ req[r] \in Acquisition
        /\ UNCHANGED <<file, fingerprint, content, source, books>>
    BY DEF Survey, At, CopyInv, ShapeInv, RequestsTyped, disk, world
  <1>3. /\ req'[r].pc = "evict" /\ req'[r].book = req[r].book
        /\ req'[r].version = req[r].version
    BY <1>1, <1>2 DEF Acquisition
  <1>4. Relies(r)'
    BY <1>2, <1>3 DEF Relies, Idling, Copying, Copied, Whole
  <1>5. QED BY <1>1, <1>2, <1>4, QuietKeepsCopies

LEMMA OpenReaderCopies ==
    ASSUME ShapeInv, CopyInv, NEW r \in Request, OpenReader(r)
    PROVE  CopyInv'
  <1>1. /\ ShapeInv'
        /\ \/ /\ file[req[r].book] # NoFile
              /\ req'[r] = [req[r] EXCEPT !.pc = "reading", !.inode = file[req[r].book]]
           \/ req'[r] = Idle
        /\ \A s \in Request \ {r} : req'[s] = req[s]
    BY OpenReaderShapes
  <1>2. /\ UNCHANGED <<disk, world, contended>> /\ req[r].pc = "leased" /\ Relies(r)
        /\ req[r] \in Acquisition
        /\ UNCHANGED <<file, fingerprint, content, source, books>>
    BY DEF OpenReader, At, CopyInv, ShapeInv, RequestsTyped, disk, world
  <1>3. ASSUME file[req[r].book] # NoFile,
               req'[r] = [req[r] EXCEPT !.pc = "reading", !.inode = file[req[r].book]]
        PROVE  Relies(r)'
    <2>1. /\ req'[r].pc = "reading" /\ req'[r].book = req[r].book
          /\ req'[r].version = req[r].version /\ req'[r].inode = file[req[r].book]
      BY <1>2, <1>3 DEF Acquisition
    <2>2. QED BY <1>2, <1>3, <2>1 DEF Relies, Idling, Copying, Copied, Whole
  <1>4. Relies(r)'
    BY <1>1, <1>3, IdleRelies
  <1>5. QED BY <1>1, <1>2, <1>4, QuietKeepsCopies

\* Steps that take files away.
LEMMA SheddingKeepsCopies ==
    ASSUME ShapeInv, ShapeInv', CopyInv, NEW r \in Request, UNCHANGED world,
           \A s \in Request \ {r} : req'[s] = req[s], KeepsContent,
           \A c \in Book :
              \/ c \in contended'
              \/ c \notin contended /\ file'[c] = file[c] /\ fingerprint'[c] = fingerprint[c]
              \/ file'[c] = NoFile /\ c = req[r].book /\ Others(r) = {}
              \/ file'[c] = NoFile /\ c \notin contended /\ ~Active(c),
           \A c \in Book :
              \/ tmp'[c] = tmp[c]
              \/ tmp'[c] = NoFile /\ c = req[r].book /\ (Others(r) = {} \/ c \in contended'),
           req[r].pc = "copy" => tmp'[req[r].book] = NoFile,
           Relies(r)'
    PROVE  CopyInv'
  <1>1. ASSUME NEW s \in Request \ {r}, req[s].pc \notin Idling, req[s].book \notin contended'
        PROVE  LET b == req[s].book
               IN  /\ b \notin contended
                   /\ tmp'[b] = tmp[b] /\ fingerprint'[b] = fingerprint[b] /\ file'[b] = file[b]
                   /\ \A i \in Inode \cap Linked(file', tmp', req') :
                         i[1] = b => content'[i] = content[i]
    <2>1. req[s].book \in Book
      BY <1>1, BookIsOne DEF Idling
    <2>2. Active(req[s].book)
      BY <1>1 DEF Active, Idling
    <2>3. Others(r) = {} => req[s].book # req[r].book
      BY <1>1 DEF Others, BookOf
    <2>4. QED BY <1>1, <2>1, <2>2, <2>3 DEF KeepsContent
  <1>2. FingerprintTellsTruth'
    BY StillTrue DEF CopyInv
  <1>3. \A b \in Book : tmp'[b] # NoFile =>
           tmp[b] # NoFile /\ ~(req[r].pc = "copy" /\ req[r].book = b)
    OBVIOUS
  <1>4. QED BY <1>1, <1>2, <1>3, StepKeepsCopies

LEMMA ClearCopies ==
    ASSUME ShapeInv, HistoryInv, CopyInv, NEW r \in Request, Clear(r)
    PROVE  CopyInv'
  <1> DEFINE b == req[r].book
  <1>1. /\ ShapeInv' /\ KeepsContent /\ Unlinks(b)
        /\ req'[r] = [req[r] EXCEPT !.pc = "create"]
        /\ \A s \in Request \ {r} : req'[s] = req[s]
    BY ClearShapes
  <1>2. /\ UNCHANGED world /\ UNCHANGED source /\ req[r].pc = "clear" /\ Relies(r)
        /\ req[r] \in Acquisition /\ req[r].pc \notin Idling /\ b \in Book
        /\ contended' = IF Others(r) = {} THEN contended \ {b} ELSE contended
    BY BookIsOne DEF Clear, At, Begins, BookOf, CopyInv, ShapeInv, RequestsTyped, world, Idling
  <1>3. /\ file'[b] = NoFile /\ fingerprint'[b] = NoVersion
        /\ \A c \in Book \ {b} : file'[c] = file[c] /\ fingerprint'[c] = fingerprint[c]
        /\ tmp' = tmp
    BY <1>1, <1>2, Unlinked DEF ShapeInv
  <1>4. /\ req'[r].pc = "create" /\ req'[r].book = b /\ req'[r].version = req[r].version
    BY <1>1, <1>2 DEF Acquisition
  <1>5. Relies(r)'
    BY <1>2, <1>3, <1>4 DEF Relies, Idling, Copying, Copied
  <1>6. \A c \in Book : \/ c \in contended'
                        \/ /\ c \notin contended
                           /\ file'[c] = file[c] /\ fingerprint'[c] = fingerprint[c]
                        \/ file'[c] = NoFile /\ c = b /\ Others(r) = {}
    <2>1. req[r].pc \in Missing
      BY <1>2 DEF Missing
    <2>2. b \in contended \/ Others(r) = {}
      BY <2>1, MissIsAlone
    <2>3. QED BY <1>2, <1>3, <2>2
  <1>7. QED BY <1>1, <1>2, <1>3, <1>5, <1>6, SheddingKeepsCopies

LEMMA VerifyCopies ==
    ASSUME ShapeInv, HistoryInv, CopyInv, NEW r \in Request, Verify(r)
    PROVE  CopyInv'
  <1> DEFINE b == req[r].book
             Same == /\ Matches(b, req[r].version, source[b]) /\ UNCHANGED disk
                     /\ req'[r] = [req[r] EXCEPT !.pc = "stamp", !.version = source[b]]
             Gone == file' = [file EXCEPT ![b] = NoFile] /\ req'[r] = Idle
  <1>1. /\ ShapeInv' /\ KeepsContent /\ UNCHANGED <<tmp, fingerprint>>
        /\ Same \/ Gone
        /\ \A s \in Request \ {r} : req'[s] = req[s]
    BY VerifyShapes
  <1>2. /\ UNCHANGED world /\ UNCHANGED <<source, books>> /\ req[r].pc = "verify" /\ Relies(r)
        /\ req[r] \in Acquisition /\ req[r].pc \notin Idling /\ b \in Book
        /\ source[b] \in Nat /\ UNCHANGED contended /\ req[r].pc \in Missing
    BY BookIsOne, Names
       DEF Verify, At, CopyInv, ShapeInv, RequestsTyped, WorldTyped, world, Idling, Missing
  <1>3. CASE Same
    <2>1. /\ req'[r].pc = "stamp" /\ req'[r].book = b /\ req'[r].version = source[b]
          /\ b \in Persistable => source[b] = req[r].version
          /\ UNCHANGED <<file, fingerprint, content>>
      BY <1>2, <1>3 DEF Acquisition, Matches, disk
    <2>2. Relies(r)'
      BY <1>2, <2>1 DEF Relies, Idling, Copying, Copied
    <2>3. QED BY <1>1, <1>2, <1>3, <2>2, QuietKeepsCopies
  <1>4. CASE Gone
    <2>1. file'[b] = NoFile /\ \A c \in Book \ {b} : file'[c] = file[c]
      BY <1>2, <1>4 DEF ShapeInv, DiskTyped
    <2>2. Relies(r)'
      BY <1>4, IdleRelies
    <2>3. \A c \in Book : \/ c \in contended'
                          \/ /\ c \notin contended
                             /\ file'[c] = file[c] /\ fingerprint'[c] = fingerprint[c]
                          \/ file'[c] = NoFile /\ c = b /\ Others(r) = {}
      <3>1. b \in contended \/ Others(r) = {}
        BY <1>2, MissIsAlone
      <3>2. QED BY <1>1, <1>2, <2>1, <3>1
    <2>4. QED BY <1>1, <1>2, <2>2, <2>3, SheddingKeepsCopies
  <1>5. QED BY <1>1, <1>3, <1>4

LEMMA EvictCopies ==
    ASSUME ShapeInv, CopyInv, NEW r \in Request, Evict(r)
    PROVE  CopyInv'
  <1> DEFINE plan == req[r].plan
  <1>1. /\ ShapeInv' /\ KeepsContent /\ req[r].pc = "evict"
        /\ \A s \in Request \ {r} : req'[s] = req[s]
    BY EvictShapes
  <1>2. PICK c \in plan :
           \/ UNCHANGED disk /\ req'[r] = [req[r] EXCEPT !.plan = plan \ {c}]
           \/ /\ ~Active(c) /\ Unlinks(c)
              /\ req'[r] = [req[r] EXCEPT !.plan = plan \ {c},
                                          !.total = req[r].total - req[r].size[c]]
    BY EvictShapes
  <1>3. /\ UNCHANGED world /\ UNCHANGED <<source, books, contended>> /\ Relies(r)
        /\ req[r] \in Acquisition /\ req[r].pc \notin Idling /\ req[r].book \in Book /\ c \in Book
    <2>1. req[r] \in Acquisition /\ Relies(r)
      BY DEF CopyInv, ShapeInv, RequestsTyped
    <2>2. c \in Book
      BY <2>1 DEF Acquisition
    <2>3. QED BY <1>1, <2>1, <2>2, BookIsOne DEF Evict, world, Idling
  <1>4. /\ req'[r].pc = "evict" /\ req'[r].book = req[r].book
        /\ req'[r].version = req[r].version
    BY <1>1, <1>2, <1>3 DEF Acquisition
  <1>5. CASE UNCHANGED disk
    <2>1. UNCHANGED <<file, fingerprint, content>>
      BY <1>5 DEF disk
    <2>2. Relies(r)'
      BY <1>1, <1>3, <1>4, <2>1 DEF Relies, Idling, Copying, Copied, Whole
    <2>3. QED BY <1>1, <1>3, <1>5, <2>2, QuietKeepsCopies
  <1>6. CASE ~Active(c) /\ Unlinks(c)
    <2>1. /\ file'[c] = NoFile /\ tmp' = tmp
          /\ \A d \in Book \ {c} : file'[d] = file[d] /\ fingerprint'[d] = fingerprint[d]
      BY <1>3, <1>6, Unlinked DEF ShapeInv
    <2>2. req[r].book # c
      BY <1>3, <1>6 DEF Active, Idling
    <2>3. /\ file'[req[r].book] = file[req[r].book]
          /\ file[req[r].book] # NoFile => content'[file[req[r].book]] = content[file[req[r].book]]
      <3>1. file'[req[r].book] = file[req[r].book]
        BY <1>3, <2>1, <2>2
      <3>2. file'[req[r].book] \in Linked(file', tmp', req')
        BY <1>3 DEF Linked
      <3>3. QED BY <1>1, <1>3, <3>1, <3>2 DEF KeepsContent, ShapeInv, DiskTyped
    <2>4. Relies(r)'
      BY <1>1, <1>3, <1>4, <2>3 DEF Relies, Idling, Copying, Copied, Whole
    <2>5. \A d \in Book : \/ d \in contended'
                          \/ /\ d \notin contended
                             /\ file'[d] = file[d] /\ fingerprint'[d] = fingerprint[d]
                          \/ file'[d] = NoFile /\ d \notin contended /\ ~Active(d)
      BY <1>3, <1>6, <2>1
    <2>6. QED BY <1>1, <1>3, <2>1, <2>4, <2>5, SheddingKeepsCopies
  <1>7. QED BY <1>2, <1>5, <1>6

LEMMA AdmitCopies ==
    ASSUME ShapeInv, CopyInv, NEW r \in Request, Admit(r)
    PROVE  CopyInv'
  <1> DEFINE b == req[r].book
             Given == /\ UNCHANGED <<disk, contended>>
                      /\ req'[r] = [req[r] EXCEPT !.pc = "leased", !.plan = {}, !.size = NoSizes,
                                                  !.order = {}, !.total = 0]
             Refused == Unlinks(b) /\ req'[r] = Idle /\ Overlaps(r)
  <1>1. /\ ShapeInv' /\ KeepsContent
        /\ Given \/ Refused
        /\ \A s \in Request \ {r} : req'[s] = req[s]
    BY AdmitShapes
  <1>2. /\ UNCHANGED world /\ UNCHANGED <<source, books>> /\ req[r].pc = "evict" /\ Relies(r)
        /\ req[r] \in Acquisition /\ req[r].pc \notin Idling /\ b \in Book
    BY BookIsOne DEF Admit, At, CopyInv, ShapeInv, RequestsTyped, world, Idling
  <1>3. CASE Given
    <2>1. /\ req'[r].pc = "leased" /\ req'[r].book = b /\ req'[r].version = req[r].version
          /\ UNCHANGED <<file, fingerprint, content, contended>> /\ UNCHANGED disk
      BY <1>2, <1>3 DEF Acquisition, disk
    <2>2. Relies(r)'
      BY <1>2, <2>1 DEF Relies, Idling, Copying, Copied, Whole
    <2>3. QED BY <1>1, <1>2, <2>1, <2>2, QuietKeepsCopies
  <1>4. CASE Refused
    <2>1. /\ file'[b] = NoFile /\ tmp' = tmp
          /\ \A c \in Book \ {b} : file'[c] = file[c] /\ fingerprint'[c] = fingerprint[c]
      BY <1>2, <1>4, Unlinked DEF ShapeInv
    <2>2. Relies(r)'
      BY <1>4, IdleRelies
    <2>3. \A c \in Book : \/ c \in contended'
                          \/ /\ c \notin contended
                             /\ file'[c] = file[c] /\ fingerprint'[c] = fingerprint[c]
                          \/ file'[c] = NoFile /\ c = b /\ Others(r) = {}
      BY <1>4, <2>1 DEF Overlaps, BookOf
    <2>4. QED BY <1>1, <1>2, <2>1, <2>2, <2>3, SheddingKeepsCopies
  <1>5. QED BY <1>1, <1>3, <1>4

LEMMA DropCopies ==
    ASSUME ShapeInv, CopyInv, NEW r \in Request, Drop(r)
    PROVE  CopyInv'
  <1>1. /\ ShapeInv' /\ KeepsContent /\ UNCHANGED <<file, tmp, fingerprint>>
        /\ req'[r] = Idle /\ \A s \in Request \ {r} : req'[s] = req[s]
    BY DropShapes
  <1>2. UNCHANGED <<world, contended>> /\ req[r].pc # "copy"
    BY DEF Drop, Holding
  <1>3. Relies(r)'
    BY <1>1, IdleRelies
  <1>4. QED BY <1>1, <1>2, <1>3, SheddingKeepsCopies

LEMMA FailCopies ==
    ASSUME ShapeInv, HistoryInv, CopyInv, NEW r \in Request, Fail(r)
    PROVE  CopyInv'
  <1> DEFINE b == req[r].book
  <1>1. /\ ShapeInv' /\ KeepsContent /\ UNCHANGED <<file, fingerprint>>
        /\ tmp' = IF req[r].pc \in Copying THEN [tmp EXCEPT ![b] = NoFile] ELSE tmp
        /\ req'[r] = Idle /\ \A s \in Request \ {r} : req'[s] = req[s]
    BY FailShapes
  <1>2. UNCHANGED <<world, contended>> /\ req[r].pc # "idle" /\ b \in Book
    BY BookIsOne DEF Fail, Copying
  <1>3. /\ \A c \in Book :
              \/ tmp'[c] = tmp[c]
              \/ tmp'[c] = NoFile /\ c = b /\ (Others(r) = {} \/ c \in contended')
        /\ req[r].pc = "copy" => tmp'[b] = NoFile
    <2>1. req[r].pc \in Copying => Others(r) = {} \/ b \in contended
      BY MissIsAlone DEF Missing
    <2>2. QED BY <1>1, <1>2, <2>1 DEF ShapeInv, DiskTyped, Copying
  <1>4. Relies(r)'
    BY <1>1, IdleRelies
  <1>5. QED BY <1>1, <1>2, <1>3, <1>4, SheddingKeepsCopies

\* Steps that write to the temporary file: a book that has one has no file.
LEMMA WritingKeepsCopies ==
    ASSUME ShapeInv, ShapeInv', HistoryInv, CopyInv, NEW r \in Request, req[r].pc \in Copying,
           req[r].book \notin contended, UNCHANGED <<file, fingerprint, world, contended>>,
           \A s \in Request \ {r} : req'[s] = req[s],
           NEW inode \in Inode, inode[1] = req[r].book, req'[r].pc = "copy",
           req'[r].book = req[r].book, tmp' = [tmp EXCEPT ![req[r].book] = inode],
           \A i \in Inode \ {inode} : content'[i] = content[i],
           Relies(r)'
    PROVE  CopyInv'
  <1> DEFINE b == req[r].book
  <1>1. req[r].pc \notin Idling /\ Relies(r) /\ b \in Book
    BY OtherBooks DEF Idling, Missing, Copying, CopyInv
  <1>2. \A s \in Request \ {r} : req[s].pc \notin Idling => req[s].book # b /\ req[s].book \in Book
    BY <1>1, OtherBooks, BookIsOne DEF Idling, Missing
  <1>3. \A c \in Book \ {b} : tmp'[c] = tmp[c]
    BY <1>1 DEF ShapeInv, DiskTyped
  <1>4. FingerprintTellsTruth'
    <2> SUFFICES ASSUME NEW c \in Book \ contended', file'[c] # NoFile, fingerprint'[c] # NoVersion
                 PROVE  Whole(content'[file'[c]], fingerprint'[c])
      BY DEF FingerprintTellsTruth, Cached, Whole
    <2>1. Whole(content[file[c]], fingerprint[c])
      BY DEF CopyInv, FingerprintTellsTruth, Cached
    <2>2. c # b
      BY <1>1 DEF Relies
    <2>3. file[c] \in Inode \ {inode}
      BY <2>2 DEF ShapeInv, DiskTyped
    <2>4. QED BY <2>1, <2>3
  <1>5. ASSUME NEW s \in Request \ {r}, req[s].pc \notin Idling, req[s].book \notin contended'
        PROVE  LET c == req[s].book
               IN  /\ c \notin contended
                   /\ tmp'[c] = tmp[c] /\ fingerprint'[c] = fingerprint[c] /\ file'[c] = file[c]
                   /\ \A i \in Inode \cap Linked(file', tmp', req') :
                         i[1] = c => content'[i] = content[i]
    BY <1>2, <1>3, <1>5
  <1>6. \A c \in Book : tmp'[c] # NoFile =>
           \/ req'[r].pc = "copy" /\ req'[r].book = c
           \/ tmp[c] # NoFile /\ ~(req[r].pc = "copy" /\ req[r].book = c)
    BY <1>3
  <1>7. QED BY <1>4, <1>5, <1>6, StepKeepsCopies

LEMMA CreateCopies ==
    ASSUME ShapeInv, HistoryInv, CopyInv, NEW r \in Request, Create(r)
    PROVE  CopyInv'
  <1> DEFINE b == req[r].book
  <1>1. PICK inode \in Inode :
           /\ ShapeInv'
           /\ inode[1] = b
           /\ tmp[b] # NoFile => inode = tmp[b]
           /\ tmp' = [tmp EXCEPT ![b] = inode]
           /\ content' = [content EXCEPT ![inode] = <<>>]
           /\ req'[r] = [req[r] EXCEPT !.pc = "copy", !.inode = inode, !.copied = 0]
           /\ \A s \in Request \ {r} : req'[s] = req[s]
    BY CreateShapes
  <1>2. /\ UNCHANGED <<file, fingerprint, world, contended>> /\ UNCHANGED <<source, books>>
        /\ req[r].pc = "create" /\ Relies(r) /\ req[r] \in Acquisition /\ b \in Book
    BY BookIsOne DEF Create, At, CopyInv, ShapeInv, RequestsTyped, world
  <1>3. /\ req'[r].pc = "copy" /\ req'[r].book = b /\ req'[r].version = req[r].version
        /\ req'[r].inode = inode /\ req'[r].copied = 0
    BY <1>1, <1>2 DEF Acquisition
  <1>4. /\ tmp'[b] = inode /\ content'[inode] = <<>>
        /\ \A i \in Inode \ {inode} : content'[i] = content[i]
    BY <1>1, <1>2 DEF ShapeInv, DiskTyped
  <1>5. Relies(r)'
    <2>1. req[r].version \in Version
      BY <1>2 DEF ShapeInv, RequestsTyped, Shaped
    <2>2. 0 <= Length[req[r].version]
      BY <2>1, CacheAssumption DEF Version
    <2>3. [k \in 1..0 |-> req[r].version] = <<>>
      OBVIOUS
    <2>4. QED BY <1>2, <1>3, <1>4, <2>2, <2>3 DEF Relies, Idling, Copying, Copied
  <1>6. CASE b \notin contended
    <2>1. req[r].pc \in Copying
      BY <1>2 DEF Copying
    <2>2. QED BY <1>1, <1>2, <1>3, <1>4, <1>5, <1>6, <2>1, WritingKeepsCopies
  <1>7. CASE b \in contended
    <2>1. \A c \in Book \ {b} : tmp'[c] = tmp[c]
      BY <1>1, <1>2 DEF ShapeInv, DiskTyped
    <2>2. \A i \in Inode : i[1] # b => content'[i] = content[i]
      BY <1>1, <1>4
    <2>3. source[b] >= req'[r].version
      BY <1>2, <1>3 DEF Relies, Idling
    <2>4. req[r].pc # "idle" /\ UNCHANGED <<world, contended>> /\ UNCHANGED <<file, fingerprint>>
      BY <1>2
    <2>5. \A i \in Inode \cap Linked(file', tmp', req') : i[1] # b => content'[i] = content[i]
      BY <2>2
    <2>6. QED BY <1>1, <1>2, <1>3, <1>7, <2>1, <2>3, <2>4, <2>5, ContendedKeepsCopies
  <1>8. QED BY <1>6, <1>7

LEMMA CopyCopies ==
    ASSUME ShapeInv, HistoryInv, CopyInv, NEW r \in Request, Copy(r)
    PROVE  CopyInv'
  <1> DEFINE b == req[r].book
             i == req[r].inode
             n == req[r].copied
             v == req[r].version
  <1>1. /\ ShapeInv' /\ i \in Inode /\ n \in Nat
        /\ req'[r] = [req[r] EXCEPT !.copied = n + 1]
        /\ \A s \in Request \ {r} : req'[s] = req[s]
    BY CopyShapes
  <1>2. /\ UNCHANGED <<file, tmp, fingerprint, world, contended>> /\ UNCHANGED <<source, books>>
        /\ req[r].pc = "copy" /\ Relies(r) /\ req[r] \in Acquisition /\ b \in Book
        /\ n + 1 <= Length[source[b]]
        /\ content' = [content EXCEPT ![i] = Written(@, n + 1, source[b])]
    BY BookIsOne DEF Copy, At, BookOf, CopyInv, ShapeInv, RequestsTyped, world
  <1>3. /\ req'[r].pc = "copy" /\ req'[r].book = b /\ req'[r].version = v
        /\ req'[r].inode = i /\ req'[r].copied = n + 1
    BY <1>1, <1>2 DEF Acquisition
  <1>4. /\ content'[i] = Written(content[i], n + 1, source[b])
        /\ \A j \in Inode \ {i} : content'[j] = content[j]
        /\ i[1] = b /\ (b \notin contended => tmp[b] = i /\ tmp' = [tmp EXCEPT ![b] = i])
    BY <1>1, <1>2 DEF ShapeInv, DiskTyped, RequestsTyped, Shaped, Relies
  <1>5. ASSUME b \in Persistable, source[b] = v, b \notin contended
        PROVE  content'[i] = [k \in 1..(n + 1) |-> v]
    <2>1. content[i] = [k \in 1..n |-> v]
      BY <1>2, <1>5 DEF Relies
    <2>2. Len([k \in 1..n |-> v]) = n /\ n + 1 > n
      BY <1>1
    <2>3. Written(content[i], n + 1, v) = [k \in 1..(n + 1) |-> v]
      <3> DEFINE c == content[i]
      <3>1. Len(c) = n /\ \A k \in 1..n : c[k] = v
        BY <2>1, <2>2
      <3> HIDE DEF c
      <3>2. Written(c, n + 1, v) =
              [k \in 1..(n + 1) |-> IF k = n + 1 THEN v ELSE IF k <= n THEN c[k] ELSE NoVersion]
        BY <2>2, <3>1 DEF Written
      <3>3. \A k \in 1..(n + 1) :
               (IF k = n + 1 THEN v ELSE IF k <= n THEN c[k] ELSE NoVersion) = v
        BY <1>1, <3>1
      <3>4. QED BY <3>2, <3>3 DEF c
    <2>4. QED BY <1>4, <1>5, <2>3
  <1>6. Relies(r)'
    BY <1>2, <1>3, <1>4, <1>5 DEF Relies, Idling, Copying, Copied
  <1>7. CASE b \notin contended
    <2>1. req[r].pc \in Copying
      BY <1>2 DEF Copying
    <2>2. QED BY <1>1, <1>2, <1>3, <1>4, <1>6, <1>7, <2>1, WritingKeepsCopies
  <1>8. CASE b \in contended
    <2>1. \A j \in Inode : j[1] # b => content'[j] = content[j]
      BY <1>4
    <2>2. source[b] >= req'[r].version
      BY <1>2, <1>3 DEF Relies, Idling
    <2>3. QED BY <1>1, <1>2, <1>3, <1>8, <2>1, <2>2, ContendedKeepsCopies
  <1>9. QED BY <1>7, <1>8

LEMMA RenameCopies ==
    ASSUME ShapeInv, HistoryInv, CopyInv, NEW r \in Request, Rename(r)
    PROVE  CopyInv'
  <1> DEFINE b == req[r].book
             i == tmp[b]
             v == req[r].version
  <1>1. /\ UNCHANGED <<world, contended>> /\ UNCHANGED <<source, books>>
        /\ req[r].pc = "copy" /\ Relies(r) /\ req[r] \in Acquisition /\ b \in Book
        /\ req[r].copied >= Length[source[b]] /\ req[r].pc \notin Idling
        /\ req[r].pc \in Missing
    BY BookIsOne DEF Rename, At, BookOf, CopyInv, ShapeInv, RequestsTyped, world, Idling, Missing,
                     Copying
  <1>2. CASE b \notin contended
    <2>2. i # NoFile /\ i = req[r].inode /\ file[b] = NoFile /\ fingerprint[b] = NoVersion
      BY <1>1, <1>2 DEF ShapeInv, RequestsTyped, Shaped, Relies, Copying
    <2>3. /\ ShapeInv' /\ KeepsContent /\ UNCHANGED fingerprint
          /\ file' = [file EXCEPT ![b] = i] /\ tmp' = [tmp EXCEPT ![b] = NoFile]
          /\ req'[r] = [req[r] EXCEPT !.pc = "verify", !.inode = NoFile, !.copied = 0]
          /\ \A s \in Request \ {r} : req'[s] = req[s]
      BY <2>2, RenameShapes
    <2>4. /\ file'[b] = i /\ tmp'[b] = NoFile
          /\ \A c \in Book \ {b} : file'[c] = file[c] /\ tmp'[c] = tmp[c]
      BY <1>1, <2>3 DEF ShapeInv, DiskTyped
    <2>5. /\ req'[r].pc = "verify" /\ req'[r].book = b /\ req'[r].version = v
      BY <1>1, <2>3 DEF Acquisition
    <2>6. \A c \in Book : file'[c] # NoFile => content'[file'[c]] = content[file'[c]]
      <3> SUFFICES ASSUME NEW c \in Book, file'[c] # NoFile
                   PROVE  content'[file'[c]] = content[file'[c]]
        OBVIOUS
      <3>1. file'[c] \in Inode /\ file'[c] \in Linked(file', tmp', req')
        BY <2>3 DEF ShapeInv, DiskTyped, Linked
      <3>2. QED BY <2>3, <3>1 DEF KeepsContent
    <2>7. b \in Persistable /\ source[b] = v => Whole(content'[file'[b]], v)
      <3> SUFFICES ASSUME b \in Persistable, source[b] = v PROVE Whole(content'[file'[b]], v)
        OBVIOUS
      <3>1. req[r].copied <= Length[v] /\ content[i] = [k \in 1..req[r].copied |-> v]
        BY <1>1, <1>2, <2>2 DEF Relies
      <3>2. req[r].copied \in Nat /\ Length[v] \in Nat
        BY <1>1, CacheAssumption DEF Acquisition, ShapeInv, WorldTyped, Version
      <3>3. req[r].copied = Length[v]
        BY <1>1, <3>1, <3>2
      <3>4. QED BY <1>1, <2>2, <2>4, <2>6, <3>1, <3>3 DEF Whole
    <2>8. Relies(r)'
      BY <1>1, <2>2, <2>3, <2>4, <2>5, <2>7 DEF Relies, Idling, Copying, Copied
    <2>9. FingerprintTellsTruth'
      <3> SUFFICES ASSUME NEW c \in Book \ contended', file'[c] # NoFile, fingerprint'[c] # NoVersion
                   PROVE  Whole(content'[file'[c]], fingerprint'[c])
        BY DEF FingerprintTellsTruth, Cached, Whole
      <3>1. c # b
        BY <2>2, <2>3
      <3>2. Whole(content[file[c]], fingerprint[c])
        BY <1>1, <2>3, <2>4, <3>1 DEF CopyInv, FingerprintTellsTruth, Cached
      <3>3. QED BY <2>3, <2>4, <2>6, <3>1, <3>2
    <2>10. ASSUME NEW s \in Request \ {r}, req[s].pc \notin Idling, req[s].book \notin contended'
           PROVE  LET c == req[s].book
                  IN  /\ c \notin contended
                      /\ tmp'[c] = tmp[c] /\ fingerprint'[c] = fingerprint[c] /\ file'[c] = file[c]
                      /\ \A j \in Inode \cap Linked(file', tmp', req') :
                            j[1] = c => content'[j] = content[j]
      <3>1. req[s].book # b /\ req[s].book \in Book
        BY <1>1, <1>2, <2>10, OtherBooks, BookIsOne DEF Idling
      <3>2. QED BY <1>1, <2>3, <2>4, <2>10, <3>1 DEF KeepsContent
    <2>11. \A c \in Book : tmp'[c] # NoFile =>
              tmp[c] # NoFile /\ ~(req[r].pc = "copy" /\ req[r].book = c)
      BY <2>4
    <2>12. QED BY <1>1, <2>3, <2>8, <2>9, <2>10, <2>11, StepKeepsCopies
  <1>3. CASE b \in contended
    <2>1. /\ ShapeInv' /\ KeepsContent /\ UNCHANGED fingerprint
          /\ \A s \in Request \ {r} : req'[s] = req[s]
      BY RenameShapes
    <2>2. /\ tmp'[b] = NoFile
          /\ \A c \in Book \ {b} : file'[c] = file[c] /\ tmp'[c] = tmp[c]
      <3>1. file \in [Book -> Inode \cup {NoFile}] /\ tmp \in [Book -> Inode \cup {NoFile}]
        BY DEF ShapeInv, DiskTyped
      <3>2. CASE tmp[b] = NoFile /\ UNCHANGED <<file, tmp>>
        BY <3>2
      <3>3. CASE /\ file' = [file EXCEPT ![b] = tmp[b]]
                 /\ tmp' = [tmp EXCEPT ![b] = NoFile]
        BY <1>1, <3>1, <3>3
      <3>4. QED BY <3>2, <3>3, RenameShapes
    <2>3. req'[r].pc \in Idling \/ (req'[r].book = b /\ req'[r].version = v)
      <3>1. CASE req'[r] = Idle
        BY <3>1 DEF Idle, Idling
      <3>2. CASE req'[r] = [req[r] EXCEPT !.pc = "verify", !.inode = NoFile, !.copied = 0]
        BY <1>1, <3>2 DEF Acquisition
      <3>3. QED BY <3>1, <3>2, RenameShapes
    <2>4. source[b] >= v
      BY <1>1 DEF Relies
    <2>5. req[r].pc # "idle"
      BY <1>1
    <2>6. \A j \in Inode \cap Linked(file', tmp', req') : content'[j] = content[j]
      BY <2>1 DEF KeepsContent
    <2>7. QED BY <1>1, <1>3, <2>1, <2>2, <2>3, <2>4, <2>5, <2>6, ContendedKeepsCopies
  <1>4. QED BY <1>2, <1>3

LEMMA StampCopies ==
    ASSUME ShapeInv, HistoryInv, CopyInv, NEW r \in Request, Stamp(r)
    PROVE  CopyInv'
  <1> DEFINE b == req[r].book
             v == req[r].version
  <1>1. /\ ShapeInv' /\ req'[r] = [req[r] EXCEPT !.pc = "record"]
        /\ \A s \in Request \ {r} : req'[s] = req[s]
    BY StampShapes
  <1>2. /\ UNCHANGED <<file, tmp, content, world, contended>> /\ UNCHANGED <<source, books>>
        /\ req[r].pc = "stamp" /\ Relies(r) /\ req[r] \in Acquisition /\ b \in Book
        /\ req[r].pc \notin Idling /\ req[r].pc \in Missing
        /\ fingerprint' = IF b \in Persistable THEN [fingerprint EXCEPT ![b] = v] ELSE fingerprint
    BY BookIsOne DEF Stamp, At, BookOf, CopyInv, ShapeInv, RequestsTyped, world, Idling, Missing
  <1>3. req'[r].pc = "record" /\ req'[r].book = b /\ req'[r].version = v
    BY <1>1, <1>2 DEF Acquisition
  <1>4. /\ \A c \in Book \ {b} : fingerprint'[c] = fingerprint[c]
        /\ fingerprint'[b] # NoVersion /\ b \notin contended =>
              fingerprint'[b] = v /\ b \in Persistable
    BY <1>2 DEF ShapeInv, DiskTyped, Relies
  <1>5. Relies(r)'
    BY <1>2, <1>3 DEF Relies, Idling, Copying, Copied
  <1>6. FingerprintTellsTruth'
    <2> SUFFICES ASSUME NEW c \in Book \ contended', file'[c] # NoFile, fingerprint'[c] # NoVersion
                 PROVE  Whole(content'[file'[c]], fingerprint'[c])
      BY DEF FingerprintTellsTruth, Cached, Whole
    <2>1. CASE c = b
      BY <1>2, <1>4, <2>1 DEF Relies, Copied
    <2>2. CASE c # b
      BY <1>2, <1>4, <2>2 DEF CopyInv, FingerprintTellsTruth, Cached
    <2>3. QED BY <2>1, <2>2
  <1>7. CASE b \notin contended
    <2>1. \A s \in Request \ {r} : req[s].pc \notin Idling =>
             req[s].book # b /\ req[s].book \in Book
      BY <1>2, <1>7, OtherBooks, BookIsOne DEF Idling
    <2>2. QED BY <1>1, <1>2, <1>4, <1>5, <1>6, <2>1, StepKeepsCopies
  <1>8. CASE b \in contended
    <2>1. source[b] >= req'[r].version /\ req[r].pc # "idle"
      BY <1>2, <1>3 DEF Relies, Idling
    <2>2. QED BY <1>1, <1>2, <1>3, <1>4, <1>8, <2>1, ContendedKeepsCopies
  <1>9. QED BY <1>7, <1>8

\* The world around.
LEMMA SourceChangesCopies ==
    ASSUME ShapeInv, CopyInv, NEW b \in Book, SourceChanges(b)
    PROVE  CopyInv'
  <1>1. ShapeInv' /\ source'[b] >= source[b] /\ \A c \in Book \ {b} : source'[c] = source[c]
    BY SourceChangesShapes
  <1>2. /\ UNCHANGED <<file, tmp, fingerprint, content, books, doomed, req, contended>>
    BY DEF SourceChanges, disk
  <1>3. ASSUME NEW s \in Request PROVE Relies(s)'
    <2>1. Relies(s)
      BY DEF CopyInv
    <2>2. req[s].pc \notin Idling => source'[req[s].book] >= source[req[s].book]
      <3>1. \A c \in Book : source[c] \in Nat
        BY Names DEF ShapeInv, WorldTyped
      <3>2. QED BY <1>1, <3>1, BookIsOne DEF Idling
    <2>3. QED BY <1>1, <1>2, <2>1, <2>2, StillRelies
  <1>4. FingerprintTellsTruth' /\ TemporaryIsCopied' /\ books' \cap doomed' = {}
    BY <1>2 DEF CopyInv, FingerprintTellsTruth, TemporaryIsCopied, Cached, Whole
  <1>5. QED BY <1>3, <1>4 DEF CopyInv

LEMMA DeleteCopies ==
    ASSUME ShapeInv, CopyInv, NEW b \in Book, Delete(b)
    PROVE  CopyInv'
  <1>1. /\ UNCHANGED <<file, tmp, fingerprint, content, source, req, contended>>
        /\ books' = books \ {b} /\ doomed' = {b}
    BY DEF Delete, disk
  <1>2. ASSUME NEW s \in Request PROVE Relies(s)'
    <2>1. Relies(s) /\ ShapeInv'
      BY DeleteShapes DEF CopyInv
    <2>2. req[s].pc \notin Idling => source[req[s].book] \in Nat
      BY BookIsOne, Names DEF Idling, ShapeInv, WorldTyped
    <2>3. QED BY <1>1, <2>1, <2>2, StillRelies
  <1>3. FingerprintTellsTruth' /\ TemporaryIsCopied' /\ books' \cap doomed' = {}
    BY <1>1 DEF CopyInv, FingerprintTellsTruth, TemporaryIsCopied, Cached, Whole
  <1>4. QED BY <1>2, <1>3 DEF CopyInv

LEMMA InvalidateCopies ==
    ASSUME ShapeInv, CopyInv, NEW b \in Book, Invalidate(b)
    PROVE  CopyInv'
  <1>1. /\ UNCHANGED <<books, source, req, contended>> /\ doomed' = doomed \ {b} /\ b \in doomed
        /\ Unlinks(b) /\ ShapeInv' /\ KeepsContent
    BY InvalidateShapes DEF Invalidate, Invalidates
  <1>2. /\ file'[b] = NoFile /\ fingerprint'[b] = NoVersion /\ tmp' = tmp /\ b \notin books
        /\ \A c \in Book \ {b} : file'[c] = file[c] /\ fingerprint'[c] = fingerprint[c]
    BY <1>1, Unlinked DEF ShapeInv, CopyInv
  <1>3. ASSUME NEW s \in Request PROVE Relies(s)'
    <2>1. Relies(s)
      BY DEF CopyInv
    <2>2. req[s].pc \notin Idling => source[req[s].book] \in Nat /\ req[s].book \in Book
      BY BookIsOne, Names DEF Idling, ShapeInv, WorldTyped
    <2>3. QED BY <1>1, <1>2, <2>1, <2>2, StillRelies DEF KeepsContent
  <1>4. FingerprintTellsTruth'
    BY <1>1, <1>2, StillTrue DEF CopyInv
  <1>5. TemporaryIsCopied' /\ books' \cap doomed' = {}
    BY <1>1, <1>2 DEF CopyInv, TemporaryIsCopied
  <1>6. QED BY <1>3, <1>4, <1>5 DEF CopyInv

LEMMA RestartCopies ==
    ASSUME ShapeInv, CopyInv, Restart
    PROVE  CopyInv'
  <1>1. /\ ShapeInv' /\ KeepsContent
        /\ \A r \in Request : req'[r] = Idle
        /\ \A b \in Book : tmp'[b] = NoFile
        /\ \A b \in Book : \/ file'[b] = file[b] /\ fingerprint'[b] = fingerprint[b]
                           \/ file'[b] = NoFile
        /\ doomed' = {} /\ UNCHANGED contended
    BY RestartShapes DEF Restart
  <1>2. \A r \in Request : Relies(r)'
    BY <1>1, IdleRelies
  <1>3. FingerprintTellsTruth'
    BY <1>1, StillTrue DEF CopyInv
  <1>4. TemporaryIsCopied' /\ books' \cap doomed' = {}
    BY <1>1 DEF TemporaryIsCopied
  <1>5. QED BY <1>2, <1>3, <1>4 DEF CopyInv

LEMMA CopyStarts == Init => CopyInv
  <1> SUFFICES ASSUME Init PROVE CopyInv
    OBVIOUS
  <1>1. \A r \in Request : req[r].pc = "idle"
    BY DEF Init, Idle
  <1>2. \A r \in Request : Relies(r)
    BY <1>1 DEF Relies, Idling, Copying, Copied
  <1>3. QED BY <1>2 DEF Init, CopyInv, FingerprintTellsTruth, Cached, TemporaryIsCopied

LEMMA CopySame ==
    ASSUME CopyInv, UNCHANGED vars
    PROVE  CopyInv'
  BY DEF CopyInv, Relies, FingerprintTellsTruth, TemporaryIsCopied, Cached, Whole, vars, disk,
         world

LEMMA CopyStays ==
    ASSUME ShapeInv, HistoryInv, CopyInv, [Next]_vars
    PROVE  CopyInv'
  <1>1. CASE UNCHANGED vars
    BY <1>1, CopySame
  <1>2. ASSUME NEW b \in Book, SourceChanges(b) \/ Delete(b) \/ Invalidate(b) PROVE CopyInv'
    BY <1>2, SourceChangesCopies, DeleteCopies, InvalidateCopies
  <1>3. CASE Restart
    BY <1>3, RestartCopies
  <1>4. ASSUME NEW r \in Request, Acquire(r) PROVE CopyInv'
    <2>1. ASSUME NEW b \in Book, Ask(r, b) PROVE CopyInv'
      BY <2>1, AskCopies
    <2>2. CASE Open(r) \/ Check(r) \/ Touch(r)
      BY <2>2, OpenCopies, CheckCopies, TouchCopies
    <2>3. CASE Clear(r) \/ Create(r) \/ Copy(r) \/ Rename(r) \/ Verify(r)
      BY <2>3, ClearCopies, CreateCopies, CopyCopies, RenameCopies, VerifyCopies
    <2>4. CASE Stamp(r) \/ Record(r) \/ Survey(r) \/ Evict(r) \/ Admit(r)
      BY <2>4, StampCopies, RecordCopies, SurveyCopies, EvictCopies, AdmitCopies
    <2>5. QED BY <1>4, <2>1, <2>2, <2>3, <2>4 DEF Acquire
  <1>5. ASSUME NEW r \in Request, Use(r) PROVE CopyInv'
    BY <1>5, OpenReaderCopies, DropCopies, FailCopies DEF Use
  <1>6. QED BY <1>1, <1>2, <1>3, <1>4, <1>5 DEF Next, Environment

\* A lease on a book of the library is on a file that is there and what is read from it is
\* a whole copy of the version it was given for, whatever fails, is evicted, deleted or
\* restarted meanwhile and whichever other requests find the copy good.  What may spoil it
\* is a miss that overlaps another request for the very same book (acquire_android orders
\* the two in no way), and that only until its copy is begun anew.
THEOREM LeasesAreSound == Spec => []LeaseIsSound
  <1>1. Init => ShapeInv /\ HistoryInv /\ CopyInv
    BY ShapeStarts, HistoryStarts, CopyStarts
  <1>2. ShapeInv /\ HistoryInv /\ CopyInv /\ [Next]_vars => (ShapeInv /\ HistoryInv /\ CopyInv)'
    BY ShapeStays, HistoryStays, CopyStays
  <1>3. ShapeInv /\ CopyInv => LeaseIsSound
    BY CopyIsSound
  <1>4. QED BY <1>1, <1>2, <1>3, PTL DEF Spec

\* No step, and no failure or crash between two, leaves a stale or torn copy beside a
\* fingerprint that would make a hit of it: contended books are once more the exception, and
\* whatever their requests do, the copies of all other books stay true.
THEOREM FingerprintsAreTrue == Spec => []FingerprintTellsTruth
  <1>1. Init => ShapeInv /\ HistoryInv /\ CopyInv
    BY ShapeStarts, HistoryStarts, CopyStarts
  <1>2. ShapeInv /\ HistoryInv /\ CopyInv /\ [Next]_vars => (ShapeInv /\ HistoryInv /\ CopyInv)'
    BY ShapeStays, HistoryStays, CopyStays
  <1>3. ShapeInv /\ CopyInv => FingerprintTellsTruth
    BY CopyIsSound
  <1>4. QED BY <1>1, <1>2, <1>3, PTL DEF Spec

-----------------------------------------------------------------------------
(* The invariant's third part, for the hard limit: the files of books that are not       *)
(* contended and that nobody is still to survey, or that one of some evicting requests   *)
(* surveyed, are what that request counts down, or fit the limit already.                *)

\* The files of S fit t, where those of the plan P count with their surveyed sizes.
Fits(S, sizes, P, surveyed, t) ==
    /\ \A b \in S \cap P : sizes[b] <= surveyed[b]
    /\ Total([b \in S \cup P |-> IF b \in P THEN surveyed[b] ELSE sizes[b]]) <= t

LEMMA FitsLess ==
    ASSUME NEW S \in SUBSET Book, NEW sizes \in [Book -> Nat],
           NEW P \in SUBSET Book, NEW surveyed \in [Book -> Nat], NEW t \in Nat,
           Fits(S, sizes, P, surveyed, t),
           NEW S2 \in SUBSET S, NEW P2 \in SUBSET P, NEW sizes2 \in [Book -> Nat],
           \A b \in S2 : sizes2[b] = sizes[b]
    PROVE  Fits(S2, sizes2, P2, surveyed, t)
  <1> DEFINE D == S \cup P
             E == S2 \cup P2
             f == [b \in D |-> IF b \in P THEN surveyed[b] ELSE sizes[b]]
             g == [b \in E |-> IF b \in P2 THEN surveyed[b] ELSE sizes2[b]]
  <1>1. D \in SUBSET Book /\ E \in SUBSET D
    OBVIOUS
  <1>2. IsFiniteSet(D) /\ IsFiniteSet(E)
    BY <1>1, CacheAssumption, FS_Subset
  <1>3. /\ f \in [D -> Nat] /\ g \in [E -> Nat]
        /\ \A b \in E : g[b] <= f[b]
    BY <1>1 DEF Fits
  <1>4. Total(f) <= t
    BY DEF Fits
  <1>5. \A b \in S2 \cap P2 : sizes2[b] <= surveyed[b]
    BY DEF Fits
  <1> HIDE DEF f, g, D, E
  <1>6. Total(g) <= Total(f) /\ Total(g) \in Nat /\ Total(f) \in Nat
    BY <1>1, <1>2, <1>3, TotalOfPart, TotalNatural
  <1>7. Total(g) <= t
    BY <1>4, <1>6
  <1>8. QED BY <1>5, <1>7 DEF Fits, g, E

\* One file less on both sides.
LEMMA FitsOneLess ==
    ASSUME NEW S \in SUBSET Book, NEW sizes \in [Book -> Nat],
           NEW P \in SUBSET Book, NEW surveyed \in [Book -> Nat], NEW t \in Nat,
           Fits(S, sizes, P, surveyed, t), NEW x \in P
    PROVE  Fits(S \ {x}, sizes, P \ {x}, surveyed, t - surveyed[x]) /\ t - surveyed[x] \in Nat
  <1> DEFINE D == S \cup P
             E == (S \ {x}) \cup (P \ {x})
             f == [b \in D |-> IF b \in P THEN surveyed[b] ELSE sizes[b]]
             g == [b \in E |-> IF b \in P \ {x} THEN surveyed[b] ELSE sizes[b]]
  <1>1. D \in SUBSET Book /\ E = D \ {x} /\ x \in D
    OBVIOUS
  <1>2. IsFiniteSet(D) /\ IsFiniteSet(E)
    BY <1>1, CacheAssumption, FS_Subset, FS_RemoveElement
  <1>3. /\ f \in [D -> Nat] /\ g \in [D \ {x} -> Nat]
        /\ \A b \in D \ {x} : g[b] = f[b]
        /\ f[x] = surveyed[x] /\ surveyed[x] \in Nat
    BY <1>1
  <1>4. Total(f) <= t /\ \A b \in S \cap P : sizes[b] <= surveyed[b]
    BY DEF Fits
  <1> HIDE DEF f, g, D, E
  <1>5. Total(f) = Total(g) + surveyed[x] /\ Total(g) \in Nat /\ Total(f) \in Nat
    <2>1. Total(f) \in Nat
      BY <1>2, <1>3, TotalNatural
    <2>2. Total(g) \in Nat
      BY <1>1, <1>2, <1>3, TotalNatural
    <2>3. Total(f) = Total(g) + f[x]
      <3>1. IsFiniteSet(D) /\ x \in D /\ f \in [D -> Nat] /\ g \in [D \ {x} -> Nat]
            /\ \A b \in D \ {x} : g[b] = f[b]
        BY <1>1, <1>2, <1>3
      <3>2. QED BY ONLY <3>1, TotalPlusOne
    <2>4. QED BY <1>3, <2>1, <2>2, <2>3
  <1>6. Total(g) <= t - surveyed[x] /\ t - surveyed[x] \in Nat
    BY <1>3, <1>4, <1>5
  <1>7. QED BY <1>4, <1>6 DEF Fits, g, E

LEMMA FitsBytes ==
    ASSUME NEW S \in SUBSET Book, NEW sizes \in [Book -> Nat],
           NEW P \in SUBSET Book, NEW surveyed \in [Book -> Nat], NEW t \in Nat,
           Fits(S, sizes, P, surveyed, t)
    PROVE  Total([b \in S |-> sizes[b]]) <= t
  <1> DEFINE D == S \cup P
             f == [b \in D |-> IF b \in P THEN surveyed[b] ELSE sizes[b]]
             g == [b \in S |-> sizes[b]]
  <1>1. D \in SUBSET Book /\ S \in SUBSET D
    OBVIOUS
  <1>2. IsFiniteSet(D) /\ IsFiniteSet(S)
    BY <1>1, CacheAssumption, FS_Subset
  <1>3. /\ f \in [D -> Nat] /\ g \in [S -> Nat]
        /\ \A b \in S : g[b] <= f[b]
    BY DEF Fits
  <1>4. Total(f) <= t
    BY DEF Fits
  <1> HIDE DEF f, g, D
  <1>5. Total(g) <= Total(f) /\ Total(g) \in Nat /\ Total(f) \in Nat
    BY <1>1, <1>2, <1>3, TotalOfPart, TotalNatural
  <1>6. QED BY <1>4, <1>5 DEF g

\* The request has a file of its own that may not have been surveyed yet.
Pending(r) == req[r].pc \in {"verify", "stamp", "record", "survey", "evict"}
Evicting == {r \in Request : req[r].pc = "evict"}
Counted(F) ==
    {b \in Cached \ contended : \A r \in Request : Pending(r) /\ req[r].book = b => r \in F}
Covers(e, F) == Fits(Counted(F), Sizes, req[e].plan, req[e].size, req[e].total)
Within(F) == Bytes(Counted(F)) <= HardLimit \/ \E e \in F : Covers(e, F)
Budgeted == faults = 0 => \A F \in SUBSET Evicting : Within(F)

LEMMA AcquisitionFields ==
    ASSUME ShapeInv, NEW r \in Request
    PROVE  /\ req[r].plan \in SUBSET Book /\ req[r].size \in [Book -> Nat]
           /\ req[r].total \in Nat /\ req[r] \in Acquisition
  BY DEF ShapeInv, RequestsTyped, Acquisition

LEMMA CountedNatural ==
    ASSUME ShapeInv, NEW F
    PROVE  /\ Counted(F) \in SUBSET Book /\ Counted(F) \in SUBSET Cached
           /\ Sizes \in [Book -> Nat] /\ IsFiniteSet(Counted(F))
           /\ Bytes(Counted(F)) = Total([b \in Counted(F) |-> Sizes[b]])
           /\ Bytes(Counted(F)) \in Nat
  <1>1. Counted(F) \in SUBSET Book /\ Counted(F) \in SUBSET Cached
    BY DEF Counted, Cached
  <1>2. QED BY <1>1, BytesNatural DEF ShapeInv

\* Fewer files of the same sizes.
LEMMA BytesLess ==
    ASSUME NEW S \in SUBSET Book, NEW sizes \in [Book -> Nat],
           NEW S2 \in SUBSET S, NEW sizes2 \in [Book -> Nat], \A b \in S2 : sizes2[b] = sizes[b]
    PROVE  Total([b \in S2 |-> sizes2[b]]) <= Total([b \in S |-> sizes[b]])
  <1> DEFINE f == [b \in S |-> sizes[b]]
             g == [b \in S2 |-> sizes2[b]]
  <1>1. IsFiniteSet(S)
    BY CacheAssumption, FS_Subset
  <1>2. f \in [S -> Nat] /\ g \in [S2 -> Nat] /\ \A b \in S2 : g[b] <= f[b]
    OBVIOUS
  <1> HIDE DEF f, g
  <1>3. Total(g) <= Total(f)
    BY <1>1, <1>2, TotalOfPart
  <1>4. QED BY <1>3 DEF f, g

LEMMA CountedLess ==
    ASSUME ShapeInv, NEW F
    PROVE  Bytes(Counted(F)) <= Bytes(Cached) /\ Bytes(Cached) \in Nat
  <1> DEFINE S == Cached
             T == Counted(F)
             sizes == Sizes
  <1>1. /\ T \in SUBSET S /\ sizes \in [Book -> Nat] /\ S \in SUBSET Book
        /\ Bytes(T) = Total([b \in T |-> sizes[b]])
    BY CountedNatural DEF Cached
  <1>2. Bytes(S) = Total([b \in S |-> sizes[b]]) /\ Bytes(S) \in Nat
    <2>1. S \in SUBSET Cached
      OBVIOUS
    <2>2. QED BY <1>1, <2>1, BytesNatural DEF ShapeInv
  <1>3. Total([b \in T |-> sizes[b]]) <= Total([b \in S |-> sizes[b]])
    <2> HIDE DEF S, T, sizes
    <2>1. QED BY <1>1, BytesLess
  <1>4. QED BY <1>1, <1>2, <1>3

LEMMA WithinMoves ==
    ASSUME ShapeInv, ShapeInv', NEW F, Within(F),
           Counted(F)' \subseteq Counted(F), \A b \in Counted(F)' : Sizes'[b] = Sizes[b],
           \A e \in F : Covers(e, F) => Covers(e, F)'
    PROVE  Within(F)'
  <1> DEFINE S == Counted(F)
             T == Counted(F)'
             sizes == Sizes
             sizes2 == Sizes'
             m == Total([b \in T |-> sizes2[b]])
             n == Total([b \in S |-> sizes[b]])
  <1>1. /\ S \in SUBSET Book /\ sizes \in [Book -> Nat]
        /\ Bytes(S) = n /\ n \in Nat
    BY CountedNatural
  <1>2. /\ T \in SUBSET S /\ sizes2 \in [Book -> Nat]
        /\ Bytes(Counted(F))' = m /\ m \in Nat
    <2>1. /\ (Sizes \in [Book -> Nat])'
          /\ (Bytes(Counted(F)) = Total([b \in Counted(F) |-> Sizes[b]]))'
          /\ (Bytes(Counted(F)) \in Nat)'
      BY CountedNatural, PTL
    <2>2. QED BY <2>1
  <1>3. CASE Bytes(S) <= HardLimit
    <2>1. m <= n
      <3>1. \A b \in T : sizes2[b] = sizes[b]
        OBVIOUS
      <3> HIDE DEF S, T, sizes, sizes2
      <3>2. QED BY <1>1, <1>2, <3>1, BytesLess
    <2>2. m \in Nat /\ n \in Nat /\ n <= HardLimit /\ Bytes(Counted(F))' = m
      BY <1>1, <1>2, <1>3
    <2> HIDE DEF m, n
    <2>3. Bytes(Counted(F))' <= HardLimit
      BY <2>1, <2>2, CacheAssumption
    <2>4. QED BY <2>3 DEF Within
  <1>4. QED BY <1>3 DEF Within

LEMMA CoversStays ==
    ASSUME ShapeInv, ShapeInv', NEW F, NEW e \in Request, Covers(e, F),
           Counted(F)' \subseteq Counted(F), \A b \in Counted(F)' : Sizes'[b] = Sizes[b],
           req'[e].plan \subseteq req[e].plan, req'[e].size = req[e].size,
           req'[e].total = req[e].total
    PROVE  Covers(e, F)'
  <1> DEFINE S == Counted(F)
             T == Counted(F)'
             sizes == Sizes
             sizes2 == Sizes'
             P == req[e].plan
             Q == req'[e].plan
             surveyed == req[e].size
             t == req[e].total
  <1>1. /\ P \in SUBSET Book /\ surveyed \in [Book -> Nat] /\ t \in Nat /\ Q \in SUBSET P
        /\ S \in SUBSET Book /\ sizes \in [Book -> Nat] /\ T \in SUBSET S
    BY AcquisitionFields, CountedNatural
  <1>2. sizes2 \in [Book -> Nat]
    <2>1. (Sizes \in [Book -> Nat])'
      BY CountedNatural, PTL
    <2>2. QED BY <2>1
  <1>3. Fits(S, sizes, P, surveyed, t) /\ \A b \in T : sizes2[b] = sizes[b]
    BY DEF Covers
  <1>4. Fits(T, sizes2, Q, surveyed, t)
    <2> HIDE DEF S, T, sizes, sizes2, P, Q, surveyed, t
    <2>1. QED BY <1>1, <1>2, <1>3, FitsLess
  <1>5. QED BY <1>4 DEF Covers

LEMMA WithinStays ==
    ASSUME ShapeInv, ShapeInv', NEW F \in SUBSET Request, Within(F),
           Counted(F)' \subseteq Counted(F), \A b \in Counted(F)' : Sizes'[b] = Sizes[b],
           \A e \in F : /\ req'[e].plan = req[e].plan /\ req'[e].size = req[e].size
                        /\ req'[e].total = req[e].total
    PROVE  Within(F)'
  <1>1. ASSUME NEW e \in F, Covers(e, F) PROVE Covers(e, F)'
    BY <1>1, CoversStays
  <1>2. QED BY <1>1, WithinMoves

LEMMA BudgetShrinks ==
    ASSUME ShapeInv, ShapeInv', Budgeted, faults' = 0 => faults = 0,
           \A e \in Request : req'[e].pc = "evict" =>
              /\ req[e].pc = "evict" /\ req'[e].plan = req[e].plan
              /\ req'[e].size = req[e].size /\ req'[e].total = req[e].total,
           \A b \in Book :
              /\ file'[b] # NoFile /\ b \notin contended'
              /\ \A s \in Request : Pending(s)' /\ req'[s].book = b => req'[s].pc = "evict"
              => /\ file[b] # NoFile /\ b \notin contended /\ Sizes'[b] = Sizes[b]
                 /\ \A s \in Request : Pending(s) /\ req[s].book = b =>
                                          Pending(s)' /\ req'[s].book = b
    PROVE  Budgeted'
  <1> SUFFICES ASSUME faults' = 0, NEW F \in SUBSET Evicting' PROVE Within(F)'
    BY DEF Budgeted
  <1>1. F \in SUBSET Request /\ F \in SUBSET Evicting
        /\ \A e \in F : req'[e].pc = "evict"
    BY DEF Evicting
  <1>2. Within(F)
    BY <1>1 DEF Budgeted
  <1>3. ASSUME NEW b \in Counted(F)' PROVE b \in Counted(F) /\ Sizes'[b] = Sizes[b]
    <2>1. /\ b \in Book /\ file'[b] # NoFile /\ b \notin contended'
          /\ \A s \in Request : Pending(s)' /\ req'[s].book = b => s \in F
      BY DEF Counted, Cached
    <2>2. /\ file[b] # NoFile /\ b \notin contended /\ Sizes'[b] = Sizes[b]
          /\ \A s \in Request : Pending(s) /\ req[s].book = b => Pending(s)' /\ req'[s].book = b
      BY <1>1, <2>1
    <2>3. QED BY <2>1, <2>2 DEF Counted, Cached
  <1>4. \A e \in F : /\ req'[e].plan = req[e].plan /\ req'[e].size = req[e].size
                     /\ req'[e].total = req[e].total
    BY <1>1
  <1>5. QED BY <1>1, <1>2, <1>3, <1>4, WithinStays

\* A step of one request: a file it adds is one it has still to survey, and one it has
\* still to survey is not left unsurveyed.
LEMMA OneKeepsBudget ==
    ASSUME ShapeInv, ShapeInv', Budgeted, NEW r \in Request, UNCHANGED faults,
           \A s \in Request \ {r} : req'[s] = req[s],
           req'[r].pc # "evict",
           \A b \in Book \ contended' : file'[b] # NoFile =>
              /\ b \notin contended
              /\ \/ file'[b] = file[b] /\ content'[file[b]] = content[file[b]]
                 \/ Pending(r)' /\ req'[r].book = b,
           Pending(r) => \/ Pending(r)' /\ req'[r].book = req[r].book
                         \/ file'[req[r].book] = NoFile
    PROVE  Budgeted'
  <1>1. \A e \in Request : req'[e].pc = "evict" =>
              /\ req[e].pc = "evict" /\ req'[e].plan = req[e].plan
              /\ req'[e].size = req[e].size /\ req'[e].total = req[e].total
    OBVIOUS
  <1>2. ASSUME NEW b \in Book \ contended', file'[b] # NoFile,
               \A s \in Request : Pending(s)' /\ req'[s].book = b => req'[s].pc = "evict"
        PROVE  /\ file[b] # NoFile /\ b \notin contended /\ Sizes'[b] = Sizes[b]
               /\ \A s \in Request : Pending(s) /\ req[s].book = b =>
                                        Pending(s)' /\ req'[s].book = b
    <2>1. ~(Pending(r)' /\ req'[r].book = b)
      BY <1>2
    <2>2. file'[b] = file[b] /\ content'[file[b]] = content[file[b]]
      BY <1>2, <2>1
    <2>3. Sizes'[b] = Sizes[b]
      BY <1>2, <2>2 DEF Sizes, Cached, Size
    <2>4. ASSUME NEW s \in Request, Pending(s), req[s].book = b
          PROVE  Pending(s)' /\ req'[s].book = b
      BY <1>2, <2>1, <2>4 DEF Pending
    <2>5. QED BY <1>2, <2>2, <2>3, <2>4
  <1>3. QED BY <1>1, <1>2, BudgetShrinks

\* Files that stay keep their sizes.
LEMMA FilesKeepContent ==
    ASSUME ShapeInv', KeepsContent
    PROVE  \A b \in Book : file'[b] # NoFile => content'[file'[b]] = content[file'[b]]
  <1> SUFFICES ASSUME NEW b \in Book, file'[b] # NoFile
               PROVE  content'[file'[b]] = content[file'[b]]
    OBVIOUS
  <1>1. file'[b] \in Inode /\ file'[b] \in Linked(file', tmp', req')
    BY DEF ShapeInv, DiskTyped, Linked
  <1>2. QED BY <1>1 DEF KeepsContent

\* Steps of a request with nothing to survey, which leave the disk as it is.
LEMMA QuietBudget ==
    ASSUME ShapeInv, CopyInv, Budgeted, NEW r \in Request,
           \/ \E b \in Book : Ask(r, b)
           \/ Open(r) \/ Check(r) \/ Touch(r) \/ Stamp(r) \/ Record(r) \/ OpenReader(r) \/ Drop(r)
    PROVE  Budgeted'
  <1>1. UNCHANGED faults /\ contended \subseteq contended'
    BY DEF Ask, Open, Check, Touch, Stamp, Record, OpenReader, Drop, budget, Overlaps
  <1>2. ShapeInv' /\ \A s \in Request \ {r} : req'[s] = req[s]
    BY AskShapes, OpenShapes, CheckShapes, TouchShapes, StampShapes, RecordShapes,
       OpenReaderShapes, DropShapes
  <1>3. UNCHANGED file
    BY DEF Ask, Open, Check, Touch, Stamp, Record, OpenReader, Drop, disk
  <1>4. \A b \in Book : file'[b] # NoFile => content'[file[b]] = content[file[b]]
    <2>1. CASE Drop(r)
      BY <1>3, <2>1, DropShapes, FilesKeepContent
    <2>2. CASE UNCHANGED content
      BY <2>2
    <2>3. QED BY <2>1, <2>2 DEF Ask, Open, Check, Touch, Stamp, Record, OpenReader, disk
  <1>5. /\ req[r] \in Acquisition
        /\ req[r].pc # "idle" => req[r].book \in Book
    BY BookIsOne, AcquisitionFields
  <1>6. req'[r].pc # "evict"
        /\ (Pending(r) => \/ Pending(r)' /\ req'[r].book = req[r].book
                          \/ file'[req[r].book] = NoFile)
    <2>1. CASE \E b \in Book : Ask(r, b)
      BY <2>1, AskShapes DEF Ask, At, Pending
    <2>2. CASE Open(r)
      BY <2>2, OpenShapes DEF Open, At, Pending
    <2>3. CASE Check(r)
      BY <1>5, <2>3, CheckShapes DEF Check, At, Pending, Acquisition
    <2>4. CASE Touch(r)
      <3>1. ~Pending(r)
        BY <2>4 DEF Touch, At, Pending
      <3>2. CASE req'[r] = [req[r] EXCEPT !.pc = "leased"]
        BY <1>5, <3>1, <3>2 DEF Acquisition
      <3>3. CASE req'[r] = Idle
        BY <3>1, <3>3 DEF Idle
      <3>4. QED BY <2>4, <3>2, <3>3, TouchShapes
    <2>5. CASE Stamp(r)
      BY ZenonT(60), <1>5, <2>5, StampShapes DEF Stamp, At, Pending, Acquisition
    <2>6. CASE Record(r)
      <3>1. CASE req[r].book \notin Cached /\ req'[r] = Idle
        BY <1>3, <1>5, <2>6, <3>1 DEF Record, At, Cached, Idle
      <3>2. CASE req'[r] = [req[r] EXCEPT !.pc = "survey"]
        BY <1>5, <3>2 DEF Pending, Acquisition
      <3>3. QED BY <2>6, <3>1, <3>2, RecordShapes
    <2>7. CASE OpenReader(r)
      <3>1. ~Pending(r)
        BY <2>7 DEF OpenReader, At, Pending
      <3>2. CASE req'[r] = [req[r] EXCEPT !.pc = "reading", !.inode = file[req[r].book]]
        BY <1>5, <3>1, <3>2 DEF Acquisition
      <3>3. CASE req'[r] = Idle
        BY <3>1, <3>3 DEF Idle
      <3>4. QED BY <2>7, <3>2, <3>3, OpenReaderShapes
    <2>8. CASE Drop(r)
      BY <2>8, DropShapes DEF Drop, Holding, Pending, Idle
    <2>9. QED BY <2>1, <2>2, <2>3, <2>4, <2>5, <2>6, <2>7, <2>8
  <1>7. QED BY <1>1, <1>2, <1>3, <1>4, <1>6, OneKeepsBudget

LEMMA ClearBudget ==
    ASSUME ShapeInv, Budgeted, NEW r \in Request, Clear(r)
    PROVE  Budgeted'
  <1>1. /\ ShapeInv' /\ KeepsContent /\ Unlinks(req[r].book)
        /\ req'[r] = [req[r] EXCEPT !.pc = "create"]
        /\ \A s \in Request \ {r} : req'[s] = req[s]
    BY ClearShapes
  <1>2. /\ UNCHANGED faults /\ req[r].pc = "clear" /\ req[r].book \in Book
        /\ req'[r].pc = "create"
        /\ contended \subseteq contended' \cup {req[r].book}
    BY <1>1, BookIsOne, AcquisitionFields DEF Clear, At, Begins, BookOf, budget, Acquisition
  <1>3. \A b \in Book \ contended' : file'[b] # NoFile =>
           b \notin contended /\ file'[b] = file[b] /\ content'[file[b]] = content[file[b]]
    BY <1>1, <1>2, Unlinked, FilesKeepContent DEF ShapeInv
  <1>4. QED BY <1>1, <1>2, <1>3, OneKeepsBudget DEF Pending

\* The temporary file is no book's file.
LEMMA WritingBudget ==
    ASSUME ShapeInv, ShapeInv', CopyInv, Budgeted, NEW r \in Request, req[r].pc \in Copying,
           UNCHANGED <<file, faults, contended>>, \A s \in Request \ {r} : req'[s] = req[s],
           NEW inode \in Inode, inode[1] = req[r].book, req'[r].pc = "copy",
           \A i \in Inode \ {inode} : content'[i] = content[i]
    PROVE  Budgeted'
  <1>1. req[r].book \notin contended => file[req[r].book] = NoFile
    BY DEF CopyInv, Relies
  <1>2. ASSUME NEW b \in Book \ contended', file'[b] # NoFile
        PROVE  content'[file[b]] = content[file[b]]
    <2>1. file[b] \in Inode /\ file[b] # inode
      BY <1>1, <1>2 DEF ShapeInv, DiskTyped
    <2>2. QED BY <2>1
  <1>3. ~Pending(r) /\ req'[r].pc # "evict"
    BY DEF Pending, Copying
  <1>4. QED BY <1>2, <1>3, OneKeepsBudget

LEMMA CreateBudget ==
    ASSUME ShapeInv, CopyInv, Budgeted, NEW r \in Request, Create(r)
    PROVE  Budgeted'
  <1>1. PICK inode \in Inode :
           /\ ShapeInv'
           /\ inode[1] = req[r].book
           /\ content' = [content EXCEPT ![inode] = <<>>]
           /\ req'[r] = [req[r] EXCEPT !.pc = "copy", !.inode = inode, !.copied = 0]
           /\ \A s \in Request \ {r} : req'[s] = req[s]
    BY CreateShapes
  <1>2. /\ UNCHANGED <<file, faults, contended>> /\ req[r].pc \in Copying
        /\ \A i \in Inode \ {inode} : content'[i] = content[i]
    BY <1>1 DEF Create, At, Copying, budget, ShapeInv, DiskTyped
  <1>3. req'[r].pc = "copy"
    BY <1>1, AcquisitionFields DEF Acquisition
  <1>4. QED BY <1>1, <1>2, <1>3, WritingBudget

LEMMA CopyBudget ==
    ASSUME ShapeInv, CopyInv, Budgeted, NEW r \in Request, Copy(r)
    PROVE  Budgeted'
  <1>1. /\ ShapeInv' /\ req[r].inode \in Inode
        /\ req'[r] = [req[r] EXCEPT !.copied = req[r].copied + 1]
        /\ \A s \in Request \ {r} : req'[s] = req[s]
    BY CopyShapes
  <1>2. /\ UNCHANGED <<file, faults, contended>> /\ req[r].pc = "copy" /\ req[r].pc \in Copying
        /\ \A i \in Inode \ {req[r].inode} : content'[i] = content[i]
    BY <1>1 DEF Copy, At, Copying, budget, ShapeInv, DiskTyped
  <1>3. req[r].inode[1] = req[r].book /\ req'[r].pc = "copy"
    BY <1>1, <1>2, AcquisitionFields DEF ShapeInv, RequestsTyped, Shaped, Acquisition
  <1>4. QED BY <1>1, <1>2, <1>3, WritingBudget

LEMMA RenameBudget ==
    ASSUME ShapeInv, Budgeted, NEW r \in Request, Rename(r)
    PROVE  Budgeted'
  <1> DEFINE b == req[r].book
  <1>1. /\ ShapeInv' /\ KeepsContent
        /\ \A s \in Request \ {r} : req'[s] = req[s]
    BY RenameShapes
  <1>2. /\ UNCHANGED <<faults, contended>> /\ req[r].pc = "copy"
        /\ b \in Book /\ req[r] \in Acquisition
    BY BookIsOne, AcquisitionFields DEF Rename, At, budget
  <1>3. \/ /\ file' = [file EXCEPT ![b] = tmp[b]]
           /\ req'[r] = [req[r] EXCEPT !.pc = "verify", !.inode = NoFile, !.copied = 0]
        \/ UNCHANGED file /\ req'[r] = Idle
    BY RenameShapes
  <1>4. /\ req'[r].pc # "evict"
        /\ \A c \in Book : file'[c] # NoFile =>
              file'[c] = file[c] \/ (Pending(r)' /\ req'[r].book = c)
    <2>1. CASE /\ file' = [file EXCEPT ![b] = tmp[b]]
               /\ req'[r] = [req[r] EXCEPT !.pc = "verify", !.inode = NoFile, !.copied = 0]
      <3>1. req'[r].pc = "verify" /\ req'[r].book = b
        BY <1>2, <2>1 DEF Acquisition
      <3>2. \A c \in Book \ {b} : file'[c] = file[c]
        BY <2>1 DEF ShapeInv, DiskTyped
      <3>3. QED BY <3>1, <3>2 DEF Pending
    <2>2. CASE UNCHANGED file /\ req'[r] = Idle
      BY <2>2 DEF Idle
    <2>3. QED BY <1>3, <2>1, <2>2
  <1>5. QED BY <1>1, <1>2, <1>4, FilesKeepContent, OneKeepsBudget DEF Pending

LEMMA VerifyBudget ==
    ASSUME ShapeInv, Budgeted, NEW r \in Request, Verify(r)
    PROVE  Budgeted'
  <1> DEFINE b == req[r].book
  <1>1. /\ ShapeInv' /\ KeepsContent
        /\ \A s \in Request \ {r} : req'[s] = req[s]
    BY VerifyShapes
  <1>2. /\ UNCHANGED <<faults, contended>> /\ b \in Book /\ req[r] \in Acquisition
    BY BookIsOne, AcquisitionFields DEF Verify, At, budget
  <1>3. \/ /\ UNCHANGED disk
           /\ req'[r] = [req[r] EXCEPT !.pc = "stamp", !.version = source[b]]
        \/ file' = [file EXCEPT ![b] = NoFile] /\ req'[r] = Idle
    BY VerifyShapes
  <1>4. /\ req'[r].pc # "evict"
        /\ \A c \in Book : file'[c] # NoFile => file'[c] = file[c]
        /\ (Pending(r)' /\ req'[r].book = b) \/ file'[b] = NoFile
    <2>1. CASE /\ UNCHANGED disk
               /\ req'[r] = [req[r] EXCEPT !.pc = "stamp", !.version = source[b]]
      BY <1>2, <2>1 DEF Acquisition, Pending, disk
    <2>2. CASE file' = [file EXCEPT ![b] = NoFile] /\ req'[r] = Idle
      BY <1>2, <2>2 DEF Idle, ShapeInv, DiskTyped
    <2>3. QED BY <1>3, <2>1, <2>2
  <1>5. QED BY <1>1, <1>2, <1>4, FilesKeepContent, OneKeepsBudget

LEMMA FailBudget ==
    ASSUME ShapeInv, NEW r \in Request, Fail(r)
    PROVE  Budgeted'
  <1>1. faults' > 0 /\ faults' \in Nat
    BY FailShapes DEF ShapeInv, BudgetTyped
  <1>2. faults' # 0
    BY <1>1
  <1>3. QED BY <1>2 DEF Budgeted

\* What was just surveyed is what there is.
LEMMA SurveyBudget ==
    ASSUME ShapeInv, Budgeted, NEW r \in Request, Survey(r)
    PROVE  Budgeted'
  <1>1. /\ ShapeInv'
        /\ req'[r] = [req[r] EXCEPT !.pc = "evict", !.plan = Cached, !.size = Sizes,
                                    !.order = Order \cap (Cached \X Cached),
                                    !.total = Bytes(Cached)]
        /\ \A s \in Request \ {r} : req'[s] = req[s]
    BY SurveyShapes
  <1>2. /\ UNCHANGED <<file, content, faults, contended>> /\ req[r].pc = "survey"
        /\ req[r] \in Acquisition
    BY AcquisitionFields DEF Survey, At, disk, budget
  <1>3. /\ req'[r].pc = "evict" /\ req'[r].book = req[r].book /\ req'[r].plan = Cached
        /\ req'[r].size = Sizes /\ req'[r].total = Bytes(Cached)
    BY <1>1, <1>2 DEF Acquisition
  <1>4. Cached' = Cached /\ Sizes' = Sizes
    BY <1>2 DEF Cached, Sizes, Size
  <1>5. ASSUME NEW F PROVE Counted(F)' = Counted(F)
    <2>1. \A s \in Request : (Pending(s)' <=> Pending(s)) /\ req'[s].book = req[s].book
      BY <1>1, <1>2, <1>3 DEF Pending
    <2>2. QED BY <1>2, <1>4, <2>1 DEF Counted
  <1> SUFFICES ASSUME faults' = 0, NEW F \in SUBSET Evicting' PROVE Within(F)'
    BY DEF Budgeted
  <1>6. CASE r \in F
    <2>1. /\ Counted(F) \in SUBSET Cached /\ Cached \in SUBSET Cached
          /\ Sizes \in [Book -> Nat] /\ Cached \in SUBSET Book
      BY CountedNatural DEF Cached
    <2>2. Bytes(Cached) = Total([b \in Cached |-> Sizes[b]]) /\ Bytes(Cached) \in Nat
      BY <2>1, BytesNatural DEF ShapeInv
    <2>3. Fits(Counted(F), Sizes, Cached, Sizes, Bytes(Cached))
      <3> DEFINE S == Counted(F)
                 C == Cached
                 sizes == Sizes
                 t == Bytes(Cached)
      <3>1. S \cup C = C /\ sizes \in [Book -> Nat] /\ C \in SUBSET Book
            /\ t = Total([b \in C |-> sizes[b]]) /\ t \in Nat /\ S \in SUBSET C
        BY <2>1, <2>2
      <3> HIDE DEF S, C, sizes, t
      <3>2. [b \in S \cup C |-> IF b \in C THEN sizes[b] ELSE sizes[b]] = [b \in C |-> sizes[b]]
        BY <3>1
      <3>3. \A b \in S \cap C : sizes[b] <= sizes[b]
        BY <3>1
      <3>4. t <= t
        BY <3>1
      <3>5. Fits(S, sizes, C, sizes, t)
        BY <3>1, <3>2, <3>3, <3>4 DEF Fits
      <3>6. QED BY <3>5 DEF S, C, sizes, t
    <2>4. Fits(Counted(F)', Sizes', req'[r].plan, req'[r].size, req'[r].total)
      BY <1>3, <1>4, <1>5, <2>3
    <2>5. Covers(r, F)'
      BY <2>4 DEF Covers
    <2>6. QED BY <1>6, <2>5 DEF Within
  <1>7. CASE r \notin F
    <2>1. F \in SUBSET Evicting /\ F \in SUBSET Request /\ faults = 0
      BY <1>1, <1>2, <1>7 DEF Evicting
    <2>2. Within(F)
      BY <2>1 DEF Budgeted
    <2>3. \A e \in F : req'[e] = req[e]
      BY <1>1, <1>7, <2>1
    <2>4. QED BY <1>1, <1>4, <1>5, <2>1, <2>2, <2>3, WithinStays
  <1>8. QED BY <1>6, <1>7

\* A file that is evicted, and one that is not, are no more to consider.
LEMMA EvictBudget ==
    ASSUME ShapeInv, Budgeted, NEW r \in Request, Evict(r)
    PROVE  Budgeted'
  <1> DEFINE P == req[r].plan
             t == req[r].total
             surveyed == req[r].size
  <1>1. /\ ShapeInv' /\ KeepsContent /\ req[r].pc = "evict" /\ UNCHANGED <<faults, contended>>
        /\ \A s \in Request \ {r} : req'[s] = req[s]
    BY EvictShapes DEF Evict, budget
  <1>2. PICK c \in P :
           \/ UNCHANGED disk /\ req'[r] = [req[r] EXCEPT !.plan = P \ {c}]
           \/ /\ ~Active(c) /\ Unlinks(c)
              /\ req'[r] = [req[r] EXCEPT !.plan = P \ {c}, !.total = t - surveyed[c]]
    BY EvictShapes
  <1>3. /\ P \in SUBSET Book /\ surveyed \in [Book -> Nat] /\ t \in Nat
        /\ req[r] \in Acquisition /\ c \in Book
    <2>1. P \in SUBSET Book /\ surveyed \in [Book -> Nat] /\ t \in Nat /\ req[r] \in Acquisition
      BY AcquisitionFields
    <2>2. QED BY <2>1
  <1>4. /\ req'[r].pc = "evict" /\ req'[r].book = req[r].book
        /\ req'[r].plan = P \ {c} /\ req'[r].size = surveyed
    BY <1>1, <1>2, <1>3 DEF Acquisition
  <1>5. \A s \in Request : (Pending(s)' <=> Pending(s)) /\ req'[s].book = req[s].book
    BY <1>1, <1>4 DEF Pending
  <1> SUFFICES ASSUME faults' = 0, NEW F \in SUBSET Evicting' PROVE Within(F)'
    BY DEF Budgeted
  <1>6. F \in SUBSET Evicting /\ F \in SUBSET Request /\ Within(F)
    <2>1. F \in SUBSET Evicting /\ F \in SUBSET Request
      BY <1>1, <1>4 DEF Evicting
    <2>2. QED BY <1>1, <2>1 DEF Budgeted
  <1>7. CASE UNCHANGED disk /\ req'[r] = [req[r] EXCEPT !.plan = P \ {c}]
    <2>1. Counted(F)' = Counted(F) /\ Sizes' = Sizes
      BY <1>1, <1>5, <1>7 DEF Counted, Cached, Sizes, Size, disk
    <2>2. req'[r].total = t
      BY <1>3, <1>7 DEF Acquisition
    <2>3. \A e \in F : Covers(e, F) => Covers(e, F)'
      BY <1>1, <1>4, <1>6, <2>1, <2>2, CoversStays
    <2>4. QED BY <1>1, <1>6, <2>1, <2>3, WithinMoves
  <1>8. CASE /\ ~Active(c) /\ Unlinks(c)
             /\ req'[r] = [req[r] EXCEPT !.plan = P \ {c}, !.total = t - surveyed[c]]
    <2>1. file'[c] = NoFile /\ \A b \in Book \ {c} : file'[b] = file[b]
      BY <1>3, <1>8, Unlinked DEF ShapeInv
    <2>2. Counted(F)' \subseteq Counted(F) \ {c}
      BY <1>1, <1>5, <2>1 DEF Counted, Cached
    <2>3. \A b \in Counted(F)' : Sizes'[b] = Sizes[b]
      <3> SUFFICES ASSUME NEW b \in Counted(F)' PROVE Sizes'[b] = Sizes[b]
        OBVIOUS
      <3>1. b \in Book /\ file'[b] # NoFile /\ b # c
        BY <2>2 DEF Counted, Cached
      <3>2. file'[b] = file[b] /\ content'[file'[b]] = content[file'[b]]
        BY <1>1, <2>1, <3>1, FilesKeepContent
      <3>3. QED BY <3>1, <3>2 DEF Sizes, Cached, Size
    <2>4. req'[r].total = t - surveyed[c]
      BY <1>3, <1>8 DEF Acquisition
    <2>5. ASSUME NEW e \in F, Covers(e, F) PROVE Covers(e, F)'
      <3>1. CASE e # r
        BY <1>1, <1>6, <2>2, <2>3, <2>5, <3>1, CoversStays
      <3>2. CASE e = r
        <4> DEFINE S == Counted(F)
                   T == Counted(F)'
                   sizes == Sizes
                   sizes2 == Sizes'
        <4>1. Fits(S, sizes, P, surveyed, t)
          BY <2>5, <3>2 DEF Covers
        <4>2. S \in SUBSET Book /\ sizes \in [Book -> Nat] /\ T \in SUBSET (S \ {c})
          BY <2>2, CountedNatural
        <4>3. sizes2 \in [Book -> Nat] /\ \A b \in T : sizes2[b] = sizes[b]
          <5>1. (Sizes \in [Book -> Nat])'
            BY <1>1, CountedNatural, PTL
          <5>2. QED BY <2>3, <5>1
        <4>4. Fits(T, sizes2, P \ {c}, surveyed, t - surveyed[c])
          <5> HIDE DEF S, T, sizes, sizes2, P, surveyed, t
          <5>1. Fits(S \ {c}, sizes, P \ {c}, surveyed, t - surveyed[c]) /\ t - surveyed[c] \in Nat
            BY <1>3, <4>1, <4>2, FitsOneLess
          <5>2. S \ {c} \in SUBSET Book /\ P \ {c} \in SUBSET Book
            BY <1>3, <4>2
          <5>3. QED BY <1>3, <4>2, <4>3, <5>1, <5>2, FitsLess
        <4>5. QED BY <1>4, <2>4, <3>2, <4>4 DEF Covers
      <3>3. QED BY <3>1, <3>2
    <2>6. QED BY <1>1, <1>6, <2>2, <2>3, <2>5, WithinMoves
  <1>9. QED BY <1>2, <1>7, <1>8

\* A request that is through leaves what it counted down, which fits the limit.
LEMMA AdmitBudget ==
    ASSUME ShapeInv, Budgeted, NEW r \in Request, Admit(r)
    PROVE  Budgeted'
  <1> DEFINE b == req[r].book
  <1>1. /\ ShapeInv' /\ KeepsContent
        /\ \A s \in Request \ {r} : req'[s] = req[s]
    BY AdmitShapes
  <1>2. /\ UNCHANGED faults /\ req[r].pc = "evict" /\ req[r] \in Acquisition /\ b \in Book
    BY BookIsOne, AcquisitionFields DEF Admit, At, budget
  <1>3. CASE Unlinks(b) /\ req'[r] = Idle /\ Overlaps(r)
    <2>1. file'[b] = NoFile /\ \A c \in Book \ {b} : file'[c] = file[c]
      BY <1>2, <1>3, Unlinked DEF ShapeInv
    <2>2. \A c \in Book : file'[c] # NoFile =>
             file'[c] = file[c] /\ content'[file[c]] = content[file[c]]
      BY <1>1, <2>1, FilesKeepContent
    <2>3. req'[r].pc # "evict"
      BY <1>3 DEF Idle
    <2>4. contended \subseteq contended'
      BY <1>3 DEF Overlaps
    <2>5. QED BY <1>1, <1>2, <2>1, <2>2, <2>3, <2>4, OneKeepsBudget
  <1>4. CASE /\ UNCHANGED <<disk, contended>> /\ req[r].total <= HardLimit
             /\ req'[r] = [req[r] EXCEPT !.pc = "leased", !.plan = {}, !.size = NoSizes,
                                         !.order = {}, !.total = 0]
    <2>1. req'[r].pc = "leased" /\ req'[r].book = b
      BY <1>2, <1>4 DEF Acquisition
    <2>2. Cached' = Cached /\ Sizes' = Sizes
      BY <1>4 DEF Cached, Sizes, Size, disk
    <2> SUFFICES ASSUME faults' = 0, NEW F \in SUBSET Evicting' PROVE Within(F)'
      BY DEF Budgeted
    <2> DEFINE G == F \cup {r}
    <2>3. /\ G \in SUBSET Evicting /\ F \in SUBSET Request /\ r \notin F
      BY <1>1, <1>2, <2>1 DEF Evicting
    <2>4. Within(G)
      BY <1>2, <2>3 DEF Budgeted
    <2>5. Counted(F)' = Counted(G)
      <3>1. \A s \in Request : Pending(s)' <=> (Pending(s) /\ s # r)
        BY <1>1, <2>1 DEF Pending
      <3>2. \A s \in Request \ {r} : req'[s].book = req[s].book
        BY <1>1
      <3>3. ASSUME NEW c PROVE (\A s \in Request : Pending(s)' /\ req'[s].book = c => s \in F)
                                <=> (\A s \in Request : Pending(s) /\ req[s].book = c => s \in G)
        BY <3>1, <3>2
      <3>4. QED BY <1>4, <2>2, <3>3 DEF Counted
    <2>6. Bytes(Counted(F))' = Bytes(Counted(G))
      BY <1>4, <2>5 DEF Bytes, Size, disk
    <2>7. CASE Bytes(Counted(G)) <= HardLimit
      BY <2>6, <2>7 DEF Within
    <2>8. ASSUME NEW e \in F, Covers(e, G) PROVE Within(F)'
      <3>1. req'[e] = req[e]
        BY <1>1, <2>3
      <3>2. Covers(e, F)'
        BY <2>2, <2>5, <2>8, <3>1 DEF Covers
      <3>3. QED BY <3>2 DEF Within
    <2>9. CASE Covers(r, G)
      <3> DEFINE S == Counted(G)
                 sizes == Sizes
                 P == req[r].plan
                 t == req[r].total
                 surveyed == req[r].size
                 n == Total([c \in S |-> sizes[c]])
      <3>1. /\ S \in SUBSET Book /\ sizes \in [Book -> Nat] /\ Bytes(S) = n /\ n \in Nat
            /\ P \in SUBSET Book /\ surveyed \in [Book -> Nat] /\ t \in Nat /\ t <= HardLimit
        BY <1>4, CountedNatural, AcquisitionFields
      <3>2. Fits(S, sizes, P, surveyed, t)
        BY <2>9 DEF Covers
      <3>3. n <= t
        <4> HIDE DEF S, sizes, P, surveyed, t
        <4>1. QED BY <3>1, <3>2, FitsBytes
      <3>4. Bytes(Counted(F))' = n
        BY <2>6, <3>1
      <3> HIDE DEF n, t
      <3>5. Bytes(Counted(F))' <= HardLimit
        BY <3>1, <3>3, <3>4, CacheAssumption
      <3>6. QED BY <3>5 DEF Within
    <2>10. QED BY <2>4, <2>7, <2>8, <2>9 DEF Within
  <1>5. QED BY <1>3, <1>4, AdmitShapes

-----------------------------------------------------------------------------

LEMMA BudgetFrame ==
    ASSUME Budgeted, UNCHANGED <<file, content, req, faults, contended>>
    PROVE  Budgeted'
  <1>1. Cached' = Cached /\ Evicting' = Evicting /\ \A r \in Request : Pending(r)' = Pending(r)
    BY DEF Cached, Evicting, Pending
  <1>2. \A b \in Book : Size(b)' = Size(b)
    BY DEF Size
  <1>3. Sizes' = Sizes
    BY <1>1, <1>2 DEF Sizes
  <1>4. ASSUME NEW F PROVE Within(F)' = Within(F)
    <2>1. Counted(F)' = Counted(F)
      BY <1>1 DEF Counted
    <2>2. Bytes(Counted(F))' = Bytes(Counted(F))
      <3>1. Counted(F) \subseteq Book
        BY DEF Counted, Cached
      <3>2. [b \in Counted(F) |-> Size(b)]' = [b \in Counted(F) |-> Size(b)]
        BY <1>2, <2>1, <3>1
      <3>3. QED BY <3>2 DEF Bytes
    <2>3. ASSUME NEW e \in F PROVE Covers(e, F)' = Covers(e, F)
      BY <1>3, <2>1 DEF Covers, Fits
    <2>4. QED BY <2>2, <2>3 DEF Within
  <1>5. QED BY <1>1, <1>4 DEF Budgeted

LEMMA WorldBudget ==
    ASSUME ShapeInv, Budgeted, NEW b \in Book, SourceChanges(b) \/ Delete(b)
    PROVE  Budgeted'
  <1>1. UNCHANGED <<file, content, req, faults, contended>>
    BY DEF SourceChanges, Delete, Happens, disk
  <1>2. QED BY <1>1, BudgetFrame

LEMMA InvalidateBudget ==
    ASSUME ShapeInv, Budgeted, NEW b \in Book, Invalidate(b)
    PROVE  Budgeted'
  <1>1. /\ UNCHANGED <<req, faults, contended>> /\ Unlinks(b) /\ ShapeInv' /\ KeepsContent
    BY InvalidateShapes DEF Invalidate, Invalidates, budget
  <1>2. file'[b] = NoFile /\ \A c \in Book \ {b} : file'[c] = file[c]
    BY <1>1, Unlinked DEF ShapeInv
  <1>3. ASSUME NEW c \in Book, file'[c] # NoFile
        PROVE  /\ file[c] # NoFile /\ Sizes'[c] = Sizes[c]
               /\ \A s \in Request : Pending(s) /\ req[s].book = c => Pending(s)' /\ req'[s].book = c
    <2>1. file'[c] = file[c] /\ content'[file[c]] = content[file[c]]
      BY <1>1, <1>2, <1>3, FilesKeepContent
    <2>2. Sizes'[c] = Sizes[c]
      BY <1>3, <2>1 DEF Sizes, Cached, Size
    <2>3. QED BY <1>1, <1>3, <2>1, <2>2 DEF Pending
  <1>4. QED BY <1>1, <1>3, BudgetShrinks

LEMMA RestartBudget ==
    ASSUME ShapeInv, Restart
    PROVE  Budgeted'
  <1>1. /\ \A r \in Request : req'[r] = Idle
        /\ Bytes(Cached)' <= SoftLimit /\ ShapeInv'
    BY RestartShapes
  <1>2. \A r \in Request : req'[r].pc = "idle"
    BY <1>1 DEF Idle
  <1> SUFFICES ASSUME NEW F \in SUBSET Evicting' PROVE Within(F)'
    BY DEF Budgeted
  <1>3. /\ (Counted(F) \in SUBSET Cached)'
        /\ (Bytes(Counted(F)) \in Nat /\ Bytes(Cached) \in Nat)'
        /\ (Bytes(Counted(F)) <= Bytes(Cached))'
    BY <1>1, CountedNatural, CountedLess, PTL
  <1>4. Bytes(Counted(F))' <= HardLimit
    <2> DEFINE m == Bytes(Counted(F))'
               n == Bytes(Cached)'
    <2>1. m \in Nat /\ n \in Nat /\ m <= n /\ n <= SoftLimit
      BY <1>1, <1>3
    <2> HIDE DEF m, n
    <2>2. m <= HardLimit
      BY <2>1, CacheAssumption
    <2>3. QED BY <2>2 DEF m
  <1>5. QED BY <1>4 DEF Within

LEMMA BudgetStarts == Init => Budgeted
  <1> SUFFICES ASSUME Init PROVE Budgeted
    OBVIOUS
  <1> SUFFICES ASSUME NEW F PROVE Bytes(Counted(F)) <= HardLimit
    BY DEF Budgeted, Within
  <1>1. Counted(F) = {}
    BY DEF Counted, Cached, Init
  <1> DEFINE f == [b \in {} |-> Size(b)]
  <1>2. f \in [{} -> Nat] /\ \A b \in {} : f[b] = 0
    OBVIOUS
  <1>3. Bytes({}) = Total(f)
    BY DEF Bytes
  <1> HIDE DEF f
  <1>4. Bytes({}) = 0
    BY <1>2, <1>3, TotalOfZeros
  <1>5. QED BY <1>1, <1>4, CacheAssumption

LEMMA BudgetSame ==
    ASSUME Budgeted, UNCHANGED vars
    PROVE  Budgeted'
  <1>1. UNCHANGED <<file, content, req, faults, contended>>
    BY DEF vars, disk, budget
  <1>2. QED BY <1>1, BudgetFrame

LEMMA BudgetStays ==
    ASSUME ShapeInv, CopyInv, Budgeted, [Next]_vars
    PROVE  Budgeted'
  <1>1. CASE UNCHANGED vars
    BY <1>1, BudgetSame
  <1>2. ASSUME NEW b \in Book, SourceChanges(b) \/ Delete(b) \/ Invalidate(b) PROVE Budgeted'
    BY <1>2, WorldBudget, InvalidateBudget
  <1>3. CASE Restart
    BY <1>3, RestartBudget
  <1>4. ASSUME NEW r \in Request, Acquire(r) PROVE Budgeted'
    <2>1. ASSUME NEW b \in Book, Ask(r, b) PROVE Budgeted'
      BY <2>1, QuietBudget
    <2>2. CASE Open(r) \/ Check(r) \/ Touch(r) \/ Stamp(r) \/ Record(r)
      BY <2>2, QuietBudget
    <2>3. CASE Clear(r) \/ Create(r) \/ Copy(r) \/ Rename(r) \/ Verify(r)
      BY <2>3, ClearBudget, CreateBudget, CopyBudget, RenameBudget, VerifyBudget
    <2>4. CASE Survey(r) \/ Evict(r) \/ Admit(r)
      BY <2>4, SurveyBudget, EvictBudget, AdmitBudget
    <2>5. QED BY <1>4, <2>1, <2>2, <2>3, <2>4 DEF Acquire
  <1>5. ASSUME NEW r \in Request, Use(r) PROVE Budgeted'
    BY <1>5, QuietBudget, FailBudget DEF Use
  <1>6. QED BY <1>1, <1>2, <1>3, <1>4, <1>5 DEF Next, Environment

LEMMA BudgetIsHeld == ShapeInv /\ Budgeted => BudgetHeld
  <1> SUFFICES ASSUME ShapeInv, Budgeted, faults = 0,
                      \A r \in Request : req[r].pc \in Idling \cup Holding
               PROVE  Bytes(Cached \ contended) <= HardLimit
    BY DEF BudgetHeld
  <1>1. \A r \in Request : ~Pending(r)
    BY DEF Pending, Idling, Holding
  <1>2. Counted({}) = Cached \ contended
    BY <1>1 DEF Counted
  <1>3. Within({})
    BY DEF Budgeted
  <1>4. QED BY <1>2, <1>3 DEF Within

\* As long as no acquisition fails, the copies of books that are not contended fit the hard
\* limit whenever every acquisition is through: each surveyed the directory while others
\* were adding to it, and the last of them to survey saw all that is there.  (A copy that
\* two requests for its book write at once may grow after both have surveyed it.)
THEOREM HardLimitHolds == Spec => []BudgetHeld
  <1>1. Init => ShapeInv /\ HistoryInv /\ CopyInv /\ Budgeted
    BY ShapeStarts, HistoryStarts, CopyStarts, BudgetStarts
  <1>2. ShapeInv /\ HistoryInv /\ CopyInv /\ Budgeted /\ [Next]_vars
            => (ShapeInv /\ HistoryInv /\ CopyInv /\ Budgeted)'
    BY ShapeStays, HistoryStays, CopyStays, BudgetStays
  <1>3. ShapeInv /\ Budgeted => BudgetHeld
    BY BudgetIsHeld
  <1>4. QED BY <1>1, <1>2, <1>3, PTL DEF Spec
=============================================================================
