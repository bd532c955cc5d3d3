----------------------------- MODULE SourceCache -----------------------------
(***************************************************************************)
(* source/cache.rs on Android: the private copies of the books' sources    *)
(* and the leases on them.  Requests on several threads (the epub://       *)
(* protocol, image saving, the search worker) acquire a source; each step  *)
(* of acquire_android that another thread or a crash can come between is   *)
(* an action.  A path names an inode, as the temporary file of a book is   *)
(* shared by every request that copies it; a content is a sequence of      *)
(* chunks, each with the version of the source it was read from.           *)
(***************************************************************************)
EXTENDS Sequences, Recency

CONSTANTS Book, Request,
          Serves,        \* Serves[r]: the books request r may ask for
          Persistable,   \* books whose source reports a size or a modification time
          Length,        \* Length[v]: chunks of a source at version v
          SoftLimit, HardLimit,   \* in chunks
          MaxVersion,    \* bound: versions of a source
          MaxEvents      \* bound: changes, deletions, failures and crashes together

ASSUME CacheAssumption ==
    /\ IsFiniteSet(Book) /\ IsFiniteSet(Request)
    /\ Serves \in [Request -> SUBSET Book]
    /\ Persistable \subseteq Book
    /\ {SoftLimit, HardLimit, MaxVersion, MaxEvents} \subseteq Nat
    /\ SoftLimit <= HardLimit
    /\ MaxVersion > 0
    /\ Length \in [1..MaxVersion -> Nat \ {0}]

VARIABLES books,         \* rows of books
          doomed,        \* books deleted whose files are not invalidated yet
          source,        \* source[b]: the version of the user's file
          file, tmp,     \* inodes of {book}.source and {book}.source.tmp
          fingerprint,   \* fingerprint[b]: version in {book}.fingerprint.json
          content,       \* content[i]: the chunks of an inode
          rows,          \* books that have a row in source_cache_entries
          older,         \* the pairs of them that last_accessed_at orders
          rowSize,       \* rowSize[b]: cache_size_bytes
          req,           \* the acquisition each request is in
          contended,     \* history: books a miss of which overlapped another request
          events,        \* changes, deletions and crashes so far
          faults         \* failed operations so far

disk == <<file, tmp, fingerprint, content>>
table == <<rows, older, rowSize>>
world == <<books, doomed, source>>
budget == <<events, faults>>
vars == <<disk, table, world, req, contended, budget>>

Version == 1..MaxVersion
NoVersion == 0
NoBook == "none"
NoFile == <<NoBook, 0>>

\* Enough inodes: a book has a file and a temporary file at most, a request a handle.
Slot == 1..(2 + Cardinality(Request))
Inode == Book \X Slot

Copying == {"create", "copy"}
Holding == {"leased", "reading"}
Missing == {"clear", "verify", "stamp"} \cup Copying
Idling == {"idle", "found"}
PC == Idling \cup {"check", "touch", "record", "survey", "evict"} \cup Missing \cup Holding

\* What enforce_cache_limits works on.  plan: the files of its survey still to consider;
\* size: the bytes of each; order: which was accessed before which; total: the bytes left.
NoSizes == [b \in Book |-> 0]

Acquisition ==
    [pc: PC,
     book: Book \cup {NoBook},
     version: Version \cup {NoVersion},
     inode: Inode \cup {NoFile},
     copied: Nat,
     plan: SUBSET Book,
     size: [Book -> Nat],
     order: SUBSET (Book \X Book),
     total: Nat]

Idle == [pc |-> "idle", book |-> NoBook, version |-> NoVersion, inode |-> NoFile,
         copied |-> 0, plan |-> {}, size |-> NoSizes, order |-> {}, total |-> 0]

Cached == {b \in Book : file[b] # NoFile}
Size(b) == Len(content[file[b]])

\* The bytes of each file, and those of some of them.
Sizes == [b \in Book |-> IF b \in Cached THEN Size(b) ELSE 0]
Bytes(S) == Total([b \in S |-> Size(b)])

\* The registry of guards: a lease is registered before the source is opened, and
\* lives as long as its request.
Active(b) == \E r \in Request : req[r].book = b /\ req[r].pc \notin Idling

\* An inode without a name and without a handle is gone.
Linked(f, t, q) == {f[b] : b \in Book} \cup {t[b] : b \in Book}
                                       \cup {q[r].inode : r \in Request}
Collected(c) == [i \in Inode |-> IF i \in Linked(file', tmp', req') THEN c[i] ELSE <<>>]

Moves(r, step) == req' = [req EXCEPT ![r].pc = step]
\* An event of the environment, of which there are boundedly many.
Happens == events + faults < MaxEvents /\ events' = events + 1 /\ UNCHANGED faults

Ends(r) == req' = [req EXCEPT ![r] = Idle]
At(r, step) == req[r].pc = step
BookOf(r) == req[r].book

\* The other requests that acquire r's book or have a lease on it.
Others(r) == {s \in Request \ {r} : BookOf(s) = BookOf(r) /\ req[s].pc \notin Idling}

\* History, of which the code keeps nothing.  Nothing orders two requests for one book: a
\* miss of one may spoil what another copies or holds, hits beside each other do not.
Overlaps(r) ==
    contended' = IF Others(r) = {} THEN contended ELSE contended \cup {BookOf(r)}

-----------------------------------------------------------------------------
(* Asking for a source. *)

\* The caller looks the book up, and lets go of the database before it acquires.
Ask(r, b) ==
    /\ At(r, "idle")
    /\ b \in Serves[r] \cap books
    /\ req' = [req EXCEPT ![r] = [Idle EXCEPT !.pc = "found", !.book = b]]
    /\ UNCHANGED <<disk, table, world, budget, contended>>

\* guard_for and the first open_checked_source.
Open(r) ==
    /\ At(r, "found")
    /\ req' = [req EXCEPT ![r].pc = "check", ![r].version = source[BookOf(r)]]
    /\ IF \E s \in Others(r) : req[s].pc \in Missing
       THEN Overlaps(r)
       ELSE UNCHANGED contended
    /\ UNCHANGED <<disk, table, world, budget>>

\* SourceFingerprint::cache_matches: two versions differ in the size or the time their
\* source reports; a source that reports neither is compared by its first bytes, which
\* need not tell two versions apart.
Matches(b, v, w) == b \in Persistable => v = w

Hit(b, v) ==
    /\ b \in Persistable
    /\ file[b] # NoFile
    /\ fingerprint[b] # NoVersion /\ Matches(b, fingerprint[b], v)

Check(r) ==
    /\ At(r, "check")
    /\ \/ /\ Hit(BookOf(r), req[r].version)
          /\ Moves(r, "touch")
          /\ UNCHANGED contended
       \/ /\ ~Hit(BookOf(r), req[r].version)
          /\ Moves(r, "clear")
          /\ Overlaps(r)
    /\ UNCHANGED <<disk, table, world, budget>>

\* The row of b becomes the last accessed: MAX(last_accessed_at) + 1.
Accessed(b) == rows' = rows \cup {b} /\ older' = Touched(older, rows, b)

\* DELETE FROM source_cache_entries
Removed(b) ==
    /\ rows' = rows \ {b} /\ older' = Without(older, b)
    /\ rowSize' = [rowSize EXCEPT ![b] = 0]

\* Mutant: the row is inserted although its book is gone.
PersistedForNobody(b) ==
    /\ Accessed(b)
    /\ rowSize' = [rowSize EXCEPT ![b] = Size(b)]

\* persist_cache_entry, once the file's size is read.
Persisted(b) ==
    IF b \in books
    THEN /\ Accessed(b)
         /\ rowSize' = [rowSize EXCEPT ![b] = Size(b)]
    ELSE UNCHANGED table

\* touch_cache_hit: a row is touched whatever became of the file, a missing one is
\* persisted.
Touch(r) ==
    /\ At(r, "touch")
    /\ \/ /\ BookOf(r) \in rows
          /\ Accessed(BookOf(r))
          /\ Moves(r, "leased")
          /\ UNCHANGED rowSize
       \/ /\ BookOf(r) \notin rows /\ BookOf(r) \in Cached
          /\ Persisted(BookOf(r))
          /\ Moves(r, "leased")
       \/ /\ BookOf(r) \notin rows \cup Cached
          /\ Ends(r)
          /\ UNCHANGED table
    /\ UNCHANGED <<disk, world, budget, contended>>

-----------------------------------------------------------------------------
(* A miss: the source is copied to a temporary file that takes the file's name. *)

\* History: a copy that a request begins with no other about is its own.
Begins(r) == contended' = IF Others(r) = {} THEN contended \ {BookOf(r)} ELSE contended

\* Mutant: the old fingerprint survives the old file.
ClearFileOnly(r) ==
    /\ At(r, "clear")
    /\ file' = [file EXCEPT ![BookOf(r)] = NoFile]
    /\ Moves(r, "create")
    /\ Begins(r)
    /\ content' = [i \in Inode |->
                     IF i \in Linked(file', tmp, req') THEN content[i] ELSE <<>>]
    /\ UNCHANGED <<tmp, fingerprint, table, world, budget>>

Clear(r) ==
    /\ At(r, "clear")
    /\ file' = [file EXCEPT ![BookOf(r)] = NoFile]
    /\ fingerprint' = [fingerprint EXCEPT ![BookOf(r)] = NoVersion]
    /\ Moves(r, "create")
    /\ Begins(r)
    /\ UNCHANGED tmp
    /\ content' = Collected(content)
    /\ UNCHANGED <<table, world, budget>>

\* File::create: a temporary file of that name is truncated, whoever writes to it.
Create(r) ==
    LET inode == IF tmp[BookOf(r)] # NoFile THEN tmp[BookOf(r)]
                 ELSE <<BookOf(r), CHOOSE n \in Slot :
                                      <<BookOf(r), n>> \notin Linked(file, tmp, req)>>
    IN  /\ At(r, "create")
        /\ tmp' = [tmp EXCEPT ![BookOf(r)] = inode]
        /\ content' = [content EXCEPT ![inode] = <<>>]
        /\ req' = [req EXCEPT ![r].pc = "copy", ![r].inode = inode, ![r].copied = 0]
        /\ UNCHANGED <<file, fingerprint, table, world, budget, contended>>

\* A chunk written at position k leaves a hole where nothing was written before it.
Written(c, k, v) ==
    [i \in 1..(IF k > Len(c) THEN k ELSE Len(c)) |->
        IF i = k THEN v ELSE IF i <= Len(c) THEN c[i] ELSE NoVersion]

\* One write of std::io::copy; the user's file may change between two of them.
Copy(r) ==
    LET k == req[r].copied + 1
        v == source[BookOf(r)]
    IN  /\ At(r, "copy")
        /\ k <= Length[v]
        /\ content' = [content EXCEPT ![req[r].inode] = Written(@, k, v)]
        /\ req' = [req EXCEPT ![r].copied = k]
        /\ UNCHANGED <<file, tmp, fingerprint, table, world, budget, contended>>

\* fs::rename of the path, whichever inode has it now.
Rename(r) ==
    /\ At(r, "copy")
    /\ req[r].copied >= Length[source[BookOf(r)]]
    /\ \/ /\ tmp[BookOf(r)] # NoFile
          /\ file' = [file EXCEPT ![BookOf(r)] = tmp[BookOf(r)]]
          /\ tmp' = [tmp EXCEPT ![BookOf(r)] = NoFile]
          /\ req' = [req EXCEPT ![r].pc = "verify", ![r].inode = NoFile,
                                ![r].copied = 0]
       \/ /\ tmp[BookOf(r)] = NoFile
          /\ Ends(r)
          /\ UNCHANGED <<file, tmp>>
    /\ content' = Collected(content)
    /\ UNCHANGED <<fingerprint, table, world, budget, contended>>

\* The second open_checked_source: a source that changed is not cached.
Verify(r) ==
    /\ At(r, "verify")
    /\ IF Matches(BookOf(r), req[r].version, source[BookOf(r)])
       THEN /\ req' = [req EXCEPT ![r].pc = "stamp", ![r].version = source[BookOf(r)]]
            /\ UNCHANGED disk
       ELSE /\ file' = [file EXCEPT ![BookOf(r)] = NoFile]
            /\ Ends(r)
            /\ UNCHANGED <<tmp, fingerprint>>
            /\ content' = Collected(content)
    /\ UNCHANGED <<table, world, budget, contended>>

\* write_fingerprint
Stamp(r) ==
    /\ At(r, "stamp")
    /\ fingerprint' = IF BookOf(r) \in Persistable
                      THEN [fingerprint EXCEPT ![BookOf(r)] = req[r].version]
                      ELSE fingerprint
    /\ Moves(r, "record")
    /\ UNCHANGED <<file, tmp, content, table, world, budget, contended>>

\* persist_cache_entry
Record(r) ==
    /\ At(r, "record")
    /\ \/ BookOf(r) \in Cached /\ Persisted(BookOf(r)) /\ Moves(r, "survey")
       \/ BookOf(r) \notin Cached /\ Ends(r) /\ UNCHANGED table
    /\ UNCHANGED <<disk, world, budget, contended>>

-----------------------------------------------------------------------------
(* Eviction: enforce_cache_limits and evict_if_needed. *)

\* By last_accessed_at; a file without a row is older than any other.
Order == older \cup (Cached \ rows) \X (Cached \cap rows)

\* The rows and, right after them, the directory are read and let go of.
Survey(r) ==
    /\ At(r, "survey")
    /\ req' = [req EXCEPT ![r].pc = "evict",
                          ![r].plan = Cached,
                          ![r].size = Sizes,
                          ![r].order = Order \cap (Cached \X Cached),
                          ![r].total = Bytes(Cached)]
    /\ UNCHANGED <<disk, table, world, budget, contended>>

\* Mutant: the registry of leases is not asked.
EvictableAlways(b) == TRUE

Evictable(b) == ~Active(b)

\* The oldest of the files still to consider.
Oldest(plan, order) == {b \in plan : \A c \in plan : <<c, b>> \notin order}

\* The file and its fingerprint.
Unlinks(b) ==
    /\ file' = [file EXCEPT ![b] = NoFile]
    /\ fingerprint' = [fingerprint EXCEPT ![b] = NoVersion]
    /\ UNCHANGED tmp
    /\ content' = Collected(content)

\* One turn of the loop, with evict_cache_entry_if_inactive under the registry's lock.
Evict(r) ==
    LET Taken(b) == b # BookOf(r) /\ Evictable(b)
    IN  /\ At(r, "evict")
        /\ req[r].total > SoftLimit
        /\ \E b \in Oldest(req[r].plan, req[r].order) :
              /\ req' = [req EXCEPT ![r].plan = @ \ {b},
                                    ![r].total = IF Taken(b) THEN @ - req[r].size[b] ELSE @]
              /\ IF Taken(b) THEN Unlinks(b) /\ Removed(b) ELSE UNCHANGED <<disk, table>>
        /\ UNCHANGED <<world, budget, contended>>

\* invalidate: the file, its fingerprint and its row, whoever holds a lease.
Invalidates(b) == Unlinks(b) /\ Removed(b)

\* The loop is over: the request gets its lease.
Leased(r) ==
    /\ req' = [req EXCEPT ![r].pc = "leased", ![r].plan = {}, ![r].size = NoSizes,
                          ![r].order = {}, ![r].total = 0]
    /\ UNCHANGED <<disk, table>>

\* Mutant: the hard limit is not enforced.
AdmitAnyway(r) ==
    /\ At(r, "evict")
    /\ req[r].total <= SoftLimit \/ req[r].plan = {}
    /\ Leased(r) /\ UNCHANGED contended
    /\ UNCHANGED <<world, budget>>

\* One that leaves too much gives its own file up.
Admit(r) ==
    /\ At(r, "evict")
    /\ req[r].total <= SoftLimit \/ req[r].plan = {}
    /\ \/ /\ req[r].total <= HardLimit
          /\ Leased(r)
          /\ UNCHANGED contended
       \/ /\ req[r].total > HardLimit
          /\ Ends(r)
          /\ Invalidates(BookOf(r))
          /\ Overlaps(r)
    /\ UNCHANGED <<world, budget>>

-----------------------------------------------------------------------------
(* A lease in use, and the world around. *)

\* SourceLease::open_reader: the path is opened when the holder asks for it.
OpenReader(r) ==
    /\ At(r, "leased")
    /\ IF BookOf(r) \in Cached
       THEN req' = [req EXCEPT ![r].pc = "reading", ![r].inode = file[BookOf(r)]]
       ELSE Ends(r)
    /\ UNCHANGED <<disk, table, world, budget, contended>>

\* The lease is dropped, used or not.
Drop(r) ==
    /\ req[r].pc \in Holding
    /\ Ends(r)
    /\ UNCHANGED <<file, tmp, fingerprint>>
    /\ content' = Collected(content)
    /\ UNCHANGED <<table, world, budget, contended>>

\* An operation on the source, the cache or the database fails: the request returns
\* the error, and a copy under way removes the temporary file.
Fail(r) ==
    /\ events + faults < MaxEvents
    /\ faults' = faults + 1 /\ UNCHANGED events
    /\ req[r].pc \in {"found", "touch", "verify", "stamp", "record", "survey", "evict"}
                        \cup Copying
    /\ tmp' = IF req[r].pc \in Copying THEN [tmp EXCEPT ![BookOf(r)] = NoFile] ELSE tmp
    /\ Ends(r)
    /\ UNCHANGED <<file, fingerprint>>
    /\ content' = Collected(content)
    /\ UNCHANGED <<table, world, contended>>

SourceChanges(b) ==
    /\ source[b] < MaxVersion
    /\ source' = [source EXCEPT ![b] = @ + 1]
    /\ Happens
    /\ UNCHANGED <<disk, table, books, doomed, req, contended>>

\* delete_book: the row goes, and its source_cache_entries row with it (ON DELETE
\* CASCADE); the files are invalidated once the database is let go of.
Delete(b) ==
    /\ b \in books /\ doomed = {}
    /\ books' = books \ {b}
    /\ doomed' = {b}
    /\ Removed(b)
    /\ Happens
    /\ UNCHANGED <<disk, source, req, contended>>

Invalidate(b) ==
    /\ b \in doomed
    /\ doomed' = doomed \ {b}
    /\ UNCHANGED <<books, source, req, budget, contended>>
    /\ Invalidates(b)

\* reconcile_cache_state: a row counts when its file exists and has its size.
Valid(b) == b \in rows /\ b \in Cached /\ Size(b) = rowSize[b]

\* The process dies and SourceManager::new runs: temporary files go, then all that is
\* not a valid entry, and then the oldest entries until the soft limit holds.
Restart ==
    LET valid == {b \in Book : Valid(b)}
        kept == Newest(older, valid, [b \in valid |-> Size(b)], SoftLimit)
    IN  /\ Happens
        /\ req' = [r \in Request |-> Idle]
        /\ tmp' = [b \in Book |-> NoFile]
        /\ file' = [b \in Book |-> IF b \in kept THEN file[b] ELSE NoFile]
        /\ fingerprint' = [b \in Book |-> IF b \in kept THEN fingerprint[b] ELSE NoVersion]
        /\ rows' = kept /\ older' = older \cap (kept \X kept)
        /\ rowSize' = [b \in Book |-> IF b \in kept THEN rowSize[b] ELSE 0]
        /\ content' = Collected(content)
        /\ doomed' = {}
        /\ UNCHANGED <<books, source, contended>>

-----------------------------------------------------------------------------

Init ==
    /\ books = Book /\ doomed = {}
    /\ source = [b \in Book |-> 1]
    /\ file = [b \in Book |-> NoFile] /\ tmp = [b \in Book |-> NoFile]
    /\ fingerprint = [b \in Book |-> NoVersion]
    /\ content = [i \in Inode |-> <<>>]
    /\ rows = {} /\ older = {} /\ rowSize = [b \in Book |-> 0]
    /\ req = [r \in Request |-> Idle]
    /\ contended = {}
    /\ events = 0 /\ faults = 0

Acquire(r) ==
    \/ \E b \in Book : Ask(r, b)
    \/ Open(r) \/ Check(r) \/ Touch(r)
    \/ Clear(r) \/ Create(r) \/ Copy(r) \/ Rename(r) \/ Verify(r)
    \/ Stamp(r) \/ Record(r) \/ Survey(r) \/ Evict(r) \/ Admit(r)

Use(r) == OpenReader(r) \/ Drop(r) \/ Fail(r)

Environment ==
    \/ \E b \in Book : SourceChanges(b) \/ Delete(b) \/ Invalidate(b)
    \/ Restart

Next == Environment \/ \E r \in Request : Acquire(r) \/ Use(r)

Spec == Init /\ [][Next]_vars

-----------------------------------------------------------------------------

\* The state is well formed; rows have an order.
TypeOK ==
    /\ books \subseteq Book /\ doomed \subseteq Book
    /\ source \in [Book -> Version]
    /\ file \in [Book -> Inode \cup {NoFile}]
    /\ tmp \in [Book -> Inode \cup {NoFile}]
    /\ fingerprint \in [Book -> Version \cup {NoVersion}]
    /\ content \in [Inode -> Seq(Version \cup {NoVersion})]
    /\ rows \subseteq Book /\ IsOrder(older, rows)
    /\ rowSize \in [Book -> Nat]
    /\ req \in [Request -> Acquisition]
    /\ contended \subseteq Book
    /\ events \in Nat /\ faults \in Nat /\ events + faults <= MaxEvents

\* A copy of the whole source at version v.
Whole(c, v) == c = [k \in 1..Length[v] |-> v]

\* A lease on a book of the library is a lease on a file that is there, and what a
\* reader got from it is a whole copy of the version the lease was given for: neither
\* an eviction nor a failed or interrupted acquisition takes it away, nor another request
\* for the book that finds the copy good, up to the lease's end.  (A source without size
\* and time is only compared by its first bytes, so its copy may mix versions.)
LeaseIsSound ==
    \A r \in Request :
        LET b == BookOf(r)
            Sound(i) == /\ i # NoFile
                        /\ b \in Persistable => Whole(content[i], req[r].version)
        IN  /\ At(r, "leased") /\ b \in books \ contended => Sound(file[b])
            /\ At(r, "reading") /\ b \notin contended => Sound(req[r].inode)

\* A fingerprint beside a file vouches for it: whatever step an acquisition failed or
\* the process died at, the next one never takes a stale or torn copy for a hit, unless
\* a miss overlapped another request for the book and its copy was not begun anew since.
FingerprintTellsTruth ==
    \A b \in Cached \ contended :
        fingerprint[b] # NoVersion => Whole(content[file[b]], fingerprint[b])

\* Once every acquisition is through, the copies fit the hard limit, though each of
\* them surveyed the directory while others were adding to it.  (One that fails after
\* it renamed its copy has not enforced the limit; a copy that two requests write at once
\* may grow after both surveyed it.)
BudgetHeld ==
    (\A r \in Request : req[r].pc \in Idling \cup Holding) /\ faults = 0
        => Bytes(Cached \ contended) <= HardLimit

\* A deletion that overtakes an acquisition is not undone by it: the cache has rows
\* for books of the library only.
RowsAreOfBooks == rows \subseteq books

\* The state is well formed, and rows are of books.
CacheOK == TypeOK /\ RowsAreOfBooks

\* What ARCHITECTURE.md says of a lease: the file in use stays, and it is never part of a
\* source, since a copy replaces it as a whole.
LeaseIsWhole ==
    \A r \in Request :
        At(r, "leased") /\ BookOf(r) \in books
            => BookOf(r) \in Cached /\ Whole(content[file[BookOf(r)]], req[r].version)
=============================================================================
