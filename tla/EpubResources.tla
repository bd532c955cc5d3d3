---------------------------- MODULE EpubResources ----------------------------
(***************************************************************************)
(* What is read from an EPUB, as functions: formats/epub/mod.rs (limits,   *)
(* entries, the spine and its documents), services/format_service.rs and   *)
(* protocol/mod.rs (an epub:// request and its range).  A path is a        *)
(* sequence of segments, decoded; an archive is a sequence of entries, of  *)
(* which the declared sizes matter and what the parser makes of them.      *)
(***************************************************************************)
EXTENDS Integers, Sequences, SequencesExt

CONSTANTS MaxEntries,       \* MAX_ZIP_ENTRIES
          MaxArchive,       \* MAX_DECOMPRESSED_SIZE
          MaxRatio,         \* MAX_COMPRESSION_RATIO
          MaxEntry,         \* MAX_ZIP_ENTRY_SIZE
          MaxChapter,       \* MAX_SEARCH_CHAPTER_SIZE
          MaxBook,          \* MAX_SEARCH_BOOK_SIZE
          NoBound,          \* of a range that has no first or no last byte
          Folded            \* Folded[s]: a segment that has capitals, in small letters

ASSUME ResourcesAssumption ==
    /\ {MaxEntries, MaxArchive, MaxRatio, MaxEntry, MaxChapter, MaxBook} \subseteq Nat
    /\ NoBound \notin Nat

\* A function whose result is an error returns one of these instead; no segment of a
\* path has a slash.
NoPath == <<"/">>
Error(e) == [error |-> e]
NotFound == Error("BOOK_RESOURCE_NOT_FOUND")
OverLimit == Error("BOOK_RESOURCE_LIMIT_EXCEEDED")
Unparsable == Error("BOOK_PARSE_FAILED")
Failed(x) == x \in {NotFound, OverLimit, Unparsable}

-----------------------------------------------------------------------------
(* Paths. *)

Proper(path) == SelectSeq(path, LAMBDA s : s \notin {"", "."})
Bad(path) == \E i \in DOMAIN path : path[i] = "\\"

\* normalize_entry_path, of a request
NormalizedEntry(path) ==
    IF \/ path = <<>> \/ Bad(path) \/ Head(path) = "" \/ Proper(path) = <<>>
       \/ \E i \in DOMAIN path : path[i] = ".."
    THEN NoPath ELSE Proper(path)

\* push_normalized_zip_segment
Pushed(path, s) ==
    CASE path = NoPath \/ s \in {"", "."} -> path
      [] path # NoPath /\ s = ".." -> IF path = <<>> THEN NoPath ELSE Front(path)
      [] OTHER -> IF s = "\\" THEN NoPath ELSE Append(path, s)

\* resolve_search_href, of a spine item against the directory of the package document
ResolvedHref(base, href) ==
    LET path == FoldLeft(Pushed, FoldLeft(Pushed, <<>>, base), href)
    IN  IF href = <<>> \/ Head(href) = "" \/ Bad(href) \/ path = <<>>
        THEN NoPath ELSE path

-----------------------------------------------------------------------------
(* The archive and its limits. *)

\* validate_entry_ratio; sizes are declared, and nothing is divided.
RatioOK(e) == e.size = 0 \/ (e.packed # 0 /\ e.size <= e.packed * MaxRatio)

\* validate_archive_budget; entries are added in order, and the sum is looked at each time.
ArchiveOK(archive) ==
    /\ Len(archive) <= MaxEntries
    /\ \A i \in DOMAIN archive :
          /\ RatioOK(archive[i])
          /\ FoldLeft(LAMBDA sum, e : sum + e.size, 0, SubSeq(archive, 1, i)) <= MaxArchive

\* eq_ignore_ascii_case, for paths
Lower(path) ==
    [i \in DOMAIN path |-> IF path[i] \in DOMAIN Folded THEN Folded[path[i]] ELSE path[i]]
SameName(p, q) == Lower(p) = Lower(q)

\* read_zip_entry_by_name: the first entry of that name.  What is read may be longer than
\* what was declared, and never longer than the limit.
ReadEntry(archive, name, limit) ==
    LET named == {i \in DOMAIN archive : SameName(archive[i].name, name)}
        e == archive[Min(named)]
    IN  CASE named = {} -> NotFound
          [] named # {} /\ e.size <= limit /\ RatioOK(e) /\ e.length <= limit -> e
          [] OTHER -> OverLimit

\* read_resource
Resource(archive, name) ==
    IF ~ArchiveOK(archive) THEN OverLimit ELSE ReadEntry(archive, name, MaxEntry)

-----------------------------------------------------------------------------
(* Search documents. *)

\* parse_search_spine: a manifest item is taken once, and only if it may be HTML.
Spine(package) ==
    LET First(i) == \A j \in 1..(i - 1) : package.spine[j] # package.spine[i]
        items == SetToSortSeq({i \in DOMAIN package.spine :
                                  /\ First(i)
                                  /\ package.spine[i] \in DOMAIN package.manifest
                                  /\ package.manifest[package.spine[i]].html}, <)
    IN  [k \in DOMAIN items |-> package.manifest[package.spine[items[k]]].href]

NoDocuments == [documents |-> <<>>, errors |-> {}, treated |-> 0, bytes |-> 0,
                cancelled |-> FALSE, failed |-> FALSE]

\* extract_search_documents, cancelled before the chapter cut (or not at all).  A chapter
\* that cannot be read is an error of its own; a book over its limit is one of the whole.
Extraction(archive, package, cut) ==
    LET spine == Spine(package)
        Chapter(x, k) ==
            LET path == ResolvedHref(package.base, spine[k])
                e == IF path = NoPath THEN NotFound
                     ELSE ReadEntry(archive, path, MaxChapter)
                counted == [x EXCEPT !.treated = k]
                bytes == x.bytes + e.length
            IN  CASE x.cancelled \/ x.failed -> x
                  [] ~(x.cancelled \/ x.failed) /\ k = cut -> [x EXCEPT !.cancelled = TRUE]
                  [] OTHER ->
                       IF Failed(e) THEN [counted EXCEPT !.errors = @ \cup {k}]
                       ELSE IF bytes > MaxBook THEN [counted EXCEPT !.failed = TRUE]
                       ELSE [counted EXCEPT
                               !.bytes = bytes,
                               !.documents = IF e.text = "some"
                                             THEN Append(@, [chapter |-> k, path |-> path])
                                             ELSE @,
                               !.errors = IF e.text = "broken" THEN @ \cup {k} ELSE @]
        x == FoldLeft(Chapter, NoDocuments, [k \in DOMAIN spine |-> k])
    IN  IF ~ArchiveOK(archive) THEN Unparsable
        ELSE IF x.failed THEN OverLimit ELSE x

-----------------------------------------------------------------------------
(* An epub:// request. *)

\* map_resource_error
StatusOf(x) ==
    CASE x.error \in {"BOOK_RESOURCE_NOT_FOUND", "BOOK_SOURCE_UNAVAILABLE"} -> 404
      [] x.error = "BOOK_RESOURCE_LIMIT_EXCEEDED" -> 413
      [] x.error = "BOOK_PARSE_FAILED" -> 422
      [] x.error = "VALIDATION_ERROR" -> 400
      [] x.error = "FORMAT_NOT_SUPPORTED" -> 501
      [] OTHER -> 500

\* sanitize_source_error: of what the source cache says only these go out.
Sanitized(x) ==
    IF x.error \in {"BOOK_RESOURCE_LIMIT_EXCEEDED", "INTERNAL_ERROR"}
    THEN x ELSE Error("BOOK_SOURCE_UNAVAILABLE")

\* serve_range: the bounds of a single range, either of which may be missing; and what is
\* served, a status with the first byte and the byte after the last.
ServedRange(length, first, last) ==
    LET Part(a, b) == [status |-> 206, from |-> a, to |-> b]
        Refused == [status |-> 416, from |-> 0, to |-> 0]
        lastByte == IF length = 0 THEN 0 ELSE length - 1
    IN  CASE first = NoBound /\ last = NoBound ->
               [status |-> 200, from |-> 0, to |-> length]
          [] first = NoBound /\ last # NoBound ->
               IF last = 0 \/ length = 0 THEN Refused
               ELSE Part(IF last < length THEN length - last ELSE 0, length)
          [] first # NoBound /\ last = NoBound ->
               IF first >= length THEN Refused ELSE Part(first, length)
          [] OTHER ->
               LET end == IF last < lastByte THEN last ELSE lastByte
               IN  IF first > end \/ first >= length THEN Refused ELSE Part(first, end + 1)

\* serve_entry: what a request asks for is looked at in this order.
Answer(request) ==
    LET path == NormalizedEntry(request.path)
        found == Resource(request.archive, path)
        Refused(status) == [status |-> status, from |-> 0, to |-> 0]
    IN  CASE request.book = "none" -> Refused(400)
          [] request.book # "none" /\ path = NoPath -> Refused(403)
          [] request.book = "unknown" /\ path # NoPath -> Refused(404)
          [] request.book \in {"missing", "error"} /\ path # NoPath -> Refused(503)
          [] OTHER ->
               IF request.lease # "ok"
               THEN Refused(StatusOf(Sanitized(Error(request.lease))))
               ELSE IF Failed(found) THEN Refused(StatusOf(found))
               ELSE ServedRange(found.length, request.first, request.last)

-----------------------------------------------------------------------------
(* What these functions promise, for small inputs (see MCSeriesSearch). *)

\* A range serves the bytes it asks for, which are the last ones if it has no first; it
\* is refused if there are none.
RangesHold(n) ==
    \A length \in 0..n, first, last \in (0..(n + 1)) \cup {NoBound} :
        LET Asked(i) == IF first = NoBound
                        THEN last # NoBound /\ i + last >= length
                        ELSE i >= first /\ (last # NoBound => i <= last)
            asked == {i \in 0..(length - 1) : Asked(i)}
            r == ServedRange(length, first, last)
        IN  IF first = NoBound /\ last = NoBound
            THEN r.status = 200 /\ r.from = 0 /\ r.to = length
            ELSE /\ r.status = (IF asked = {} THEN 416 ELSE 206)
                 /\ {i \in 0..length : r.from <= i /\ i < r.to} = asked

\* A spine item leads to an entry below the root, unless it climbs over it on its way;
\* and a request that names that entry is a request for it.
PathsHold(Paths) ==
    \A base, href \in Paths :
        LET both == base \o href
            Depth(i) == Len(SelectSeq(SubSeq(both, 1, i),
                                      LAMBDA s : s \notin {"", ".", "..", "\\"}))
                        - Len(SelectSeq(SubSeq(both, 1, i), LAMBDA s : s = ".."))
            path == ResolvedHref(base, href)
        IN  /\ path = NoPath <=>
                  \/ href = <<>> \/ Head(href) = "" \/ Bad(both)
                  \/ \E i \in DOMAIN both : Depth(i) < 0
                  \/ Depth(Len(both)) = 0
            /\ path # NoPath => NormalizedEntry(path) = path

\* Each chapter before a cancellation gives a document, an error or nothing, in the order
\* of the spine and within the book's limit; and the entry a document was read from is
\* served to the reader who opens it.
ExtractionHolds(archives, packages) ==
    \A archive \in archives, package \in packages :
        \A cut \in 0..(Len(package.spine) + 1) :
            LET x == Extraction(archive, package, cut)
                chapters == [k \in DOMAIN x.documents |-> x.documents[k].chapter]
                Request(d) == [book |-> "available", lease |-> "ok", archive |-> archive,
                               path |-> d.path, first |-> NoBound, last |-> NoBound]
            IN  Failed(x) \/
                /\ x.bytes <= MaxBook
                /\ x.treated = IF x.cancelled THEN cut - 1 ELSE Len(Spine(package))
                /\ \A i, j \in DOMAIN chapters : i < j => chapters[i] < chapters[j]
                /\ ToSet(chapters) \subseteq 1..x.treated /\ x.errors \subseteq 1..x.treated
                /\ ToSet(chapters) \cap x.errors = {}
                /\ \A d \in ToSet(x.documents) : Answer(Request(d)).status = 200
=============================================================================
