------------------------------- MODULE Catalog -------------------------------
(***************************************************************************)
(* services/catalog_service.rs and db/catalog_repository.rs: series, tag   *)
(* groups and tags, and what they say of books.  Commands run one after    *)
(* another on one connection.  Most are a single statement; replacing the  *)
(* tags of a book or series and reordering a series are transactions of    *)
(* several, and any of these may fail, or be the last of the process.      *)
(***************************************************************************)
EXTENDS Books, Naturals, FiniteSets

CONSTANTS Series, Group, Tag,   \* ids
          Name,                 \* valid names of series, up to case
          GroupName, TagName,
          Place                 \* sort orders

VARIABLES series,       \* series[s]: its name, or None
          groups,       \* groups[g]: its name, or None
          tags,         \* tags[t]: its group and name, or None
          placed,       \* book_series: the series of a book and its place there, or None
          bookTags,     \* book_tags
          seriesTags,   \* series_tags
          work,         \* the transaction that is being written
          before        \* the relations as they are on disk meanwhile, or None

definitions == <<series, groups, tags>>
relations == <<placed, bookTags, seriesTags>>
catalogVars == <<definitions, relations, work, before>>

Relations(p, b, s) == [placed |-> p, bookTags |-> b, seriesTags |-> s]
Now == Relations(placed, bookTags, seriesTags)
RolledBack ==
    /\ placed' = before.placed
    /\ bookTags' = before.bookTags
    /\ seriesTags' = before.seriesTags

NoWork == [kind |-> "none", owner |-> None, todo |-> {}, asked |-> None]

Placing == [series: Series, place: Place]
TagRow == [group: Group \cup {None}, name: TagName]

\* NULL is no name and no row.
ASSUME CatalogAssumption ==
    /\ IsFiniteSet(Tag)
    /\ None \notin Name \cup GroupName \cup TagRow \cup Placing

AllSeries == {s \in Series : series[s] # None}
AllGroups == {g \in Group : groups[g] # None}
AllTags == {t \in Tag : tags[t] # None}
Members(s) == {b \in Book : placed[b] # None /\ placed[b].series = s}

\* A command starts when the one before has answered.
Free == work = NoWork

Defines == Free /\ UNCHANGED <<work, before>>

-----------------------------------------------------------------------------
(* Series *)

CreateSeries(s, n) ==
    /\ Defines
    /\ series[s] = None /\ \A x \in Series : series[x] # n
    /\ series' = [series EXCEPT ![s] = n]
    /\ UNCHANGED <<groups, tags, relations>>

UpdateSeries(s, n) ==
    /\ Defines
    /\ s \in AllSeries /\ \A other \in Series \ {s} : series[other] # n
    /\ series' = [series EXCEPT ![s] = n]
    /\ UNCHANGED <<groups, tags, relations>>

\* Mutant: the tags of a series outlive it.
DeleteSeriesOnly(s) ==
    /\ Defines
    /\ s \in AllSeries
    /\ series' = [series EXCEPT ![s] = None]
    /\ placed' = [b \in Book |-> IF b \in Members(s) THEN None ELSE placed[b]]
    /\ UNCHANGED <<groups, tags, bookTags, seriesTags>>

\* Its books lose their place, and with it the tags they had by it.
DeleteSeries(s) ==
    /\ Defines
    /\ s \in AllSeries
    /\ series' = [series EXCEPT ![s] = None]
    /\ placed' = [b \in Book |-> IF b \in Members(s) THEN None ELSE placed[b]]
    /\ seriesTags' = {r \in seriesTags : r[1] # s}
    /\ UNCHANGED <<groups, tags, bookTags>>

\* A book has one series at most: another takes the place of the first.
SetBookSeries(b, s, p) ==
    /\ Defines
    /\ b \in books /\ s \in AllSeries
    /\ placed' = [placed EXCEPT ![b] = [series |-> s, place |-> p]]
    /\ UNCHANGED <<definitions, bookTags, seriesTags>>

ClearBookSeries(b) ==
    /\ Defines
    /\ b \in books
    /\ placed' = [placed EXCEPT ![b] = None]
    /\ UNCHANGED <<definitions, bookTags, seriesTags>>

-----------------------------------------------------------------------------
(* Tag groups and tags *)

CreateTagGroup(g, n) ==
    /\ Defines
    /\ groups[g] = None /\ \A x \in Group : groups[x] # n
    /\ groups' = [groups EXCEPT ![g] = n]
    /\ UNCHANGED <<series, tags, relations>>

UpdateTagGroup(g, n) ==
    /\ Defines
    /\ g \in AllGroups /\ \A other \in Group \ {g} : groups[other] # n
    /\ groups' = [groups EXCEPT ![g] = n]
    /\ UNCHANGED <<series, tags, relations>>

\* Its tags stay, without a group.
DeleteTagGroup(g) ==
    /\ Defines
    /\ g \in AllGroups
    /\ groups' = [groups EXCEPT ![g] = None]
    /\ tags' = [t \in Tag |-> IF t \in AllTags /\ tags[t].group = g
                              THEN [tags[t] EXCEPT !.group = None] ELSE tags[t]]
    /\ UNCHANGED <<series, relations>>

\* UNIQUE(group_id, name), for which no two NULLs are equal.
Unused(t, row) ==
    row.group # None => \A other \in Tag \ {t} : tags[other] # row

CreateTag(t, row) ==
    /\ Defines
    /\ tags[t] = None /\ row.group \in AllGroups \cup {None} /\ Unused(t, row)
    /\ tags' = [tags EXCEPT ![t] = row]
    /\ UNCHANGED <<series, groups, relations>>

UpdateTag(t, row) ==
    /\ Defines
    /\ t \in AllTags /\ row.group \in AllGroups \cup {None} /\ Unused(t, row)
    /\ tags' = [tags EXCEPT ![t] = row]
    /\ UNCHANGED <<series, groups, relations>>

DeleteTag(t) ==
    /\ Defines
    /\ t \in AllTags
    /\ tags' = [tags EXCEPT ![t] = None]
    /\ bookTags' = {r \in bookTags : r[2] # t}
    /\ seriesTags' = {r \in seriesTags : r[2] # t}
    /\ UNCHANGED <<series, groups, placed>>

-----------------------------------------------------------------------------
(* The transactions.  What they ask for is checked before they begin. *)

Begins(kind, owner, todo, asked) ==
    /\ Free /\ before = None
    /\ before' = Now
    /\ work' = [kind |-> kind, owner |-> owner, todo |-> todo, asked |-> asked]

\* set_book_tags: DELETE of the old ones, then one INSERT for each.
SetBookTags(b, T) ==
    /\ b \in books /\ T \subseteq AllTags
    /\ Begins("bookTags", b, T,
              Relations(placed, {r \in bookTags : r[1] # b} \cup ({b} \X T), seriesTags))
    /\ bookTags' = {r \in bookTags : r[1] # b}
    /\ UNCHANGED <<definitions, placed, seriesTags>>

SetSeriesTags(s, T) ==
    /\ s \in AllSeries /\ T \subseteq AllTags
    /\ Begins("seriesTags", s, T,
              Relations(placed, bookTags, {r \in seriesTags : r[1] # s} \cup ({s} \X T)))
    /\ seriesTags' = {r \in seriesTags : r[1] # s}
    /\ UNCHANGED <<definitions, placed, bookTags>>

\* reorder_series_books: places for some books of the series, and no others.
Reorder(s, positions) ==
    /\ s \in AllSeries /\ DOMAIN positions \subseteq Members(s)
    /\ Begins("order", s, {<<b, positions[b]>> : b \in DOMAIN positions},
              Relations([b \in Book |-> IF b \in DOMAIN positions
                                        THEN [placed[b] EXCEPT !.place = positions[b]]
                                        ELSE placed[b]],
                        bookTags, seriesTags))
    /\ UNCHANGED <<definitions, relations>>

\* One statement.
Statement(item) ==
    /\ item \in work.todo
    /\ work' = [work EXCEPT !.todo = @ \ {item}]
    /\ CASE work.kind = "bookTags" -> /\ bookTags' = bookTags \cup {<<work.owner, item>>}
                                      /\ UNCHANGED <<placed, seriesTags>>
         [] work.kind = "seriesTags" -> /\ seriesTags' = seriesTags \cup {<<work.owner, item>>}
                                        /\ UNCHANGED <<placed, bookTags>>
         [] work.kind = "order" -> /\ placed' = [placed EXCEPT ![item[1]].place = item[2]]
                                   /\ UNCHANGED <<bookTags, seriesTags>>
    /\ UNCHANGED <<definitions, before>>

\* Mutant: what was written before the failure is committed.
FinishAlways ==
    /\ ~Free
    /\ work' = NoWork /\ before' = None
    /\ UNCHANGED <<definitions, relations>>

\* finish_transaction: COMMIT, or ROLLBACK when a statement or the COMMIT failed.
Finish ==
    /\ ~Free
    /\ work' = NoWork /\ before' = None
    /\ \/ work.todo = {} /\ UNCHANGED relations
       \/ RolledBack
    /\ UNCHANGED definitions

\* The process dies: what was not committed is gone.
CatalogRestarts ==
    /\ work' = NoWork /\ before' = None
    /\ IF before = None THEN UNCHANGED relations ELSE RolledBack
    /\ UNCHANGED definitions

-----------------------------------------------------------------------------
(* What is read. *)

Effective ==
    bookTags \cup {r \in Book \X Tag : placed[r[1]] # None
                                       /\ <<placed[r[1]].series, r[2]>> \in seriesTags}

\* filter_books_by_effective_tags: the books with as many of these tags as there are.
FilterBooks(T) ==
    {b \in books : Cardinality({t \in T : <<b, t>> \in Effective}) = Cardinality(T)}

\* Mutant: a tag that a book shares with its series is listed twice.
ListBookTagsTwice(b) ==
    {[tag |-> t, inherited |-> FALSE] : t \in {u \in Tag : <<b, u>> \in bookTags}}
    \cup {[tag |-> t, inherited |-> TRUE] :
             t \in {u \in Tag : placed[b] # None /\ <<placed[b].series, u>> \in seriesTags}}

\* list_book_tags: its own, then those of its series that are not its own.
ListBookTags(b) ==
    {[tag |-> t, inherited |-> FALSE] : t \in {u \in Tag : <<b, u>> \in bookTags}}
    \cup {[tag |-> t, inherited |-> TRUE] :
             t \in {u \in Tag : /\ placed[b] # None /\ <<placed[b].series, u>> \in seriesTags
                                /\ <<b, u>> \notin bookTags}}

\* What goes with a book.
CatalogForgets(b) ==
    /\ Defines
    /\ placed' = [placed EXCEPT ![b] = None]
    /\ bookTags' = {r \in bookTags : r[1] # b}
    /\ UNCHANGED <<definitions, seriesTags>>

-----------------------------------------------------------------------------

CatalogInit ==
    /\ series = [s \in Series |-> None]
    /\ groups = [g \in Group |-> None]
    /\ tags = [t \in Tag |-> None]
    /\ placed = [b \in Book |-> None]
    /\ bookTags = {} /\ seriesTags = {}
    /\ work = NoWork /\ before = None

CatalogCommand ==
    \/ \E s \in Series, n \in Name : CreateSeries(s, n) \/ UpdateSeries(s, n)
    \/ \E s \in Series : DeleteSeries(s)
    \/ \E b \in Book, s \in Series, p \in Place : SetBookSeries(b, s, p)
    \/ \E b \in Book : ClearBookSeries(b)
    \/ \E g \in Group, n \in GroupName : CreateTagGroup(g, n) \/ UpdateTagGroup(g, n)
    \/ \E g \in Group : DeleteTagGroup(g)
    \/ \E t \in Tag, row \in TagRow : CreateTag(t, row) \/ UpdateTag(t, row)
    \/ \E t \in Tag : DeleteTag(t)
    \/ \E b \in Book, T \in SUBSET Tag : SetBookTags(b, T)
    \/ \E s \in Series, T \in SUBSET Tag : SetSeriesTags(s, T)
    \/ \E s \in Series, B \in SUBSET Book : \E positions \in [B -> Place] :
          Reorder(s, positions)
    \/ \E item \in work.todo : Statement(item)
    \/ Finish

CatalogNext == (CatalogCommand \/ CatalogRestarts) /\ UNCHANGED books

-----------------------------------------------------------------------------

\* Definitions and relations hang together: whatever is deleted while whatever refers to
\* it, no relation names a book, series or tag that is gone, no tag a group that is gone,
\* and names are unique where they must be.
CatalogHangsTogether ==
    /\ series \in [Series -> Name \cup {None}]
    /\ groups \in [Group -> GroupName \cup {None}]
    /\ tags \in [Tag -> TagRow \cup {None}]
    /\ \A b \in Book : placed[b] # None =>
          placed[b] \in Placing /\ b \in books /\ placed[b].series \in AllSeries
    /\ bookTags \subseteq books \X AllTags
    /\ seriesTags \subseteq AllSeries \X AllTags
    /\ \A t \in AllTags : tags[t].group \in AllGroups \cup {None}
    /\ \A s1, s2 \in AllSeries : series[s1] = series[s2] => s1 = s2
    /\ \A g1, g2 \in AllGroups : groups[g1] = groups[g2] => g1 = g2
    /\ \A t1, t2 \in AllTags : tags[t1].group # None /\ tags[t1] = tags[t2] => t1 = t2

\* A transaction leaves the relations as they were or as it was asked to, whichever
\* statement fails or the process dies at, and it is over when its command is: one left
\* open would refuse the next BEGIN and take every later statement with it.
AllOrNothing ==
    /\ [](Free => before = None)
    /\ [][before # None /\ before' = None =>
             Now' \in {before, work.asked}]_<<relations, work, before>>

\* The two queries that tell what tags a book has agree: the filter's count of matches
\* and the list, which names a tag once though it may be the book's and its series'.
TagsAgree ==
    \A b \in books :
        LET list == ListBookTags(b)
            listed == {l.tag : l \in list}
        IN  /\ Cardinality(list) = Cardinality(listed)
            /\ \A T \in SUBSET AllTags \ {{}} : b \in FilterBooks(T) <=> T \subseteq listed
            /\ \A l \in list : l.inherited <=> <<b, l.tag>> \notin bookTags
=============================================================================
