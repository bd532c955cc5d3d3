---------------------------- MODULE MCSeriesSearch ----------------------------
(* Bounds under which TLC checks a search of a series: see README.md. *)
EXTENDS SeriesSearch, EpubResources, TLC

CONSTANTS b1, b2, s1

MCBook == {b1, b2}
MCSeries == {s1}
MCTask == {1, 2}

\* The documents of two books exceed both budgets.
MCChapters == <<1, 1>>

-----------------------------------------------------------------------------
(* Small EPUBs: names that differ in case, entries at and over each limit. *)

MCFolded == "A" :> "a"

MCPaths == UNION {[1..n -> {"", ".", "..", "\\", "a"}] : n \in 0..3}

MCEntries ==
    [name : {<<"a">>, <<"A">>, <<"d", "a">>}, size : {0, 2}, packed : {0, 1},
     length : {1, 2}, text : {"some", "broken"}]
MCArchives == UNION {[1..n -> MCEntries] : n \in 0..2}
             \cup {[i \in 1..3 |-> e] : e \in MCEntries}

MCHrefs == [href : {<<"a">>, <<"..", "a">>}, html : {TRUE}]
MCPackages ==
    [base : {<<>>, <<"d">>}, spine : {<<"x">>, <<"x", "y">>, <<"y", "x", "y">>},
     manifest : {("x" :> h) @@ ("y" :> [href |-> <<"A">>, html |-> b]) :
                    h \in MCHrefs, b \in BOOLEAN}]

ASSUME RangesHold(4)
ASSUME PathsHold(MCPaths)
ASSUME ExtractionHolds(MCArchives, MCPackages)
=============================================================================
