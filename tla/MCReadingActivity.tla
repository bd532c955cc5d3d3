-------------------------- MODULE MCReadingActivity --------------------------
(* Bounds under which TLC checks the reading ledger: see README.md. *)
EXTENDS Insights, TLC

CONSTANTS s1, s2, b1

MCSessionId == {s1, s2}
MCBook == {b1}
\* A day is three ticks; one offset is negative, as west of Greenwich.
MCOffset == {0, -1}
\* The calendar around leap days, turns of centuries and of eras, and the ends of its range.
ASSUME \A c \in {<<1, 1, 1>>, <<1600, 2, 28>>, <<1899, 12, 25>>, <<1970, 1, 1>>,
                 <<1999, 12, 31>>, <<2000, 2, 28>>, <<2024, 2, 28>>, <<2100, 2, 28>>,
                 <<9999, 11, 1>>} :
          LET n == DaysFromCivil(c[1], c[2], c[3]) IN CalendarOn(n..n + 60)

ASSUME /\ DateOf \in [Days -> [year: Int, month: 1..12, day: 1..31]]
       /\ OverviewOf \in [Period -> [Days -> [first: Int, last: Int, count: Nat]]]

\* Libraries of three books; day 20 is a fortnight after day 6.
MCShelf(i) ==
    {b \in InsightBook({i}, {18, 21, 60}, {"a series"}, {1, 2}) : b.added = 18}
ASSUME \A b \in MCShelf(1), c \in MCShelf(2), d \in MCShelf(3) :
          RecommendationsHold({b, c, d}, 20, -1)

\* At most three observations are accepted of both sessions together, two when the clock
\* is set back.
MCObservations == sessions[s1].seq + sessions[s2].seq + setBacks <= 3

MCSymmetry == Permutations({s1, s2})
=============================================================================
