------------------------------- MODULE Insights -------------------------------
(***************************************************************************)
(* What readers are told of the ledger (services/                          *)
(* reading_activity_service.rs): reading time by the hours of a day, the   *)
(* days of a week or month and the weeks of a quarter; the footprint of a  *)
(* year or of all years; and three recommendations.  These are pure        *)
(* functions of the rows.  A tick of the ledger stands for an hour here,   *)
(* and a day has DayLen of them.  Series are left out of the footprint,    *)
(* which counts them as it counts books.                                   *)
(***************************************************************************)
EXTENDS ReadingActivity, Calendar, Totals, FiniteSetsExt

CONSTANT Epoch     \* the day on which the ledger's clock is 0

ASSUME EpochAssumption == Epoch \in Int

Day(g) == g.date + Epoch
Duration(g) == g.until - g.start

Sum(G) == Total([g \in G |-> Duration(g)])

\* list_reading_insight_segments
InsightSegments(first, last) ==
    {g \in segments : first <= Day(g) /\ Day(g) <= last /\ g.until > g.start}

-----------------------------------------------------------------------------
(* get_library_reading_overview *)

Period == {"day", "week", "month", "quarter"}

FirstOfMonth(year, month) ==
    IF month > 12 THEN DaysFromCivil(year + 1, month - 12, 1)
    ELSE DaysFromCivil(year, month, 1)

\* overview_buckets: first and last day, and the number of buckets.
Overview(period, day) ==
    LET c == CivilFromDays(day)
        monday == day - WeekdayFromMonday(day)
        quarter == ((c.month - 1) \div 3) * 3 + 1
        month1 == FirstOfMonth(c.year, c.month)
        monthN == FirstOfMonth(c.year, c.month + 1) - 1
        quarter1 == FirstOfMonth(c.year, quarter)
        quarterN == FirstOfMonth(c.year, quarter + 3) - 1
    IN  CASE period = "day" -> [first |-> day, last |-> day, count |-> DayLen]
          [] period = "week" -> [first |-> monday, last |-> monday + 6, count |-> 7]
          [] period = "month" ->
                [first |-> month1, last |-> monthN, count |-> monthN - month1 + 1]
          [] period = "quarter" ->
                [first |-> quarter1, last |-> quarterN,
                 count |-> (quarterN - quarter1) \div 7 + 1]

\* Mutant: the hours of a day are those of UTC.
OverlapUTC(g, day, hour) ==
    LET start == (day - Epoch) * DayLen + hour
        to == IF g.until <= start + 1 THEN g.until ELSE start + 1
    IN  MaxOf(to - MaxOf(g.start, start), 0)

\* accumulate_day_bucket_values: what of the segment is in this hour of the day, by the
\* clock it was recorded with.
Overlap(g, day, hour) ==
    LET start == (day - Epoch) * DayLen + hour
        from == MaxOf(g.start + g.offset, start)
        to == IF g.until + g.offset <= start + 1 THEN g.until + g.offset ELSE start + 1
    IN  MaxOf(to - from, 0)

\* The days a segment can be on, and tables of the functions above over them.
Days == {Epoch + LocalDate(t, o) : t \in 0..MaxTime, o \in Offset}
DateOf == [d \in Days |-> CivilFromDays(d)]
OverviewOf == [p \in Period |-> [d \in Days |-> Overview(p, d)]]

BucketOf(period, first, g) ==
    IF period = "quarter" THEN (Day(g) - first) \div 7 ELSE Day(g) - first

\* reading_ms of each bucket
Buckets(period, day) ==
    LET o == OverviewOf[period][day]
        G == InsightSegments(o.first, o.last)
    IN  [i \in 0..o.count - 1 |->
            IF period = "day" THEN Total([g \in G |-> Overlap(g, day, i)])
            ELSE Sum({g \in G : BucketOf(period, o.first, g) = i})]

TotalReading(period, day) == Total(Buckets(period, day))   \* total_reading_ms

\* continue_reading; ids have no order here, so any of those read last.
ContinueReading == {b \in books : readAt[b] # NoRow /\ \A c \in books : readAt[c] <= readAt[b]}

-----------------------------------------------------------------------------
(* get_reading_footprint *)

\* accumulate_daily_segments, summed up; the other days of a year are all 0.
Daily(G) == [reading |-> Sum(G),
             days |-> Cardinality({Day(g) : g \in G}),
             books |-> {sessions[g.session].book : g \in G}]

YearTotals(year) ==
    Daily(InsightSegments(DaysFromCivil(year, 1, 1), DaysFromCivil(year + 1, 1, 1) - 1))

\* The years from the first date to the last.
AllYears ==
    LET dates == {Day(g) : g \in {h \in segments : h.until > h.start}}
    IN  IF dates = {} THEN {}
        ELSE DateOf[Min(dates)].year..DateOf[Max(dates)].year

Footprint(years) ==
    [reading |-> Total([y \in years |-> YearTotals(y).reading]),
     days |-> Total([y \in years |-> YearTotals(y).days]),
     books |-> UNION {YearTotals(y).books : y \in years}]

-----------------------------------------------------------------------------
(* build_offline_recommendations *)

\* list_reading_insight_books: read is last_read_at, done a progression of 0.98 or more.
InsightBook(Ids, Times, SeriesIds, Orders) ==
    [id: Ids, read: Times \cup {NoRow}, series: {{}} \cup {{s} : s \in SeriesIds},
     order: Orders, done: BOOLEAN, added: Times]

ReturnAfter == 14   \* days

\* The one book of S before all others, if there is any.
Foremost(S, Before(_, _)) == {b \in S : \A c \in S \ {b} : Before(b, c)}

LastRead(S) == Foremost(S, LAMBDA b, c : b.read > c.read \/ (b.read = c.read /\ b.id < c.id))

Recommendations(B, today, offset) ==
    LET begun == {b \in B : b.read # NoRow}
        current == LastRead(begun)
        next == Foremost({b \in B \ begun : \E r \in current :
                             r.series # {} /\ b.series = r.series /\ b.order > r.order},
                         LAMBDA b, c : b.order < c.order \/ (b.order = c.order /\ b.id < c.id))
        back == Foremost({b \in begun \ current :
                             ~b.done /\ today - LocalDate(b.read, offset) >= ReturnAfter},
                         LAMBDA b, c : b.read < c.read \/ (b.read = c.read /\ b.id < c.id))
        fresh == Foremost((B \ begun) \ next,
                          LAMBDA b, c : b.added > c.added \/ (b.added = c.added /\ b.id < c.id))
    IN  [next |-> next, back |-> back, fresh |-> fresh]

\* Each is one book at most and none is named twice or is the one being read; a volume is
\* the nearest unread one after it; and while there is an unread book, or one to return
\* to, one of them is recommended.
RecommendationsHold(B, today, offset) ==
    LET r == Recommendations(B, today, offset)
        current == LastRead({b \in B : b.read # NoRow})
        unread == {b \in B : b.read = NoRow}
        recommended == r.next \cup r.back \cup r.fresh
    IN  /\ \A S \in {r.next, r.back, r.fresh, current} : Cardinality(S) <= 1
        /\ Cardinality(recommended)
              = Cardinality(r.next) + Cardinality(r.back) + Cardinality(r.fresh)
        /\ recommended \cap current = {}
        /\ \A n \in r.next, c \in current :
              ~\E b \in unread : b.series = n.series /\ b.order \in c.order + 1..n.order - 1
        /\ unread # {} => recommended \cap unread # {}
        /\ r.back = {} => \A b \in B \ (unread \cup current) :
                             b.done \/ LocalDate(b.read, offset) > today - ReturnAfter

-----------------------------------------------------------------------------

SameQuarter(c, e) == c.year = e.year /\ (c.month - 1) \div 3 = (e.month - 1) \div 3

\* Whatever is asked of the ledger, the answers agree: the hours of a day make up what
\* its week and month say of that day, across midnights, offsets and the turn of the year;
\* a quarter is the time of its days; and the footprint of all years counts every
\* confirmed instant, every day and every book once.
InsightsAddUp ==
    LET counted == {g \in segments : g.until > g.start}
        dates == {Day(g) : g \in counted}
    IN  counted # {} =>
            /\ \A d \in dates :
                  LET time == Sum({g \in counted : Day(g) = d})
                  IN  /\ TotalReading("day", d) = time
                      /\ Buckets("week", d)[WeekdayFromMonday(d)] = time
                      /\ Buckets("month", d)[DateOf[d].day - 1] = time
                      /\ TotalReading("quarter", d)
                            = Sum({g \in counted : SameQuarter(DateOf[Day(g)], DateOf[d])})
            /\ Footprint(AllYears) =
                  [reading |-> Sum(counted), days |-> Cardinality(dates),
                   books |-> {sessions[g.session].book : g \in counted}]
=============================================================================
