------------------------------ MODULE QuoteFigures ------------------------------
(***************************************************************************)
(* What the pages show of the quotes; the periods a report can be asked    *)
(* for.                                                                    *)
(***************************************************************************)
EXTENDS SalesFigures

CONSTANTS
    YearEnds,
    LongestRange        \* days in the longest custom period

QuoteStatuses == {"draft", "sent", "approved", "invoiced", "expired"}

\* The nightly job may not have come by yet.
PastValid(row, today) == row.status \in {"draft", "sent"} /\ row.due < today

\* The tabs.  "Expired" is what has run out and the job has not marked yet; a
\* quote it has marked is in no tab but "all".
QuoteStatusCounts(today) ==
    [s \in {"draft", "sent", "approved", "invoiced"} |->
        Total(quotes, LAMBDA row : row.status = s, One)]
      @@ ("all" :> Total(quotes, All, One))
      @@ ("expired" :> Total(quotes, LAMBDA row : PastValid(row, today), One))

\* Averages are kept as a sum and a count, the rate as a part of the count.
QuoteStatistics(from, to, today) ==
    LET Of(statuses, what(_)) ==
          Total(quotes, LAMBDA row : row.date \in from .. to /\ row.status \in statuses, what)
        Late1(row) == row.date \in from .. to /\ PastValid(row, today) IN
    [count |-> Of(QuoteStatuses, One), quoted |-> Of(QuoteStatuses, Due), approved |-> Of({"approved"}, Due),
     invoiced |-> Of({"invoiced"}, Due), converted |-> Of({"approved", "invoiced"}, One),
     daysToApproval |-> Of({"approved", "invoiced"}, LAMBDA row : row.approved - row.date),
     expiredCount |-> Total(quotes, Late1, One), expiredAmount |-> Total(quotes, Late1, Due)]

\* Newest first.
QuoteList(f) ==
    SetToSortSeq({ n \in DOMAIN quotes : /\ quotes[n].status \in f.statuses
                                         /\ quotes[n].customer \in f.parties
                                         /\ quotes[n].date \in f.dates
                                         /\ quotes[n].due \in f.dues }, LAMBDA m, n : m > n)

QuotePage(f, page, size) == FromWindow(QuoteList(f), page, size)

QuoteExportRows(f, limit) == FirstRows(QuoteList(f), limit)

QuoteExport(f, limit) ==
    Truncated(QuoteExportRows([f EXCEPT !.dues = 1 .. LastDay + 1], limit + 1), limit)

------------------------------------------------------------------------------
(* The periods of a report *)

LastOf(ends, day) == CHOOSE end \in ends : /\ end < day
                                           /\ \A other \in ends : other < day => other <= end

MonthStart(day) == LastOf(MonthEnds, day) + 1

YearStart(day) == LastOf(YearEnds, day) + 1

\* The months of a year count from 1, in threes.
QuarterStart(day) ==
    LET year == YearStart(day)
        before == { end \in MonthEnds : year <= end /\ end < day }
        Nth(k) == CHOOSE end \in before : Cardinality({ e \in before : e <= end }) = k
        whole == 3 * (Cardinality(before) \div 3) IN
    IF whole = 0 THEN year ELSE Nth(whole) + 1

Presets == {"last_7_days", "this_month", "last_month", "this_quarter", "this_year"}

Period(from, to) ==
    [refused |-> FALSE, from |-> from, to |-> to,
     previousFrom |-> from - 1 - (to - from), previousTo |-> from - 1]

PresetPeriod(preset, today) ==
    CASE preset = "last_7_days" -> Period(today - WeekLength + 1, today)
      [] preset = "this_month" -> Period(MonthStart(today), today)
      [] preset = "last_month" ->
           Period(MonthStart(MonthStart(today) - 1), MonthStart(today) - 1)
      [] preset = "this_quarter" -> Period(QuarterStart(today), today)
      [] preset = "this_year" -> Period(YearStart(today), today)

CustomPeriod(from, to) ==
    IF from > to \/ to - from + 1 > LongestRange THEN [refused |-> TRUE]
    ELSE Period(from, to)

------------------------------------------------------------------------------
(* The quote pages and the periods agree *)

QuotesAgree(today) ==
    LET tabs == QuoteStatusCounts(today)
        month == QuoteStatistics(1, LastDay, today)
        Listed(s) == Len(QuoteList(Filter({s}, Customers)))
        f == Filter(QuoteStatuses, Customers)
        rows == QuoteList(f) IN
    /\ \A s \in {"draft", "sent", "approved", "invoiced"} : tabs[s] = Listed(s)
    /\ tabs["all"] = Sum(QuoteStatuses, Listed)
    /\ month.count = tabs["all"] /\ month.expiredCount = tabs["expired"]
    /\ month.converted = tabs["approved"] + tabs["invoiced"]
    /\ month.approved + month.invoiced + month.expiredAmount <= month.quoted
    /\ month.quoted = Sum(Customers, LAMBDA c :
                         Sum({ n \in DOMAIN quotes : quotes[n].customer = c },
                             LAMBDA n : quotes[n].total))
    /\ \A day \in 1 .. LastDay - 1 :
          month.quoted = QuoteStatistics(1, day, today).quoted
                           + QuoteStatistics(day + 1, LastDay, today).quoted
    /\ PagedWhole(LAMBDA page : QuotePage(f, page, 1), rows, Len(rows), 1)
    /\ QuoteExport(f, Len(rows)) = [items |-> rows, truncated |-> FALSE]
    /\ rows # <<>> => QuoteExport(f, Len(rows) - 1).truncated

\* Every preset is a window up to today at the latest, next to the one it is
\* compared with; this month follows on last month.
PeriodsFit(today) ==
    LET P(preset) == PresetPeriod(preset, today) IN
    /\ \A preset \in Presets :
          /\ P(preset).from <= P(preset).to /\ P(preset).to <= today
          /\ P(preset).to - P(preset).from = P(preset).previousTo - P(preset).previousFrom
    /\ P("last_month").to + 1 = P("this_month").from
    /\ P("this_year").from <= P("this_quarter").from
    /\ P("this_quarter").from <= P("this_month").from
    /\ \A w \in Windows : LET custom == CustomPeriod(w.from, w.to) IN
          ~custom.refused => /\ custom.previousFrom = Previous(w).from
                             /\ custom.previousTo = Previous(w).to
===============================================================================
