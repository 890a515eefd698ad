---------------------------------- MODULE Desk ----------------------------------
(***************************************************************************)
(* The Sales Desk: deals and the prospects of the future pipeline, one     *)
(* request at a time, while days go by; and what its pages make of them:   *)
(* the dashboard, the pipeline page and its filters, the notification      *)
(* bells and the companies.  (Racing requests on a deal: DealPipeline.)    *)
(*                                                                         *)
(* A deal's stage records are kept as the dates of the first and the last. *)
(* Values are in cents, except that sums weighted by a probability are in  *)
(* hundredths of a cent, which is how the code adds them up.               *)
(***************************************************************************)
EXTENDS Paging

CONSTANTS
    Deals, Prospects,
    Owners, Everyone,           \* Everyone: no filter
    Customers, CustomerOf,      \* the customer of each deal
    Terms,                      \* what a deal is about: [owner, value, currency]
    Plans,                      \* what a prospect is about: [owner, value, on]
    Currencies, UnitsPerUsd,    \* rates, in 1/RateUnit
    RateUnit,
    LastStage, Probability,     \* per stage, in percent
    WonReasons, LostReasons,
    Dates,                      \* re-engage dates to choose from
    LastDay,                    \* bound on the days
    Week, StaleAfter, OldAfter, \* 7, 30 and 45 days
    UpcomingWindow,             \* 14 days
    MonthLength, QuarterMonths, RollingMonths,  \* the calendar; 3 and 12 months
    PageSizes                   \* of lists, and of the export's batches

VARIABLES deals, prospects, today

deskVars == <<deals, prospects, today>>

Stages == 1 .. LastStage

\* Rates are quoted per US dollar, so that the dollar's own is one.
ASSUME DeskAssumption ==
    /\ IsFiniteSet(Deals) /\ IsFiniteSet(Prospects)
    /\ IsFiniteSet(Owners) /\ Everyone \notin Owners
    /\ IsFiniteSet(Customers) /\ CustomerOf \in [Deals -> Customers]
    /\ Terms \subseteq [owner: Owners, value: Nat, currency: Currencies]
    /\ \A plan \in Plans : plan.on \in Nat
    /\ RateUnit \in Nat \ {0} /\ UnitsPerUsd \in [Currencies -> Nat \ {0}]
    /\ "USD" \in Currencies /\ UnitsPerUsd["USD"] = RateUnit
    /\ LastStage \in Nat \ {0} /\ Probability \in [Stages -> 0 .. 100]
    /\ IsFiniteSet(LostReasons)
    /\ Dates \subseteq Nat /\ LastDay \in Nat \ {0}
    /\ Week \in Nat /\ StaleAfter \in Nat /\ Week <= StaleAfter /\ OldAfter \in Nat
    /\ UpcomingWindow \in Nat
    /\ MonthLength \in Nat \ {0} /\ QuarterMonths \in Nat \ {0}
    /\ RollingMonths \in Nat /\ QuarterMonths <= RollingMonths

ASSUME PagesAssumption == PageSizes \subseteq Nat \ {0}

Closed == {"won", "lost"}

Absent == [status |-> "absent"]

NoDate == 0

Scopes == Owners \cup {Everyone}

\* The money policy, ROUND_HALF_UP ...
HalfUp(n, d) == (2 * n + d) \div (2 * d)

\* ... and what Decimal does when no rounding is named: a tie goes to the even.
HalfEven(n, d) ==
    LET q == n \div d IN
    IF 2 * (n - d * q) = d /\ q % 2 = 0 THEN q ELSE HalfUp(n, d)

------------------------------------------------------------------------------
(* What can happen *)

Opened(terms) ==
    [status |-> "open", terms |-> terms, stage |-> 1, first |-> today, last |-> today,
     until |-> NoDate, closed |-> NoDate, reason |-> "none"]

Create(d, terms) ==
    /\ deals[d] = Absent
    /\ deals' = [deals EXCEPT ![d] = Opened(terms)]
    /\ UNCHANGED <<prospects, today>>

Update(d, terms) ==
    /\ deals[d].status \in {"open", "parked"}
    /\ deals' = [deals EXCEPT ![d].terms = terms]
    /\ UNCHANGED <<prospects, today>>

LogActivity(d) ==
    /\ deals[d].status = "open"
    /\ deals' = [deals EXCEPT ![d].last = today]
    /\ UNCHANGED <<prospects, today>>

AdvanceStage(d) ==
    /\ deals[d].status = "open" /\ deals[d].stage < LastStage
    /\ deals' = [deals EXCEPT ![d].stage = @ + 1, ![d].last = today]
    /\ UNCHANGED <<prospects, today>>

Close(d, result, reason) ==
    /\ deals[d].status = "open"
    /\ reason \in IF result = "won" THEN WonReasons ELSE LostReasons
    /\ deals' = [deals EXCEPT ![d].status = result, ![d].reason = reason,
                              ![d].closed = today, ![d].last = today]
    /\ UNCHANGED <<prospects, today>>

Park(d, until) ==
    /\ deals[d].status = "open" /\ until > today
    /\ deals' = [deals EXCEPT ![d].status = "parked", ![d].until = until,
                              ![d].last = today]
    /\ UNCHANGED <<prospects, today>>

Resume(d) ==
    /\ deals[d].status = "parked"
    /\ deals' = [deals EXCEPT ![d].status = "open", ![d].until = NoDate,
                              ![d].last = today]
    /\ UNCHANGED <<prospects, today>>

Delete(d) ==
    /\ deals[d].status \in {"open", "parked"}
    /\ deals' = [deals EXCEPT ![d] = Absent]
    /\ UNCHANGED <<prospects, today>>

Plan(p, plan) ==
    /\ prospects[p] = Absent
    /\ prospects' = [prospects EXCEPT ![p] = plan]
    /\ UNCHANGED <<deals, today>>

\* The prospect becomes a deal: its owner and value are the deal's unless the
\* request gives others.
Engage(p, d, terms) ==
    /\ prospects[p] # Absent /\ deals[d] = Absent
    /\ prospects' = [prospects EXCEPT ![p] = Absent]
    /\ deals' = [deals EXCEPT ![d] = Opened(terms)]
    /\ UNCHANGED today

Drop(p) ==
    /\ prospects[p] # Absent
    /\ prospects' = [prospects EXCEPT ![p] = Absent]
    /\ UNCHANGED <<deals, today>>

NextDay ==
    /\ today < LastDay
    /\ today' = today + 1
    /\ UNCHANGED <<deals, prospects>>

DeskInit ==
    /\ deals = [d \in Deals |-> Absent]
    /\ prospects = [p \in Prospects |-> Absent]
    /\ today = 1

DeskNext ==
    \/ \E d \in Deals :
          \/ \E terms \in Terms : Create(d, terms) \/ Update(d, terms)
          \/ LogActivity(d) \/ AdvanceStage(d) \/ Resume(d) \/ Delete(d)
          \/ \E result \in Closed, reason \in WonReasons \cup LostReasons :
                Close(d, result, reason)
          \/ \E until \in Dates : Park(d, until)
          \/ \E p \in Prospects, terms \in Terms : Engage(p, d, terms)
    \/ \E p \in Prospects :
          \/ \E plan \in Plans : Plan(p, plan)
          \/ Drop(p)
    \/ NextDay

DeskSpec == DeskInit /\ [][DeskNext]_deskVars

------------------------------------------------------------------------------
(* What every page reads *)

In(d, scope) == deals[d] # Absent /\ (scope = Everyone \/ deals[d].terms.owner = scope)

WithStatus(status, scope) == { d \in Deals : In(d, scope) /\ deals[d].status = status }

OpenDeals(scope) == WithStatus("open", scope)

UsdEquivalent(d) ==
    HalfUp(deals[d].terms.value * RateUnit, UnitsPerUsd[deals[d].terms.currency])

\* A sum of dollars (in 1/unit of a cent) in the currency of the page.  Only what
\* is converted is rounded by the money policy.
InCurrency(usd, unit, currency) ==
    IF currency = "USD" THEN HalfEven(usd, unit)
    ELSE HalfUp(usd * UnitsPerUsd[currency], unit * RateUnit)

ClosedIn(from, to, scope) ==
    { d \in WithStatus("won", scope) \cup WithStatus("lost", scope) :
        deals[d].closed \in from .. to }

DealOwners(scope) == { o \in Owners : \E d \in Deals : In(d, o) /\ In(d, scope) }

AgeDays(d) == today - deals[d].first

IdleDays(d) == today - deals[d].last

LostReasonCounts(scope) ==
    [r \in LostReasons |->
        Cardinality({ d \in WithStatus("lost", scope) : deals[d].reason = r })]

------------------------------------------------------------------------------
(* The dashboard *)

Month(day) == (day - 1) \div MonthLength

StartOf(month) == month * MonthLength + 1

QuarterStart(day) == (Month(day) \div QuarterMonths) * QuarterMonths

Months == Month(today) - RollingMonths + 1 .. Month(today)

Usd(set) == SumFunction([d \in set |-> UsdEquivalent(d)])

WonIn(set) == { d \in set : deals[d].status = "won" }

Dashboard(scope, currency) ==
    LET open == OpenDeals(scope)
        quarter == ClosedIn(StartOf(QuarterStart(today)),
                            StartOf(QuarterStart(today) + QuarterMonths) - 1, scope)
        window == ClosedIn(StartOf(Month(today) - RollingMonths + 1),
                           StartOf(Month(today) + 1) - 1, scope)
        Closed1(m) == { d \in window : Month(deals[d].closed) = m }
        Shown(set) == InCurrency(Usd(set), 1, currency) IN
    [weighted |-> InCurrency(SumFunction([d \in open |->
                                 UsdEquivalent(d) * Probability[deals[d].stage]]),
                             100, currency),
     openCount |-> Cardinality(open),
     arr |-> Shown(open),
     stages |-> [s \in Stages |->
         LET here == { d \in open : deals[d].stage = s } IN
         [value |-> Shown(here), count |-> Cardinality(here)]],
     won |-> Shown(WonIn(quarter)), wonCount |-> Cardinality(WonIn(quarter)),
     lost |-> Shown(quarter \ WonIn(quarter)),
     lostCount |-> Cardinality(quarter \ WonIn(quarter)),
     bookings |-> [m \in Months |->
         [won |-> Shown(WonIn(Closed1(m))), lost |-> Shown(Closed1(m) \ WonIn(Closed1(m)))]],
     quota |-> [o \in DealOwners(scope) |->
         Shown({ d \in WonIn(quarter) : deals[d].terms.owner = o })],
     reasons |-> LostReasonCounts(scope)]

------------------------------------------------------------------------------
(* The pipeline page *)

\* Won and lost deals of each owner who has any.
ClosedCounts(scope) ==
    LET Has(o) == ClosedIn(1, LastDay, o) \cap ClosedIn(1, LastDay, scope) IN
    [o \in { u \in Owners : Has(u) # {} } |->
        [won |-> Cardinality(WonIn(Has(o))), lost |-> Cardinality(Has(o) \ WonIn(Has(o)))]]

Buckets == {"active_week", "quiet_8_30", "no_activity_30", "open_45"}

Hygiene(d) ==
    CASE IdleDays(d) <= Week -> "active_week"
      [] IdleDays(d) \in Week + 1 .. StaleAfter -> "quiet_8_30"
      [] OTHER -> "no_activity_30"

PipelineOverview(scope, currency) ==
    LET team == OpenDeals(Everyone)
        scoped == OpenDeals(scope)
        closed == ClosedCounts(scope)
        Cold(set) == Cardinality({ d \in set : IdleDays(d) > StaleAfter })
        Shown(set) == InCurrency(Usd(set), 1, currency)
        InBucket(b) == { d \in scoped : IF b = "open_45" THEN AgeDays(d) > OldAfter
                                        ELSE Hygiene(d) = b }
        Card(set) == [count |-> Cardinality(set), value |-> Shown(set), cold |-> Cold(set)]
        Hers(o) == { d \in team : deals[d].terms.owner = o } IN
    [reps |-> [o \in DealOwners(Everyone) |-> Card(Hers(o))],
     team |-> Card(team),
     stages |-> [s \in Stages |->
         LET here == { d \in scoped : deals[d].stage = s } IN
         [count |-> Cardinality(here), value |-> Shown(here),
          days |-> SumFunction([d \in here |-> AgeDays(d)])]],
     closed |-> [won |-> SumFunction([o \in DOMAIN closed |-> closed[o].won]),
                 lost |-> SumFunction([o \in DOMAIN closed |-> closed[o].lost]),
                 reasons |-> LostReasonCounts(scope)],
     hygiene |-> [b \in Buckets |-> Cardinality(InBucket(b))],
     all |-> Cardinality({ d \in Deals : In(d, scope) }),
     total |-> Shown(scoped)]

\* The filters of the list are over dates, where the page counts days.
HasHygiene(d, bucket) ==
    /\ deals[d].status = "open"
    /\ CASE bucket = "active_week" -> deals[d].last >= today - Week
         [] bucket = "quiet_8_30" -> /\ deals[d].last < today - Week
                                     /\ deals[d].last >= today - StaleAfter
         [] bucket = "no_activity_30" -> deals[d].last < today - StaleAfter
         [] bucket = "open_45" -> deals[d].first < today - OldAfter
         [] bucket = "any" -> TRUE

Matches(d, f) ==
    /\ In(d, f.scope)
    /\ IF f.tab \in {"open", "won", "lost"} THEN deals[d].status = f.tab
       ELSE f.showClosed \/ deals[d].status \notin Closed
    /\ f.hygiene = "none" \/ HasHygiene(d, f.hygiene)

StatusRank(d) ==
    CASE deals[d].status = "open" -> 0 [] deals[d].status = "parked" -> 1
      [] deals[d].status = "won" -> 2 [] OTHER -> 3

\* Open ones first, by stage, the largest first, the newest first.  No two are
\* created at the same instant.
Pipeline(f) ==
    InOrder([d \in { c \in Deals : Matches(c, f) } |->
                <<StatusRank(d), deals[d].stage, -deals[d].terms.value, -deals[d].first,
                  Instant(d, Deals)>>])

ListDeals(f, page, size) == FromWindow(Pipeline(f), page, size)

ExportRow(d) ==
    [deal |-> d, status |-> deals[d].status,
     stage |-> IF deals[d].status = "parked" THEN <<"parked", deals[d].until>>
               ELSE <<"stage", deals[d].stage>>,
     value |-> deals[d].terms.value, currency |-> deals[d].terms.currency,
     age |-> AgeDays(d), idle |-> IdleDays(d), reason |-> deals[d].reason]

\* Batches by offset, up to the first that is not full.
PipelineExport(f, batch) ==
    LET rows == Pipeline(f)
        From[offset \in 0 .. Len(rows) + batch] ==
          LET rest == SubSeq(rows, offset + 1, Min2(offset + batch, Len(rows))) IN
          [k \in DOMAIN rest |-> ExportRow(rest[k])]
            \o IF Len(rest) < batch THEN <<>> ELSE From[offset + batch] IN
    From[0]

StatusCounts(scope) ==
    LET Of(s) == Cardinality(WithStatus(s, scope)) IN
    [all |-> Of("open") + Of("won") + Of("lost") + Of("parked"), open |-> Of("open"),
     won |-> Of("won"), lost |-> Of("lost"), parked |-> Of("parked")]

\* The value of a deal in its own currency, times the probability of its stage.
WeightedValue(d) == HalfEven(deals[d].terms.value * Probability[deals[d].stage], 100)

------------------------------------------------------------------------------
(* Bells and companies *)

Planned(scope) ==
    { p \in Prospects : prospects[p] # Absent
                          /\ (scope = Everyone \/ prospects[p].owner = scope) }

NurtureDueCounts(scope) ==
    [due |-> Cardinality({ p \in Planned(scope) : prospects[p].on <= today }),
     upcoming |-> Cardinality({ p \in Planned(scope) :
                                  prospects[p].on \in today + 1 .. today + UpcomingWindow })]

ParkedDueCounts(scope) ==
    [due |-> Cardinality({ d \in WithStatus("parked", scope) : deals[d].until <= today }),
     upcoming |-> Cardinality({ d \in WithStatus("parked", scope) :
                                  deals[d].until \in today + 1 .. today + UpcomingWindow })]

StaleOpenDealsCountSlip(scope) ==
    Cardinality({ d \in OpenDeals(scope) : deals[d].last <= today - StaleAfter })

StaleOpenDealsCount(scope) ==
    Cardinality({ d \in OpenDeals(scope) : deals[d].last < today - StaleAfter })

Notifications(scope) ==
    LET nurture == NurtureDueCounts(scope)  parked == ParkedDueCounts(scope) IN
    [due |-> nurture.due + parked.due, upcoming |-> nurture.upcoming + parked.upcoming,
     stale |-> StaleOpenDealsCount(scope)]

\* The sidebar's own counts, of everybody's prospects and deals.
NotificationCounts ==
    [dueNurture |-> Cardinality({ p \in Planned(Everyone) : prospects[p].on <= today }),
     upcomingNurture |-> Cardinality({ p \in Planned(Everyone) :
         today < prospects[p].on /\ prospects[p].on <= today + UpcomingWindow }),
     dueParked |-> Cardinality({ d \in Deals : /\ deals[d].status = "parked"
                                              /\ deals[d].until <= today })]

DueState(p) ==
    CASE prospects[p].on < today -> "overdue"
      [] prospects[p].on = today -> "today"
      [] OTHER -> "in_days"

NurtureSummary(scope) ==
    [count |-> Cardinality(Planned(scope)),
     arr |-> SumFunction([p \in Planned(scope) |-> prospects[p].value]),
     dueNow |-> Cardinality({ p \in Planned(scope) : prospects[p].on <= today })]

\* Soonest due first.
ListProspects(scope, page, size) ==
    FromWindow(InOrder([p \in Planned(scope) |->
                          <<prospects[p].on, Instant(p, Prospects)>>]), page, size)

CompanyRow(c) ==
    LET Hers(statuses) == Cardinality({ d \in Deals : /\ deals[d].status \in statuses
                                                      /\ CustomerOf[d] = c }) IN
    [company |-> c, open |-> Hers({"open"}), closed |-> Hers(Closed),
     total |-> Hers({"open", "parked"} \cup Closed)]

\* The directory shows the newest `limit` and says how many there are.
DeskCompanies(matching, limit) ==
    [rows |-> FirstRows(SetToSeq(matching), limit), total |-> Cardinality(matching)]

Companies(matching, limit) ==
    LET found == DeskCompanies(matching, limit) IN
    [items |-> [k \in DOMAIN found.rows |-> CompanyRow(found.rows[k])],
     total |-> found.total]

------------------------------------------------------------------------------
(* The pages agree *)

\* Two sums of n roundings each differ by at most n half cents.
Near(a, b, n) == 2 * (a - b) \in -n .. n

ListFilter(scope, tab, hygiene) ==
    [scope |-> scope, tab |-> tab, showClosed |-> TRUE, hygiene |-> hygiene]

DashboardAgrees(scope, currency) ==
    LET desk == Dashboard(scope, currency)
        page == PipelineOverview(scope, currency)
        quarter == { m \in Months : m >= QuarterStart(today) } IN
    /\ desk.openCount = SumFunction([s \in Stages |-> desk.stages[s].count])
    /\ desk.arr = page.total /\ desk.reasons = page.closed.reasons
    /\ \A s \in Stages : /\ desk.stages[s].value = page.stages[s].value
                         /\ desk.stages[s].count = page.stages[s].count
    /\ Near(desk.arr, SumFunction([s \in Stages |-> desk.stages[s].value]), LastStage + 1)
    /\ 100 * desk.weighted
         >= SumFunction([s \in Stages |-> desk.stages[s].value * Probability[s]]) - 50 * (LastStage + 1)
    /\ LET open == OpenDeals(scope) IN
       currency = "USD" /\ (\A d \in open : deals[d].terms.currency = "USD") =>
          Near(desk.weighted, SumFunction([d \in open |-> WeightedValue(d)]), desk.openCount + 1)
    /\ Near(desk.won, SumFunction([m \in quarter |-> desk.bookings[m].won]), QuarterMonths + 1)
    /\ Near(desk.lost, SumFunction([m \in quarter |-> desk.bookings[m].lost]), QuarterMonths + 1)
    /\ Near(desk.won, SumFunction(desk.quota),
            Cardinality(Owners) + 1)
    /\ Near(page.team.value, SumFunction([o \in DOMAIN page.reps |-> page.reps[o].value]),
            Cardinality(Owners) + 1)

CountsAgree(scope) ==
    LET page == PipelineOverview(scope, "USD")
        tabs == StatusCounts(scope)
        hygiene == page.hygiene
        Listed(tab, bucket) == Len(Pipeline(ListFilter(scope, tab, bucket))) IN
    /\ \A bucket \in DOMAIN hygiene : hygiene[bucket] = Listed("all", bucket)
    /\ hygiene["active_week"] + hygiene["quiet_8_30"] + hygiene["no_activity_30"] = tabs.open
    /\ Notifications(scope).stale = hygiene["no_activity_30"]
    /\ \A tab \in {"all", "open", "won", "lost"} : tabs[tab] = Listed(tab, "none")
    /\ page.all = tabs.all
    /\ page.closed.won = tabs.won /\ page.closed.lost = tabs.lost
    /\ SumFunction(page.closed.reasons) = tabs.lost
    /\ SumFunction([o \in DOMAIN page.reps |-> page.reps[o].count]) = page.team.count
    /\ SumFunction([o \in DOMAIN page.reps |-> page.reps[o].cold]) = page.team.cold
    /\ scope = Everyone => page.team.cold = Notifications(scope).stale

ListsAreWhole(scope) ==
    LET f == ListFilter(scope, "all", "none")  rows == Pipeline(f) IN
    \A size \in PageSizes :
        /\ PagedWhole(LAMBDA page : ListDeals(f, page, size), rows, StatusCounts(scope).all, size)
        /\ PipelineExport(f, size) = [k \in DOMAIN rows |-> ExportRow(rows[k])]
        /\ Cardinality({ row \in Range(PipelineExport(f, size)) :
                            row.status = "open" /\ row.idle > StaleAfter })
             = StaleOpenDealsCount(scope)
        /\ FlattenSeq([k \in 1 .. TotalPages(NurtureSummary(scope).count, size) |->
                          ListProspects(scope, k, size).items])
             = ListProspects(scope, 1, NurtureSummary(scope).count + 1).items

BellsAgree(scope) ==
    LET bell == Notifications(scope)
        listed == Planned(scope) IN
    /\ NurtureSummary(scope).dueNow
         = Cardinality({ p \in listed : DueState(p) \in {"overdue", "today"} })
    /\ bell.due = NurtureSummary(scope).dueNow + ParkedDueCounts(scope).due
    /\ bell.due + bell.upcoming
         = Cardinality({ p \in listed : prospects[p].on <= today + UpcomingWindow })
             + Cardinality({ d \in WithStatus("parked", scope) :
                               deals[d].until <= today + UpcomingWindow })

(* The desk works out the same figure in several ways: in the database over *)
(* dates and in Python over days, per rep, per stage, per month, per reason *)
(* and per company, converted before or after it is added up.  Whatever was *)
(* done to the deals and on whatever day, the bells, the chips, the cards,  *)
(* the tabs, the list they open, its pages and its export agree.            *)
DeskAgrees ==
    /\ \A scope \in Scopes :
          /\ \A currency \in Currencies : DashboardAgrees(scope, currency)
          /\ CountsAgree(scope) /\ ListsAreWhole(scope) /\ BellsAgree(scope)
    /\ LET bell == NotificationCounts IN
       /\ NurtureDueCounts(Everyone) = [due |-> bell.dueNurture, upcoming |-> bell.upcomingNurture]
       /\ Notifications(Everyone).due = bell.dueNurture + bell.dueParked
    /\ LET count == Cardinality(Customers)
           page == Companies(Customers, count)
           Over(field) == SumFunction([k \in 1 .. count |-> page.items[k][field]])
           tabs == StatusCounts(Everyone) IN
       /\ page.total = count /\ Companies(Customers, count - 1).total = count
       /\ Over("open") = tabs.open /\ Over("closed") = tabs.won + tabs.lost
       /\ Over("total") = tabs.all
===============================================================================
