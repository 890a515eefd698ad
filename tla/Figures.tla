-------------------------------- MODULE Figures --------------------------------
(***************************************************************************)
(* What the pages show of the expenses and the purchase orders, and the    *)
(* property that all the pages agree.                                      *)
(***************************************************************************)
EXTENDS QuoteFigures

CONSTANT PageSize

OpenPayables == {"pending", "overdue"}

RecognizedExpenses == {"pending", "paid", "overdue"}

BillsOnCards == {"pending", "overdue", "paid"}

Spent(row, w) ==
    /\ row.status \in RecognizedExpenses
    /\ row.date \in w.from .. w.to
    /\ row.currency = w.currency

Committed(row, w) ==
    /\ row.status \in CommittedOrders
    /\ row.date \in w.from .. w.to
    /\ row.currency = w.currency

ExpenseOutstanding(row) == row.status \in OpenPayables /\ row.balance > 0

ExpensePastDue(row, today) == ExpenseOutstanding(row) /\ row.due < today

SumSpent(w, what(_)) == Total(expenses, LAMBDA row : Spent(row, w), what)

SumCommitted(w, what(_)) == Total(orders, LAMBDA row : Committed(row, w), what)

------------------------------------------------------------------------------
(* The purchases report: expenses, with the orders kept apart *)

PurchasesSummary(w) ==
    [spend |-> LinesOf(expenses, LAMBDA row : Spent(row, w), All, Amount),
     commitments |-> SumCommitted(w, Subtotal), inputVat |-> SumSpent(w, Tax),
     commitmentTax |-> SumCommitted(w, Tax), expenses |-> SumSpent(w, One),
     orders |-> SumCommitted(w, One),
     payables |-> Total(expenses, LAMBDA row : Spent(row, w) /\ ExpenseOutstanding(row),
                        Balance)]

SpendByVendor(w) ==
    [v \in Vendors |->
        LinesOf(expenses, LAMBDA row : Spent(row, w) /\ row.vendor = v, All, Amount)]

PurchasesReport(w) == [metrics |-> PurchasesSummary(w), vendors |-> SpendByVendor(w)]

\* Both kinds in one list; an unknown source lists nothing.
PurchaseEntries(w, source) ==
    LET FromTable(name, table, counts(_)) ==
          IF source \in {"all", name}
          THEN { [source |-> name, id |-> n, date |-> table[n].date,
                  amount |-> table[n].total, tax |-> table[n].tax] :
                 n \in { m \in DOMAIN table : counts(table[m]) } }
          ELSE {} IN
    FromTable("expense", expenses, LAMBDA row : Spent(row, w))
      \cup FromTable("purchase_order", orders, LAMBDA row : Committed(row, w))

PurchasesLedger(w, source) ==
    SetToSortSeq(PurchaseEntries(w, source),
                 LAMBDA a, b : \/ a.date > b.date
                               \/ a.date = b.date /\ a.source = b.source /\ a.id > b.id
                               \/ a.date = b.date /\ a.source # b.source
                                    /\ a.source = "purchase_order")

PurchasesLedgerPage(w, source, page, size) ==
    FromWindow(PurchasesLedger(w, source), page, size)

PurchasesExport(w, maxRows) == Exported(PurchasesLedger(w, "all"), maxRows)

PurchasesLedgerTotal(w, source) == Cardinality(PurchaseEntries(w, source))

PurchasesSourceCounts(w) ==
    LET entries == PurchaseEntries(w, "all")
        From(name) == Cardinality({ e \in entries : e.source = name }) IN
    [all |-> From("expense") + From("purchase_order"), expense |-> From("expense"),
     purchase_order |-> From("purchase_order")]

TaxSummary(w) ==
    [collected |-> SumSold(w, Tax), input |-> SumSpent(w, Tax),
     net |-> SumSold(w, Tax) - SumSpent(w, Tax)]

TaxByTypePurchases(w) ==
    [type \in LineTypes(expenses) |->
        LET Counts(row) == Spent(row, w)
            OfType(line) == line.type = type IN
        Taxed(DocumentsWith(expenses, Counts, OfType),
              LinesOf(expenses, Counts, OfType, LAMBDA line : line.tax),
              LinesOf(expenses, Counts, OfType, Amount))]

ForeignVatExpenses(from, to) ==
    { n \in DOMAIN expenses :
        LET row == expenses[n] IN
        /\ row.status \in RecognizedExpenses /\ row.date \in from .. to
        /\ row.currency # HomeCurrency
        /\ row.tax # 0 \/ \E k \in DOMAIN row.lines : row.lines[k].type \in VatTypes }

\* What is left out, to be read page by page.
Excluded(from, to) ==
    LET rows == { [source |-> "invoice", id |-> n, date |-> invoices[n].date] :
                  n \in ForeignVatInvoices(from, to) }
                  \cup { [source |-> "expense", id |-> n, date |-> expenses[n].date] :
                         n \in ForeignVatExpenses(from, to) } IN
    SetToSortSeq(rows, LAMBDA a, b : \/ a.date > b.date
                                     \/ a.date = b.date /\ a.source # b.source
                                          /\ a.source = "expense"
                                     \/ a.date = b.date /\ a.source = b.source /\ a.id > b.id)

ExcludedSummary(from, to) ==
    Cardinality(ForeignVatInvoices(from, to)) + Cardinality(ForeignVatExpenses(from, to))

ExcludedPage(from, to, page, size) == FromWindow(Excluded(from, to), page, size)

\* Strict refuses a report that would leave something out.
TaxReport(from, to, strict) ==
    LET left == ExcludedSummary(from, to) IN
    [refused |-> strict /\ left > 0, complete |-> left = 0, left |-> left,
     summary |-> TaxSummary([from |-> from, to |-> to, currency |-> HomeCurrency])]

Payable(row, currency, cutoff) ==
    ExpenseOutstanding(row) /\ row.date <= cutoff /\ row.currency = currency

AgedPayables(currency, cutoff) ==
    [v \in Vendors |-> [b \in Buckets |->
        Total(expenses, LAMBDA row : /\ Payable(row, currency, cutoff)
                                     /\ row.vendor = v
                                     /\ Bucket(cutoff, row.due) = b, Balance)]]

AgedPayablesTotals(currency, cutoff) ==
    [b \in Buckets |->
        Total(expenses, LAMBDA row : /\ Payable(row, currency, cutoff)
                                     /\ Bucket(cutoff, row.due) = b, Balance)]

AgedPayablesReport(currency, cutoff) == AgedReport(AgedPayables(currency, cutoff))

AgedPayablesDetail(currency, cutoff) ==
    AgedRows(expenses, { n \in DOMAIN expenses : Payable(expenses[n], currency, cutoff) },
             cutoff)

AgedPayablesPage(currency, cutoff, page, size) ==
    FromWindow(AgedPayablesDetail(currency, cutoff), page, size)

------------------------------------------------------------------------------
(* Statements and dashboard *)

Expenditure(w) == LinesOf(expenses, LAMBDA row : Spent(row, w), All, Amount)

PeriodTotals(w) ==
    LET revenue == Revenue(w)  spent == Expenditure(w) IN
    [revenue |-> revenue, expenses |-> spent, net |-> revenue - spent]

\* The cards, each with the figure of the window before.
Overview(w) == [now |-> PeriodTotals(w), before |-> PeriodTotals(Previous(w))]

\* The dashboard's header: the overview with the receivables of both windows.
DashboardSummary(w) ==
    LET overview == Overview(w) IN
    [balance |-> <<Receivables(w), Receivables(Previous(w))>>,
     income |-> <<overview.now.revenue, overview.before.revenue>>,
     expenses |-> <<overview.now.expenses, overview.before.expenses>>]

ExpensesByCategory(w) ==
    [name \in ItemNames(expenses) |->
        LinesOf(expenses, LAMBDA row : Spent(row, w), LAMBDA line : line.name = name,
                Amount)]

IncomeStatement(w) ==
    LET Section(lines) == Sum(DOMAIN lines, LAMBDA name : lines[name])
        revenue == Section(RevenueByCategory(w))
        spent == Section(ExpensesByCategory(w)) IN
    [revenue |-> revenue, expenses |-> spent, net |-> revenue - spent]

\* The signed ledger of recognised documents.
Incomes(w) ==
    { [source |-> "invoice", id |-> n, date |-> invoices[n].date,
       amount |-> invoices[n].total] :
      n \in { m \in DOMAIN invoices : Sold(invoices[m], w) } }

Outgoings(w) ==
    { [source |-> "expense", id |-> n, date |-> expenses[n].date,
       amount |-> -expenses[n].total] :
      n \in { m \in DOMAIN expenses : Spent(expenses[m], w) } }

CashEntries(w, category) ==
    (IF category \in {"all", "income"} THEN Incomes(w) ELSE {})
      \cup (IF category \in {"all", "expense"} THEN Outgoings(w) ELSE {})

\* Newest first; the ids are UUIDs, so between two tables any fixed order does.
NewestEntries(entries) ==
    SetToSortSeq(entries, LAMBDA a, b : \/ a.date > b.date
                                        \/ a.date = b.date /\ a.source = b.source /\ a.id > b.id
                                        \/ a.date = b.date /\ a.source # b.source
                                             /\ a.source = "invoice")

CashflowPage(w, category, page, size) ==
    FromWindow(NewestEntries(CashEntries(w, category)), page, size)

CashflowCounts(w) ==
    LET entries == CashEntries(w, "all")
        From(name) == Cardinality({ e \in entries : e.source = name }) IN
    [all |-> From("invoice") + From("expense"), income |-> From("invoice"),
     expense |-> From("expense")]

DailyExpense(w) ==
    [day \in w.from .. w.to |->
        Total(expenses, LAMBDA row : Spent(row, w) /\ row.date = day, Due)]

CashflowSeries(w, granularity) ==
    LET buckets == ChartBuckets(w.from, w.to, granularity)
        income == Charted(DailyIncome(w), buckets)
        spent == Charted(DailyExpense(w), buckets) IN
    [buckets |-> buckets, income |-> income, expense |-> spent,
     net |-> [k \in DOMAIN buckets |-> income[k] - spent[k]]]

RecentTransactions(w, limit) ==
    LET entries == NewestEntries(Incomes(w) \cup Outgoings(w)) IN
    SubSeq(entries, 1, Min2(limit, Len(entries)))

------------------------------------------------------------------------------
(* The list of expenses and the page of a vendor *)

\* Canceled expenses are a tab of their own, outside `all`.
ExpenseStatusCounts(today) ==
    LET InStatus(s) == Total(expenses, LAMBDA row : row.status = s, One) IN
    [all |-> Total(expenses, LAMBDA row : row.status # "canceled", One),
     pending |-> InStatus("pending"), paid |-> InStatus("paid"),
     canceled |-> InStatus("canceled"),
     overdue |-> InStatus("overdue")
       + Total(expenses, LAMBDA row : row.status = "pending" /\ row.due < today, One)]

ExpenseStatistics(from, to, today) ==
    LET Counts(row) == row.status # "canceled" /\ row.date \in from .. to
        Overdue(row) == Counts(row) /\ ExpensePastDue(row, today) IN
    [count |-> Total(expenses, Counts, One), amount |-> Total(expenses, Counts, Due),
     paid |-> Total(expenses, Counts, Paid), outstanding |-> Total(expenses, Counts, Balance),
     overdueCount |-> Total(expenses, Overdue, One),
     overdueAmount |-> Total(expenses, Overdue, Balance)]

\* Newest first.  Without a status filter the list leaves the canceled ones out.
ExpenseList(f) ==
    SetToSortSeq({ n \in DOMAIN expenses :
                     /\ IF f.statuses = {} THEN expenses[n].status # "canceled"
                        ELSE expenses[n].status \in f.statuses
                     /\ expenses[n].vendor \in f.parties
                     /\ expenses[n].date \in f.dates /\ expenses[n].due \in f.dues },
                 LAMBDA m, n : m > n)

ExpensePage(f, page, size) == FromWindow(ExpenseList(f), page, size)

ExpenseExportRows(f, limit) == FirstRows(ExpenseList(f), limit)

ExpenseExport(f, limit) ==
    Truncated(ExpenseExportRows([f EXCEPT !.dues = 1 .. LastDay + 1], limit + 1), limit)

OrderStatusCounts ==
    [s \in {"draft", "sent", "paid"} |-> Total(orders, LAMBDA row : row.status = s, One)]
      @@ ("all" :> Total(orders, All, One))

OrderList(f) ==
    SetToSortSeq({ n \in DOMAIN orders : /\ orders[n].status \in f.statuses
                                         /\ orders[n].vendor \in f.parties
                                         /\ orders[n].date \in f.dates },
                 LAMBDA m, n : m > n)

OrderPage(f, page, size) == FromWindow(OrderList(f), page, size)

OrderExportRows(f, limit) == FirstRows(OrderList(f), limit)

OrderExport(f, limit) == Truncated(OrderExportRows(f, limit + 1), limit)

VendorPayables(v) ==
    [unpaid |-> Total(expenses, LAMBDA row : row.vendor = v /\ row.status \in OpenPayables,
                      Balance),
     overdue |-> Total(expenses, LAMBDA row : row.vendor = v /\ row.status = "overdue",
                       Balance)]

\* The list of vendors computes the same in one query for all of them.
VendorPayablesBulk(vendors) ==
    LET Open(v, row) == row.vendor = v /\ row.status \in OpenPayables IN
    [v \in { u \in vendors : \E n \in DOMAIN expenses : Open(u, expenses[n]) } |->
        Total(expenses, LAMBDA row : Open(v, row), Balance)]

\* The list of vendors, with what each is owed.
VendorPage(page, size) ==
    LET found == FromWindow(SetToSeq(Vendors), page, size)
        payables == VendorPayablesBulk(Range(found.items)) IN
    [items |-> [k \in DOMAIN found.items |->
        [vendor |-> found.items[k],
         payables |-> IF found.items[k] \in DOMAIN payables THEN payables[found.items[k]]
                      ELSE 0]],
     more |-> found.more]

HasOpenTransactions(v) ==
    \E n \in DOMAIN expenses : expenses[n].vendor = v /\ expenses[n].status \in OpenPayables

\* An order is listed with no balance: it is not a payable.
VendorTransactions(v, statuses, kinds) ==
    { [kind |-> "expense", id |-> n, balance |-> expenses[n].balance] :
        n \in { m \in DOMAIN expenses : /\ "expense" \in kinds /\ expenses[m].vendor = v
                                        /\ expenses[m].status \in statuses } }
      \cup
    { [kind |-> "purchase_order", id |-> n, balance |-> 0] :
        n \in { m \in DOMAIN orders : /\ "purchase_order" \in kinds /\ orders[m].vendor = v
                                      /\ orders[m].status \in statuses } }

Shown(table, v, statuses, from, to) ==
    { n \in DOMAIN table : /\ table[n].vendor = v /\ table[n].status \in statuses
                           /\ table[n].date \in from .. to }

Card(table, ids) ==
    [total |-> Sum(ids, LAMBDA n : table[n].total),
     paid |-> Sum(ids, LAMBDA n : Min2(table[n].paid, table[n].total)),
     pending |-> Sum(ids, LAMBDA n : Max2(table[n].balance, 0)),
     count |-> Cardinality(ids)]

BillsCard(v, from, to) == Card(expenses, Shown(expenses, v, BillsOnCards, from, to))

OrdersCard(v, from, to) == Card(orders, Shown(orders, v, CommittedOrders, from, to))

\* Everything paid, in 1/RateUnit: the payments of canceled documents too.
PaymentsCard(v, from, to) ==
    LET In(row, what(_)) == Total(row.payments, LAMBDA p : p.date \in from .. to, what) IN
    [total |-> Total(expenses, LAMBDA row : row.vendor = v, LAMBDA row : In(row, InCents))
                 + Total(orders, LAMBDA row : row.vendor = v, LAMBDA row : In(row, Unrounded)),
     count |-> Total(expenses, LAMBDA row : row.vendor = v, LAMBDA row : In(row, One))
                 + Total(orders, LAMBDA row : row.vendor = v, LAMBDA row : In(row, One))]

\* A card's rows: newest first, by offset.
CardRows(table, ids, page, size) ==
    LET sorted == Newest(table, ids)
        offset == (page - 1) * size IN
    [items |-> SubSeq(sorted, offset + 1, Min2(offset + size, Len(sorted))),
     pages |-> TotalPages(Len(sorted), size)]

\* An export reads one row more than it may write, to say if it left some out.
CardExport(table, ids, limit) ==
    LET items == CardRows(table, ids, 1, limit + 1).items IN
    [items |-> SubSeq(items, 1, Min2(limit, Len(items))), truncated |-> Len(items) > limit]

------------------------------------------------------------------------------
(* The pages agree *)

Over(rows, what(_)) == Total(rows, All, what)

SalesAgree(w) ==
    LET report == SalesReport(w)
        s == report.metrics
        ledger == SalesLedger(w, RecognizedInvoices)
        customers == report.customers
        items == report.items
        counts == SalesStatusCounts(w)
        types == TaxByTypeSales(w) IN
    /\ s.net + s.tax = s.invoiced
    /\ s.subtotal = Over(ledger, Subtotal) /\ s.discount = Over(ledger, LAMBDA r : r.discount)
    /\ s.net = Over(ledger, LAMBDA r : r.net) /\ s.invoiced = Over(ledger, Amount)
    /\ s.net = Sum(Customers, LAMBDA c : customers[c].amount)
    /\ Shares * s.net = Sum(DOMAIN items, LAMBDA name : items[name])
    /\ s.tax = Sum(DOMAIN types, LAMBDA key : types[key].tax)
    /\ s.net = Sum(DOMAIN types, LAMBDA key : types[key].taxable)
                 + Total(invoices, LAMBDA row : /\ Sold(row, w) /\ ~row.charged
                                                /\ \E n \in DOMAIN row.lines :
                                                      Historical(row.lines[n]), Net)
    /\ s.count = Sum(RecognizedInvoices, LAMBDA status : counts[status])
    /\ \A status \in RecognizedInvoices :
          counts[status] = SalesLedgerTotal(w, {status})
    /\ PagedWhole(LAMBDA page : SalesLedgerPage(w, RecognizedInvoices, page, PageSize), ledger,
                  SalesLedgerTotal(w, RecognizedInvoices), PageSize)
    /\ ~SalesExport(w, s.count).refused /\ (s.count > 0 => SalesExport(w, s.count - 1).refused)
    /\ s.outstanding = AcrossBuckets(AgedReceivablesTotals(w.currency, w.to))
                         - AcrossBuckets(AgedReceivablesTotals(w.currency, w.from - 1))

PurchasesAgree(w) ==
    LET report == PurchasesReport(w)
        p == report.metrics
        counts == PurchasesSourceCounts(w)
        vendors == report.vendors
        types == TaxByTypePurchases(w)
        ledger == PurchasesLedger(w, "all") IN
    /\ Over(ledger, Amount) = p.spend + p.inputVat + p.commitments + p.commitmentTax
    /\ p.spend = Sum(Vendors, LAMBDA v : vendors[v])
    /\ p.inputVat = Sum(DOMAIN types, LAMBDA t : types[t].tax)
    /\ p.spend = Sum(DOMAIN types, LAMBDA t : types[t].taxable)
    /\ counts.expense = p.expenses /\ counts.purchase_order = p.orders
    /\ \A source \in {"all", "expense", "purchase_order"} :
          counts[source] = PurchasesLedgerTotal(w, source)
    /\ PagedWhole(LAMBDA page : PurchasesLedgerPage(w, "all", page, PageSize), ledger, counts.all,
                  PageSize)
    /\ PurchasesExport(w, counts.all).rows = ledger
    /\ p.payables = AcrossBuckets(AgedPayablesTotals(w.currency, w.to))
                      - AcrossBuckets(AgedPayablesTotals(w.currency, w.from - 1))

StatementsAgree(w) ==
    LET s == SalesSummary(w)
        p == PurchasesSummary(w)
        statements == IncomeStatement(w)
        both == PeriodTotals([w EXCEPT !.from = 2 * w.from - w.to - 1])
        counts == CashflowCounts(w)
        ledger == NewestEntries(CashEntries(w, "all")) IN
    /\ statements.revenue = s.subtotal /\ statements.expenses = p.spend
    /\ \A cards \in {Overview(w)} :
          /\ cards.now.net = statements.net
          /\ DashboardSummary(w).income = <<cards.now.revenue, cards.before.revenue>>
          /\ cards.now.revenue + cards.before.revenue = both.revenue
          /\ cards.now.expenses + cards.before.expenses = both.expenses
    /\ DashboardSummary(w).balance[1] <= s.outstanding
    /\ Over(ledger, Amount) = s.invoiced - p.spend - p.inputVat
    /\ counts.income = s.count /\ counts.expense = p.expenses
    /\ PagedWhole(LAMBDA page : CashflowPage(w, "all", page, PageSize), ledger, counts.all,
                  PageSize)
    /\ RecentTransactions(w, PageSize) = FromWindow(ledger, 1, PageSize).items
    /\ Over(TopSales(w, Cardinality(ItemNames(invoices))),
            LAMBDA name : RevenueByCategory(w)[name]) = s.subtotal
    /\ \A granularity \in {"day", "week", "month"} :
          LET series == CashflowSeries(w, granularity)  buckets == series.buckets IN
          /\ Over(series.income, LAMBDA x : x) = s.invoiced
          /\ Over(series.net, LAMBDA x : x) = Over(ledger, Amount)
          /\ \A k \in DOMAIN buckets : buckets[k][1] = IF k = 1 THEN w.from
                                                      ELSE buckets[k - 1][2] + 1

\* The tax report and what it says it leaves out are all there is.
TaxReportIsComplete(from, to) ==
    LET report == TaxReport(from, to, FALSE)
        In(c) == TaxSummary([from |-> from, to |-> to, currency |-> c]) IN
    /\ Sum(Currencies, LAMBDA c : In(c).collected)
         = report.summary.collected
             + Sum(ForeignVatInvoices(from, to), LAMBDA n : invoices[n].tax)
    /\ Sum(Currencies, LAMBDA c : In(c).input)
         = report.summary.input
             + Sum(ForeignVatExpenses(from, to), LAMBDA n : expenses[n].tax)
    /\ TaxReport(from, to, TRUE).refused <=> ~report.complete
    /\ PagedWhole(LAMBDA page : ExcludedPage(from, to, page, PageSize), Excluded(from, to),
                  ExcludedSummary(from, to), PageSize)

\* The grids, their totals and the rows behind them; the customer's and the
\* vendor's own page.
AgingAgrees(cutoff) ==
    \A currency \in Currencies :
        LET owed == AgedReceivablesTotals(currency, cutoff)
            grid == AgedReceivables(currency, cutoff)
            owing == AgedPayablesTotals(currency, cutoff)
            bills == AgedPayables(currency, cutoff)
            receivables == AgedReceivablesDetail(currency, cutoff)
            payables == AgedPayablesDetail(currency, cutoff)
            Foots(report, totals) ==
                /\ report.totals = totals
                /\ Sum(DOMAIN report.rows, LAMBDA p : report.rows[p]["total"])
                     = AcrossBuckets(totals) IN
        /\ Foots(AgedReceivablesReport(currency, cutoff), owed)
        /\ Foots(AgedPayablesReport(currency, cutoff), owing)
        /\ \A b \in Buckets :
              /\ owed[b] = Sum(Customers, LAMBDA c : grid[c][b])
              /\ owing[b] = Sum(Vendors, LAMBDA v : bills[v][b])
              /\ owed[b] = Total(receivables, LAMBDA r : r.bucket = b, Balance)
              /\ owing[b] = Total(payables, LAMBDA r : r.bucket = b, Balance)
        /\ \A rows \in {receivables, payables} : \A k \in DOMAIN rows :
              rows[k].overdue > 0 <=> rows[k].bucket # "current"
        /\ PagedWhole(LAMBDA page : AgedReceivablesPage(currency, cutoff, page, PageSize),
                      receivables, Len(receivables), PageSize)
        /\ PagedWhole(LAMBDA page : AgedPayablesPage(currency, cutoff, page, PageSize),
                      payables, Len(payables), PageSize)

NotCurrent(totals) == AcrossBuckets(totals) - totals["current"]

\* A list has as many rows as its tab says; its pages and its export are the list.
Listed(Page(_), rows, count, Export(_)) ==
    /\ PagedWhole(Page, rows, count, PageSize)
    /\ Export(count) = [items |-> rows, truncated |-> FALSE]
    /\ count > 0 => Export(count - 1).truncated

\* The lists, on some day.
ListsAgree(today) ==
    LET tabs == InvoiceStatusCounts(today)
        all == InvoiceStatistics(1, LastDay, today)
        known == InvoiceStatistics(1, today, today)
        bills == ExpenseStatusCounts(today)
        spending == ExpenseStatistics(1, LastDay, today) IN
    /\ all.invoiced - all.paid = all.outstanding
    /\ spending.amount - spending.paid = spending.outstanding
    /\ tabs["overdue"] = all.overdueCount
    /\ all.count = tabs["all"] - tabs["canceled"] /\ spending.count = bills.all
    /\ \A s \in {"draft", "sent", "partial", "paid", "canceled"} :
          tabs[s] = Len(InvoiceList(Filter({s}, Customers)))
    /\ bills.all = Len(ExpenseList(Filter({}, Vendors)))
    /\ \A s \in {"draft", "sent", "paid"} :
          OrderStatusCounts[s] = Len(OrderList(Filter({s}, Vendors)))
    /\ Listed(LAMBDA page : InvoicePage(Filter(InvoiceStatuses, Customers), page, PageSize),
              InvoiceList(Filter(InvoiceStatuses, Customers)), tabs["all"],
              LAMBDA limit : InvoiceExport(Filter(InvoiceStatuses, Customers), limit))
    /\ Listed(LAMBDA page : ExpensePage(Filter({}, Vendors), page, PageSize),
              ExpenseList(Filter({}, Vendors)), bills.all,
              LAMBDA limit : ExpenseExport(Filter({}, Vendors), limit))
    /\ Listed(LAMBDA page : OrderPage(Filter({"draft", "sent", "paid"}, Vendors), page, PageSize),
              OrderList(Filter({"draft", "sent", "paid"}, Vendors)), OrderStatusCounts["all"],
              LAMBDA limit : OrderExport(Filter({"draft", "sent", "paid"}, Vendors), limit))
    /\ known.overdueAmount
         = Sum(Currencies, LAMBDA c : NotCurrent(AgedReceivablesTotals(c, today)))
    /\ Sum(Customers, LAMBDA c : FinancialSummary(c, today).overdue) <= all.overdueAmount

PartiesAgree ==
    /\ Sum(Customers, LAMBDA c : FinancialSummary(c, LastDay).unpaid)
         = Sum(Currencies, LAMBDA k : AcrossBuckets(AgedReceivablesTotals(k, LastDay)))
    /\ Sum(Vendors, LAMBDA v : VendorPayables(v).unpaid)
         = Sum(Currencies, LAMBDA k : AcrossBuckets(AgedPayablesTotals(k, LastDay)))
    /\ \A c \in Customers :
          /\ RateUnit * StoredBalance(c) = Max2(CustomerOpening(c, LastDay + 1), 0)
          /\ LET hers == InvoiceList(Filter(InvoiceStatuses, {c})) IN
             PagedWhole(LAMBDA page : CustomerInvoices(c, InvoiceStatuses, page, PageSize), hers,
                        Len(hers), PageSize)
    /\ \A v \in Vendors :
          LET billed == Shown(expenses, v, BillsOnCards, 1, LastDay)
              bulk == VendorPayablesBulk(Vendors)
              card == BillsCard(v, 1, LastDay)
              Hers(row) == row.vendor = v
              entries == Joined(Entries(1, expenses, Hers, InCents, 1, LastDay),
                                Entries(2, orders, Hers, Unrounded, 1, LastDay))
              open == VendorTransactions(v, OpenPayables, {"expense", "purchase_order"}) IN
          /\ HasOpenTransactions(v) <=> v \in DOMAIN bulk
          /\ v \in DOMAIN bulk => bulk[v] = VendorPayables(v).unpaid
          /\ VendorPayables(v).unpaid = Sum(open, Balance)
          /\ card.total = card.paid + card.pending
          /\ card.count = Len(CardExport(expenses, billed, card.count).items)
          /\ card.count > 0 => CardExport(expenses, billed, card.count - 1).truncated
          /\ PaymentsCard(v, 1, LastDay).total
               = -Exact([x \in { y \in DOMAIN entries : entries[y].credit } |-> entries[x]])
    /\ LET count == Cardinality(Vendors)  everyone == VendorPage(1, count).items IN
       /\ PagedWhole(LAMBDA page : VendorPage(page, PageSize), everyone, count, PageSize)
       /\ Total(everyone, All, LAMBDA row : row.payables)
            = Sum(Vendors, LAMBDA v : VendorPayables(v).unpaid)
    /\ \A w \in Windows : w.currency = HomeCurrency =>
          /\ Sum(Currencies, LAMBDA k : SumCommitted([w EXCEPT !.currency = k], Due))
               = Sum(Vendors, LAMBDA v : OrdersCard(v, w.from, w.to).total)
          /\ Sum(Currencies, LAMBDA k : SumSpent([w EXCEPT !.currency = k], Due))
               = Sum(Vendors, LAMBDA v : BillsCard(v, w.from, w.to).total)

(* Some sixty figures on a dozen pages are separate queries, over several  *)
(* lists of the statuses that count.  They agree wherever they show the    *)
(* same thing: sales by document, customer, item, tax type, day and chart  *)
(* bucket; purchases by document, vendor and source; the income statement, *)
(* the ledger and the cards of this window and the one before; the aging   *)
(* grids with their totals, their rows, the lists and the pages of a       *)
(* customer and a vendor; the tabs, lists, pages and exports of invoices,  *)
(* expenses, orders and quotes; and the tax report with what it says it    *)
(* leaves out.                                                             *)
BooksReconcile ==
  statement = NoStatement =>
    /\ \A w \in Windows : SalesAgree(w) /\ PurchasesAgree(w) /\ StatementsAgree(w)
    /\ \A from, to \in Days : from <= to => TaxReportIsComplete(from, to)
    /\ \A day \in 1 .. LastDay + 3 * AgeStep : AgingAgrees(day)
    /\ \A today \in 1 .. LastDay + 1 : ListsAgree(today) /\ QuotesAgree(today)
    /\ quotes # <<>> => \A today \in 1 .. 6 : PeriodsFit(today)   \* they read no table
    /\ PartiesAgree
===============================================================================
