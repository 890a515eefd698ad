------------------------------ MODULE SalesFigures ------------------------------
(***************************************************************************)
(* What the pages show of the invoices: the sales report, the tax report,  *)
(* the aging report, the income statement, the dashboard, the list page    *)
(* and the customer page.  Each is a query of its own, as it is in the     *)
(* code.  A window is a record [from, to, currency].                       *)
(***************************************************************************)
EXTENDS Books

CONSTANTS
    Currencies, HomeCurrency,   \* the tax report is in the home currency
    Shares,                     \* a multiple of every subtotal
    AgeStep,                    \* days in an aging bucket (30 in the code)
    WeekLength, MonthEnds       \* the calendar of the dashboard's buckets

Sum(set, f(_)) == MapThenSumSet(f, set)

One(x) == 1

Due(row) == row.total

Balance(row) == row.balance

Paid(row) == row.paid

Tax(row) == row.tax

Subtotal(row) == row.subtotal

\* Without VAT, after the document's discount.
Net(row) == row.total - row.tax

Windows ==
    { w \in [from : Days, to : Days, currency : Currencies] : w.from <= w.to }

\* The window of the same length that ends the day before.
Previous(w) ==
    [w EXCEPT !.to = w.from - 1, !.from = w.from - 1 - (w.to - w.from)]

\* Sum over the lines that count of the documents that count.
LinesOf(table, counts(_), lineCounts(_), what(_)) ==
    Total(table, counts, LAMBDA row : Total(row.lines, lineCounts, what))

\* How many of those documents have such a line.
DocumentsWith(table, counts(_), lineCounts(_)) ==
    Total(table, LAMBDA row : counts(row) /\ \E n \in DOMAIN row.lines :
                                                lineCounts(row.lines[n]), One)

ItemNames(table) ==
    UNION { { table[n].lines[k].name : k \in DOMAIN table[n].lines } : n \in DOMAIN table }

------------------------------------------------------------------------------
(* Which invoices count *)

RecognizedInvoices == {"sent", "partial", "paid", "overdue"}

OutstandingInvoicesSlip == {"sent", "overdue"}

OutstandingInvoices == {"sent", "partial", "overdue"}

Sold(row, w) ==
    /\ row.status \in RecognizedInvoices
    /\ row.date \in w.from .. w.to
    /\ row.currency = w.currency

InvoiceOutstanding(row) == row.status \in OutstandingInvoices /\ row.balance > 0

PastDue(row, today) == InvoiceOutstanding(row) /\ row.due < today

SumSold(w, what(_)) == Total(invoices, LAMBDA row : Sold(row, w), what)

------------------------------------------------------------------------------
\* The rows with these ids, newest first.
Newest(table, ids) ==
    SetToSortSeq(ids,
                 LAMBDA m, n : \/ table[m].date > table[n].date
                               \/ table[m].date = table[n].date /\ m > n)

------------------------------------------------------------------------------
(* The sales report *)

SalesSummary(w) ==
    [subtotal |-> SumSold(w, Subtotal), discount |-> SumSold(w, Subtotal) - SumSold(w, Net),
     net |-> SumSold(w, Net), tax |-> SumSold(w, Tax), invoiced |-> SumSold(w, Due),
     count |-> SumSold(w, One),
     outstanding |-> Total(invoices, LAMBDA row : Sold(row, w) /\ InvoiceOutstanding(row),
                           Balance),
     overdue |-> Total(invoices, LAMBDA row : /\ Sold(row, w) /\ row.status = "overdue"
                                              /\ row.balance > 0, Balance)]

RevenueByCustomer(w) ==
    [c \in Customers |->
        LET Hers(row) == Sold(row, w) /\ row.customer = c IN
        [invoices |-> Total(invoices, Hers, One), amount |-> Total(invoices, Hers, Net)]]

\* A line's part of its document's net, in 1/Shares.
NetRevenueByItem(w) ==
    [name \in ItemNames(invoices) |->
        Total(invoices, LAMBDA row : Sold(row, w) /\ row.subtotal # 0,
              LAMBDA row : Total(row.lines, LAMBDA line : line.name = name, Amount)
                             * Net(row) * (Shares \div row.subtotal))]

SalesReport(w) ==
    [metrics |-> SalesSummary(w), customers |-> RevenueByCustomer(w),
     items |-> NetRevenueByItem(w)]

SoldIds(w, statuses) ==
    { n \in DOMAIN invoices : Sold(invoices[n], w) /\ invoices[n].status \in statuses }

SalesLedger(w, statuses) ==
    LET ids == Newest(invoices, SoldIds(w, statuses)) IN
    [k \in DOMAIN ids |->
        LET row == invoices[ids[k]] IN
        [id |-> ids[k], subtotal |-> row.subtotal, discount |-> row.subtotal - Net(row),
         net |-> Net(row), amount |-> row.total, tax |-> row.tax, balance |-> row.balance]]

SalesLedgerPage(w, statuses, page, size) == FromWindow(SalesLedger(w, statuses), page, size)

SalesExport(w, maxRows) == Exported(SalesLedger(w, RecognizedInvoices), maxRows)

SalesLedgerTotal(w, statuses) == Cardinality(SoldIds(w, statuses))

SalesStatusCounts(w) ==
    [s \in RecognizedInvoices |->
        Total(invoices, LAMBDA row : Sold(row, w) /\ row.status = s, One)]

------------------------------------------------------------------------------
(* The tax report *)

VatTypes == {"vat_16", "petroleum_vat_13", "petroleum_vat_8", "vat_8", "vat_0"}

LineTaxRate(type) ==
    CASE type = "vat_16" -> 16
      [] type = "petroleum_vat_13" -> 13
      [] type \in {"petroleum_vat_8", "vat_8"} -> 8
      [] type = "vat_0" -> 0
      [] OTHER -> NoValue

DocumentTaxType(rate) ==
    CASE rate = 16 -> "vat_16"
      [] rate = 8 -> "vat_8"
      [] rate = 0 -> "vat_0"
      [] OTHER -> "vat_custom"

Taxed(documents, tax, taxable) ==
    [documents |-> documents, tax |-> tax, taxable |-> taxable]

ByLine(w, type) ==
    LET Counts(row) == Sold(row, w) /\ ~row.charged
        OfType(line) == line.type = type /\ ~Historical(line) IN
    Taxed(DocumentsWith(invoices, Counts, OfType),
          LinesOf(invoices, Counts, OfType, LAMBDA line : line.tax),
          LinesOf(invoices, Counts, OfType, LAMBDA line : line.taxable))

Unreconciled(w) ==
    LET Counts(row) == Sold(row, w) /\ ~row.charged IN
    Taxed(DocumentsWith(invoices, Counts, Historical),
          LinesOf(invoices, Counts, Historical, LAMBDA line : line.tax), 0)

ByDocument(w, rate) ==
    LET Counts(row) == Sold(row, w) /\ row.charged /\ row.rate = rate IN
    Taxed(Total(invoices, Counts, One), Total(invoices, Counts, Tax),
          Total(invoices, Counts, Net))

LineTypes(table) ==
    UNION { { table[n].lines[k].type : k \in DOMAIN table[n].lines } : n \in DOMAIN table }

\* One row per type and rate: a document's rate joins the lines of that type.
TaxByTypeSales(w) ==
    LET rates == { invoices[n].rate : n \in DOMAIN invoices } \ {NoValue}
        keys == { <<t, LineTaxRate(t)>> : t \in LineTypes(invoices) }
                  \cup { <<DocumentTaxType(r), r>> : r \in rates }
        Both(a, b) == Taxed(a.documents + b.documents, a.tax + b.tax, a.taxable + b.taxable)
        None == Taxed(0, 0, 0) IN
    [key \in keys |->
        Both(ByLine(w, key[1]),
             IF key[2] \in rates /\ DocumentTaxType(key[2]) = key[1]
             THEN ByDocument(w, key[2]) ELSE None)]
      @@ (<<"unreconciled_historical", NoValue>> :> Unreconciled(w))

\* VAT documents in another currency: the report leaves them out and says so.
ForeignVatInvoices(from, to) ==
    { n \in DOMAIN invoices :
        LET row == invoices[n] IN
        /\ row.status \in RecognizedInvoices /\ row.date \in from .. to
        /\ row.currency # HomeCurrency
        /\ \/ row.charged
           \/ row.tax # 0
           \/ \E k \in DOMAIN row.lines : row.lines[k].type \in VatTypes }

------------------------------------------------------------------------------
(* The aging report: open balances of documents that existed at the cutoff *)

Late(cutoff, due) == cutoff - due

Bucket(cutoff, due) ==
    CASE cutoff <= due -> "current"
      [] Late(cutoff, due) \in 1 .. AgeStep -> "1_30"
      [] Late(cutoff, due) \in AgeStep + 1 .. 2 * AgeStep -> "31_60"
      [] Late(cutoff, due) \in 2 * AgeStep + 1 .. 3 * AgeStep -> "61_90"
      [] OTHER -> "90_plus"

Buckets == {"current", "1_30", "31_60", "61_90", "90_plus"}

Receivable(row, currency, cutoff) ==
    InvoiceOutstanding(row) /\ row.date <= cutoff /\ row.currency = currency

\* The grid, a row per customer, and its totals.
AgedReceivables(currency, cutoff) ==
    [c \in Customers |-> [b \in Buckets |->
        Total(invoices, LAMBDA row : /\ Receivable(row, currency, cutoff)
                                     /\ row.customer = c
                                     /\ Bucket(cutoff, row.due) = b, Balance)]]

AgedReceivablesTotals(currency, cutoff) ==
    [b \in Buckets |->
        Total(invoices, LAMBDA row : /\ Receivable(row, currency, cutoff)
                                     /\ Bucket(cutoff, row.due) = b, Balance)]

AcrossBuckets(aged) == Sum(Buckets, LAMBDA b : aged[b])

\* The report lists who owes anything, and its foot adds up what it lists.
AgedReport(grid) ==
    LET listed == { p \in DOMAIN grid : \E b \in Buckets : grid[p][b] # 0 } IN
    [rows |-> [p \in listed |-> grid[p] @@ ("total" :> AcrossBuckets(grid[p]))],
     totals |-> [b \in Buckets |-> Sum(listed, LAMBDA p : grid[p][b])]]

AgedReceivablesReport(currency, cutoff) == AgedReport(AgedReceivables(currency, cutoff))

\* The rows of the documents, the longest due first.
AgedRows(table, ids, cutoff) ==
    LET sorted == SetToSortSeq(ids, LAMBDA m, n : \/ table[m].due < table[n].due
                                                  \/ table[m].due = table[n].due /\ m > n) IN
    [k \in DOMAIN sorted |->
        LET row == table[sorted[k]] IN
        [id |-> sorted[k], balance |-> row.balance, overdue |-> Late(cutoff, row.due),
         bucket |-> Bucket(cutoff, row.due)]]

AgedReceivablesDetail(currency, cutoff) ==
    AgedRows(invoices, { n \in DOMAIN invoices : Receivable(invoices[n], currency, cutoff) },
             cutoff)

AgedReceivablesPage(currency, cutoff, page, size) ==
    FromWindow(AgedReceivablesDetail(currency, cutoff), page, size)

------------------------------------------------------------------------------
(* The income statement and the dashboard *)

Revenue(w) == SumSold(w, Lines)

RevenueByCategory(w) ==
    [name \in ItemNames(invoices) |->
        LinesOf(invoices, LAMBDA row : Sold(row, w), LAMBDA line : line.name = name, Amount)]

Receivables(w) == SumSold(w, Balance)

DailyIncome(w) ==
    [day \in w.from .. w.to |->
        Total(invoices, LAMBDA row : Sold(row, w) /\ row.date = day, Due)]

\* Contiguous closed windows; the last is cut at the end.
BucketEnd(start, to, granularity) ==
    CASE granularity = "day" -> start
      [] granularity = "week" -> Min2(start + WeekLength - 1, to)
      [] granularity = "month" ->
           Min2(CHOOSE end \in MonthEnds : /\ end >= start
                                           /\ \A other \in MonthEnds :
                                                other >= start => end <= other, to)

ChartBuckets(from, to, granularity) ==
    LET built[start \in from .. to + 1] ==
          IF start > to THEN <<>>
          ELSE LET end == BucketEnd(start, to, granularity) IN
               << <<start, end>> >> \o built[end + 1] IN
    built[from]

\* A day goes to the last bucket that starts on or before it.
Charted(daily, buckets) ==
    [k \in DOMAIN buckets |->
        Sum({ day \in DOMAIN daily :
                k = Cardinality({ j \in DOMAIN buckets : buckets[j][1] <= day }) },
            LAMBDA day : daily[day])]

\* The items that sold most, from the largest, at most `limit` of them.
TopSales(w, limit) ==
    LET revenue == RevenueByCategory(w) IN
    SubSeq(SetToSortSeq(DOMAIN revenue, LAMBDA a, b : revenue[a] > revenue[b]),
           1, Min2(limit, Cardinality(DOMAIN revenue)))

------------------------------------------------------------------------------
(* The list of invoices and the page of a customer *)

\* The tabs; overdue is what is past due today, whatever its status says.
InvoiceStatusCounts(today) ==
    [s \in {"draft", "sent", "partial", "paid", "canceled"} |->
        Total(invoices, LAMBDA row : row.status = s, One)]
      @@ ("all" :> Total(invoices, All, One))
      @@ ("overdue" :> Total(invoices, LAMBDA row : PastDue(row, today), One))

\* Every invoice that is not canceled, drafts too, whatever its currency.
InvoiceStatistics(from, to, today) ==
    LET Counts(row) == row.status # "canceled" /\ row.date \in from .. to
        Late1(row) == Counts(row) /\ PastDue(row, today) IN
    [count |-> Total(invoices, Counts, One), invoiced |-> Total(invoices, Counts, Due),
     paid |-> Total(invoices, Counts, Paid), outstanding |-> Total(invoices, Counts, Balance),
     overdueCount |-> Total(invoices, Late1, One),
     overdueAmount |-> Total(invoices, Late1, Balance)]

FinancialSummary(c, today) ==
    LET Hers(counts(_), what(_)) ==
          Total(invoices, LAMBDA row : row.customer = c /\ counts(row), what) IN
    [unpaid |-> Hers(LAMBDA row : row.status \in OutstandingInvoices, Balance),
     overdue |-> Hers(LAMBDA row : row.status = "overdue" /\ row.due < today, Balance),
     invoiced |-> Hers(All, Due),
     paid |-> Hers(LAMBDA row : row.status = "paid", Due)]

\* A filter [statuses, parties, dates, dues]; what is not given lets every value
\* through.
Filter(statuses, parties) ==
    [statuses |-> statuses, parties |-> parties, dates |-> Days, dues |-> 1 .. LastDay + 1]

InvoiceStatuses == {"draft", "sent", "partial", "paid", "overdue", "canceled"}

InvoiceList(f) ==
    SetToSortSeq({ n \in DOMAIN invoices :
                     /\ invoices[n].status \in f.statuses
                     /\ invoices[n].customer \in f.parties
                     /\ invoices[n].date \in f.dates
                     /\ invoices[n].due \in f.dues }, LAMBDA m, n : m > n)

InvoicePage(f, page, size) == FromWindow(InvoiceList(f), page, size)

InvoiceExportRows(f, limit) == FirstRows(InvoiceList(f), limit)

\* The form of the export has no due dates.
InvoiceExport(f, limit) ==
    Truncated(InvoiceExportRows([f EXCEPT !.dues = 1 .. LastDay + 1], limit + 1), limit)

CustomerInvoices(c, statuses, page, size) ==
    FromWindow(SetToSortSeq({ n \in DOMAIN invoices : /\ invoices[n].customer = c
                                                      /\ invoices[n].status \in statuses },
                            LAMBDA m, n : m > n), page, size)

\* Customer.balance, as _update_customer_balance last left it.
StoredBalance(c) ==
    Max2(Total(invoices, LAMBDA row : row.customer = c
                                        /\ row.status \notin ExcludedFromStatements,
               Balance), 0)
===============================================================================
