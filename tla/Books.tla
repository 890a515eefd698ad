--------------------------------- MODULE Books ---------------------------------
(***************************************************************************)
(* The documents as the accounts read them, and the statements of account  *)
(* sent to a customer or a vendor.  The tables hold rows the document      *)
(* services can leave (RealInvoice, RealExpense, RealOrder, RealQuote); a   *)
(* statement is a step, so that two in a row can be compared.  The figures *)
(* of the other pages are in SalesFigures and Figures.                     *)
(***************************************************************************)
EXTENDS Paging

CONSTANTS
    InvoiceTables, ExpenseTables, OrderTables, QuoteTables,   \* sequences of rows
    Customers, Vendors,
    LastDay,        \* days are numbered 1..LastDay
    RateUnit,       \* exchange rates are multiples of 1/RateUnit
    Nobody          \* no statement was made yet

VARIABLES
    invoices, expenses, orders, quotes,     \* the tables
    statement                               \* the statement made last

books == <<invoices, expenses, orders, quotes>>

vars == <<books, statement>>

Days == 1 .. LastDay

Abs(n) == IF n < 0 THEN -n ELSE n

\* Sum of what(row) over the rows of a table that count.
Total(table, counts(_), what(_)) ==
    FoldLeft(LAMBDA sum, row : IF counts(row) THEN sum + what(row) ELSE sum, 0, table)

All(x) == TRUE

Amount(x) == x.amount

------------------------------------------------------------------------------
(* The rows *)

Lines(row) == Total(row.lines, All, Amount)

LineTax(row) == Total(row.lines, All, LAMBDA line : line.tax)

NoValue == -1       \* a NULL column

\* An invoice: lines [name, type, amount, taxable, tax].  With document VAT
\* (charged) the lines carry no tax of their own; lines of before the migration
\* have no taxable value.
Invoice(customer, currency, status, date, due, lines, discount, rate, vat, payments) ==
    LET subtotal == Total(lines, All, Amount)
        charged == rate # NoValue
        tax == IF charged THEN vat ELSE Total(lines, All, LAMBDA line : line.tax)
        paid == Total(payments, All, Amount) IN
    [customer |-> customer, currency |-> currency, status |-> status,
     date |-> date, due |-> due, lines |-> lines, charged |-> charged, rate |-> rate,
     subtotal |-> subtotal, tax |-> tax, total |-> subtotal - discount + tax,
     payments |-> payments, paid |-> paid, balance |-> subtotal - discount + tax - paid]

Historical(line) == line.taxable = NoValue

RealInvoice(row) ==
    /\ row.status \in {"draft", "sent"} => row.payments = <<>>
    /\ row.status = "partial" => row.paid > 0 /\ row.balance > 0
    /\ row.status = "paid" => row.paid > 0 /\ row.balance <= 0
    /\ row.status = "overdue" => row.balance > 0
    /\ \/ row.charged
       \/ \E n \in DOMAIN row.lines : Historical(row.lines[n])
       \/ Total(row.lines, All, LAMBDA line : line.taxable) = row.total - row.tax

Expense(vendor, currency, status, date, due, lines, payments) ==
    LET total == Total(lines, All, LAMBDA line : line.amount + line.tax)
        paid == Total(payments, All, Amount) IN
    [vendor |-> vendor, currency |-> currency, status |-> status,
     date |-> date, due |-> due, lines |-> lines, tax |-> Total(lines, All, LAMBDA line : line.tax),
     total |-> total, payments |-> payments, paid |-> paid, balance |-> total - paid]

RealExpense(row) ==
    /\ row.date \in Nat /\ row.total \in Nat
    /\ row.payments \in Seq([date: Nat, amount: Nat])
    /\ row.status = "paid" => row.balance <= 0
    /\ row.status \in {"pending", "overdue"} => row.balance >= 0

\* Payments [date, amount, rate], at their stored rates, which are multiples of
\* 1/RateUnit; what is paid is as a resync sums it up (PurchaseOrders).
Order(vendor, currency, status, date, subtotal, tax, payments) ==
    LET paid == Total(payments, All, LAMBDA p :
                        (2 * p.amount * p.rate + RateUnit) \div (2 * RateUnit)) IN
    [vendor |-> vendor, currency |-> currency, status |-> status, date |-> date,
     subtotal |-> subtotal, tax |-> tax, total |-> subtotal + tax,
     payments |-> payments, paid |-> paid, balance |-> subtotal + tax - paid]

RealOrder(row) ==
    /\ row.date \in Nat /\ row.total \in Nat
    /\ row.payments \in Seq([date: Nat, amount: Nat, rate: Nat])
    /\ row.status = "draft" => row.payments = <<>>
    /\ row.status = "paid" => row.paid >= row.total
    /\ row.status = "sent" /\ row.payments # <<>> => row.paid < row.total

\* approved: the day it was approved, or NoValue.
Quote(customer, currency, status, date, due, total, approved) ==
    [customer |-> customer, currency |-> currency, status |-> status, date |-> date,
     due |-> due, total |-> total, approved |-> approved]

RealQuote(row) == row.approved # NoValue <=> row.status \in {"approved", "invoiced"}

\* What the constants must be; whoever instantiates the module assumes it.
BooksConstants ==
    /\ \A table \in InvoiceTables \cup ExpenseTables \cup OrderTables \cup QuoteTables :
          table \in Seq(Range(table))
    /\ \A row \in UNION { Range(table) : table \in InvoiceTables } : RealInvoice(row)
    /\ \A row \in UNION { Range(table) : table \in ExpenseTables } : RealExpense(row)
    /\ \A row \in UNION { Range(table) : table \in OrderTables } : RealOrder(row)
    /\ \A row \in UNION { Range(table) : table \in QuoteTables } : RealQuote(row)
    /\ RateUnit \in Nat \ {0} /\ LastDay \in Nat
    /\ Nobody \notin Customers \cup Vendors /\ Customers \cap Vendors = {}

------------------------------------------------------------------------------
(* Which documents count *)

ExcludedFromStatements == {"draft", "canceled"}

CommittedOrders == {"sent", "paid"}

------------------------------------------------------------------------------
(* Statements of account.  Amounts are in 1/RateUnit of a cent, because a  *)
(* converted payment is not rounded before it is added.                    *)

\* quantize_money, half away from zero.
Quantized(x) ==
    LET cents == RateUnit * ((2 * Abs(x) + RateUnit) \div (2 * RateUnit)) IN
    IF x < 0 THEN -cents ELSE cents

Entry(date, credit, amount) ==
    [date |-> date, credit |-> credit, amount |-> amount * (IF credit THEN -1 ELSE 1)]

\* The entries a table of documents makes: <<book, n, 0>> is the debit of its row
\* n, and <<book, n, k>> the credit of the k-th payment on that row.
Entries(book, table, counts(_), amount(_), from, to) ==
    LET rows == { n \in DOMAIN table : counts(table[n]) }
        made == UNION { {book} \X {n} \X (0 .. Len(table[n].payments)) : n \in rows }
        Payment(x) == table[x[2]].payments[x[3]]
        Day(x) == IF x[3] = 0 THEN table[x[2]].date ELSE Payment(x).date IN
    [x \in { y \in made : Day(y) \in from .. to } |->
        IF x[3] = 0 THEN Entry(Day(x), FALSE, RateUnit * table[x[2]].total)
        ELSE Entry(Day(x), TRUE, amount(Payment(x)))]

Joined(f, g) == [x \in DOMAIN f \cup DOMAIN g |-> IF x \in DOMAIN f THEN f[x] ELSE g[x]]

\* Sorted by date, the debits of a day before its credits.
Sorted(entries) ==
    InOrder([x \in DOMAIN entries |->
        <<entries[x].date, IF entries[x].credit THEN 1 ELSE 0, x[1], x[2], x[3]>>])

\* StatementGenerator: a running balance, rounded at every row.
Closing(opening, entries) ==
    LET rows == Sorted(entries)
        balance[k \in 0 .. Len(rows)] ==
            IF k = 0 THEN opening ELSE Quantized(balance[k - 1] + entries[rows[k]].amount) IN
    balance[Len(rows)]

InCents(p) == RateUnit * p.amount

Unrounded(p) == p.amount * p.rate

Exact(entries) == SumFunction([x \in DOMAIN entries |-> entries[x].amount])

CustomerOpening(c, day) ==
    Exact(Entries(1, invoices, LAMBDA row : row.customer = c
                                              /\ row.status \notin ExcludedFromStatements,
                  InCents, 0, day - 1))

\* The opening balance leaves drafts and canceled invoices out; the rows of the
\* period are taken whatever their status.
CustomerStatement(c, from, to) ==
    LET opening == CustomerOpening(c, from)
        rows == Entries(1, invoices, LAMBDA row : row.customer = c, InCents, from, to) IN
    /\ statement' = [of |-> c, from |-> from, to |-> to, opening |-> opening,
                     closing |-> Closing(opening, rows), rows |-> Cardinality(DOMAIN rows)]
    /\ UNCHANGED books

BilledBy(v, row) == row.vendor = v /\ row.status \notin ExcludedFromStatements

OrderedFrom(v, row) == row.vendor = v /\ row.status \in CommittedOrders

Billed(v, from, to) ==
    Entries(1, expenses, LAMBDA row : BilledBy(v, row), InCents, from, to)

Ordered(v, from, to) ==
    Entries(2, orders, LAMBDA row : OrderedFrom(v, row), Unrounded, from, to)

VendorOpeningSlip(v, day) ==
    Exact(Billed(v, 0, day - 1))
      + Exact(Entries(2, orders, LAMBDA row : row.vendor = v, Unrounded, 0, day - 1))

VendorOpening(v, day) == Exact(Billed(v, 0, day - 1)) + Exact(Ordered(v, 0, day - 1))

VendorStatement(v, from, to) ==
    LET opening == VendorOpening(v, from)
        rows == Joined(Billed(v, from, to), Ordered(v, from, to)) IN
    /\ statement' = [of |-> v, from |-> from, to |-> to, opening |-> opening,
                     closing |-> Closing(opening, rows), rows |-> Cardinality(DOMAIN rows)]
    /\ UNCHANGED books

NoStatement == [of |-> Nobody, from |-> 0, to |-> 0, opening |-> 0, closing |-> 0,
                rows |-> 0]

Init ==
    /\ \/ invoices \in InvoiceTables /\ expenses = <<>> /\ orders = <<>> /\ quotes = <<>>
       \/ /\ expenses \in ExpenseTables /\ orders \in OrderTables
          /\ invoices = <<>> /\ quotes = <<>>
       \/ invoices = <<>> /\ expenses = <<>> /\ orders = <<>> /\ quotes \in QuoteTables
    /\ statement = NoStatement

\* Bound: a behaviour asks for the statements of one party.
Asked(p) == statement.of \in {Nobody, p}

Next ==
    \E from, to \in Days :
        /\ from <= to
        /\ \/ \E c \in Customers : Asked(c) /\ CustomerStatement(c, from, to)
           \/ \E v \in Vendors : Asked(v) /\ VendorStatement(v, from, to)

Spec == Init /\ [][Next]_vars

------------------------------------------------------------------------------
Follows == statement'.of = statement.of /\ statement'.from = statement.to + 1

(* A vendor's statement opens with the balance the one before it closed   *)
(* with, but for the half cent that rounding may add at every row.        *)
VendorStatementsChain ==
    [][Follows /\ statement.of \in Vendors =>
          2 * Abs(statement'.opening - statement.closing) <= RateUnit * statement.rows]_vars

(* "The single source of truth for exclusions applied symmetrically ...   *)
(* in both customer and vendor statement services": a customer's statement *)
(* opens with the balance the one before it closed with.                  *)
CustomerStatementsChain ==
    [][Follows /\ statement.of \in Customers =>
          statement'.opening = statement.closing]_vars
===============================================================================
