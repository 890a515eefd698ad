------------------------------ MODULE MCServices ------------------------------
(***************************************************************************)
(* For TLC: deals, reference numbers, refresh tokens, customers and        *)
(* vendors, the arithmetic of a document, and the books.  They share no    *)
(* state, so a behaviour follows one of them; `part` says which.           *)
(***************************************************************************)
EXTENDS Services

VARIABLE part

serviceVars == <<vars, refVars, tokenVars, partyVars, doc, bookVars, part>>

Item(quantity, price, treatment) ==
    [quantity |-> quantity, price |-> price, treatment |-> treatment]

Q == INSTANCE DealQuotes WITH
    Catalog <- [crm |-> 499, mail |-> 75], UnitsPerUsd <- [KES |-> 5, USD |-> 2],
    RateUnit <- 2, AnnualDiscount <- 15, Validity <- 30

DealIn(currency, closed) == [customer |-> "c1", currency |-> currency, closed |-> closed]

KenyanProfile == [customer |-> "c1", currency |-> "KES", treatment |-> "vat_16"]

ASSUME Q!PricesAgree({DealIn("KES", FALSE), DealIn("KES", TRUE), DealIn("USD", FALSE)},
                     {KenyanProfile}, {"crm", "mail"}, {0, 5, 33, 100}, 1)

\* A year of three seats, discounted twice.
QuotedForDeal ==
    Q!Payload(DealIn("KES", FALSE),
              [currency |-> "", due |-> 0,
               lines |-> <<[product |-> "crm", seats |-> 3, annual |-> TRUE, extra |-> 5]>>],
              {KenyanProfile}, 1).lines

\* Half cents and cents to spread; a fuel taxed by date; a line that costs nothing.
SomeBaskets ==
    { <<Item(100, 101, "vat_16"), Item(150, 33, "vat_16"), Item(100, 67, "exempt")>>,
      <<Item(100, 100, "petroleum_vat_13"), Item(300, 1, "vat_16")>>,
      <<Item(1, 1, "vat_16")>>, QuotedForDeal }

\* 35 %, and 12.135 %, which the column makes 12.14 %.  (The rate 2427 is 12.135 % as
\* well, and 1600 the refused 8 %.)
SomeDiscounts ==
    { [type |-> "none", value |-> 0], [type |-> "amount", value |-> 150],
      [type |-> "percentage", value |-> 7000], [type |-> "percentage", value |-> 2427] }

B == INSTANCE Figures WITH
    Currencies <- {"KES", "USD"}, HomeCurrency <- "KES",
    Shares <- 3, AgeStep <- 1, WeekLength <- 2, MonthEnds <- {-2, 0, 2, 4, 5, 6}, YearEnds <- {0, 6}, PageSize <- 1,
    LongestRange <- 2

------------------------------------------------------------------------------
(* The tables: two documents each, in every status and with every set of   *)
(* payments that status can have.                                          *)

\* The rows of the books, without their tables.
Rows == INSTANCE Books WITH
    InvoiceTables <- {}, ExpenseTables <- {}, OrderTables <- {}, QuoteTables <- {}

Pay(day, amount) == [date |-> day, amount |-> amount]

Line(name, type, amount, taxable, tax) ==
    [name |-> name, type |-> type, amount |-> amount, taxable |-> taxable, tax |-> tax]

Receipts == {<<>>, <<Pay(2, 1)>>, <<Pay(2, 1), Pay(3, 3)>>}

\* One payment is enough of a canceled document.
Enough(row) == row.status = "canceled" => row.payments \in {<<>>, <<Pay(2, 1)>>}

\* Taxed by line, with document VAT, or from before taxable values were kept.
InvoiceRows(c, currency, day) ==
    LET Mixed == <<Line("goods", "vat_16", 2, 1, 1), Line("work", "exempt", 1, 1, 0)>>
        Plain == <<Line("goods", "no_tax", 3, 0, 0)>>
        Old == <<Line("goods", "vat_16", 3, Rows!NoValue, 1)>> IN
    { row \in
        { Rows!Invoice(c, currency, s, day, day, Mixed, 1, Rows!NoValue, 0, p) :
              s \in {"draft", "sent", "partial", "paid", "overdue", "canceled"},
              p \in Receipts }
        \cup { Rows!Invoice(c, currency, s, day, day + 1, Plain, 1, 16, 1, p) :
              s \in {"sent", "partial", "paid"}, p \in Receipts }
        \cup { Rows!Invoice(c, currency, "paid", day, day + 1, Old, 0, Rows!NoValue, 0,
                         <<Pay(2, 4)>>) } :
      Rows!RealInvoice(row) /\ Enough(row) }

InvoicePairs ==
    { <<a, b>> : a \in InvoiceRows("c1", "KES", 1),
                 b \in InvoiceRows("c1", "KES", 2) \cup InvoiceRows("c2", "KES", 2)
                         \cup InvoiceRows("c2", "USD", 2) }

ExpenseRows(v, currency, day) ==
    { row \in { Rows!Expense(v, currency, s, day, day,
                          <<Line("goods", "vat_16", 2, Rows!NoValue, 1)>>, p) :
                    s \in {"pending", "overdue", "paid", "canceled"}, p \in Receipts } :
      Rows!RealExpense(row) /\ Enough(row) }

ExpenseSingles ==
    { <<a>> : a \in ExpenseRows("v1", "KES", 1) \cup ExpenseRows("v1", "USD", 2) }

Transfer(day, amount, rate) == [date |-> day, amount |-> amount, rate |-> rate]

Transfers ==
    {<<>>, <<Transfer(2, 1, 2)>>, <<Transfer(2, 1, 1), Transfer(3, 1, 3)>>}

OrderRows(v, currency, day) ==
    { row \in { Rows!Order(v, currency, s, day, 1, 0, p) : s \in {"draft", "sent", "paid"},
                                                        p \in Transfers } :
      Rows!RealOrder(row) }

OrderPairs ==
    {<<>>} \cup { <<a, b>> : a \in OrderRows("v1", "KES", 1),
                             b \in OrderRows("v1", "KES", 2) \cup OrderRows("v2", "USD", 2) }

QuoteRows(c, currency, day) ==
    { row \in { Rows!Quote(c, currency, s, day, day + 1, 3, approved) :
                    s \in {"draft", "sent", "approved", "invoiced", "expired"},
                    approved \in {Rows!NoValue, day, day + 1} } :
      Rows!RealQuote(row) }

QuotePairs ==
    { <<a, b>> : a \in QuoteRows("c1", "KES", 1),
                 b \in QuoteRows("c1", "KES", 2) \cup QuoteRows("c2", "USD", 2) }

------------------------------------------------------------------------------
\* Customers and vendors meet nowhere: all but one of them are gone.
OneParty ==
    /\ \E p \in Clients \cup Suppliers :
          party = [q \in Clients \cup Suppliers |-> IF q = p THEN P!NoRow ELSE P!Gone]
    /\ P!Init!2 /\ P!Init!3

ServicesInit ==
    /\ part \in {"deals", "references", "tokens", "parties", "totals", "books"}
    /\ part # "deals" => deal = [d \in Deals |-> Absent(CHOOSE v \in Values : TRUE)]
    /\ part # "references" => scope = "triggered"
    /\ Init /\ RefInit /\ TokenInit /\ T!Init
    /\ IF part = "parties" THEN OneParty ELSE P!Init
    /\ IF part = "books" THEN A!Init
       ELSE invoices = <<>> /\ expenses = <<>> /\ orders = <<>> /\ quotes = <<>>
              /\ statement = A!NoStatement

DealStep ==
    part = "deals" /\ Next
      /\ UNCHANGED <<refVars, tokenVars, partyVars, doc, bookVars, part>>

ReferenceStep ==
    part = "references" /\ RefNext
      /\ UNCHANGED <<vars, tokenVars, partyVars, doc, bookVars, part>>

TokenStep ==
    part = "tokens" /\ TokenNext
      /\ UNCHANGED <<vars, refVars, partyVars, doc, bookVars, part>>

PartyStep ==
    part = "parties" /\ P!Next
      /\ UNCHANGED <<vars, refVars, tokenVars, doc, bookVars, part>>

TotalsStep ==
    part = "totals" /\ T!Next
      /\ UNCHANGED <<vars, refVars, tokenVars, partyVars, bookVars, part>>

BooksStep ==
    part = "books" /\ A!Next
      /\ UNCHANGED <<vars, refVars, tokenVars, partyVars, doc, part>>

ServicesSpec ==
    ServicesInit
      /\ [][\/ DealStep \/ ReferenceStep \/ TokenStep
             \/ PartyStep \/ TotalsStep \/ BooksStep]_serviceVars

\* The pages and reports show the same figures: Figures!BooksReconcile.
BooksReconcile == part = "books" => B!BooksReconcile
===============================================================================
