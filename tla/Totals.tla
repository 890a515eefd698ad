-------------------------------- MODULE Totals --------------------------------
(***************************************************************************)
(* The money of one document: line totals, the discount, and the tax, from *)
(* the saved draft through its edits to the invoice made of a quote.  The  *)
(* arithmetic is that of common/financial.py; each document service puts   *)
(* it together in its own way when it creates, edits and previews.         *)
(* Amounts are in cents, quantities in hundredths, dates read as yyyymmdd. *)
(* A line's rate is in percent.  A document's VAT rate and discount come   *)
(* with any number of decimals, in parts of a ten-thousandth, and the      *)
(* row's columns keep ten-thousandths.                                     *)
(***************************************************************************)
EXTENDS Integers, Sequences, FiniteSetsExt

CONSTANTS
    Fine,         \* parts in a ten-thousandth
    Baskets,      \* sequences of [quantity, price, treatment]
    Discounts,    \* records [type, value]
    VatRates,     \* document-level VAT
    Dates         \* tax points

VARIABLES doc     \* the document: its lines, its terms and its saved totals

NoDiscount == [type |-> "none", value |-> 0]

NoRate == -1      \* vat_rate is NULL

Whole == 10000 * Fine

Unallocated == -1     \* taxable_value is NULL

------------------------------------------------------------------------------
(* The arithmetic *)

\* Decimal.quantize(0.01, ROUND_HALF_UP) of a non-negative n/d cents.
HalfUp(n, d) == (n + d \div 2) \div d

Rule(treatment, rate, from, to) ==
    [treatment |-> treatment, rate |-> rate, from |-> from, to |-> to]

Always == 99991231

TaxRules == {
    Rule("vat_16", 16, 0, Always), Rule("vat_0", 0, 0, Always),
    Rule("exempt", 0, 0, Always), Rule("no_tax", 0, 0, Always),
    Rule("petroleum_vat_8", 8, 20180901, 20230630),
    Rule("petroleum_vat_13", 13, 20260415, 20260415),
    Rule("petroleum_vat_8", 8, 20260416, 20261014) }

Treatments == {r.treatment : r \in TaxRules}

\* What the schemas let in: rates in 0..1 and percentages in 0..100, of any number of
\* decimals.  Whoever instantiates the module assumes it.
TotalsConstants ==
    /\ Fine \in Nat \ {0}
    /\ \A basket \in Baskets :
          /\ basket \in Seq([quantity : Nat \ {0}, price : Nat, treatment : Treatments])
          /\ Len(basket) > 0
    /\ Discounts \subseteq [type : {"none"}, value : {0}] \cup [type : {"amount"}, value : Nat]
                             \cup [type : {"percentage"}, value : 0..Whole]
    /\ VatRates \subseteq 0..Whole /\ Dates \subseteq 0..Always

TaxRate(treatment) == (CHOOSE r \in TaxRules : r.treatment = treatment).rate

EffectiveOn(treatment, date) ==
    \E r \in TaxRules : r.treatment = treatment /\ date \in r.from..r.to

AllEffectiveOn(lines, date) ==
    \A n \in DOMAIN lines : EffectiveOn(lines[n].treatment, date)

\* A document's rate is not one of the petroleum rates, 8 and 13 %.
DocumentRate(rate) == rate \notin {800 * Fine, 1300 * Fine}

\* What Numeric(5,4) keeps of a rate and Numeric(5,2) of a percentage.
Column(v) == IF v = NoRate THEN NoRate ELSE Fine * HalfUp(v, Fine)

Kept(discount) ==
    IF discount.type = "percentage" THEN [discount EXCEPT !.value = Column(@)] ELSE discount

\* The row of a document; its figures were worked out before its terms were rounded.
Stored(d) == [d EXCEPT !.discount = Kept(@), !.rate = Column(@)]

Line(item) ==
    LET total == HalfUp(item.quantity * item.price, 100) IN
    [quantity |-> item.quantity, price |-> item.price,
     treatment |-> item.treatment, total |-> total,
     tax |-> HalfUp(total * TaxRate(item.treatment), 100), taxable |-> Unallocated]

Build(basket) == [n \in DOMAIN basket |-> Line(basket[n])]

\* A VAT charged on the document takes the place of the lines' own tax.
Neutral(lines) ==
    [n \in DOMAIN lines |-> [lines[n] EXCEPT !.treatment = "no_tax", !.tax = 0,
                                             !.taxable = Unallocated]]

SumOf(lines, field) == MapThenSumSet(LAMBDA n : lines[n][field], DOMAIN lines)

DiscountOn(subtotal, discount) ==
    CASE discount.type = "none" -> 0
      [] discount.type = "amount" -> Min({discount.value, subtotal})
      [] discount.type = "percentage" -> HalfUp(subtotal * discount.value, Whole)

Vat(base, rate) == HalfUp(base * rate, Whole)

AllocatedSlip(lines, discount) ==
    LET subtotal == SumOf(lines, "total")
        net == Max({subtotal - discount, 0})
        taxable == [n \in DOMAIN lines |->
                       IF subtotal = 0 THEN 0 ELSE HalfUp(lines[n].total * net, subtotal)] IN
    [n \in DOMAIN lines |->
        [lines[n] EXCEPT !.taxable = taxable[n],
                         !.tax = HalfUp(taxable[n] * TaxRate(lines[n].treatment), 100)]]

\* The discount is spread over the lines: every line is rounded down and the
\* cents that are left go to the largest remainders, the first line first.
\* (The code compares remainders of 28-digit quotients: between two that differ
\* by less than that, the line is taken for equal.)
Allocated(lines, discount) ==
    LET subtotal == SumOf(lines, "total")
        net == Max({subtotal - discount, 0})
        floor == [n \in DOMAIN lines |-> (lines[n].total * net) \div subtotal]
        rest == [n \in DOMAIN lines |-> (lines[n].total * net) % subtotal]
        left == net - MapThenSumSet(LAMBDA n : floor[n], DOMAIN lines)
        Before(n) == {m \in DOMAIN lines : \/ rest[m] > rest[n]
                                           \/ rest[m] = rest[n] /\ m < n}
        taxable == [n \in DOMAIN lines |->
                       IF subtotal = 0 THEN 0
                       ELSE floor[n] + IF Cardinality(Before(n)) < left THEN 1 ELSE 0] IN
    [n \in DOMAIN lines |->
        [lines[n] EXCEPT !.taxable = taxable[n],
                         !.tax = HalfUp(taxable[n] * TaxRate(lines[n].treatment), 100)]]

------------------------------------------------------------------------------
(* The services *)

Saved(kind, date, lines, discount, on, rate, tax) ==
    LET subtotal == SumOf(lines, "total") IN
    [kind |-> kind, status |-> "draft", date |-> date, lines |-> lines,
     discount |-> discount, on |-> on, rate |-> rate, subtotal |-> subtotal,
     tax |-> tax, total |-> subtotal - DiscountOn(subtotal, discount) + tax]

\* A draft invoice without document VAT pays tax on the discounted lines.
Reconciled(d) ==
    LET value == DiscountOn(d.subtotal, d.discount)
        lines == Allocated(d.lines, value)
        tax == SumOf(lines, "tax") IN
    IF d.kind # "invoice" \/ d.status # "draft" \/ d.on THEN d
    ELSE [d EXCEPT !.lines = lines, !.tax = tax, !.total = d.subtotal - value + tax]

\* Invoices and quotes.
Sale(kind, basket, discount, on, rate, date) ==
    LET lines == IF on THEN Neutral(Build(basket)) ELSE Build(basket)
        subtotal == SumOf(lines, "total")
        tax == IF on THEN Vat(subtotal - DiscountOn(subtotal, discount), rate)
               ELSE SumOf(lines, "tax") IN
    Reconciled(Saved(kind, date, lines, discount, on, rate, tax))

Order(basket, on, rate, date) ==
    LET lines == Neutral(Build(basket)) IN
    Saved("order", date, lines, NoDiscount, on, rate,
          IF on THEN Vat(SumOf(lines, "total"), rate) ELSE 0)

Expense(basket, date) ==
    LET lines == Build(basket) IN
    Saved("expense", date, lines, NoDiscount, FALSE, NoRate, SumOf(lines, "tax"))

\* The preview: the same figures from the input alone, saving nothing.
Preview(d) ==
    LET built == Build(d.lines)
        subtotal == SumOf(built, "total")
        value == DiscountOn(subtotal, d.discount)
        lines == CASE d.kind = "order" \/ d.on -> Neutral(built)
                   [] d.kind = "invoice" /\ ~d.on -> Allocated(built, value)
                   [] OTHER -> built
        tax == IF d.on THEN Vat(subtotal - value, d.rate) ELSE SumOf(lines, "tax") IN
    <<subtotal, tax, subtotal - value + tax>>

------------------------------------------------------------------------------
Terms == {<<FALSE, NoRate>>} \cup {<<TRUE, r>> : r \in VatRates}

\* A new document's percentage has two decimals; its rate may have more.
CreateSale(kind, basket, discount, date) ==
    \E term \in Terms :
        /\ Kept(discount) = discount
        /\ DocumentRate(term[2])
        /\ AllEffectiveOn(basket, date)
        /\ doc' = Stored(Sale(kind, basket, discount, term[1], term[2], date))

CreateOrder(basket, date) ==
    \E term \in Terms :
        /\ DocumentRate(term[2])
        /\ AllEffectiveOn(basket, date)
        /\ doc' = Stored(Order(basket, term[1], term[2], date))

CreateExpense(basket, date) ==
    /\ AllEffectiveOn(basket, date)
    /\ doc' = Expense(basket, date)

Optional(S) == {{}} \cup {{x} : x \in S}

Given(option, current) == IF option = {} THEN current ELSE CHOOSE x \in option : TRUE

KeepsItsTreatmentsSlip(basket, date) ==
    \A raw \in basket : AllEffectiveOn(raw, Given(date, doc.date))

\* New lines must fit the date the document will have, and so must the old ones
\* when only the date moves.
KeepsItsTreatments(basket, date) ==
    /\ \A raw \in basket : AllEffectiveOn(raw, Given(date, doc.date))
    /\ basket = {} /\ date # {} => AllEffectiveOn(doc.lines, Given(date, doc.date))

RecomputesSlip(basket, discount, on, rate) ==
    doc.kind = "quote" \/ basket # {} \/ discount # {} \/ on # {}

Recomputes(basket, discount, on, rate) ==
    doc.kind = "quote" \/ basket # {} \/ discount # {} \/ on # {} \/ rate # {}

\* An edit carries any of the fields; what it leaves out keeps its saved value, except
\* that a quote's edit without a discount takes the discount away: the validator of the
\* schema sets the three discount fields to None, which counts as sending them.
UpdateSale(basket, discount, on, rate, date) ==
    LET charged == Given(on, doc.on)
        percent == Given(rate, doc.rate)
        terms == Given(discount, IF doc.kind = "quote" THEN NoDiscount ELSE doc.discount)
        built == IF basket # {} THEN Build(Given(basket, <<>>)) ELSE doc.lines
        lines == IF charged /\ (basket # {} \/ on # {}) THEN Neutral(built) ELSE built
        subtotal == SumOf(lines, "total")
        value == DiscountOn(subtotal, terms)
        tax == CASE charged -> Vat(subtotal - value, percent)
                 [] ~charged /\ (basket # {} \/ on # {}) -> SumOf(lines, "tax")
                 [] OTHER -> doc.tax
        edited == [doc EXCEPT !.date = Given(date, doc.date), !.lines = lines,
                              !.discount = terms, !.on = charged, !.rate = percent,
                              !.subtotal = subtotal] IN
    /\ \/ doc.kind = "invoice" /\ doc.status = "draft"
       \/ doc.kind = "quote" /\ doc.status \in {"draft", "sent"}
    /\ doc.status = "sent" => date = {}
    /\ DocumentRate(percent)
    /\ charged => percent # NoRate
    /\ KeepsItsTreatments(basket, date)
    /\ doc' = IF Recomputes(basket, discount, on, rate)
              THEN Stored(Reconciled([edited EXCEPT !.tax = tax,
                                                    !.total = subtotal - value + tax]))
              ELSE Stored(edited)

\* Lines are stripped of their tax, so a new date finds nothing to object to.
UpdateOrder(basket, on, rate, date) ==
    LET charged == Given(on, doc.on)
        percent == IF charged THEN Given(rate, doc.rate) ELSE NoRate
        lines == IF basket # {} THEN Neutral(Build(Given(basket, <<>>))) ELSE doc.lines
        subtotal == SumOf(lines, "total")
        tax == IF charged THEN Vat(subtotal, percent) ELSE 0 IN
    /\ doc.kind = "order" /\ doc.status = "draft"
    /\ charged => percent # NoRate
    /\ DocumentRate(percent)
    /\ \A raw \in basket : AllEffectiveOn(raw, Given(date, doc.date))
    /\ doc' = IF basket = {} /\ on = {} /\ rate = {}
              THEN [doc EXCEPT !.date = Given(date, doc.date)]
              ELSE Stored([doc EXCEPT !.date = Given(date, doc.date), !.lines = lines,
                                      !.on = charged, !.rate = percent,
                                      !.subtotal = subtotal, !.tax = tax,
                                      !.total = subtotal + tax])

UpdateExpense(basket, date) ==
    LET lines == Build(Given(basket, doc.lines))
        subtotal == SumOf(lines, "total")
        tax == SumOf(lines, "tax") IN
    /\ doc.kind = "expense"
    /\ KeepsItsTreatments(basket, date)
    /\ doc' = IF basket = {} THEN [doc EXCEPT !.date = Given(date, doc.date)]
              ELSE [doc EXCEPT !.date = Given(date, doc.date), !.lines = lines,
                               !.subtotal = subtotal, !.tax = tax, !.total = subtotal + tax]

SendSlip ==
    /\ doc.kind \in {"invoice", "quote"} /\ doc.status = "draft"
    /\ doc' = [doc EXCEPT !.status = "sent"]

\* An invoice's tax is worked out once more, from its row, before it leaves the draft.
Send ==
    /\ doc.kind \in {"invoice", "quote"} /\ doc.status = "draft"
    /\ doc' = [Reconciled(doc) EXCEPT !.status = "sent"]

Approve ==
    /\ doc.kind = "quote" /\ doc.status = "sent"
    /\ doc' = [doc EXCEPT !.status = "approved"]

\* A new invoice of the lines and the terms in the row of a quote or of another invoice.
InvoiceOf(d, date) ==
    LET rate == IF d.on THEN d.rate ELSE NoRate IN
    /\ DocumentRate(rate)
    /\ AllEffectiveOn(d.lines, date)
    /\ doc' = Stored(Sale("invoice", d.lines, d.discount, d.on, rate, date))

\* On the day of the conversion.
Convert(date) == doc.kind = "quote" /\ doc.status = "approved" /\ InvoiceOf(doc, date)

\* A copy of an invoice or an expense is created anew; a copy of an order takes the
\* figures over.
Duplicate(date) ==
    \/ doc.kind = "invoice" /\ InvoiceOf(doc, date)
    \/ /\ doc.kind = "expense"
       /\ AllEffectiveOn(doc.lines, date)
       /\ doc' = Expense(doc.lines, date)
    \/ /\ doc.kind = "order"
       /\ DocumentRate(doc.rate)
       /\ doc' = [doc EXCEPT !.status = "draft", !.date = date]

Create ==
    \E basket \in Baskets, date \in Dates :
        \/ \E kind \in {"invoice", "quote"}, discount \in Discounts :
              CreateSale(kind, basket, discount, date)
        \/ CreateOrder(basket, date)
        \/ CreateExpense(basket, date)

Update ==
    \E basket \in Optional(Baskets), date \in Optional(Dates) :
        \/ \E on \in Optional(BOOLEAN), rate \in Optional(VatRates \cup {NoRate}) :
              \/ \E discount \in Optional(Discounts) :
                    UpdateSale(basket, discount, on, rate, date)
              \/ UpdateOrder(basket, on, rate, date)
        \/ UpdateExpense(basket, date)

Empty == [kind |-> "none", status |-> "draft", date |-> 0, lines |-> <<>>,
          discount |-> NoDiscount, on |-> FALSE, rate |-> NoRate, subtotal |-> 0,
          tax |-> 0, total |-> 0]

Init == doc = Empty

Next ==
    \/ doc = Empty /\ Create
    \/ Update
    \/ Send
    \/ Approve
    \/ \E date \in Dates : Convert(date) \/ Duplicate(date)

Spec == Init /\ [][Next]_doc

------------------------------------------------------------------------------
\* The documents as they were typed that leave this row.
Typed(row) ==
    { [row EXCEPT !.discount = term[1], !.rate = term[2]] :
        term \in { term \in (Discounts \cup {row.discount}) \X (VatRates \cup {row.rate}) :
                    Kept(term[1]) = row.discount /\ Column(term[2]) = row.rate } }

(* The saved totals are those the preview shows for the document's lines, *)
(* discount and VAT, after whatever edits led to them: five ways to build *)
(* a total agree to the cent.  The discount and the VAT are those the     *)
(* totals were worked out with; the row may keep them in fewer decimals.  *)
SavedAsPreviewed ==
    \E d \in Typed(doc) : Preview(d) = <<doc.subtotal, doc.tax, doc.total>>

(* A sent invoice that is taxed by line owes what the preview shows for   *)
(* the terms in its row: mark_as_sent has worked them out anew.           *)
SentTotalsStand ==
    doc.kind = "invoice" /\ doc.status = "sent" /\ ~doc.on =>
        Preview(doc) = <<doc.subtotal, doc.tax, doc.total>>

(* Spreading an invoice's discount loses no cent and invents none: the    *)
(* lines' taxable values add up to the discounted subtotal, and no line   *)
(* is taxed on more than it costs.                                        *)
AllocationAddsUp ==
    doc.kind = "invoice" /\ ~doc.on =>
        /\ \E d \in Typed(doc) :
              SumOf(doc.lines, "taxable") = doc.subtotal - DiscountOn(doc.subtotal, d.discount)
        /\ \A n \in DOMAIN doc.lines : doc.lines[n].taxable \in 0..doc.lines[n].total

(* Every line's tax treatment is in force on the document's date, however *)
(* lines and date were changed, one without the other, and through the    *)
(* conversion of a quote.                                                 *)
TreatmentsFitTheDate == AllEffectiveOn(doc.lines, doc.date)
===============================================================================
