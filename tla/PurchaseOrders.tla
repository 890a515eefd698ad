---------------------------- MODULE PurchaseOrders ----------------------------
(***************************************************************************)
(* The purchase-order service: orders, and payments that may be made in    *)
(* another currency, corrected and taken back.  Every operation but the    *)
(* copy holds the order's row lock from its checks to its commit, so each  *)
(* is one action; a client's edit comes back with the row it once saw.     *)
(***************************************************************************)
EXTENDS Integers, FiniteSetsExt

CONSTANTS
    Orders, Payments,   \* primary keys
    Clients,
    Totals,             \* subtotal plus VAT, in cents
    Amounts,            \* payment amounts, in cents of the payment's currency
    Rates, RateUnit,    \* exchange rates as requested, as multiples of 1/RateUnit
    Step,               \* the last decimal of the rate's column, in the same unit
    MaxVersion,         \* bound: a row takes at most MaxVersion - 1 changes
    Nothing             \* "no order", in a payment or a client's form

\* What the constants must be; whoever instantiates the module assumes it.
OrderConstants ==
    /\ Totals \subseteq Nat /\ Amounts \subseteq Nat \ {0}
    /\ Rates \subseteq Nat \ {0} /\ RateUnit \in Rates
    /\ Step \in Nat \ {0} /\ RateUnit % Step = 0
    /\ MaxVersion \in Nat \ {0}
    /\ IsFiniteSet(Payments)
    /\ Nothing \notin Orders

VARIABLES
    order,         \* the table `purchase_orders`
    payment,       \* the table `purchase_order_payments`
    form           \* per client, the order it opened and the row it saw

vars == <<order, payment, form>>

Statuses == {"draft", "sent", "paid"}

Row == [status: Statuses \cup {"absent", "deleted"}, total: Nat, paid: Nat,
        balance: Int, version: Nat, stamped: BOOLEAN]

\* own: paid in the order's currency.
PaymentRow == [of: Orders \cup {Nothing}, amount: Nat, own: BOOLEAN, rate: Nat]

NoPayment == [of |-> Nothing, amount |-> 0, own |-> FALSE, rate |-> 0]

Absent == [status |-> "absent", total |-> 0, paid |-> 0, balance |-> 0,
           version |-> 0, stamped |-> FALSE]

NoForm == [of |-> Nothing, seen |-> Absent]

Draft(total, balance) ==
    [status |-> "draft", total |-> total, paid |-> 0, balance |-> balance,
     version |-> 1, stamped |-> FALSE]

Init ==
    /\ order = [o \in Orders |-> Absent]
    /\ payment = [p \in Payments |-> NoPayment]
    /\ form = [c \in Clients |-> NoForm]

------------------------------------------------------------------------------
Exists(row) == row.status \in Statuses

Bounded(row) == row.version < MaxVersion

ConvertedSlip(amount, rate) == (amount * rate) \div RateUnit

\* What a payment is worth in the order's currency, rounded half up to a cent.
Converted(amount, rate) == (2 * amount * rate + RateUnit) \div (2 * RateUnit)

SameCurrencySlip(own, rate) == TRUE

\* A payment in the order's own currency has rate one.
SameCurrency(own, rate) == own => rate = RateUnit

\* What is left of a rate in its column of eight decimals.
Stored(rate) == Step * ((2 * rate + Step) \div (2 * Step))

\* The row of a payment; the column takes no rate of zero.
Paid(o, amount, own, rate) ==
    [of |-> o, amount |-> amount, own |-> own, rate |-> Stored(rate)]

Acceptable(own, rate) == SameCurrency(own, rate) /\ Stored(rate) > 0

PaymentsOf(o) == {p \in Payments : payment[p].of = o}

\* _resync_after_payment_change sums the rows that are left, at their stored rates.
PaidBy(table, o) ==
    MapThenSumSet(LAMBDA p : IF table[p].of = o
                             THEN Converted(table[p].amount, table[p].rate) ELSE 0,
                  Payments)

Put(o, row) == order' = [order EXCEPT ![o] = row]

Create(o, total) ==
    /\ order[o].status = "absent"
    /\ Put(o, Draft(total, total))
    /\ UNCHANGED <<payment, form>>

\* The copy takes over the totals, and leaves balance_due to its default.
Duplicate(o, source) ==
    /\ Exists(order[source])
    /\ order[o].status = "absent"
    /\ Put(o, Draft(order[source].total, 0))
    /\ UNCHANGED <<payment, form>>

OpenForm(c, o) ==
    /\ Exists(order[o])
    /\ form' = [form EXCEPT ![c] = [of |-> o, seen |-> order[o]]]
    /\ UNCHANGED <<order, payment>>

CloseForm(c) ==
    /\ form[c] # NoForm
    /\ form' = [form EXCEPT ![c] = NoForm]
    /\ UNCHANGED <<order, payment>>

CanUpdateSlip(row, seen) == row.status = "draft"

\* update() looks at the status first and at the version, under the row lock,
\* second.
CanUpdate(row, seen) == row.status = "draft" /\ row.version = seen.version

Update(c, edited(_)) ==
    \E o \in Orders : LET row == order[o] IN
        /\ form[c].of = o
        /\ Exists(row) /\ Bounded(row)
        /\ CanUpdate(row, form[c].seen)
        /\ Put(o, edited(row))
        /\ form' = [form EXCEPT ![c] = NoForm]
        /\ UNCHANGED payment

\* Notes, dates, terms or the vendor: no amount is recomputed.
Annotate(c) == Update(c, LAMBDA row : [row EXCEPT !.version = @ + 1])

\* New line items or new VAT; a draft has no payments, so the floor (never
\* below what is paid) does not bind.
Reprice(c, total) ==
    Update(c, LAMBDA row : [row EXCEPT !.total = total,
                                       !.balance = total - row.paid,
                                       !.version = @ + 1])

\* Both move a draft; on any other order the first changes nothing and the second
\* is refused.
Issue(o) ==
    /\ Bounded(order[o])
    /\ order[o].status = "draft"
    /\ Put(o, [order[o] EXCEPT !.status = "sent", !.version = @ + 1])
    /\ UNCHANGED <<payment, form>>

MarkAsSent(o) == Issue(o)

\* The mail is queued with the move; whether its delivery fails (EmailOutbox) or
\* not, the order stays sent.
SendOrder(o) == Issue(o)

------------------------------------------------------------------------------
\* _apply_payment adds to what is on the row, converted at the rate as requested;
\* settling moves SENT to PAID.
PaidRow(row, applied) == LET left == row.total - (row.paid + applied) IN
    [row EXCEPT !.paid = @ + applied,
                !.balance = left,
                !.status = IF left <= 0 THEN "paid" ELSE @,
                !.stamped = @ \/ left <= 0,
                !.version = @ + 1]

RecordPayment(o, p, amount, own, rate) ==
    /\ payment[p] = NoPayment
    /\ Exists(order[o]) /\ Bounded(order[o])
    /\ order[o].status # "draft"
    /\ Acceptable(own, rate)
    /\ payment' = [payment EXCEPT ![p] = Paid(o, amount, own, rate)]
    /\ Put(o, PaidRow(order[o], Converted(amount, rate)))
    /\ UNCHANGED form

ResyncedSlip(row, sum) ==
    [row EXCEPT !.paid = sum, !.balance = row.total - sum, !.version = @ + 1]

\* The status follows the recomputed balance both ways.
Resynced(row, sum) == LET left == row.total - sum IN
    [row EXCEPT !.paid = sum,
                !.balance = left,
                !.status = IF row.status = "paid" /\ left > 0 THEN "sent"
                           ELSE IF row.status = "sent" /\ left <= 0 THEN "paid"
                           ELSE @,
                !.stamped = IF row.status = "paid" /\ left > 0 THEN FALSE
                            ELSE @ \/ (row.status = "sent" /\ left <= 0),
                !.version = @ + 1]

ChangePayment(p, row) == LET o == payment[p].of IN
    /\ payment[p] # NoPayment
    /\ Bounded(order[o])
    /\ payment' = [payment EXCEPT ![p] = row]
    /\ Put(o, Resynced(order[o], PaidBy(payment', o)))
    /\ UNCHANGED form

\* A rate that is not corrected is the stored one.
UpdatePayment(p, amount, own, rate) ==
    /\ Acceptable(own, rate)
    /\ ChangePayment(p, Paid(payment[p].of, amount, own, rate))

DeletePayment(p) == ChangePayment(p, NoPayment)

\* Only a draft, which has no payments to cascade to.
Delete(o) ==
    /\ order[o].status = "draft"
    /\ Put(o, [order[o] EXCEPT !.status = "deleted"])
    /\ UNCHANGED <<payment, form>>

Next ==
    \/ \E o \in Orders :
          \/ \E t \in Totals : Create(o, t)
          \/ \E source \in Orders : Duplicate(o, source)
          \/ MarkAsSent(o) \/ SendOrder(o)
          \/ \E p \in Payments, a \in Amounts, own \in BOOLEAN, r \in Rates :
                RecordPayment(o, p, a, own, r)
          \/ Delete(o)
    \/ \E p \in Payments :
          \/ \E a \in Amounts, own \in BOOLEAN, r \in Rates \cup {payment[p].rate} :
                UpdatePayment(p, a, own, r)
          \/ DeletePayment(p)
    \/ \E c \in Clients :
          \/ \E o \in Orders : OpenForm(c, o)
          \/ Annotate(c)
          \/ \E t \in Totals : Reprice(c, t)
          \/ CloseForm(c)

Spec == Init /\ [][Next]_vars

------------------------------------------------------------------------------
TypeOK ==
    /\ order \in [Orders -> Row]
    /\ payment \in [Payments -> PaymentRow]
    /\ form \in [Clients -> [of: Orders \cup {Nothing}, seen: Row]]

\* What is paid, the balance and the status of an order agree after every payment,
\* correction and removal, in both directions; until money moves, a copy's balance
\* is 0.  Recording adds up and resyncing sums up again: as long as every payment is
\* in the order's currency, whose rate is held at one, both come to the same.
OrdersAgree ==
    \A o \in Orders : LET row == order[o] IN
        /\ \/ row.balance = row.total - row.paid
           \/ row.balance = 0 /\ PaymentsOf(o) = {}
        /\ row.status = "paid" => row.paid >= row.total /\ row.stamped
        /\ row.status = "sent" => ~row.stamped
        /\ row.status = "sent" /\ PaymentsOf(o) # {} => row.paid < row.total
        /\ (\A p \in PaymentsOf(o) : payment[p].own) => row.paid = PaidBy(payment, o)

Abs(n) == IF n < 0 THEN -n ELSE n

\* How far a payment's part in what is paid may be from its amount at its stored
\* rate, in halves of 1/RateUnit of a cent: not at all in the order's currency;
\* otherwise half a cent, and half the rate's last decimal on every cent.
Slack(row) == IF row.own THEN 0 ELSE RateUnit + row.amount * Step

\* "Sub-cent drift ... is possible but bounded": what an order says is paid is that
\* close to the exact sum of its payments at the rates on their rows, whether the
\* payments were recorded, corrected or summed again.
DriftIsBounded ==
    \A o \in Orders :
        LET exact == MapThenSumSet(LAMBDA p : payment[p].amount * payment[p].rate,
                                   PaymentsOf(o))
        IN  2 * Abs(RateUnit * order[o].paid - exact)
               <= MapThenSumSet(LAMBDA p : Slack(payment[p]), PaymentsOf(o))

\* A sent order is a permanent record: it stays, with the total it was sent
\* with, whatever is paid, corrected or taken back, and whoever still has it
\* open in a form.
SentIsPermanent ==
    [][\A o \in Orders : order[o].status \in {"sent", "paid"} =>
          /\ order'[o].status \in {"sent", "paid"}
          /\ order'[o].total = order[o].total]_vars

\* An edit replaces the very row its client saw: payments, corrections and
\* sends all move the version, so none of them is edited away unseen.
OrderEditsReplaceWhatWasSeen ==
    [][\A c \in Clients, o \in Orders :
          /\ form[c].of = o
          /\ form'[c] = NoForm
          /\ order'[o] # order[o]
          => form[c].seen = order[o]]_vars

Standing(row) ==
    CASE row.status = "absent" -> "none"
      [] row.status \in {"draft", "sent"} -> "open"
      [] row.status = "paid" -> "settled"
      [] row.status = "deleted" -> "gone"

\* What counts as received is what the order says was paid.
Promise == INSTANCE Settlement WITH
    Documents <- Orders,
    Sums      <- Totals,
    owed      <- [o \in Orders |-> order[o].total],
    received  <- [o \in Orders |-> order[o].paid],
    standing  <- [o \in Orders |-> Standing(order[o])]

OrdersSettle == Promise!Spec

\* record_payment and the resync "always agree": what an order says is paid is the
\* sum of its payments, as their rows have them.
RecordAndResyncAgree == \A o \in Orders : order[o].paid = PaidBy(payment, o)

\* is_paid: "a SENT PO whose balance_due has been reduced to zero by recorded
\* payments, is treated as settled".
IsPaid(row) == row.status = "paid" \/ (row.status = "sent" /\ row.balance <= 0)

\* An order that shows as settled was paid for.
SettledMeansPaid ==
    \A o \in Orders : IsPaid(order[o]) => PaidBy(payment, o) >= order[o].total
===============================================================================
