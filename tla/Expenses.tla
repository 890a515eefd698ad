------------------------------- MODULE Expenses -------------------------------
(***************************************************************************)
(* The expense service.  Every operation that looks at an expense's status *)
(* or money takes the row lock first (FOR UPDATE, or assert_version) and   *)
(* holds it to the commit, so an operation is one action.  What is not     *)
(* atomic is a client's edit: the form it sends back may be old.           *)
(***************************************************************************)
EXTENDS Integers

CONSTANTS
    Expenses,      \* primary keys
    Clients,
    Totals,        \* subtotal plus tax of the line items, in cents
    Amounts,       \* payment amounts, in cents
    MaxVersion,    \* bound: a row takes at most MaxVersion - 1 changes
    Nothing        \* "no expense", in a client's form

ASSUME MoneyAssumption   == Totals \subseteq Nat /\ Amounts \subseteq Nat \ {0}
ASSUME BoundAssumption   == MaxVersion \in Nat \ {0}
ASSUME NothingAssumption == Nothing \notin Expenses

VARIABLES
    expense,       \* the table `expenses`
    received,      \* per expense, the sum of its rows in `expense_payments`
    byHand,        \* the part of it recorded one payment at a time
    form           \* per client, the expense it opened and the row it saw

vars == <<expense, received, byHand, form>>

Statuses == {"pending", "paid", "overdue", "canceled"}

Row == [status: Statuses \cup {"absent", "deleted"}, total: Nat, paid: Nat,
        balance: Int, version: Nat, stamped: BOOLEAN]

Absent == [status |-> "absent", total |-> 0, paid |-> 0, balance |-> 0,
           version |-> 0, stamped |-> FALSE]

NoForm == [of |-> Nothing, seen |-> Absent]

Pending(total) == [status |-> "pending", total |-> total, paid |-> 0,
                   balance |-> total, version |-> 1, stamped |-> FALSE]

Init ==
    /\ expense = [e \in Expenses |-> Absent]
    /\ received = [e \in Expenses |-> 0]
    /\ byHand = [e \in Expenses |-> 0]
    /\ form = [c \in Clients |-> NoForm]

------------------------------------------------------------------------------
Exists(row) == row.status \in Statuses

Bounded(row) == row.version < MaxVersion

CanMove(from, to) ==
    \/ from = "pending" /\ to \in {"paid", "overdue", "canceled"}
    \/ from = "overdue" /\ to \in {"paid", "canceled"}
    \/ from = "paid"    /\ to = "canceled"

IsEditable(row) == row.status \in {"pending", "overdue"}

Put(e, row) == expense' = [expense EXCEPT ![e] = row]

CreateExpense(e, total) ==
    /\ expense[e].status = "absent"
    /\ Put(e, Pending(total))
    /\ UNCHANGED <<received, byHand, form>>

\* A copy of any expense, canceled ones included, through create().
Duplicate(e, source) ==
    /\ Exists(expense[source])
    /\ CreateExpense(e, expense[source].total)

OpenForm(c, e) ==
    /\ Exists(expense[e])
    /\ form' = [form EXCEPT ![c] = [of |-> e, seen |-> expense[e]]]
    /\ UNCHANGED <<expense, received, byHand>>

EditedSlip(row, total) ==
    [row EXCEPT !.total = total, !.balance = total, !.version = @ + 1]

Edited(row, total) ==
    [row EXCEPT !.total = total, !.balance = total - row.paid, !.version = @ + 1]

UpdateSlip(c, total) ==
    \E e \in Expenses : LET row == expense[e] IN
        /\ form[c].of = e
        /\ Exists(row) /\ Bounded(row)
        /\ IsEditable(row)
        /\ total - row.paid >= 0
        /\ Put(e, Edited(row, total))
        /\ form' = [form EXCEPT ![c] = NoForm]
        /\ UNCHANGED <<received, byHand>>

\* update(): assert_version, then the status, then the floor.  An edit that
\* leaves the line items alone is the case total = row.total.
Update(c, total) ==
    \E e \in Expenses : LET row == expense[e] IN
        /\ form[c].of = e
        /\ Exists(row) /\ Bounded(row)
        /\ form[c].seen.version = row.version
        /\ IsEditable(row)
        /\ total - row.paid >= 0
        /\ Put(e, Edited(row, total))
        /\ form' = [form EXCEPT ![c] = NoForm]
        /\ UNCHANGED <<received, byHand>>

\* The client leaves, or its edit is refused.
CloseForm(c) ==
    /\ form[c] # NoForm
    /\ form' = [form EXCEPT ![c] = NoForm]
    /\ UNCHANGED <<expense, received, byHand>>

------------------------------------------------------------------------------
\* _apply_payment: nothing is clamped, a settlement stamps paid_at once.
PaidRow(row, amount) == LET left == row.total - (row.paid + amount) IN
    [row EXCEPT !.paid = @ + amount,
                !.balance = left,
                !.status = IF left <= 0 THEN "paid" ELSE @,
                !.stamped = @ \/ left <= 0,
                !.version = @ + 1]

ApplyPayment(e, amount) ==
    /\ Put(e, PaidRow(expense[e], amount))
    /\ received' = [received EXCEPT ![e] = @ + amount]

RecordPaymentSlip(e, amount) ==
    /\ Exists(expense[e]) /\ Bounded(expense[e])
    /\ ApplyPayment(e, amount)
    /\ byHand' = [byHand EXCEPT ![e] = @ + amount]
    /\ UNCHANGED form

\* A paid expense takes further payments; only a canceled one refuses them.
RecordPayment(e, amount) ==
    /\ Exists(expense[e]) /\ Bounded(expense[e])
    /\ expense[e].status # "canceled"
    /\ ApplyPayment(e, amount)
    /\ byHand' = [byHand EXCEPT ![e] = @ + amount]
    /\ UNCHANGED form

MarkAsPaidSlip(e) ==
    /\ Exists(expense[e]) /\ Bounded(expense[e])
    /\ expense[e].status # "canceled"
    /\ expense[e].total > 0
    /\ ApplyPayment(e, expense[e].total)
    /\ UNCHANGED <<byHand, form>>

\* Pay exactly what is left.  When nothing is, no payment is invented, and a
\* request repeated after a lost answer changes nothing.
MarkAsPaid(e) ==
    /\ Exists(expense[e]) /\ Bounded(expense[e])
    /\ expense[e].status # "canceled"
    /\ \/ /\ expense[e].balance > 0
          /\ ApplyPayment(e, expense[e].balance)
       \/ /\ expense[e].balance <= 0
          /\ expense[e].status # "paid"
          /\ Put(e, [expense[e] EXCEPT !.status = "paid", !.stamped = TRUE,
                                       !.version = @ + 1])
          /\ UNCHANGED received
    /\ UNCHANGED <<byHand, form>>

Moved(row, to) == [row EXCEPT !.status = to, !.version = @ + 1]

Cancel(e) ==
    /\ Bounded(expense[e])
    /\ CanMove(expense[e].status, "canceled")
    /\ Put(e, Moved(expense[e], "canceled"))
    /\ UNCHANGED <<received, byHand, form>>

\* The expense and its documents go for good.
HardDelete(e) ==
    /\ Put(e, [expense[e] EXCEPT !.status = "deleted"])
    /\ UNCHANGED <<received, byHand, form>>

DeleteSlip(e) ==
    /\ Exists(expense[e])
    /\ \/ expense[e].status = "paid" /\ Cancel(e)
       \/ expense[e].status # "paid" /\ HardDelete(e)

\* delete(): an expense with payments is only canceled, and cannot be deleted
\* once it is; one without payments goes whatever its status.
Delete(e) ==
    /\ Exists(expense[e])
    /\ \/ received[e] > 0 /\ Cancel(e)
       \/ received[e] = 0 /\ HardDelete(e)

\* The nightly UPDATE; `late` are the pending expenses past their due date.
Lapse(late) ==
    /\ late # {}
    /\ \A e \in late : expense[e].status = "pending" /\ Bounded(expense[e])
    /\ expense' = [e \in Expenses |-> IF e \in late
                                      THEN Moved(expense[e], "overdue") ELSE expense[e]]
    /\ UNCHANGED <<received, byHand, form>>

Next ==
    \/ \E e \in Expenses :
          \/ \E t \in Totals : CreateExpense(e, t)
          \/ \E source \in Expenses : Duplicate(e, source)
          \/ \E a \in Amounts : RecordPayment(e, a)
          \/ MarkAsPaid(e)
          \/ Cancel(e)
          \/ Delete(e)
    \/ \E late \in SUBSET Expenses : Lapse(late)
    \/ \E c \in Clients :
          \/ \E e \in Expenses : OpenForm(c, e)
          \/ \E t \in Totals : Update(c, t)
          \/ CloseForm(c)

Spec == Init /\ [][Next]_vars

------------------------------------------------------------------------------
TypeOK ==
    /\ expense \in [Expenses -> Row]
    /\ received \in [Expenses -> Nat]
    /\ byHand \in [Expenses -> Nat]
    /\ form \in [Clients -> [of: Expenses \cup {Nothing}, seen: Row]]

RowAgrees(row, sum) ==
    /\ row.paid = sum
    /\ row.balance = row.total - sum
    /\ row.status = "paid" => row.balance <= 0 /\ row.stamped
    /\ IsEditable(row) => row.balance >= 0 /\ ~row.stamped

\* The row, its payments and its status tell one story, after any mix of
\* edits, part payments, overpayments, quick settlements and nightly jobs: an
\* expense that can still be edited is never overpaid, and paid means covered.
AccountsAgree == \A e \in Expenses : RowAgrees(expense[e], received[e])

\* Mark-as-paid brings what was received exactly to the total, however often it
\* is sent; only payments recorded by hand can overpay.
SettlesExactly ==
    [][\A e \in Expenses :
          received'[e] # received[e] /\ byHand'[e] = byHand[e] =>
             received'[e] = expense'[e].total /\ received[e] < received'[e]]_vars

\* The audit trail: once money was received the expense stays, the sum never
\* shrinks, and from its cancellation on the row never changes again.
PaymentsAreKept ==
    [][\A e \in Expenses : received[e] > 0 =>
          /\ Exists(expense'[e])
          /\ received'[e] >= received[e]
          /\ expense[e].status = "canceled" => expense'[e] = expense[e]]_vars

\* A client's edit only ever replaces what that client had on its screen: every
\* operation that changes a row moves the version an edit is compared with.
EditsReplaceWhatWasSeen ==
    [][\A e \in Expenses :
          expense'[e].total # expense[e].total /\ Exists(expense[e]) =>
             \E c \in Clients : form[c] = [of |-> e, seen |-> expense[e]]]_vars

\* What Settlement promises, with the statuses folded into its standings.
Standing(row) ==
    CASE row.status = "absent" -> "none"
      [] row.status \in {"pending", "overdue"} -> "open"
      [] row.status = "paid" -> "settled"
      [] row.status = "canceled" -> "void"
      [] row.status = "deleted" -> "gone"

Promise == INSTANCE Settlement WITH
    Documents <- Expenses,
    Sums      <- Totals,
    owed      <- [e \in Expenses |-> expense[e].total],
    received  <- received,
    standing  <- [e \in Expenses |-> Standing(expense[e])]

ImplementsSettlement == Promise!Spec
===============================================================================
