----------------------------- MODULE InvoiceRules -----------------------------
(***************************************************************************)
(* What the invoice handlers do to one row of the table `invoices`, as     *)
(* operators from the row a handler reads under its lock to the row it     *)
(* flushes.  The operators know nothing of transactions: InvoiceLifecycle  *)
(* applies them atomically, InvoiceLedger applies them inside request      *)
(* transactions.                                                           *)
(*                                                                         *)
(* Money is an integer number of cents.  A total stands for what           *)
(* subtotal, discount, VAT and the per-line tax recomputation come to; the *)
(* recomputation made when a draft is sent gives the same total again,     *)
(* because every save of the draft has already made it.                    *)
(***************************************************************************)
EXTENDS Integers

Statuses == {"draft", "sent", "partial", "paid", "overdue", "canceled"}

\* A row that was never inserted, or whose DELETE is committed; ids are
\* UUIDs and are never used twice.
NoRow == {"absent", "deleted"}

NoSnapshot == 0

Exists(row) == row.status \in Statuses

Issued(row) == row.status \in Statuses \ {"draft"}

\* The rows Customer.balance sums over.
Counted(row) == row.status \in Statuses \ {"draft", "canceled"}

CanMove(from, to) ==
    \/ from = "draft"   /\ to \in {"sent", "canceled"}
    \/ from = "sent"    /\ to \in {"partial", "paid", "overdue", "canceled"}
    \/ from = "partial" /\ to \in {"paid", "overdue", "canceled"}
    \/ from = "overdue" /\ to \in {"partial", "paid", "canceled"}
    \/ from = "paid"    /\ to = "canceled"

Moved(row, to) == [row EXCEPT !.status = to, !.version = @ + 1]

------------------------------------------------------------------------------

Absent(nobody) ==
    [status |-> "absent", cust |-> nobody, total |-> 0, paid |-> 0,
     balance |-> 0, version |-> 0, snap |-> NoSnapshot]

Draft(cust, total) ==
    [status |-> "draft", cust |-> cust, total |-> total, paid |-> 0,
     balance |-> total, version |-> 1, snap |-> NoSnapshot]

\* Slips: the operators named ...Slip say what a plausible mistake in the code
\* would do; the invariants are shown to tell each of them from the real one.
CanEditSlip(row, total) == row.status \in {"draft", "sent"} /\ total - row.paid >= 0

\* Only a DRAFT is editable, and an edit may not take the total below what is
\* already paid.
CanEdit(row, total) == row.status = "draft" /\ total - row.paid >= 0

Edited(row, cust, total) ==
    [row EXCEPT !.cust = cust, !.total = total, !.balance = total - row.paid,
                !.version = @ + 1]

\* The owner header is stamped the first time only.
WithSnapshot(row, edition) ==
    IF row.snap = NoSnapshot THEN [row EXCEPT !.snap = edition] ELSE row

CanIssue(row) == CanMove(row.status, "sent")

IssuedRowSlip(row, edition) == Moved(row, "sent")

IssuedRow(row, edition) == WithSnapshot(Moved(row, "sent"), edition)

\* "Send" mails any invoice that is not canceled; it moves a DRAFT to SENT and
\* leaves the row of an invoice issued before as it is.
CanMail(row) == Exists(row) /\ row.status # "canceled"

MailedRow(row, edition) ==
    IF row.status = "draft" THEN IssuedRow(row, edition) ELSE row

SettledStatusSlip(row, amount) ==
    IF row.total - (row.paid + amount) < 0 THEN "paid" ELSE "partial"

\* A payment settles the invoice when nothing (or less) is left to pay.
SettledStatus(row, amount) ==
    IF row.total - (row.paid + amount) <= 0 THEN "paid" ELSE "partial"

CanPay(row, amount) ==
    /\ Exists(row)
    /\ row.status \notin {"draft", "canceled"}
    /\ \/ row.status = SettledStatus(row, amount)
       \/ CanMove(row.status, SettledStatus(row, amount))

PaidRowStaleSlip(row, amount) ==
    [Moved(row, SettledStatus(row, amount)) EXCEPT
        !.paid = row.paid + amount, !.balance = row.total - row.paid]

PaidRow(row, amount) ==
    [Moved(row, SettledStatus(row, amount)) EXCEPT
        !.paid = row.paid + amount, !.balance = row.total - (row.paid + amount)]

CanCancel(row) == CanMove(row.status, "canceled")

CanceledRow(row) == Moved(row, "canceled")

CanDelete(row) == row.status = "draft"

DeletedRow(row) == [row EXCEPT !.status = "deleted"]

\* The nightly UPDATE's WHERE clause, the due date apart.
CanLapse(row) == row.status \in {"sent", "partial"} /\ row.balance > 0

LapsedRow(row) == Moved(row, "overdue")
===============================================================================
