--------------------------- MODULE InvoiceLifecycle ---------------------------
(***************************************************************************)
(* What the invoice service promises: every operation takes effect on its  *)
(* rows at once, or not at all.  Nothing here mentions sessions, row locks *)
(* or commits; InvoiceLedger models those and implements this module.      *)
(***************************************************************************)
EXTENDS InvoiceRules

CONSTANTS
    Invoices,      \* primary keys
    Customers,
    NoCustomer,    \* the customer of a row that does not exist yet
    Totals,        \* document totals, in cents
    Amounts,       \* payment amounts, in cents
    MaxVersion,    \* bound: a row takes at most MaxVersion - 1 updates
    MaxEdition     \* bound: editions of the owner profile

ASSUME NoCustomerAssumption == NoCustomer \notin Customers
ASSUME MoneyAssumption      == Totals \subseteq Nat /\ Amounts \subseteq Nat \ {0}
ASSUME BoundAssumption      == MaxVersion \in Nat \ {0} /\ MaxEdition \in Nat \ {0}

VARIABLES
    invoice,       \* the table `invoices`
    received,      \* per invoice, the sum of its rows in `payments`
    mailed,        \* the invoices some row of `email_outbox` was queued for
    edition        \* the current edition of the owner profile

vars == <<invoice, received, mailed, edition>>

Row == [status: Statuses \cup NoRow, cust: Customers \cup {NoCustomer},
        total: Nat, paid: Nat, balance: Int, version: Nat, snap: Nat]

TypeOK ==
    /\ invoice \in [Invoices -> Row]
    /\ received \in [Invoices -> Nat]
    /\ mailed \subseteq Invoices
    /\ edition \in Nat \ {0}

Init ==
    /\ invoice = [i \in Invoices |-> Absent(NoCustomer)]
    /\ received = [i \in Invoices |-> 0]
    /\ mailed = {}
    /\ edition = 1

------------------------------------------------------------------------------

Bounded(row) == row.version < MaxVersion

Put(i, row) ==
    /\ invoice' = [invoice EXCEPT ![i] = row]
    /\ UNCHANGED edition

Create(i, c, total) ==
    /\ invoice[i].status = "absent"
    /\ Put(i, Draft(c, total))
    /\ UNCHANGED <<received, mailed>>

Edit(i, c, total) ==
    /\ Bounded(invoice[i])
    /\ CanEdit(invoice[i], total)
    /\ Put(i, Edited(invoice[i], c, total))
    /\ UNCHANGED <<received, mailed>>

\* The owner profile may have been edited again between the moment a request
\* copied it and the moment the invoice shows as issued, hence "some edition".
Issue(i) ==
    /\ Bounded(invoice[i])
    /\ CanIssue(invoice[i])
    /\ \E e \in 1 .. edition : Put(i, IssuedRow(invoice[i], e))
    /\ UNCHANGED <<received, mailed>>

Mail(i) ==
    /\ Bounded(invoice[i])
    /\ CanMail(invoice[i])
    /\ \E e \in 1 .. edition : Put(i, MailedRow(invoice[i], e))
    /\ mailed' = mailed \cup {i}
    /\ UNCHANGED received

Pay(i, amount) ==
    /\ Bounded(invoice[i])
    /\ CanPay(invoice[i], amount)
    /\ Put(i, PaidRow(invoice[i], amount))
    /\ received' = [received EXCEPT ![i] = @ + amount]
    /\ UNCHANGED mailed

Cancel(i) ==
    /\ Bounded(invoice[i])
    /\ CanCancel(invoice[i])
    /\ Put(i, CanceledRow(invoice[i]))
    /\ UNCHANGED <<received, mailed>>

Delete(i) ==
    /\ CanDelete(invoice[i])
    /\ Put(i, DeletedRow(invoice[i]))
    /\ UNCHANGED <<received, mailed>>

\* The nightly job moves all the rows it matched in one step.
Lapse(S) ==
    /\ \A i \in S : Bounded(invoice[i]) /\ CanLapse(invoice[i])
    /\ invoice' = [i \in Invoices |->
                     IF i \in S THEN LapsedRow(invoice[i]) ELSE invoice[i]]
    /\ UNCHANGED <<received, mailed, edition>>

EditOwner ==
    /\ edition < MaxEdition
    /\ edition' = edition + 1
    /\ UNCHANGED <<invoice, received, mailed>>

Next ==
    \/ \E i \in Invoices :
          \/ \E c \in Customers, t \in Totals : Create(i, c, t) \/ Edit(i, c, t)
          \/ Issue(i)
          \/ Mail(i)
          \/ \E a \in Amounts : Pay(i, a)
          \/ Cancel(i)
          \/ Delete(i)
    \/ \E S \in SUBSET Invoices : Lapse(S)
    \/ EditOwner

Spec == Init /\ [][Next]_vars

------------------------------------------------------------------------------
\* Every amount is accounted for: what the row says was paid is what the
\* payment rows add up to, and the balance is what is left of the total.
MoneyAccounted ==
    \A i \in Invoices :
        /\ invoice[i].paid = received[i]
        /\ invoice[i].balance = invoice[i].total - invoice[i].paid

\* The status tells the truth about the money.
StatusMatchesMoney ==
    \A i \in Invoices : LET row == invoice[i] IN
        /\ row.status \in {"absent", "draft", "deleted", "sent"} => row.paid = 0
        /\ row.status = "partial" => row.paid > 0 /\ row.balance > 0
        /\ row.status = "paid"    => row.paid > 0 /\ row.balance <= 0
        /\ row.status = "overdue" => row.balance > 0

\* An invoice is branded exactly from its first issue on, and a mail was only
\* ever queued for an invoice that is (or was, before it was canceled) issued.
IssuedIsBranded ==
    \A i \in Invoices : LET row == invoice[i] IN
        /\ row.status \in NoRow \cup {"draft"} => row.snap = NoSnapshot
        /\ Issued(row) /\ row.status # "canceled" => row.snap \in 1 .. edition
        /\ i \in mailed => Issued(row) /\ row.snap # NoSnapshot

\* A permanent record: an issued invoice keeps its customer, its total and its
\* owner header, is never deleted, and is never un-canceled.
IssuedIsPermanent ==
    [][\A i \in Invoices : Issued(invoice[i]) =>
          /\ Issued(invoice'[i])
          /\ invoice'[i].cust = invoice[i].cust
          /\ invoice'[i].total = invoice[i].total
          /\ invoice'[i].paid >= invoice[i].paid
          /\ invoice[i].snap # NoSnapshot => invoice'[i].snap = invoice[i].snap
          /\ invoice[i].status = "canceled" => invoice'[i] = invoice[i]]_vars

\* Each change another user could overwrite moves the version by exactly one,
\* and follows the transition table.
VersionCounts ==
    [][\A i \in Invoices :
          invoice'[i] # invoice[i] /\ Exists(invoice[i]) /\ Exists(invoice'[i]) =>
             /\ invoice'[i].version = invoice[i].version + 1
             /\ \/ invoice'[i].status = invoice[i].status
                \/ CanMove(invoice[i].status, invoice'[i].status)]_vars
===============================================================================
