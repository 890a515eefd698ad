----------------------------- MODULE InvoiceLedger -----------------------------
(***************************************************************************)
(* The invoice service as concurrent request transactions.  Each worker is *)
(* a request (or the nightly job) with one READ COMMITTED transaction: it  *)
(* takes the row lock of its invoice (SELECT ... FOR UPDATE, or the INSERT *)
(* of a new row), validates the row it read under the lock, flushes the    *)
(* new row, and, after a payment or a cancel, recomputes Customer.balance  *)
(* in further statements before the commit.  Uncommitted rows are visible  *)
(* to their own transaction only.  Any transaction may roll back at any    *)
(* point before its commit: a later statement failed, the client's request *)
(* was aborted, or the process died.                                       *)
(***************************************************************************)
EXTENDS InvoiceRules, FiniteSetsExt

CONSTANTS Invoices, Customers, NoCustomer, Totals, Amounts, MaxVersion,
          MaxEdition,
          Workers,
          Free           \* "no transaction", as the holder of a lock

ASSUME FreeAssumption       == Free \notin Workers
ASSUME NoCustomerAssumption == NoCustomer \notin Customers
ASSUME MoneyAssumption      == Totals \subseteq Nat /\ Amounts \subseteq Nat \ {0}
ASSUME BoundAssumption      == MaxVersion \in Nat \ {0} /\ MaxEdition \in Nat \ {0}

VARIABLES
    invoice, received, mailed, edition,  \* committed, as in InvoiceLifecycle
    balance,       \* committed Customer.balance
    pending,       \* the row as flushed by the transaction that locks it
    rowLock,       \* per invoice, the worker holding its row lock
    custLock,      \* per customer, the worker holding its row lock
    txn,           \* per worker, its transaction
    resync         \* per worker, the sum it computed and the balance it loaded

rowVars  == <<invoice, received, mailed, edition>>
vars     == <<invoice, received, mailed, edition, balance, pending, rowLock,
              custLock, txn, resync>>

Lifecycle == INSTANCE InvoiceLifecycle WITH
    invoice <- invoice, received <- received, mailed <- mailed, edition <- edition

Kinds == {"none", "create", "edit", "issue", "send", "pay", "cancel", "delete",
          "bulk"}

(* Where a transaction stands: "reading" is a client that holds a version it *)
(* read and has no transaction open; "scanning" is the nightly UPDATE, and   *)
(* "summing", "loading", "writing" are the statements of                     *)
(* _update_customer_balance; at "ready" only the commit is left.             *)
Stages == {"idle", "reading", "scanning", "summing", "loading", "writing",
           "ready"}

Txn == [stage: Stages, kind: Kinds, rows: SUBSET Invoices,
        amount: Amounts \cup {0}, base: Nat]

NoTxn == [stage |-> "idle", kind |-> "none", rows |-> {}, amount |-> 0,
          base |-> 0]

NoResync == [sum |-> 0, seen |-> 0]

Open(w) == txn[w].stage \notin {"idle", "reading"}

Init ==
    /\ Lifecycle!Init
    /\ balance = [c \in Customers |-> 0]
    /\ pending = invoice
    /\ rowLock = [i \in Invoices |-> Free]
    /\ custLock = [c \in Customers |-> Free]
    /\ txn = [w \in Workers |-> NoTxn]
    /\ resync = [w \in Workers |-> NoResync]

------------------------------------------------------------------------------
\* What a statement of w reads.
Seen(w, i) == IF rowLock[i] = w THEN pending[i] ELSE invoice[i]

Outstanding(row, c) ==
    IF Counted(row) /\ row.cust = c THEN row.balance ELSE 0

AtLeastZero(n) == IF n < 0 THEN 0 ELSE n

\* The rollup of customer c over a table of invoices: what is outstanding,
\* clamped at zero (a credit stays on its own invoice).
Rollup(table, c) ==
    AtLeastZero(MapThenSumSet(LAMBDA i : Outstanding(table[i], c), Invoices))

Bounded(row) == row.version < MaxVersion

FlushSlip(w, kind, i, row, amount, stage) ==
    /\ rowLock' = [rowLock EXCEPT ![i] = w]
    /\ pending' = [pending EXCEPT ![i] = row]
    /\ txn' = [txn EXCEPT ![w] = [@ EXCEPT !.stage = stage, !.kind = kind,
                                           !.rows = {i}, !.amount = amount]]
    /\ UNCHANGED <<rowVars, balance, custLock, resync>>

\* w locks row i, validates it (the conditions beside the call) and flushes
\* `row`; the transaction goes on at `stage`.
Flush(w, kind, i, row, amount, stage) ==
    /\ rowLock[i] = Free
    /\ rowLock' = [rowLock EXCEPT ![i] = w]
    /\ pending' = [pending EXCEPT ![i] = row]
    /\ txn' = [txn EXCEPT ![w] = [@ EXCEPT !.stage = stage, !.kind = kind,
                                           !.rows = {i}, !.amount = amount]]
    /\ UNCHANGED <<rowVars, balance, custLock, resync>>

Begin(w, kind, i, row, amount, stage) ==
    /\ txn[w].stage = "idle"
    /\ Flush(w, kind, i, row, amount, stage)

Create(w, i, c, total) ==
    /\ invoice[i].status = "absent"
    /\ Begin(w, "create", i, Draft(c, total), 0, "ready")

\* duplicate(): the copy is a new draft for the customer and with the lines of
\* an invoice read without a lock.
Duplicate(w, i, source) ==
    /\ Exists(invoice[source])
    /\ Create(w, i, invoice[source].cust, invoice[source].total)

\* A client opens an invoice: the version it reads here is the one it will
\* send back with its edit.
Read(w, i) ==
    /\ txn[w].stage = "idle"
    /\ Exists(invoice[i])
    /\ txn' = [txn EXCEPT ![w] = [@ EXCEPT !.stage = "reading", !.rows = {i},
                                           !.base = invoice[i].version]]
    /\ UNCHANGED <<rowVars, balance, pending, rowLock, custLock, resync>>

EditSlip(w, c, total) ==
    /\ txn[w].stage = "reading"
    /\ \E i \in txn[w].rows :
          /\ Exists(invoice[i])
          /\ Bounded(invoice[i])
          /\ CanEdit(invoice[i], total)
          /\ Flush(w, "edit", i, Edited(invoice[i], c, total), 0, "ready")

\* update(): assert_version locks the row and compares versions, and only then
\* is the row loaded and checked.
Edit(w, c, total) ==
    /\ txn[w].stage = "reading"
    /\ \E i \in txn[w].rows :
          /\ Exists(invoice[i])
          /\ invoice[i].version = txn[w].base
          /\ Bounded(invoice[i])
          /\ CanEdit(invoice[i], total)
          /\ Flush(w, "edit", i, Edited(invoice[i], c, total), 0, "ready")

\* The client gives up, or its edit is refused (409, 400, 404) or empty.
Leave(w) ==
    /\ txn[w].stage = "reading"
    /\ txn' = [txn EXCEPT ![w] = NoTxn]
    /\ UNCHANGED <<rowVars, balance, pending, rowLock, custLock, resync>>

MarkAsSent(w, i) ==
    /\ Bounded(invoice[i])
    /\ CanIssue(invoice[i])
    /\ Begin(w, "issue", i, IssuedRow(invoice[i], edition), 0, "ready")

\* The locked phase of send_invoice; delivery follows the commit, see
\* EmailOutbox.
Send(w, i) ==
    /\ Bounded(invoice[i])
    /\ CanMail(invoice[i])
    /\ Begin(w, "send", i, MailedRow(invoice[i], edition), 0, "ready")

RecordPayment(w, i, amount) ==
    /\ Bounded(invoice[i])
    /\ CanPay(invoice[i], amount)
    /\ Begin(w, "pay", i, PaidRow(invoice[i], amount), amount, "summing")

Cancel(w, i) ==
    /\ Bounded(invoice[i])
    /\ CanCancel(invoice[i])
    /\ Begin(w, "cancel", i, CanceledRow(invoice[i]), 0, "summing")

Delete(w, i) ==
    /\ CanDelete(invoice[i])
    /\ Begin(w, "delete", i, DeletedRow(invoice[i]), 0, "ready")

------------------------------------------------------------------------------
\* _update_customer_balance, one action per statement.
CustomerOf(w) == {pending[i].cust : i \in txn[w].rows}

SumOutstanding(w) ==
    /\ txn[w].stage = "summing"
    /\ \E c \in CustomerOf(w) :
          resync' = [resync EXCEPT ![w].sum = Rollup([i \in Invoices |-> Seen(w, i)], c)]
    /\ txn' = [txn EXCEPT ![w].stage = "loading"]
    /\ UNCHANGED <<rowVars, balance, pending, rowLock, custLock>>

LoadCustomer(w) ==
    /\ txn[w].stage = "loading"
    /\ \E c \in CustomerOf(w) :
          resync' = [resync EXCEPT ![w].seen = balance[c]]
    /\ txn' = [txn EXCEPT ![w].stage = "writing"]
    /\ UNCHANGED <<rowVars, balance, pending, rowLock, custLock>>

\* The unit of work sends an UPDATE, which waits for the customer's row lock,
\* only when the new balance differs from the one loaded.
WriteCustomer(w) ==
    /\ txn[w].stage = "writing"
    /\ IF resync[w].sum = resync[w].seen
       THEN UNCHANGED custLock
       ELSE \E c \in CustomerOf(w) :
               /\ custLock[c] = Free
               /\ custLock' = [custLock EXCEPT ![c] = w]
    /\ txn' = [txn EXCEPT ![w].stage = "ready"]
    /\ UNCHANGED <<rowVars, balance, pending, rowLock, resync>>

------------------------------------------------------------------------------
\* bulk_transition_overdue: one UPDATE.  Its snapshot picks the rows that match
\* (`late` are the rows past their due date) ...
BulkScan(w, late) ==
    /\ txn[w].stage = "idle"
    /\ txn' = [txn EXCEPT ![w] = [@ EXCEPT
                  !.stage = "scanning", !.kind = "bulk",
                  !.rows = {i \in late : CanLapse(invoice[i])}]]
    /\ UNCHANGED <<rowVars, balance, pending, rowLock, custLock, resync>>

BulkRowSlip(w, i) ==
    /\ txn[w].stage = "scanning"
    /\ i \in txn[w].rows
    /\ rowLock[i] = Free
    /\ Bounded(invoice[i])
    /\ txn' = [txn EXCEPT ![w].rows = @ \ {i}]
    /\ rowLock' = [rowLock EXCEPT ![i] = w]
    /\ pending' = [pending EXCEPT ![i] = LapsedRow(invoice[i])]
    /\ UNCHANGED <<rowVars, balance, custLock, resync>>

\* ... and each of them is locked in turn and checked again in its latest
\* committed form.
BulkRow(w, i) ==
    /\ txn[w].stage = "scanning"
    /\ i \in txn[w].rows
    /\ rowLock[i] = Free
    /\ txn' = [txn EXCEPT ![w].rows = @ \ {i}]
    /\ IF CanLapse(invoice[i]) /\ Bounded(invoice[i])
       THEN /\ rowLock' = [rowLock EXCEPT ![i] = w]
            /\ pending' = [pending EXCEPT ![i] = LapsedRow(invoice[i])]
       ELSE UNCHANGED <<rowLock, pending>>
    /\ UNCHANGED <<rowVars, balance, custLock, resync>>

BulkDone(w) ==
    /\ txn[w].stage = "scanning"
    /\ txn[w].rows = {}
    /\ txn' = [txn EXCEPT ![w].stage = "ready"]
    /\ UNCHANGED <<rowVars, balance, pending, rowLock, custLock, resync>>

------------------------------------------------------------------------------
ReleaseSlip(w) ==
    /\ rowLock' = [i \in Invoices |-> IF rowLock[i] = w THEN Free ELSE rowLock[i]]
    /\ txn' = [txn EXCEPT ![w] = NoTxn]
    /\ resync' = [resync EXCEPT ![w] = NoResync]
    /\ UNCHANGED custLock

\* End of transaction: w's locks go, and with them its right to `pending`.
Release(w) ==
    /\ rowLock' = [i \in Invoices |-> IF rowLock[i] = w THEN Free ELSE rowLock[i]]
    /\ custLock' = [c \in Customers |-> IF custLock[c] = w THEN Free ELSE custLock[c]]
    /\ txn' = [txn EXCEPT ![w] = NoTxn]
    /\ resync' = [resync EXCEPT ![w] = NoResync]

Paying(w, i) == txn[w].kind = "pay" /\ i \in txn[w].rows

Commit(w) ==
    /\ txn[w].stage = "ready"
    /\ invoice' = [i \in Invoices |-> Seen(w, i)]
    /\ received' = [i \in Invoices |->
                      IF Paying(w, i) THEN received[i] + txn[w].amount
                                      ELSE received[i]]
    /\ mailed' = mailed \cup (IF txn[w].kind = "send" THEN txn[w].rows ELSE {})
    /\ balance' = [c \in Customers |->
                     IF custLock[c] = w THEN resync[w].sum ELSE balance[c]]
    /\ Release(w)
    /\ UNCHANGED <<edition, pending>>

Abort(w) ==
    /\ Open(w)
    /\ pending' = [i \in Invoices |->
                     IF rowLock[i] = w THEN invoice[i] ELSE pending[i]]
    /\ Release(w)
    /\ UNCHANGED <<rowVars, balance>>

EditOwner ==
    /\ edition < MaxEdition
    /\ edition' = edition + 1
    /\ UNCHANGED <<invoice, received, mailed, balance, pending, rowLock,
                   custLock, txn, resync>>

Request(w) ==
    \/ \E i \in Invoices :
          \/ \E c \in Customers, t \in Totals : Create(w, i, c, t)
          \/ \E source \in Invoices : Duplicate(w, i, source)
          \/ Read(w, i)
          \/ MarkAsSent(w, i)
          \/ Send(w, i)
          \/ \E a \in Amounts : RecordPayment(w, i, a)
          \/ Cancel(w, i)
          \/ Delete(w, i)
    \/ \E c \in Customers, t \in Totals : Edit(w, c, t)
    \/ Leave(w)
    \/ \E late \in SUBSET Invoices : BulkScan(w, late)

\* What a worker does on its own once its transaction is open.
Proceed(w) ==
    \/ SumOutstanding(w)
    \/ LoadCustomer(w)
    \/ WriteCustomer(w)
    \/ \E i \in Invoices : BulkRow(w, i)
    \/ BulkDone(w)
    \/ Commit(w)

Next ==
    \/ \E w \in Workers : Request(w) \/ Proceed(w) \/ Abort(w)
    \/ EditOwner

Spec == Init /\ [][Next]_vars

(* A session thread keeps executing the statements of its transaction, and   *)
(* PostgreSQL serves the waiters of a row lock in turn (hence SF where a     *)
(* statement may wait), and rolls back one transaction of any set that wait  *)
(* for each other.  Nothing obliges a client to send another request.        *)
Stuck(ws) ==
    /\ ws # {}
    /\ \A w \in ws :
          /\ txn[w].stage = "scanning"
          /\ txn[w].rows # {}
          /\ \A i \in txn[w].rows : rowLock[i] \in ws \ {w}

BreakDeadlock ==
    \E ws \in SUBSET Workers : Stuck(ws) /\ \E w \in ws : Abort(w)

Fairness ==
    /\ \A w \in Workers :
          /\ WF_vars(SumOutstanding(w) \/ LoadCustomer(w) \/ BulkDone(w) \/ Commit(w))
          /\ SF_vars(WriteCustomer(w))
          /\ \A i \in Invoices : SF_vars(BulkRow(w, i))
    /\ WF_vars(BreakDeadlock)

FairSpec == Spec /\ Fairness

------------------------------------------------------------------------------
LedgerTypeOK ==
    /\ Lifecycle!TypeOK
    /\ balance \in [Customers -> Nat]
    /\ pending \in [Invoices -> Lifecycle!Row]
    /\ rowLock \in [Invoices -> Workers \cup {Free}]
    /\ custLock \in [Customers -> Workers \cup {Free}]
    /\ txn \in [Workers -> Txn]
    /\ resync \in [Workers -> [sum: Nat, seen: Nat]]

\* What a worker has flushed for row i follows from the committed row by the
\* operation the worker is carrying out.
Justified(w, i) == LET old == invoice[i]  new == pending[i]  t == txn[w] IN
    \/ /\ t.kind = "create" /\ old.status = "absent"
       /\ \E c \in Customers, total \in Totals : new = Draft(c, total)
    \/ /\ t.kind = "edit" /\ Bounded(old)
       /\ \E c \in Customers, total \in Totals :
             CanEdit(old, total) /\ new = Edited(old, c, total)
    \/ /\ t.kind = "issue" /\ Bounded(old) /\ CanIssue(old)
       /\ \E e \in 1 .. edition : new = IssuedRow(old, e)
    \/ /\ t.kind = "send" /\ Bounded(old) /\ CanMail(old)
       /\ \E e \in 1 .. edition : new = MailedRow(old, e)
    \/ /\ t.kind = "pay" /\ Bounded(old) /\ t.amount \in Amounts
       /\ CanPay(old, t.amount) /\ new = PaidRow(old, t.amount)
    \/ t.kind = "cancel" /\ Bounded(old) /\ CanCancel(old) /\ new = CanceledRow(old)
    \/ t.kind = "delete" /\ CanDelete(old) /\ new = DeletedRow(old)
    \/ t.kind = "bulk" /\ Bounded(old) /\ CanLapse(old) /\ new = LapsedRow(old)

\* A request other than the nightly job locks exactly its own row, from its
\* flush to its end, and what any holder of a lock has flushed stays justified.
HoldsItsRow(w, i) ==
    /\ rowLock[i] = w =>
          /\ Open(w)
          /\ Justified(w, i)
          /\ txn[w].kind # "bulk" => txn[w].rows = {i}
    /\ Open(w) /\ txn[w].kind # "bulk" /\ i \in txn[w].rows => rowLock[i] = w

\* Row locks do their work: a row nobody locks has nothing pending, and nothing
\* committed meanwhile invalidates what was flushed under a lock.
LockDiscipline ==
    /\ \A i \in Invoices : rowLock[i] = Free => pending[i] = invoice[i]
    /\ \A w \in Workers, i \in Invoices : HoldsItsRow(w, i)
    /\ \A w \in Workers : txn[w].stage = "scanning" => txn[w].kind = "bulk"

\* Seen through its committed rows, the service behaves as if every operation
\* took effect at once: payments, sends, cancels, edits, deletes and the
\* nightly job are serialized by the row locks.
Implements == Lifecycle!Spec

\* The optimistic lock: an edit commits only over the very version its client
\* had read, whatever others did in between.
NoLostEdit ==
    [][\A w \in Workers :
          /\ txn[w].kind = "edit"
          /\ Commit(w)
          => \A i \in txn[w].rows : invoice[i].version = txn[w].base]_vars

\* A committed payment or cancel leaves Customer.balance equal to the rollup
\* of the committed invoices ("resync in the same unit of work so it cannot
\* drift").  True of one transaction at a time only.
BalanceFollowsMoney ==
    [][\A i \in Invoices :
          \/ invoice'[i].paid # invoice[i].paid
          \/ invoice'[i].status = "canceled" /\ invoice[i].status # "canceled"
          => balance'[invoice'[i].cust] = Rollup(invoice', invoice'[i].cust)]_vars

\* Every transaction that was opened comes to an end, whatever it waits for:
\* row locks, the customer's row, or another nightly job waiting for it.
TransactionsEnd ==
    \A w \in Workers :
        Open(w) ~> txn[w].stage = "idle"
===============================================================================
