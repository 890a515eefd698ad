-------------------------- MODULE InvoiceLedgerProofs --------------------------
(***************************************************************************)
(* The row locks of InvoiceLedger work, for every number of workers,       *)
(* invoices and customers: LockDiscipline is an invariant, and every       *)
(* commit is one atomic step of InvoiceLifecycle.                          *)
(*                                                                         *)
(* The inductive invariant is LockDiscipline with the types of what it     *)
(* talks about (LedgerInv).  Its heart is that a locked row cannot change  *)
(* under its holder, so that what was validated and computed when the row  *)
(* was locked is still justified when it is committed.                     *)
(*                                                                         *)
(* For the optimistic lock, EditsFit adds that a row with an edit flushed  *)
(* over it is still the one the client read.  Customer.balance takes no    *)
(* part: it is what concurrent payments do break.                          *)
(***************************************************************************)
EXTENDS InvoiceLedger, TLAPS

\* The theorems about InvoiceLifecycle, over the committed variables.
LP == INSTANCE InvoiceLifecycleProofs

(* The operations on rows that InvoiceLedger applies are the ones of the    *)
(* instance: both come from InvoiceRules.                                   *)

LEMMA SameRules ==
    ASSUME NEW row, NEW c, NEW t, NEW e, NEW a
    PROVE  /\ Draft(c, t) = Lifecycle!Draft(c, t)
           /\ CanEdit(row, t) = Lifecycle!CanEdit(row, t)
           /\ Edited(row, c, t) = Lifecycle!Edited(row, c, t)
           /\ CanIssue(row) = Lifecycle!CanIssue(row)
           /\ IssuedRow(row, e) = Lifecycle!IssuedRow(row, e)
           /\ CanMail(row) = Lifecycle!CanMail(row)
           /\ MailedRow(row, e) = Lifecycle!MailedRow(row, e)
           /\ CanPay(row, a) = Lifecycle!CanPay(row, a)
           /\ PaidRow(row, a) = Lifecycle!PaidRow(row, a)
           /\ CanCancel(row) = Lifecycle!CanCancel(row)
           /\ CanceledRow(row) = Lifecycle!CanceledRow(row)
           /\ CanDelete(row) = Lifecycle!CanDelete(row)
           /\ DeletedRow(row) = Lifecycle!DeletedRow(row)
           /\ CanLapse(row) = Lifecycle!CanLapse(row)
           /\ LapsedRow(row) = Lifecycle!LapsedRow(row)
           /\ Bounded(row) = Lifecycle!Bounded(row)
BY DEF Statuses, Lifecycle!Statuses, Exists, Lifecycle!Exists, CanMove,
       Lifecycle!CanMove, Moved, Lifecycle!Moved, Draft, Lifecycle!Draft,
       CanEdit, Lifecycle!CanEdit, Edited, Lifecycle!Edited, WithSnapshot,
       Lifecycle!WithSnapshot, CanIssue, Lifecycle!CanIssue, IssuedRow,
       Lifecycle!IssuedRow, CanMail, Lifecycle!CanMail, MailedRow,
       Lifecycle!MailedRow, SettledStatus, Lifecycle!SettledStatus, CanPay,
       Lifecycle!CanPay, PaidRow, Lifecycle!PaidRow, CanCancel,
       Lifecycle!CanCancel, CanceledRow, Lifecycle!CanceledRow, CanDelete,
       Lifecycle!CanDelete, DeletedRow, Lifecycle!DeletedRow, CanLapse,
       Lifecycle!CanLapse, LapsedRow, Lifecycle!LapsedRow, Bounded,
       Lifecycle!Bounded, NoSnapshot, Lifecycle!NoSnapshot

------------------------------------------------------------------------------
(* Types. *)

Row == [status: Statuses \cup NoRow, cust: Customers \cup {NoCustomer},
        total: Nat, paid: Nat, balance: Int, version: Nat, snap: Nat]

LEMMA SameRow == Row = Lifecycle!Row
BY DEF Row, Lifecycle!Row, Statuses, NoRow, Lifecycle!Statuses, Lifecycle!NoRow

LEMMA RowTypes ==
    ASSUME NEW row \in Row, NEW c \in Customers \cup {NoCustomer}, NEW t \in Nat,
           NEW e \in Nat, NEW a \in Nat
    PROVE  /\ Draft(c, t) \in Row
           /\ Edited(row, c, t) \in Row
           /\ IssuedRow(row, e) \in Row
           /\ MailedRow(row, e) \in Row
           /\ PaidRow(row, a) \in Row
           /\ CanceledRow(row) \in Row
           /\ DeletedRow(row) \in Row
           /\ LapsedRow(row) \in Row
<1>1. row.version + 1 \in Nat /\ row.paid + a \in Nat /\ t - row.paid \in Int
  BY DEF Row
<1>2. row.total - (row.paid + a) \in Int
  BY <1>1 DEF Row
<1>3. ASSUME NEW to \in Statuses PROVE Moved(row, to) \in Row
  BY <1>1, <1>3 DEF Moved, Row
<1>4. Draft(c, t) \in Row
  BY DEF Draft, Row, Statuses, NoSnapshot
<1>5. Edited(row, c, t) \in Row
  BY <1>1 DEF Edited, Row
<1>6. IssuedRow(row, e) \in Row
  BY <1>3 DEF IssuedRow, WithSnapshot, Row, Statuses
<1>7. MailedRow(row, e) \in Row
  BY <1>6 DEF MailedRow
<1>8. PaidRow(row, a) \in Row
  <2>1. Moved(row, SettledStatus(row, a)) \in Row
    BY <1>3 DEF SettledStatus, Statuses
  <2> QED BY <2>1, <1>1, <1>2 DEF PaidRow, Row
<1>9. CanceledRow(row) \in Row /\ LapsedRow(row) \in Row
  BY <1>3 DEF CanceledRow, LapsedRow, Statuses
<1>10. DeletedRow(row) \in Row
  BY DEF DeletedRow, Row, NoRow
<1> QED BY <1>4, <1>5, <1>6, <1>7, <1>8, <1>9, <1>10

\* The rows in the table came from a request's customer and total.
FromRequests(row) == Exists(row) => row.cust \in Customers /\ row.total \in Totals

LedgerInv ==
    /\ invoice \in [Invoices -> Row]
    /\ pending \in [Invoices -> Row]
    /\ \A i \in Invoices : FromRequests(invoice[i]) /\ FromRequests(pending[i])
    /\ received \in [Invoices -> Nat]
    /\ edition \in Nat \ {0}
    /\ rowLock \in [Invoices -> Workers \cup {Free}]
    /\ txn \in [Workers -> Txn]
    /\ LockDiscipline

------------------------------------------------------------------------------
(* The locks. *)

\* What justifies a flushed row is not disturbed while the row, and its holder's
\* operation, stay what they are; the owner may edit the profile meanwhile.
LEMMA JustifiedStays ==
    ASSUME NEW v \in Workers, NEW j \in Invoices, Justified(v, j),
           invoice'[j] = invoice[j], pending'[j] = pending[j],
           txn'[v].kind = txn[v].kind, txn'[v].amount = txn[v].amount,
           edition \in Nat, edition' \in Nat, edition' >= edition
    PROVE  Justified(v, j)'
<1>1. 1 .. edition \subseteq 1 .. edition'
  OBVIOUS
<1> QED BY <1>1 DEF Justified, Bounded

\* A step that touches no row and no lock.  It may move any transaction along
\* (same kind, same rows), start or forget a client's reading, and start the
\* nightly job.
LEMMA QuietStep ==
    ASSUME LedgerInv, txn' \in [Workers -> Txn],
           invoice' = invoice, received' = received, pending' = pending,
           rowLock' = rowLock, edition' \in Nat \ {0}, edition' >= edition,
           \A w \in Workers :
              \/ /\ txn'[w].kind = txn[w].kind
                 /\ txn'[w].amount = txn[w].amount
                 /\ txn'[w].rows = txn[w].rows
                 /\ Open(w)' <=> Open(w)
                 /\ txn'[w].stage = "scanning" => txn[w].stage = "scanning"
              \/ ~Open(w) /\ (Open(w)' => txn'[w].kind = "bulk")
    PROVE  LedgerInv'
<1>1. ASSUME NEW w \in Workers, NEW i \in Invoices
      PROVE  HoldsItsRow(w, i)'
  <2>1. HoldsItsRow(w, i)
    BY DEF LedgerInv, LockDiscipline
  <2>2. CASE ~Open(w) /\ (Open(w)' => txn'[w].kind = "bulk")
    BY <2>1, <2>2 DEF HoldsItsRow
  <2>3. CASE /\ txn'[w].kind = txn[w].kind
             /\ txn'[w].amount = txn[w].amount
             /\ txn'[w].rows = txn[w].rows
             /\ Open(w)' <=> Open(w)
    <3>1. /\ edition \in Nat /\ edition' \in Nat
          /\ invoice'[i] = invoice[i] /\ pending'[i] = pending[i]
          /\ rowLock'[i] = rowLock[i]
      BY DEF LedgerInv
    <3>2. ASSUME Justified(w, i) PROVE Justified(w, i)'
      BY <2>3, <3>1, <3>2, JustifiedStays
    <3> QED BY <2>1, <2>3, <3>1, <3>2 DEF HoldsItsRow
  <2> QED BY <2>2, <2>3
<1>2. ASSUME NEW w \in Workers, txn'[w].stage = "scanning"
      PROVE  txn'[w].kind = "bulk"
  BY <1>2 DEF LedgerInv, LockDiscipline, Open
<1>3. LockDiscipline'
  BY <1>1, <1>2 DEF LedgerInv, LockDiscipline
<1> QED BY <1>3 DEF LedgerInv, FromRequests

\* A request that has no row locked yet locks one and flushes its new form.
LEMMA FlushStep ==
    ASSUME LedgerInv, NEW w \in Workers, NEW i \in Invoices,
           NEW kind \in Kinds \ {"bulk"}, NEW row \in Row, FromRequests(row),
           NEW amount \in Amounts \cup {0}, NEW stage \in {"ready", "summing"},
           ~Open(w), Flush(w, kind, i, row, amount, stage), Justified(w, i)'
    PROVE  LedgerInv'
<1>1. /\ invoice' = invoice /\ received' = received /\ edition' = edition
      /\ rowLock[i] = Free
      /\ rowLock' = [rowLock EXCEPT ![i] = w]
      /\ pending' = [pending EXCEPT ![i] = row]
      /\ txn' = [txn EXCEPT ![w] = [txn[w] EXCEPT !.stage = stage, !.kind = kind,
                                           !.rows = {i}, !.amount = amount]]
  BY DEF Flush, rowVars
<1>2. /\ txn'[w] \in Txn
      /\ txn'[w].stage = stage /\ txn'[w].kind = kind /\ txn'[w].rows = {i}
      /\ \A v \in Workers \ {w} : txn'[v] = txn[v]
      /\ txn' \in [Workers -> Txn]
  <2>1. txn \in [Workers -> Txn] /\ txn[w] \in Txn
    BY DEF LedgerInv
  <2>2. PICK t : t = [txn[w] EXCEPT !.stage = stage, !.kind = kind,
                                    !.rows = {i}, !.amount = amount]
    OBVIOUS
  <2>3. t \in Txn /\ t.stage = stage /\ t.kind = kind /\ t.rows = {i}
    BY <2>1, <2>2 DEF Txn, Stages
  <2>4. txn' = [txn EXCEPT ![w] = t]
    BY <1>1, <2>2
  <2> QED BY <2>1, <2>3, <2>4
<1>3. /\ pending' \in [Invoices -> Row]
      /\ rowLock' \in [Invoices -> Workers \cup {Free}]
      /\ \A j \in Invoices : FromRequests(pending'[j])
  BY <1>1 DEF LedgerInv
<1>4. ASSUME NEW j \in Invoices, rowLock'[j] = Free PROVE pending'[j] = invoice'[j]
  <2>1. j # i
    BY <1>1, <1>4, FreeAssumption DEF LedgerInv
  <2> QED BY <2>1, <1>1, <1>4 DEF LedgerInv, LockDiscipline
<1>5. ASSUME NEW v \in Workers, NEW j \in Invoices PROVE HoldsItsRow(v, j)'
  <2>1. HoldsItsRow(v, j) /\ HoldsItsRow(w, j)
    BY DEF LedgerInv, LockDiscipline
  <2>2. rowLock[j] # w
    BY <2>1 DEF HoldsItsRow
  <2>3. CASE v = w
    <3>1. rowLock'[j] = w => j = i
      BY <2>2, <1>1 DEF LedgerInv
    <3>2. rowLock'[i] = w
      BY <1>1 DEF LedgerInv
    <3>3. Open(w)'
      BY <1>2 DEF Open
    <3> QED BY <2>3, <3>1, <3>2, <3>3, <1>2 DEF HoldsItsRow
  <2>4. CASE v # w
    <3>1. txn'[v] = txn[v]
      BY <2>4, <1>2
    <3>2. rowLock'[j] = v => j # i /\ rowLock[j] = v
      BY <2>4, <1>1 DEF LedgerInv
    <3>3. rowLock[j] = v => j # i /\ rowLock'[j] = v
      BY <1>1, FreeAssumption DEF LedgerInv
    <3>4. ASSUME j # i, Justified(v, j) PROVE Justified(v, j)'
      <4>1. /\ edition \in Nat /\ edition' \in Nat /\ edition' >= edition
            /\ invoice'[j] = invoice[j] /\ pending'[j] = pending[j]
        BY <3>4, <1>1 DEF LedgerInv
      <4> QED BY <4>1, <3>4, <3>1, JustifiedStays
    <3> QED BY <2>1, <3>1, <3>2, <3>3, <3>4 DEF HoldsItsRow, Open
  <2> QED BY <2>3, <2>4
<1>6. \A v \in Workers : txn'[v].stage = "scanning" => txn'[v].kind = "bulk"
  BY <1>2 DEF LedgerInv, LockDiscipline
<1>7. LockDiscipline'
  BY <1>4, <1>5, <1>6 DEF LockDiscipline
<1> QED BY <1>1, <1>2, <1>3, <1>7 DEF LedgerInv, FromRequests

\* The nightly job takes the lock of a row that still matches.
LEMMA BulkRowStep ==
    ASSUME LedgerInv, NEW w \in Workers, NEW i \in Invoices, BulkRow(w, i)
    PROVE  LedgerInv'
<1>1. /\ txn[w].stage = "scanning" /\ txn[w].kind = "bulk" /\ Open(w)
      /\ txn[w] \in Txn /\ rowLock[i] = Free
      /\ invoice' = invoice /\ received' = received /\ edition' = edition
  BY DEF BulkRow, rowVars, LedgerInv, LockDiscipline, Open
<1>2. txn' = [txn EXCEPT ![w].rows = txn[w].rows \ {i}]
  BY DEF BulkRow
<1>3. /\ txn' \in [Workers -> Txn]
      /\ \A v \in Workers : /\ txn'[v].stage = txn[v].stage
                            /\ txn'[v].kind = txn[v].kind
                            /\ txn'[v].amount = txn[v].amount
                            /\ v # w => txn'[v].rows = txn[v].rows
  BY <1>1, <1>2 DEF LedgerInv, Txn
<1>4. /\ pending' \in [Invoices -> Row]
      /\ rowLock' \in [Invoices -> Workers \cup {Free}]
      /\ \A j \in Invoices \ {i} : /\ pending'[j] = pending[j]
                                   /\ rowLock'[j] = rowLock[j]
      /\ \/ rowLock'[i] = Free /\ pending'[i] = pending[i]
         \/ /\ rowLock'[i] = w /\ pending'[i] = LapsedRow(invoice[i])
            /\ CanLapse(invoice[i]) /\ Bounded(invoice[i])
  <2>1. LapsedRow(invoice[i]) \in Row
    BY RowTypes DEF LedgerInv
  <2>2. CASE CanLapse(invoice[i]) /\ Bounded(invoice[i])
    BY <2>1, <2>2 DEF LedgerInv, BulkRow
  <2>3. CASE ~(CanLapse(invoice[i]) /\ Bounded(invoice[i]))
    BY <2>3, <1>1 DEF LedgerInv, BulkRow
  <2> QED BY <2>2, <2>3
<1>5. ASSUME CanLapse(invoice[i]) PROVE FromRequests(LapsedRow(invoice[i]))
  <2>1. invoice[i] \in Row /\ FromRequests(invoice[i]) /\ Exists(invoice[i])
    BY <1>5 DEF LedgerInv, CanLapse, Exists, Statuses
  <2> QED BY <2>1 DEF FromRequests, LapsedRow, Moved, Row
<1>6. \A j \in Invoices : FromRequests(pending'[j])
  BY <1>4, <1>5 DEF LedgerInv
<1>7. ASSUME NEW j \in Invoices, rowLock'[j] = Free PROVE pending'[j] = invoice'[j]
  BY <1>1, <1>4, <1>7, FreeAssumption DEF LedgerInv, LockDiscipline
<1>8. ASSUME NEW v \in Workers, NEW j \in Invoices PROVE HoldsItsRow(v, j)'
  <2>1. HoldsItsRow(v, j)
    BY DEF LedgerInv, LockDiscipline
  <2>2. Open(v)' <=> Open(v)
    BY <1>3 DEF Open
  <2>3. ASSUME rowLock[j] = v, v # w PROVE Justified(v, j)'
    <3>1. Justified(v, j) /\ j # i
      BY <2>1, <2>3, <1>1, FreeAssumption DEF HoldsItsRow
    <3>2. /\ edition \in Nat /\ edition' \in Nat /\ edition' >= edition
          /\ invoice'[j] = invoice[j] /\ pending'[j] = pending[j]
          /\ txn'[v].kind = txn[v].kind /\ txn'[v].amount = txn[v].amount
      BY <3>1, <1>1, <1>3, <1>4 DEF LedgerInv
    <3> QED BY <3>1, <3>2, JustifiedStays
  <2>4. CASE v # w
    <3>1. rowLock'[j] = v <=> rowLock[j] = v
      BY <2>4, <1>1, <1>4, FreeAssumption
    <3> QED BY <2>1, <2>2, <2>3, <2>4, <3>1, <1>3 DEF HoldsItsRow
  <2>5. CASE v = w
    <3>1. CASE j = i
      BY <2>5, <3>1, <1>1, <1>3, <1>4, FreeAssumption
         DEF HoldsItsRow, Justified, Open, Bounded
    <3>2. CASE j # i
      <4>1. ASSUME Justified(w, j) PROVE Justified(w, j)'
        <5>1. /\ edition \in Nat /\ edition' \in Nat /\ edition' >= edition
              /\ invoice'[j] = invoice[j] /\ pending'[j] = pending[j]
              /\ txn'[w].kind = txn[w].kind /\ txn'[w].amount = txn[w].amount
          BY <3>2, <1>1, <1>3, <1>4 DEF LedgerInv
        <5> QED BY <4>1, <5>1, JustifiedStays
      <4> QED BY <2>1, <2>2, <2>5, <3>2, <4>1, <1>1, <1>3, <1>4 DEF HoldsItsRow
    <3> QED BY <3>1, <3>2
  <2> QED BY <2>4, <2>5
<1>9. \A v \in Workers : txn'[v].stage = "scanning" => txn'[v].kind = "bulk"
  BY <1>3 DEF LedgerInv, LockDiscipline
<1>10. LockDiscipline'
  BY <1>7, <1>8, <1>9 DEF LockDiscipline
<1> QED BY <1>1, <1>3, <1>4, <1>6, <1>10 DEF LedgerInv, FromRequests

\* At the end of a transaction its locks go: what it had flushed is now
\* committed, or forgotten.
LEMMA EndStep ==
    ASSUME LedgerInv, NEW w \in Workers, Commit(w) \/ Abort(w)
    PROVE  LedgerInv'
<1>1. /\ edition' = edition
      /\ rowLock' = [i \in Invoices |-> IF rowLock[i] = w THEN Free ELSE rowLock[i]]
      /\ txn' = [txn EXCEPT ![w] = NoTxn]
      /\ \/ /\ invoice' = [i \in Invoices |-> Seen(w, i)]
            /\ pending' = pending
         \/ /\ invoice' = invoice
            /\ pending' = [i \in Invoices |->
                             IF rowLock[i] = w THEN invoice[i] ELSE pending[i]]
  BY DEF Commit, Abort, Release, rowVars
<1>2. /\ invoice' \in [Invoices -> Row] /\ pending' \in [Invoices -> Row]
      /\ \A i \in Invoices : FromRequests(invoice'[i]) /\ FromRequests(pending'[i])
      /\ rowLock' \in [Invoices -> Workers \cup {Free}]
      /\ \A i \in Invoices : rowLock[i] # w => /\ invoice'[i] = invoice[i]
                                               /\ pending'[i] = pending[i]
                                               /\ rowLock'[i] = rowLock[i]
      /\ \A i \in Invoices : rowLock[i] = w => /\ invoice'[i] = pending'[i]
                                               /\ rowLock'[i] = Free
  BY <1>1 DEF LedgerInv, Seen
<1>3. NoTxn \in Txn
  BY DEF NoTxn, Txn, Stages, Kinds
<1>4. /\ txn' \in [Workers -> Txn] /\ ~Open(w)'
      /\ \A v \in Workers \ {w} : txn'[v] = txn[v]
  BY <1>1, <1>3 DEF LedgerInv, Open, NoTxn
<1>5. received' \in [Invoices -> Nat]
  <2>1. CASE Abort(w)
    BY <2>1 DEF Abort, rowVars, LedgerInv
  <2>2. CASE Commit(w)
    <3>1. txn[w].amount \in Nat
      <4>1. txn[w] \in Txn
        BY DEF LedgerInv
      <4>2. txn[w].amount \in Amounts \cup {0}
        BY <4>1 DEF Txn
      <4>3. Amounts \cup {0} \subseteq Nat
        BY MoneyAssumption
      <4> QED BY <4>2, <4>3
    <3>2. \A i \in Invoices : received[i] \in Nat /\ received[i] + txn[w].amount \in Nat
      BY <3>1 DEF LedgerInv
    <3> QED BY <2>2, <3>2 DEF Commit
  <2> QED BY <2>1, <2>2
<1>6. ASSUME NEW i \in Invoices, rowLock'[i] = Free PROVE pending'[i] = invoice'[i]
  BY <1>2, <1>6 DEF LedgerInv, LockDiscipline
<1>7. ASSUME NEW v \in Workers, NEW i \in Invoices PROVE HoldsItsRow(v, i)'
  <2>1. HoldsItsRow(v, i)
    BY DEF LedgerInv, LockDiscipline
  <2>2. CASE v = w
    BY <2>2, <1>2, <1>4, FreeAssumption DEF HoldsItsRow
  <2>3. CASE v # w
    <3>1. rowLock'[i] = v <=> rowLock[i] = v
      BY <2>3, <1>2, FreeAssumption
    <3>2. txn'[v] = txn[v]
      BY <2>3, <1>4
    <3>3. ASSUME rowLock[i] = v, Justified(v, i) PROVE Justified(v, i)'
      <4>1. /\ edition \in Nat /\ edition' \in Nat /\ edition' >= edition
            /\ invoice'[i] = invoice[i] /\ pending'[i] = pending[i]
        BY <2>3, <3>3, <1>1, <1>2 DEF LedgerInv
      <4> QED BY <4>1, <3>2, <3>3, JustifiedStays
    <3> QED BY <2>1, <3>1, <3>2, <3>3 DEF HoldsItsRow, Open
  <2> QED BY <2>2, <2>3
<1>8. \A v \in Workers : txn'[v].stage = "scanning" => txn'[v].kind = "bulk"
  BY <1>4 DEF LedgerInv, LockDiscipline, Open
<1>9. LockDiscipline'
  BY <1>6, <1>7, <1>8 DEF LockDiscipline
<1> QED BY <1>1, <1>2, <1>4, <1>5, <1>9 DEF LedgerInv, FromRequests

------------------------------------------------------------------------------
(* LockDiscipline is an invariant. *)

\* The shape of every request that locks a row: what it validated under the
\* lock, and the row it flushes from it.
LEMMA Requested ==
    ASSUME LedgerInv, NEW w \in Workers, NEW i \in Invoices,
           NEW kind \in Kinds, NEW row, NEW amount, NEW stage \in Stages,
           Flush(w, kind, i, row, amount, stage)
    PROVE  /\ invoice'[i] = invoice[i] /\ edition' = edition
           /\ pending'[i] = row
           /\ txn'[w].kind = kind /\ txn'[w].amount = amount
           /\ invoice[i] \in Row /\ FromRequests(invoice[i])
           /\ edition \in 1 .. edition
<1>1. txn[w] \in Txn
  BY DEF LedgerInv
<1>2. txn' = [txn EXCEPT ![w] = [txn[w] EXCEPT !.stage = stage, !.kind = kind,
                                               !.rows = {i}, !.amount = amount]]
  BY DEF Flush
<1>3. txn'[w].kind = kind /\ txn'[w].amount = amount
  BY <1>1, <1>2 DEF LedgerInv, Txn
<1> QED BY <1>3 DEF Flush, rowVars, LedgerInv

LEMMA DraftStep ==
    ASSUME LedgerInv, NEW w \in Workers, NEW i \in Invoices,
           NEW c \in Customers, NEW t \in Totals, Create(w, i, c, t)
    PROVE  LedgerInv'
<1>1. /\ ~Open(w) /\ invoice[i].status = "absent"
      /\ Flush(w, "create", i, Draft(c, t), 0, "ready")
  BY DEF Create, Begin, Open
<1>2. Draft(c, t) \in Row /\ FromRequests(Draft(c, t))
  BY MoneyAssumption DEF Draft, Row, Statuses, NoSnapshot, FromRequests
<1>3. Justified(w, i)'
  BY <1>1, Requested DEF Justified, Kinds, Stages
<1> QED BY <1>1, <1>2, <1>3, FlushStep DEF Kinds

LEMMA EditStep ==
    ASSUME LedgerInv, NEW w \in Workers, NEW i \in Invoices,
           NEW c \in Customers, NEW t \in Totals,
           txn[w].stage = "reading", Bounded(invoice[i]), CanEdit(invoice[i], t),
           Flush(w, "edit", i, Edited(invoice[i], c, t), 0, "ready")
    PROVE  LedgerInv'
<1>1. t \in Nat /\ invoice[i] \in Row
  BY MoneyAssumption DEF LedgerInv
<1>2. Edited(invoice[i], c, t) \in Row
  BY <1>1, RowTypes
<1>3. FromRequests(Edited(invoice[i], c, t))
  BY <1>1 DEF FromRequests, Edited, Row
<1>4. Justified(w, i)'
  BY Requested DEF Justified, Kinds, Stages, Bounded
<1> QED BY <1>2, <1>3, <1>4, FlushStep DEF Kinds, Open

\* The other operations keep the customer and the total.
LEMMA KeepsRequest ==
    ASSUME NEW row \in Row, NEW e, NEW a,
           FromRequests(row)
    PROVE  /\ CanIssue(row) => FromRequests(IssuedRow(row, e))
           /\ CanMail(row) => FromRequests(MailedRow(row, e))
           /\ CanPay(row, a) => FromRequests(PaidRow(row, a))
           /\ CanCancel(row) => FromRequests(CanceledRow(row))
           /\ CanDelete(row) => FromRequests(DeletedRow(row))
<1>1. ASSUME NEW to PROVE /\ Moved(row, to).cust = row.cust
                          /\ Moved(row, to).total = row.total
  BY DEF Moved, Row
<1>2. /\ IssuedRow(row, e).cust = row.cust /\ IssuedRow(row, e).total = row.total
  BY <1>1 DEF IssuedRow, WithSnapshot, Moved, Row
<1>3. CanIssue(row) => FromRequests(IssuedRow(row, e))
  BY <1>2 DEF CanIssue, CanMove, FromRequests, Exists, Statuses
<1>4. CanMail(row) => FromRequests(MailedRow(row, e))
  BY <1>2 DEF CanMail, MailedRow, FromRequests, Exists, Statuses
<1>5. CanPay(row, a) => FromRequests(PaidRow(row, a))
  BY <1>1 DEF CanPay, PaidRow, FromRequests, Exists, Statuses, Moved, Row
<1>6. CanCancel(row) => FromRequests(CanceledRow(row))
  BY <1>1 DEF CanCancel, CanMove, CanceledRow, FromRequests, Exists, Statuses
<1>7. CanDelete(row) => FromRequests(DeletedRow(row))
  BY DEF CanDelete, DeletedRow, FromRequests, Exists, Statuses, Row
<1> QED BY <1>3, <1>4, <1>5, <1>6, <1>7

LEMMA PayStep ==
    ASSUME LedgerInv, NEW w \in Workers, NEW i \in Invoices, NEW a \in Amounts,
           RecordPayment(w, i, a)
    PROVE  LedgerInv'
<1> DEFINE row == invoice[i]
<1>1. row \in Row /\ FromRequests(row) /\ a \in Nat
  BY MoneyAssumption DEF LedgerInv
<1>2. PaidRow(row, a) \in Row
  BY <1>1, RowTypes
<1>3. /\ ~Open(w) /\ Bounded(row) /\ CanPay(row, a)
      /\ Flush(w, "pay", i, PaidRow(row, a), a, "summing")
  BY DEF RecordPayment, Begin, Open
<1>4. FromRequests(PaidRow(row, a))
  BY <1>1, <1>3, KeepsRequest
<1>5. Justified(w, i)'
  BY <1>3, Requested DEF Justified, Kinds, Stages, Bounded
<1> QED BY <1>2, <1>3, <1>4, <1>5, FlushStep DEF Kinds

LEMMA MoveStep ==
    ASSUME LedgerInv, NEW w \in Workers, NEW i \in Invoices,
           MarkAsSent(w, i) \/ Send(w, i) \/ Cancel(w, i) \/ Delete(w, i)
    PROVE  LedgerInv'
<1> DEFINE row == invoice[i]
<1>1. /\ row \in Row /\ FromRequests(row)
      /\ edition \in Nat /\ edition \in 1 .. edition
  BY DEF LedgerInv
<1>2. /\ IssuedRow(row, edition) \in Row /\ MailedRow(row, edition) \in Row
      /\ CanceledRow(row) \in Row /\ DeletedRow(row) \in Row
  BY <1>1, RowTypes
<1>3. /\ CanIssue(row) => FromRequests(IssuedRow(row, edition))
      /\ CanMail(row) => FromRequests(MailedRow(row, edition))
      /\ CanCancel(row) => FromRequests(CanceledRow(row))
      /\ CanDelete(row) => FromRequests(DeletedRow(row))
  BY <1>1, KeepsRequest
<1>4. CASE MarkAsSent(w, i)
  <2>1. /\ ~Open(w) /\ Bounded(row) /\ CanIssue(row)
        /\ Flush(w, "issue", i, IssuedRow(row, edition), 0, "ready")
    BY <1>4 DEF MarkAsSent, Begin, Open
  <2>2. Justified(w, i)'
    BY <2>1, <1>1, Requested DEF Justified, Kinds, Stages, Bounded
  <2> QED BY <2>1, <2>2, <1>2, <1>3, FlushStep DEF Kinds
<1>5. CASE Send(w, i)
  <2>1. /\ ~Open(w) /\ Bounded(row) /\ CanMail(row)
        /\ Flush(w, "send", i, MailedRow(row, edition), 0, "ready")
    BY <1>5 DEF Send, Begin, Open
  <2>2. Justified(w, i)'
    BY <2>1, <1>1, Requested DEF Justified, Kinds, Stages, Bounded
  <2> QED BY <2>1, <2>2, <1>2, <1>3, FlushStep DEF Kinds
<1>6. CASE Cancel(w, i)
  <2>1. /\ ~Open(w) /\ Bounded(row) /\ CanCancel(row)
        /\ Flush(w, "cancel", i, CanceledRow(row), 0, "summing")
    BY <1>6 DEF Cancel, Begin, Open
  <2>2. Justified(w, i)'
    BY <2>1, Requested DEF Justified, Kinds, Stages, Bounded
  <2> QED BY <2>1, <2>2, <1>2, <1>3, FlushStep DEF Kinds
<1>7. CASE Delete(w, i)
  <2>1. /\ ~Open(w) /\ CanDelete(row)
        /\ Flush(w, "delete", i, DeletedRow(row), 0, "ready")
    BY <1>7 DEF Delete, Begin, Open
  <2>2. Justified(w, i)'
    BY <2>1, Requested DEF Justified, Kinds, Stages
  <2> QED BY <2>1, <2>2, <1>2, <1>3, FlushStep DEF Kinds
<1> QED BY <1>4, <1>5, <1>6, <1>7

LEMMA LedgerInit == Init => LedgerInv
<1> SUFFICES ASSUME Init PROVE LedgerInv
  OBVIOUS
<1>1. /\ invoice = [i \in Invoices |-> Lifecycle!Absent(NoCustomer)]
      /\ pending = invoice
      /\ received = [i \in Invoices |-> 0] /\ edition = 1
      /\ rowLock = [i \in Invoices |-> Free]
      /\ txn = [w \in Workers |-> NoTxn]
  BY DEF Init, Lifecycle!Init
<1>2. /\ Lifecycle!Absent(NoCustomer) \in Row
      /\ FromRequests(Lifecycle!Absent(NoCustomer))
  BY DEF Lifecycle!Absent, Lifecycle!NoSnapshot, Row, NoRow, FromRequests,
         Exists, Statuses
<1>3. NoTxn \in Txn /\ \A w \in Workers : ~Open(w)
  BY <1>1 DEF NoTxn, Txn, Stages, Kinds, Open
<1>4. \A w \in Workers, i \in Invoices : HoldsItsRow(w, i)
  BY <1>1, <1>3, FreeAssumption DEF HoldsItsRow
<1>5. LockDiscipline
  BY <1>1, <1>4 DEF LockDiscipline, NoTxn
<1> QED BY <1>1, <1>2, <1>3, <1>5 DEF LedgerInv

LEMMA LedgerStep == LedgerInv /\ [Next]_vars => LedgerInv'
<1> SUFFICES ASSUME LedgerInv, [Next]_vars PROVE LedgerInv'
  OBVIOUS
<1>0. /\ txn \in [Workers -> Txn] /\ edition \in Nat \ {0} /\ edition >= edition
      /\ \A i \in Invoices : invoice[i] \in Row /\ FromRequests(invoice[i])
  BY DEF LedgerInv
<1>1. ASSUME NEW w \in Workers, Request(w) PROVE LedgerInv'
  <2>1. ASSUME NEW i \in Invoices, NEW c \in Customers, NEW t \in Totals,
               Create(w, i, c, t)
        PROVE  LedgerInv'
    BY <2>1, DraftStep
  <2>2. ASSUME NEW i \in Invoices, NEW source \in Invoices, Duplicate(w, i, source)
        PROVE  LedgerInv'
    <3>1. /\ Create(w, i, invoice[source].cust, invoice[source].total)
          /\ invoice[source].cust \in Customers /\ invoice[source].total \in Totals
      BY <2>2, <1>0 DEF Duplicate, FromRequests
    <3> QED BY <3>1, DraftStep
  <2>3. ASSUME NEW i \in Invoices, Read(w, i) PROVE LedgerInv'
    <3>1. txn' = [txn EXCEPT ![w] = [txn[w] EXCEPT !.stage = "reading", !.rows = {i},
                                                   !.base = invoice[i].version]]
      BY <2>3 DEF Read
    <3>2. txn[w] \in Txn /\ txn[w].stage = "idle" /\ invoice[i].version \in Nat
      BY <2>3, <1>0 DEF Read, Row
    <3>3. /\ txn' \in [Workers -> Txn] /\ txn'[w].stage = "reading"
          /\ \A v \in Workers \ {w} : txn'[v] = txn[v]
      BY <3>1, <3>2, <1>0 DEF Txn, Stages
    <3>4. ~Open(w) /\ ~Open(w)'
      BY <3>2, <3>3 DEF Open
    <3> QED BY <3>3, <3>4, <2>3, <1>0, QuietStep DEF Read, rowVars, Open
  <2>4. ASSUME NEW c \in Customers, NEW t \in Totals, Edit(w, c, t)
        PROVE  LedgerInv'
    <3>1. PICK i \in txn[w].rows :
             /\ Bounded(invoice[i]) /\ CanEdit(invoice[i], t)
             /\ Flush(w, "edit", i, Edited(invoice[i], c, t), 0, "ready")
      BY <2>4 DEF Edit
    <3>2. i \in Invoices /\ txn[w].stage = "reading"
      BY <2>4, <1>0 DEF Edit, Txn
    <3> QED BY <3>1, <3>2, EditStep
  <2>5. ASSUME Leave(w) PROVE LedgerInv'
    <3>1. /\ txn' = [txn EXCEPT ![w] = NoTxn] /\ txn[w].stage = "reading"
          /\ NoTxn \in Txn /\ NoTxn.stage = "idle"
      BY <2>5 DEF Leave, NoTxn, Txn, Stages, Kinds
    <3>2. /\ txn' \in [Workers -> Txn] /\ txn'[w].stage = "idle"
          /\ \A v \in Workers \ {w} : txn'[v] = txn[v]
      BY <3>1, <1>0
    <3>3. ~Open(w) /\ ~Open(w)'
      BY <3>1, <3>2 DEF Open
    <3> QED BY <3>2, <3>3, <2>5, <1>0, QuietStep DEF Leave, rowVars, Open
  <2>6. ASSUME NEW late \in SUBSET Invoices, BulkScan(w, late) PROVE LedgerInv'
    <3> DEFINE matched == {i \in late : CanLapse(invoice[i])}
    <3>1. txn' = [txn EXCEPT ![w] = [txn[w] EXCEPT !.stage = "scanning",
                                           !.kind = "bulk", !.rows = matched]]
      BY <2>6 DEF BulkScan
    <3>2. txn[w] \in Txn /\ txn[w].stage = "idle" /\ matched \in SUBSET Invoices
      BY <2>6, <1>0 DEF BulkScan
    <3> HIDE DEF matched
    <3>3. /\ txn' \in [Workers -> Txn] /\ txn'[w].kind = "bulk"
          /\ \A v \in Workers \ {w} : txn'[v] = txn[v]
      BY <3>1, <3>2, <1>0 DEF Txn, Stages, Kinds
    <3>4. ~Open(w)
      BY <3>2 DEF Open
    <3> QED BY <3>3, <3>4, <2>6, <1>0, QuietStep DEF BulkScan, rowVars, Open
  <2>7. ASSUME NEW i \in Invoices,
               MarkAsSent(w, i) \/ Send(w, i) \/ Cancel(w, i) \/ Delete(w, i)
        PROVE  LedgerInv'
    BY <2>7, MoveStep
  <2>8. ASSUME NEW i \in Invoices, NEW a \in Amounts, RecordPayment(w, i, a)
        PROVE  LedgerInv'
    BY <2>8, PayStep
  <2> QED
    BY <1>1, <2>1, <2>2, <2>3, <2>4, <2>5, <2>6, <2>7, <2>8 DEF Request
<1>2. ASSUME NEW w \in Workers, NEW from \in Stages, NEW to \in Stages \ {"scanning"},
             from \notin {"idle", "reading"}, to \notin {"idle", "reading"},
             txn[w].stage = from, txn' = [txn EXCEPT ![w].stage = to],
             UNCHANGED <<rowVars, pending, rowLock>>
      PROVE  LedgerInv'
  <2>1. txn[w] \in Txn
    BY <1>0
  <2>2. /\ txn' \in [Workers -> Txn] /\ txn'[w] = [txn[w] EXCEPT !.stage = to]
        /\ \A v \in Workers \ {w} : txn'[v] = txn[v]
    BY <2>1, <1>2, <1>0 DEF Txn
  <2>3. /\ txn'[w].kind = txn[w].kind /\ txn'[w].amount = txn[w].amount
        /\ txn'[w].rows = txn[w].rows /\ txn'[w].stage = to
    BY <2>1, <2>2 DEF Txn
  <2>4. Open(w) /\ Open(w)'
    BY <2>3, <1>2 DEF Open
  <2> QED BY <2>2, <2>3, <2>4, <1>2, <1>0, QuietStep DEF rowVars, Open
<1>3. ASSUME NEW w \in Workers, Proceed(w) PROVE LedgerInv'
  <2>1. CASE SumOutstanding(w)
    <3>1. /\ txn[w].stage = "summing" /\ txn' = [txn EXCEPT ![w].stage = "loading"]
          /\ UNCHANGED <<rowVars, pending, rowLock>>
      BY <2>1 DEF SumOutstanding
    <3>2. "summing" \in Stages /\ "loading" \in Stages \ {"scanning"}
      BY DEF Stages
    <3> QED BY <3>1, <3>2, <1>2
  <2>2. CASE LoadCustomer(w)
    <3>1. /\ txn[w].stage = "loading" /\ txn' = [txn EXCEPT ![w].stage = "writing"]
          /\ UNCHANGED <<rowVars, pending, rowLock>>
      BY <2>2 DEF LoadCustomer
    <3>2. "loading" \in Stages /\ "writing" \in Stages \ {"scanning"}
      BY DEF Stages
    <3> QED BY <3>1, <3>2, <1>2
  <2>3. CASE WriteCustomer(w)
    <3>1. /\ txn[w].stage = "writing" /\ txn' = [txn EXCEPT ![w].stage = "ready"]
          /\ UNCHANGED <<rowVars, pending, rowLock>>
      BY <2>3 DEF WriteCustomer
    <3>2. "writing" \in Stages /\ "ready" \in Stages \ {"scanning"}
      BY DEF Stages
    <3> QED BY <3>1, <3>2, <1>2
  <2>4. CASE BulkDone(w)
    <3>1. /\ txn[w].stage = "scanning" /\ txn' = [txn EXCEPT ![w].stage = "ready"]
          /\ UNCHANGED <<rowVars, pending, rowLock>>
      BY <2>4 DEF BulkDone
    <3>2. "scanning" \in Stages /\ "ready" \in Stages \ {"scanning"}
      BY DEF Stages
    <3> QED BY <3>1, <3>2, <1>2
  <2>5. CASE \E i \in Invoices : BulkRow(w, i)
    BY <2>5, BulkRowStep
  <2>6. CASE Commit(w)
    BY <2>6, EndStep
  <2> QED BY <1>3, <2>1, <2>2, <2>3, <2>4, <2>5, <2>6 DEF Proceed
<1>4. ASSUME NEW w \in Workers, Abort(w) PROVE LedgerInv'
  BY <1>4, EndStep
<1>5. CASE EditOwner
  <2>1. edition' \in Nat \ {0} /\ edition' >= edition
    BY <1>5, <1>0 DEF EditOwner
  <2> QED BY <2>1, <1>5, <1>0, QuietStep DEF EditOwner, Open
<1>6. CASE UNCHANGED vars
  BY <1>6, <1>0, QuietStep DEF vars, rowVars, Open
<1> QED BY <1>1, <1>3, <1>4, <1>5, <1>6 DEF Next

\* For any number of concurrent requests: what is pending for a row is the
\* row's lock holder's, and nothing that commits invalidates it.
THEOREM LocksProtectRows == Spec => []LockDiscipline
<1>1. LedgerInv => LockDiscipline
  BY DEF LedgerInv
<1> QED BY LedgerInit, LedgerStep, <1>1, PTL DEF Spec

------------------------------------------------------------------------------
(* The optimistic lock. *)

\* The row an edit has flushed over is still, as committed, the one its client read.
EditsFit ==
    \A w \in Workers :
        Open(w) /\ txn[w].kind = "edit" =>
            \A i \in txn[w].rows : invoice[i].version = txn[w].base

\* Nobody else's commit changes a row while an edit of it is open.
LEMMA OpenEditsKeepTheirRow ==
    ASSUME LedgerInv, NEW w \in Workers, invoice' = invoice \/ Commit(w),
           NEW v \in Workers \ {w}, Open(v), txn[v].kind = "edit", NEW i \in txn[v].rows
    PROVE  invoice'[i] = invoice[i]
<1>1. i \in Invoices /\ HoldsItsRow(v, i)
  BY DEF LedgerInv, Txn, LockDiscipline
<1>2. rowLock[i] = v
  BY <1>1 DEF HoldsItsRow
<1>3. CASE Commit(w)
  <2>1. invoice'[i] = Seen(w, i)
    BY <1>1, <1>3 DEF Commit
  <2> QED BY <1>2, <2>1 DEF Seen
<1> QED BY <1>3

\* A request on a row is an edit only if it is Edit, and then of the version it names.
LEMMA FlushedEditsFit ==
    ASSUME LedgerInv, EditsFit, NEW w \in Workers, NEW i \in Invoices,
           NEW kind \in Kinds, NEW row, NEW amount \in Amounts \cup {0},
           NEW stage \in Stages, Flush(w, kind, i, row, amount, stage),
           kind = "edit" => invoice[i].version = txn[w].base
    PROVE  EditsFit'
<1>1. /\ txn \in [Workers -> Txn] /\ invoice' = invoice
      /\ txn' = [txn EXCEPT ![w] = [txn[w] EXCEPT !.stage = stage, !.kind = kind,
                                           !.rows = {i}, !.amount = amount]]
  BY DEF LedgerInv, Flush, rowVars
<1>2. /\ txn'[w].kind = kind /\ txn'[w].rows = {i} /\ txn'[w].base = txn[w].base
      /\ \A v \in Workers \ {w} : txn'[v] = txn[v]
  BY <1>1 DEF Txn
<1>3. ASSUME NEW v \in Workers, Open(v)', txn'[v].kind = "edit", NEW j \in txn'[v].rows
      PROVE  invoice'[j].version = txn'[v].base
  <2>1. CASE v = w
    BY <1>1, <1>2, <1>3, <2>1
  <2>2. CASE v # w
    BY <1>1, <1>2, <1>3, <2>2 DEF EditsFit, Open
  <2> QED BY <2>1, <2>2
<1> QED BY <1>3 DEF EditsFit

\* Every other step keeps the open edits that are there, and opens none.
LEMMA OtherStepsFit ==
    ASSUME LedgerInv, EditsFit, NEW w \in Workers, invoice' = invoice \/ Commit(w),
           \A v \in Workers \ {w} : txn'[v] = txn[v],
           Open(w)' /\ txn'[w].kind = "edit" =>
               Open(w) /\ invoice' = invoice /\ txn'[w].rows = txn[w].rows
                 /\ txn'[w].base = txn[w].base /\ txn[w].kind = "edit"
    PROVE  EditsFit'
<1>1. ASSUME NEW v \in Workers, Open(v)', txn'[v].kind = "edit", NEW j \in txn'[v].rows
      PROVE  invoice'[j].version = txn'[v].base
  <2>1. CASE v = w
    BY <1>1, <2>1 DEF EditsFit
  <2>2. CASE v # w
    <3>1. Open(v) /\ txn[v].kind = "edit" /\ j \in txn[v].rows /\ txn'[v] = txn[v]
      BY <1>1, <2>2 DEF Open
    <3>2. invoice'[j] = invoice[j]
      BY <2>2, <3>1, OpenEditsKeepTheirRow
    <3> QED BY <3>1, <3>2 DEF EditsFit
  <2> QED BY <2>1, <2>2
<1> QED BY <1>1 DEF EditsFit

LEMMA EditsFitStep == LedgerInv /\ EditsFit /\ [Next]_vars => EditsFit'
<1> SUFFICES ASSUME LedgerInv, EditsFit, [Next]_vars PROVE EditsFit'
  OBVIOUS
<1>1. txn \in [Workers -> Txn]
  BY DEF LedgerInv
<1>2. ASSUME NEW w \in Workers, NEW i \in Invoices, NEW kind \in Kinds \ {"edit"},
             NEW row, NEW amount \in Amounts \cup {0}, NEW stage \in Stages,
             Begin(w, kind, i, row, amount, stage)
      PROVE  EditsFit'
  BY <1>2, FlushedEditsFit DEF Begin
<1>3. /\ {"create", "issue", "send", "pay", "cancel", "delete"} \subseteq Kinds \ {"edit"}
      /\ "edit" \in Kinds /\ "ready" \in Stages /\ "summing" \in Stages
  BY DEF Kinds, Stages
<1>4. ASSUME NEW w \in Workers, Request(w) PROVE EditsFit'
  <2>1. ASSUME NEW i \in Invoices, NEW c, NEW t, Create(w, i, c, t) PROVE EditsFit'
    BY <1>2, <1>3, <2>1 DEF Create
  <2>2. ASSUME NEW i \in Invoices, NEW source \in Invoices, Duplicate(w, i, source)
        PROVE  EditsFit'
    BY <2>1, <2>2 DEF Duplicate
  <2>3. ASSUME NEW i \in Invoices, Read(w, i) PROVE EditsFit'
    <3>1. invoice' = invoice /\ txn' = [txn EXCEPT ![w] =
              [txn[w] EXCEPT !.stage = "reading", !.rows = {i},
                             !.base = invoice[i].version]]
      BY <2>3 DEF Read, rowVars
    <3>2. txn'[w].stage = "reading" /\ \A v \in Workers \ {w} : txn'[v] = txn[v]
      BY <1>1, <3>1 DEF Txn
    <3>3. ~Open(w)'
      BY <3>2 DEF Open
    <3> QED BY <3>1, <3>2, <3>3, OtherStepsFit
  <2>4. ASSUME NEW c \in Customers, NEW t \in Totals, Edit(w, c, t) PROVE EditsFit'
    <3>1. PICK i \in txn[w].rows :
             /\ invoice[i].version = txn[w].base
             /\ Flush(w, "edit", i, Edited(invoice[i], c, t), 0, "ready")
      BY <2>4 DEF Edit
    <3>2. i \in Invoices
      BY <1>1 DEF Txn
    <3> QED BY <1>3, <3>1, <3>2, FlushedEditsFit
  <2>5. ASSUME Leave(w) PROVE EditsFit'
    <3>1. invoice' = invoice /\ txn' = [txn EXCEPT ![w] = NoTxn]
      BY <2>5 DEF Leave, rowVars
    <3>2. ~Open(w)' /\ \A v \in Workers \ {w} : txn'[v] = txn[v]
      BY <1>1, <3>1 DEF Open, NoTxn
    <3> QED BY <3>1, <3>2, OtherStepsFit
  <2>6. ASSUME NEW late \in SUBSET Invoices, BulkScan(w, late) PROVE EditsFit'
    <3> PICK matched : matched = {i \in late : CanLapse(invoice[i])}
      OBVIOUS
    <3>1. invoice' = invoice /\ txn' = [txn EXCEPT ![w] =
              [txn[w] EXCEPT !.stage = "scanning", !.kind = "bulk", !.rows = matched]]
      BY <2>6 DEF BulkScan, rowVars
    <3>2. txn'[w].kind = "bulk" /\ \A v \in Workers \ {w} : txn'[v] = txn[v]
      BY <1>1, <3>1 DEF Txn
    <3> QED BY <3>1, <3>2, OtherStepsFit
  <2>7. ASSUME NEW i \in Invoices,
               MarkAsSent(w, i) \/ Send(w, i) \/ Cancel(w, i) \/ Delete(w, i)
        PROVE  EditsFit'
    BY <1>2, <1>3, <2>7 DEF MarkAsSent, Send, Cancel, Delete
  <2>8. ASSUME NEW i \in Invoices, NEW a \in Amounts, RecordPayment(w, i, a)
        PROVE  EditsFit'
    BY <1>2, <1>3, <2>8 DEF RecordPayment
  <2> QED
    BY <1>4, <2>1, <2>2, <2>3, <2>4, <2>5, <2>6, <2>7, <2>8 DEF Request
<1>5. ASSUME NEW w \in Workers, NEW to \in Stages, txn' = [txn EXCEPT ![w].stage = to],
             Open(w), invoice' = invoice
      PROVE  EditsFit'
  <2>1. /\ txn'[w].kind = txn[w].kind /\ txn'[w].rows = txn[w].rows
        /\ txn'[w].base = txn[w].base
        /\ \A v \in Workers \ {w} : txn'[v] = txn[v]
    BY <1>1, <1>5 DEF Txn
  <2> QED BY <1>5, <2>1, OtherStepsFit
<1>6. ASSUME NEW w \in Workers, Commit(w) \/ Abort(w) PROVE EditsFit'
  <2>1. txn' = [txn EXCEPT ![w] = NoTxn] /\ (invoice' = invoice \/ Commit(w))
    BY <1>6 DEF Commit, Abort, Release, rowVars
  <2>2. ~Open(w)' /\ \A v \in Workers \ {w} : txn'[v] = txn[v]
    BY <1>1, <2>1 DEF Open, NoTxn
  <2> QED BY <2>1, <2>2, OtherStepsFit
<1>7. ASSUME NEW w \in Workers, Proceed(w) PROVE EditsFit'
  <2>1. CASE SumOutstanding(w) \/ LoadCustomer(w) \/ WriteCustomer(w) \/ BulkDone(w)
    BY <1>5, <2>1 DEF SumOutstanding, LoadCustomer, WriteCustomer, BulkDone, Open,
                      Stages, rowVars
  <2>2. ASSUME NEW i \in Invoices, BulkRow(w, i) PROVE EditsFit'
    <3>1. /\ invoice' = invoice /\ txn[w].kind = "bulk"
          /\ txn' = [txn EXCEPT ![w].rows = txn[w].rows \ {i}]
      BY <2>2 DEF BulkRow, rowVars, LedgerInv, LockDiscipline
    <3>2. txn'[w].kind = "bulk" /\ \A v \in Workers \ {w} : txn'[v] = txn[v]
      BY <1>1, <3>1 DEF Txn
    <3> QED BY <3>1, <3>2, OtherStepsFit
  <2> QED BY <1>6, <1>7, <2>1, <2>2 DEF Proceed
<1>8. CASE EditOwner \/ UNCHANGED vars
  BY <1>8 DEF EditOwner, vars, EditsFit, Open
<1> QED BY <1>4, <1>6, <1>7, <1>8 DEF Next

\* An edit commits only over the version its client had read, however many
\* requests race and however long ago that was: assert_version under the row lock
\* (common/database.py), which nobody gives up before the commit.
THEOREM EditsAreNeverLost == Spec => NoLostEdit
<1>1. Init => EditsFit
  BY DEF Init, EditsFit, Open, NoTxn
<1>2. LedgerInv /\ EditsFit /\ [Next]_vars =>
        [\A w \in Workers :
            /\ txn[w].kind = "edit"
            /\ Commit(w)
            => \A i \in txn[w].rows : invoice[i].version = txn[w].base]_vars
  BY DEF EditsFit, Commit, Open
<1> QED BY LedgerInit, LedgerStep, EditsFitStep, <1>1, <1>2, PTL DEF Spec, NoLostEdit

------------------------------------------------------------------------------
(* Every commit is one atomic operation of InvoiceLifecycle. *)

LEMMA BulkCommit ==
    ASSUME LedgerInv, NEW w \in Workers, Commit(w), txn[w].kind = "bulk"
    PROVE  Lifecycle!Next
<1> DEFINE S == {i \in Invoices : rowLock[i] = w}
<1>1. /\ invoice' = [i \in Invoices |-> IF i \in S THEN Lifecycle!LapsedRow(invoice[i])
                                                   ELSE invoice[i]]
      /\ \A i \in S : Lifecycle!Bounded(invoice[i]) /\ Lifecycle!CanLapse(invoice[i])
  <2>1. ASSUME NEW i \in S
        PROVE  /\ Bounded(invoice[i]) /\ CanLapse(invoice[i])
               /\ pending[i] = LapsedRow(invoice[i])
    BY DEF LedgerInv, LockDiscipline, HoldsItsRow, Justified
  <2>2. \A i \in S : /\ Lifecycle!Bounded(invoice[i]) /\ Lifecycle!CanLapse(invoice[i])
                     /\ pending[i] = Lifecycle!LapsedRow(invoice[i])
    BY <2>1, SameRules
  <2> QED BY <2>2 DEF Commit, Seen
<1>2. /\ received' = received /\ mailed' = mailed /\ edition' = edition
  BY DEF Commit, Paying, LedgerInv
<1>3. Lifecycle!Lapse(S)
  BY <1>1, <1>2 DEF Lifecycle!Lapse
<1> QED BY <1>3 DEF Lifecycle!Next

LEMMA RequestCommit ==
    ASSUME LedgerInv, NEW w \in Workers, Commit(w), txn[w].kind # "bulk",
           NEW i \in Invoices, rowLock[i] = w
    PROVE  Lifecycle!Next
<1> DEFINE old == invoice[i]  new == pending[i]
<1>1. Justified(w, i) /\ txn[w].rows = {i}
  BY DEF LedgerInv, LockDiscipline, HoldsItsRow
<1>2. \A j \in Invoices \ {i} : rowLock[j] # w
  BY DEF LedgerInv, LockDiscipline, HoldsItsRow
<1>3. Lifecycle!Put(i, new)
  BY <1>2 DEF Commit, Seen, LedgerInv, Lifecycle!Put
<1>4. /\ txn[w].kind # "pay" => received' = received
      /\ txn[w].kind = "pay" => received' = [received EXCEPT ![i] = @ + txn[w].amount]
      /\ txn[w].kind # "send" => mailed' = mailed
      /\ txn[w].kind = "send" => mailed' = mailed \cup {i}
  BY <1>1 DEF Commit, Paying, LedgerInv
<1>5. CASE txn[w].kind = "create"
  <2>1. PICK c \in Customers, t \in Totals : new = Lifecycle!Draft(c, t)
    BY <1>1, <1>5, SameRules DEF Justified
  <2>2. old.status = "absent"
    BY <1>1, <1>5 DEF Justified
  <2>3. Lifecycle!Create(i, c, t)
    BY <2>1, <2>2, <1>3, <1>4, <1>5 DEF Lifecycle!Create
  <2> QED BY <2>3 DEF Lifecycle!Next
<1>6. CASE txn[w].kind = "edit"
  <2>1. PICK c \in Customers, t \in Totals :
           CanEdit(old, t) /\ new = Edited(old, c, t) /\ Bounded(old)
    BY <1>1, <1>6 DEF Justified
  <2>2. Lifecycle!Edit(i, c, t)
    BY <2>1, SameRules, <1>3, <1>4, <1>6 DEF Lifecycle!Edit
  <2> QED BY <2>2 DEF Lifecycle!Next
<1>7. CASE txn[w].kind = "issue"
  <2>1. PICK e \in 1 .. edition : new = IssuedRow(old, e)
    BY <1>1, <1>7 DEF Justified
  <2>2. Bounded(old) /\ CanIssue(old)
    BY <1>1, <1>7 DEF Justified
  <2>3. Lifecycle!Issue(i)
    BY <2>1, <2>2, SameRules, <1>3, <1>4, <1>7 DEF Lifecycle!Issue
  <2> QED BY <2>3 DEF Lifecycle!Next
<1>8. CASE txn[w].kind = "send"
  <2>1. PICK e \in 1 .. edition : new = MailedRow(old, e)
    BY <1>1, <1>8 DEF Justified
  <2>2. Bounded(old) /\ CanMail(old)
    BY <1>1, <1>8 DEF Justified
  <2>3. Lifecycle!Mail(i)
    BY <2>1, <2>2, SameRules, <1>3, <1>4, <1>8 DEF Lifecycle!Mail
  <2> QED BY <2>3 DEF Lifecycle!Next
<1>9. CASE txn[w].kind = "pay"
  <2> DEFINE a == txn[w].amount
  <2>1. a \in Amounts /\ Bounded(old) /\ CanPay(old, a) /\ new = PaidRow(old, a)
    BY <1>1, <1>9 DEF Justified
  <2>2. Lifecycle!Pay(i, a)
    BY <2>1, SameRules, <1>3, <1>4, <1>9 DEF Lifecycle!Pay
  <2> QED BY <2>1, <2>2 DEF Lifecycle!Next
<1>10. CASE txn[w].kind = "cancel"
  <2>1. Bounded(old) /\ CanCancel(old) /\ new = CanceledRow(old)
    BY <1>1, <1>10 DEF Justified
  <2>2. Lifecycle!Cancel(i)
    BY <2>1, SameRules, <1>3, <1>4, <1>10 DEF Lifecycle!Cancel
  <2> QED BY <2>2 DEF Lifecycle!Next
<1>11. CASE txn[w].kind = "delete"
  <2>1. CanDelete(old) /\ new = DeletedRow(old)
    BY <1>1, <1>11 DEF Justified
  <2>2. Lifecycle!Delete(i)
    BY <2>1, SameRules, <1>3, <1>4, <1>11 DEF Lifecycle!Delete
  <2> QED BY <2>2 DEF Lifecycle!Next
<1> QED BY <1>1, <1>5, <1>6, <1>7, <1>8, <1>9, <1>10, <1>11 DEF Justified

LEMMA CommitIsAtomic ==
    ASSUME LedgerInv, NEW w \in Workers, Commit(w)
    PROVE  [Lifecycle!Next]_rowVars
<1>1. CASE txn[w].kind = "bulk"
  BY <1>1, BulkCommit
<1>2. CASE txn[w].kind # "bulk" /\ \E i \in Invoices : rowLock[i] = w
  BY <1>2, RequestCommit
<1>3. CASE txn[w].kind # "bulk" /\ \A i \in Invoices : rowLock[i] # w
  <2>1. Open(w) /\ txn[w].rows \subseteq Invoices
    BY DEF Commit, Open, LedgerInv, Txn
  <2>2. txn[w].rows = {}
    BY <2>1, <1>3 DEF LedgerInv, LockDiscipline, HoldsItsRow
  <2>3. invoice' = invoice /\ received' = received /\ mailed' = mailed
    BY <2>2, <1>3 DEF Commit, Seen, Paying, LedgerInv
  <2> QED BY <2>3 DEF Commit, rowVars
<1> QED BY <1>1, <1>2, <1>3

LEMMA StepImplements ==
    LedgerInv /\ [Next]_vars => [Lifecycle!Next]_Lifecycle!vars
<1> SUFFICES ASSUME LedgerInv, [Next]_vars PROVE [Lifecycle!Next]_rowVars
  BY DEF rowVars, Lifecycle!vars
<1>1. ASSUME NEW w \in Workers, Request(w) PROVE UNCHANGED rowVars
  BY <1>1 DEF Request, Create, Duplicate, Begin, Read, Edit, Leave, MarkAsSent, Send,
     RecordPayment, Cancel, Delete, BulkScan, Flush
<1>2. ASSUME NEW w \in Workers, Proceed(w) PROVE [Lifecycle!Next]_rowVars
  <2>1. CASE Commit(w)
    BY <2>1, CommitIsAtomic
  <2>2. CASE \/ SumOutstanding(w) \/ LoadCustomer(w) \/ WriteCustomer(w)
             \/ BulkDone(w) \/ \E i \in Invoices : BulkRow(w, i)
    BY <2>2 DEF SumOutstanding, LoadCustomer, WriteCustomer, BulkRow, BulkDone
  <2> QED BY <1>2, <2>1, <2>2 DEF Proceed
<1>3. ASSUME NEW w \in Workers, Abort(w) PROVE UNCHANGED rowVars
  BY <1>3 DEF Abort
<1>4. CASE EditOwner
  <2>1. Lifecycle!EditOwner
    BY <1>4 DEF EditOwner, Lifecycle!EditOwner
  <2> QED BY <2>1 DEF Lifecycle!Next
<1>5. CASE UNCHANGED vars
  BY <1>5 DEF vars, rowVars
<1>6. CASE \E w \in Workers : Request(w) \/ Proceed(w) \/ Abort(w)
  BY <1>6, <1>1, <1>2, <1>3
<1>7. EditOwner \/ (\E w \in Workers : Request(w) \/ Proceed(w) \/ Abort(w))
         \/ UNCHANGED vars
  BY DEF Next
<1> QED BY <1>4, <1>5, <1>6, <1>7

\* The service of concurrent transactions implements the atomic specification:
\* its committed rows change only by whole operations.
THEOREM LedgerImplementsLifecycle == Spec => Implements
<1>1. Init => Lifecycle!Init
  BY DEF Init
<1> QED BY <1>1, LedgerInit, LedgerStep, StepImplements, PTL
        DEF Spec, Implements, Lifecycle!Spec

\* What InvoiceLifecycle guarantees therefore holds of the committed rows of the
\* concurrent service: the money adds up, the status agrees with it, and issued
\* invoices are branded, with any number of requests racing.
THEOREM LedgerKeepsAccounts ==
    Spec => [](/\ Lifecycle!TypeOK /\ Lifecycle!MoneyAccounted
               /\ Lifecycle!StatusMatchesMoney /\ Lifecycle!IssuedIsBranded)
<1>1. LP!Init <=> Lifecycle!Init
  BY
     DEF LP!Init, Lifecycle!Init, LP!Absent, Lifecycle!Absent,
         LP!NoSnapshot, Lifecycle!NoSnapshot
<1>2. LP!Next <=> Lifecycle!Next
  BY
     DEF LP!Statuses, Lifecycle!Statuses, LP!NoRow, Lifecycle!NoRow,
         LP!Exists, Lifecycle!Exists, LP!CanMove, Lifecycle!CanMove,
         LP!Moved, Lifecycle!Moved, LP!NoSnapshot,
         Lifecycle!NoSnapshot, LP!Absent, Lifecycle!Absent,
         LP!Draft, Lifecycle!Draft, LP!CanEdit, Lifecycle!CanEdit,
         LP!Edited, Lifecycle!Edited, LP!WithSnapshot,
         Lifecycle!WithSnapshot, LP!CanIssue, Lifecycle!CanIssue,
         LP!IssuedRow, Lifecycle!IssuedRow, LP!CanMail,
         Lifecycle!CanMail, LP!MailedRow, Lifecycle!MailedRow,
         LP!SettledStatus, Lifecycle!SettledStatus, LP!CanPay,
         Lifecycle!CanPay, LP!PaidRow, Lifecycle!PaidRow,
         LP!CanCancel, Lifecycle!CanCancel, LP!CanceledRow,
         Lifecycle!CanceledRow, LP!CanDelete, Lifecycle!CanDelete,
         LP!DeletedRow, Lifecycle!DeletedRow, LP!CanLapse,
         Lifecycle!CanLapse, LP!LapsedRow, Lifecycle!LapsedRow,
         LP!Put, Lifecycle!Put, LP!Bounded, Lifecycle!Bounded,
         LP!Create, Lifecycle!Create, LP!Edit, Lifecycle!Edit,
         LP!Issue, Lifecycle!Issue, LP!Mail, Lifecycle!Mail, LP!Pay,
         Lifecycle!Pay, LP!Cancel, Lifecycle!Cancel, LP!Delete,
         Lifecycle!Delete, LP!Lapse, Lifecycle!Lapse, LP!EditOwner,
         Lifecycle!EditOwner, LP!Next, Lifecycle!Next
<1>4. /\ LP!TypeOK => Lifecycle!TypeOK
      /\ LP!MoneyAccounted => Lifecycle!MoneyAccounted
      /\ LP!StatusMatchesMoney => Lifecycle!StatusMatchesMoney
      /\ LP!IssuedIsBranded => Lifecycle!IssuedIsBranded
  BY
     DEF LP!TypeOK, Lifecycle!TypeOK, LP!Row, Lifecycle!Row,
         LP!Statuses, Lifecycle!Statuses, LP!NoRow, Lifecycle!NoRow,
         LP!MoneyAccounted, Lifecycle!MoneyAccounted,
         LP!StatusMatchesMoney, Lifecycle!StatusMatchesMoney,
         LP!IssuedIsBranded, Lifecycle!IssuedIsBranded, LP!Issued,
         Lifecycle!Issued, LP!NoSnapshot, Lifecycle!NoSnapshot
<1>3. [LP!Next]_LP!vars <=> [Lifecycle!Next]_Lifecycle!vars
  BY <1>2 DEF LP!vars, Lifecycle!vars
<1>5. LP!Spec => [](/\ LP!TypeOK /\ LP!MoneyAccounted
                    /\ LP!StatusMatchesMoney /\ LP!IssuedIsBranded)
  BY LP!LifecycleSafe, NoCustomerAssumption, MoneyAssumption, BoundAssumption, PTL
<1> QED BY <1>1, <1>3, <1>4, <1>5, LedgerImplementsLifecycle, PTL
        DEF Implements, Lifecycle!Spec, LP!Spec
================================================================================
