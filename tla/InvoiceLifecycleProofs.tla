------------------------ MODULE InvoiceLifecycleProofs ------------------------
(***************************************************************************)
(* The invariants of InvoiceLifecycle, for every set of invoices and       *)
(* customers, every range of totals and amounts and every bound.           *)
(*                                                                         *)
(* The conjunction of the invariants is inductive as it stands.  It is     *)
(* split by row: Sound(row, paid, queued) is what the invariants ask of    *)
(* one invoice, the lemmas show that each operation on a row keeps it, and *)
(* the step proof only has to say which row an action touches.             *)
(***************************************************************************)
EXTENDS InvoiceLifecycle, TLAPS

\* What the invariants ask of one row, given the sum of its payments, whether a
\* mail was queued for it, and the owner's edition.
Sound(row, sum, queued, ed) ==
    /\ row \in Row
    /\ sum \in Nat
    /\ row.paid = sum
    /\ row.balance = row.total - row.paid
    /\ row.status \in {"absent", "draft", "deleted", "sent"} => row.paid = 0
    /\ row.status = "partial" => row.paid > 0 /\ row.balance > 0
    /\ row.status = "paid"    => row.paid > 0 /\ row.balance <= 0
    /\ row.status = "overdue" => row.balance > 0
    /\ row.status \in NoRow \cup {"draft"} => row.snap = NoSnapshot
    /\ Issued(row) /\ row.status # "canceled" => row.snap \in 1 .. ed
    /\ queued => Issued(row) /\ row.snap # NoSnapshot

AllSound ==
    /\ invoice \in [Invoices -> Row]
    /\ received \in [Invoices -> Nat]
    /\ mailed \subseteq Invoices
    /\ edition \in Nat \ {0}
    /\ \A i \in Invoices : Sound(invoice[i], received[i], i \in mailed, edition)

LEMMA SoundIsTheInvariants ==
    AllSound <=> TypeOK /\ MoneyAccounted /\ StatusMatchesMoney /\ IssuedIsBranded
<1>1. AllSound => TypeOK BY DEF AllSound, TypeOK
<1>2. AllSound => MoneyAccounted BY DEF AllSound, Sound, MoneyAccounted
<1>3. AllSound => StatusMatchesMoney BY DEF AllSound, Sound, StatusMatchesMoney
<1>4. AllSound => IssuedIsBranded BY DEF AllSound, Sound, IssuedIsBranded
<1>5. TypeOK /\ MoneyAccounted /\ StatusMatchesMoney /\ IssuedIsBranded => AllSound
  <2> SUFFICES ASSUME TypeOK, MoneyAccounted, StatusMatchesMoney, IssuedIsBranded,
                      NEW i \in Invoices
               PROVE  Sound(invoice[i], received[i], i \in mailed, edition)
    BY DEF TypeOK, AllSound
  <2> QED BY DEF TypeOK, MoneyAccounted, StatusMatchesMoney, IssuedIsBranded, Sound
<1> QED BY <1>1, <1>2, <1>3, <1>4, <1>5

------------------------------------------------------------------------------
(* The operations on a row. *)

LEMMA DraftIsSound ==
    ASSUME NEW c \in Customers, NEW total \in Totals, NEW ed \in Nat
    PROVE  Sound(Draft(c, total), 0, FALSE, ed)
BY MoneyAssumption DEF Sound, Draft, Row, Statuses, NoRow, NoSnapshot, Issued

LEMMA EditedIsSound ==
    ASSUME NEW row, NEW sum, NEW queued \in BOOLEAN, NEW ed \in Nat,
           Sound(row, sum, queued, ed),
           NEW c \in Customers, NEW total \in Totals, CanEdit(row, total)
    PROVE  Sound(Edited(row, c, total), sum, queued, ed)
<1> DEFINE new == Edited(row, c, total)
<1>1. /\ row \in Row /\ total \in Nat /\ total - row.paid \in Int
      /\ row.version + 1 \in Nat
  BY MoneyAssumption DEF Sound, Row
<1>2. new \in Row
  BY <1>1 DEF Edited, Row
<1>3. /\ new.status = "draft" /\ new.paid = row.paid /\ new.total = total
      /\ new.balance = total - row.paid /\ new.snap = row.snap
  BY <1>1 DEF Edited, Row, CanEdit
<1>4. row.status = "draft"
  BY DEF CanEdit
<1> HIDE DEF new
<1>5. Sound(new, sum, queued, ed)
  BY <1>1, <1>2, <1>3, <1>4
        DEF Sound, Statuses, NoRow, NoSnapshot, Issued
<1> QED BY <1>5 DEF new

LEMMA IssuedRowIsSound ==
    ASSUME NEW row, NEW sum, NEW queued \in BOOLEAN, NEW ed \in Nat, NEW e \in 1 .. ed,
           Sound(row, sum, queued, ed), CanIssue(row)
    PROVE  Sound(IssuedRow(row, e), sum, TRUE, ed)
<1>1. row.status = "draft" /\ row.snap = NoSnapshot
  BY DEF Sound, CanIssue, CanMove
<1>2. IssuedRow(row, e) = [row EXCEPT !.status = "sent", !.version = row.version + 1,
                                      !.snap = e]
  BY <1>1 DEF IssuedRow, WithSnapshot, Moved, Sound, Row
<1> DEFINE new == IssuedRow(row, e)
<1>. row \in Row /\ row.version + 1 \in Nat /\ e \in Nat
  BY DEF Sound, Row
<1>3. new \in Row
  BY <1>2 DEF Row, Statuses
<1>4. /\ new.status = "sent" /\ new.paid = row.paid /\ new.total = row.total
      /\ new.balance = row.balance /\ new.snap = e
  BY <1>2 DEF Sound, Row
<1> HIDE DEF new
<1>5. Sound(new, sum, TRUE, ed)
  BY <1>1, <1>3, <1>4 DEF Sound, Statuses, NoRow, NoSnapshot, Issued
<1> QED BY <1>5 DEF new

LEMMA MailedRowIsSound ==
    ASSUME NEW row, NEW sum, NEW queued \in BOOLEAN, NEW ed \in Nat, NEW e \in 1 .. ed,
           Sound(row, sum, queued, ed), CanMail(row)
    PROVE  Sound(MailedRow(row, e), sum, TRUE, ed)
<1>1. CASE row.status = "draft"
  BY <1>1, IssuedRowIsSound DEF MailedRow, CanIssue, CanMove
<1>2. CASE row.status # "draft"
  BY <1>2 DEF MailedRow, CanMail, Sound, Exists, Issued, Statuses, NoRow, NoSnapshot
<1> QED BY <1>1, <1>2

LEMMA PaidRowIsSound ==
    ASSUME NEW row, NEW sum, NEW queued \in BOOLEAN, NEW ed \in Nat,
           Sound(row, sum, queued, ed), NEW a \in Amounts, CanPay(row, a)
    PROVE  Sound(PaidRow(row, a), sum + a, queued, ed)
<1> DEFINE left == row.total - (row.paid + a)
<1>1. row \in Row /\ sum \in Nat /\ a \in Nat /\ a > 0
  BY MoneyAssumption DEF Sound
<1>2. Issued(row) /\ row.status # "canceled"
  BY DEF CanPay, Exists, Issued
<1>3. PaidRow(row, a) =
        [row EXCEPT !.status = SettledStatus(row, a), !.version = row.version + 1,
                    !.paid = row.paid + a, !.balance = left]
  BY <1>1 DEF PaidRow, Moved, Row
<1>4. SettledStatus(row, a) = IF left <= 0 THEN "paid" ELSE "partial"
  BY DEF SettledStatus
<1>5. left \in Int /\ row.paid + a \in Nat /\ row.paid + a > 0
  BY <1>1 DEF Row
<1> HIDE DEF left
<1>6. PaidRow(row, a) \in Row
  <2>1. SettledStatus(row, a) \in Statuses /\ row.version + 1 \in Nat
    BY <1>1, <1>4 DEF Statuses, Row
  <2> QED BY <2>1, <1>1, <1>3, <1>5 DEF Row
<1>7. /\ PaidRow(row, a).paid = sum + a
      /\ PaidRow(row, a).balance = PaidRow(row, a).total - PaidRow(row, a).paid
  BY <1>1, <1>3 DEF Sound, Row, left
<1>8. /\ PaidRow(row, a).status \in {"paid", "partial"}
      /\ PaidRow(row, a).status = "paid" => PaidRow(row, a).balance <= 0
      /\ PaidRow(row, a).status = "partial" => PaidRow(row, a).balance > 0
      /\ PaidRow(row, a).paid > 0
  <2>1. /\ PaidRow(row, a).status = SettledStatus(row, a)
        /\ PaidRow(row, a).balance = left /\ PaidRow(row, a).paid = row.paid + a
    BY <1>1, <1>3 DEF Row
  <2> QED BY <2>1, <1>4, <1>5
<1>9. PaidRow(row, a).snap = row.snap
  BY <1>1, <1>3 DEF Row
<1> QED BY <1>1, <1>2, <1>6, <1>7, <1>8, <1>9
        DEF Sound, Issued, Statuses, NoRow, NoSnapshot

LEMMA CanceledRowIsSound ==
    ASSUME NEW row, NEW sum, NEW queued \in BOOLEAN, NEW ed \in Nat,
           Sound(row, sum, queued, ed), CanCancel(row)
    PROVE  Sound(CanceledRow(row), sum, queued, ed)
<1> DEFINE new == CanceledRow(row)
<1>1. row \in Row /\ row.version + 1 \in Nat
  BY DEF Sound, Row
<1>2. new \in Row
  BY <1>1 DEF CanceledRow, Moved, Row, Statuses, NoRow
<1>3. /\ new.status = "canceled" /\ new.paid = row.paid /\ new.total = row.total
      /\ new.balance = row.balance /\ new.snap = row.snap
  BY <1>1 DEF CanceledRow, Moved, Row
<1> HIDE DEF new
<1>4. Sound(new, sum, queued, ed)
  BY <1>1, <1>2, <1>3
        DEF Sound, CanCancel, CanMove, Statuses, NoRow, NoSnapshot, Issued
<1> QED BY <1>4 DEF new

LEMMA DeletedRowIsSound ==
    ASSUME NEW row, NEW sum, NEW queued \in BOOLEAN, NEW ed \in Nat,
           Sound(row, sum, queued, ed), CanDelete(row)
    PROVE  Sound(DeletedRow(row), sum, queued, ed)
<1> DEFINE new == DeletedRow(row)
<1>1. row \in Row /\ row.version + 1 \in Nat
  BY DEF Sound, Row
<1>2. new \in Row
  BY <1>1 DEF DeletedRow, Row, Statuses, NoRow
<1>3. /\ new.status = "deleted" /\ new.paid = row.paid /\ new.total = row.total
      /\ new.balance = row.balance /\ new.snap = row.snap
  BY <1>1 DEF DeletedRow, Row
<1> HIDE DEF new
<1>4. Sound(new, sum, queued, ed)
  BY <1>1, <1>2, <1>3
        DEF Sound, CanDelete, Statuses, NoRow, NoSnapshot, Issued
<1> QED BY <1>4 DEF new

LEMMA LapsedRowIsSound ==
    ASSUME NEW row, NEW sum, NEW queued \in BOOLEAN, NEW ed \in Nat,
           Sound(row, sum, queued, ed), CanLapse(row)
    PROVE  Sound(LapsedRow(row), sum, queued, ed)
<1> DEFINE new == LapsedRow(row)
<1>1. row \in Row /\ row.version + 1 \in Nat
  BY DEF Sound, Row
<1>2. new \in Row
  BY <1>1 DEF LapsedRow, Moved, Row, Statuses, NoRow
<1>3. /\ new.status = "overdue" /\ new.paid = row.paid /\ new.total = row.total
      /\ new.balance = row.balance /\ new.snap = row.snap
  BY <1>1 DEF LapsedRow, Moved, Row
<1> HIDE DEF new
<1>4. Sound(new, sum, queued, ed)
  BY <1>1, <1>2, <1>3
        DEF Sound, CanLapse, Statuses, NoRow, NoSnapshot, Issued
<1> QED BY <1>4 DEF new

------------------------------------------------------------------------------
(* From rows to tables. *)

\* An action that replaces one row, and nothing of the others, keeps every row
\* sound if the new row is.
LEMMA PutIsSound ==
    ASSUME AllSound, NEW i \in Invoices, NEW row, Put(i, row),
           NEW sum, received' = [received EXCEPT ![i] = sum],
           NEW queued \in BOOLEAN,
           mailed' = IF queued THEN mailed \cup {i} ELSE mailed,
           Sound(row, sum, queued \/ i \in mailed, edition)
    PROVE  AllSound'
<1>1. edition' = edition
  BY DEF Put
<1>2. /\ invoice' \in [Invoices -> Row]
      /\ received' \in [Invoices -> Nat]
      /\ mailed' \subseteq Invoices
  BY DEF Put, AllSound, Sound
<1>3. ASSUME NEW j \in Invoices
      PROVE  Sound(invoice'[j], received'[j], j \in mailed', edition)
  <2>1. CASE j = i
    <3>1. invoice'[j] = row /\ received'[j] = sum
      BY <2>1 DEF Put, AllSound
    <3>2. (j \in mailed') <=> (queued \/ i \in mailed)
      BY <2>1
    <3> QED BY <3>1, <3>2 DEF Sound
  <2>2. CASE j # i
    <3>1. invoice'[j] = invoice[j] /\ received'[j] = received[j]
      BY <2>2 DEF Put, AllSound
    <3>2. (j \in mailed') <=> (j \in mailed)
      BY <2>2
    <3>3. Sound(invoice[j], received[j], j \in mailed, edition)
      BY DEF AllSound
    <3> QED BY <3>1, <3>2, <3>3 DEF Sound
  <2> QED BY <2>1, <2>2
<1> QED BY <1>1, <1>2, <1>3 DEF AllSound, Sound

LEMMA SoundInit == Init => AllSound
<1> SUFFICES ASSUME Init PROVE AllSound
  OBVIOUS
<1>1. Absent(NoCustomer) \in Row
  BY DEF Absent, Row, NoRow, NoSnapshot
<1>2. Sound(Absent(NoCustomer), 0, FALSE, 1)
  BY <1>1 DEF Absent, Sound, NoRow, NoSnapshot, Issued, Statuses
<1> QED BY <1>1, <1>2 DEF Init, AllSound, Sound

LEMMA SoundStep == AllSound /\ [Next]_vars => AllSound'
<1> SUFFICES ASSUME AllSound, [Next]_vars PROVE AllSound'
  OBVIOUS
<1> USE DEF AllSound
<1>0. ASSUME NEW i \in Invoices
      PROVE  /\ Sound(invoice[i], received[i], i \in mailed, edition)
             /\ (i \in mailed) \in BOOLEAN
             /\ received[i] \in Nat /\ edition \in Nat
             /\ received = [received EXCEPT ![i] = received[i]]
  OBVIOUS
<1>1. ASSUME NEW i \in Invoices, NEW c \in Customers, NEW t \in Totals,
             Create(i, c, t)
      PROVE  AllSound'
  <2>1. received[i] = 0 /\ i \notin mailed
    BY <1>1, <1>0 DEF Create, Sound, Issued, Statuses
  <2>2. Sound(Draft(c, t), received[i], FALSE \/ i \in mailed, edition)
    BY <2>1, <1>0, DraftIsSound
  <2> QED BY <1>0, <1>1, <2>2, PutIsSound DEF Create
<1>2. ASSUME NEW i \in Invoices, NEW c \in Customers, NEW t \in Totals,
             Edit(i, c, t)
      PROVE  AllSound'
  <2>1. Sound(Edited(invoice[i], c, t), received[i], FALSE \/ i \in mailed, edition)
    BY <1>0, <1>2, EditedIsSound DEF Edit
  <2> QED BY <1>0, <1>2, <2>1, PutIsSound DEF Edit
<1>3. ASSUME NEW i \in Invoices, Issue(i)
      PROVE  AllSound'
  <2> PICK e \in 1 .. edition : Put(i, IssuedRow(invoice[i], e))
    BY <1>3 DEF Issue
  <2>0. /\ Sound(invoice[i], received[i], i \in mailed, edition)
        /\ edition \in Nat /\ (i \in mailed) \in BOOLEAN
        /\ CanIssue(invoice[i])
    BY <1>0, <1>3 DEF Issue
  <2>1. Sound(IssuedRow(invoice[i], e), received[i], TRUE, edition)
    BY <2>0, IssuedRowIsSound, Zenon
  <2>2. i \notin mailed
    BY <1>0, <1>3 DEF Issue, CanIssue, CanMove, Sound, Issued, Statuses
  <2>3. Sound(IssuedRow(invoice[i], e), received[i], FALSE \/ i \in mailed, edition)
    BY <2>1, <2>2 DEF Sound
  <2> QED BY <1>0, <1>3, <2>3, PutIsSound DEF Issue
<1>4. ASSUME NEW i \in Invoices, Mail(i)
      PROVE  AllSound'
  <2> PICK e \in 1 .. edition : Put(i, MailedRow(invoice[i], e))
    BY <1>4 DEF Mail
  <2>1. Sound(MailedRow(invoice[i], e), received[i], TRUE \/ i \in mailed, edition)
    BY <1>0, <1>4, MailedRowIsSound DEF Mail
  <2> QED BY <1>0, <1>4, <2>1, PutIsSound DEF Mail
<1>5. ASSUME NEW i \in Invoices, NEW a \in Amounts, Pay(i, a)
      PROVE  AllSound'
  <2>1. Sound(PaidRow(invoice[i], a), received[i] + a, FALSE \/ i \in mailed, edition)
    BY <1>0, <1>5, PaidRowIsSound DEF Pay
  <2> QED BY <1>0, <1>5, <2>1, PutIsSound DEF Pay
<1>6. ASSUME NEW i \in Invoices, Cancel(i)
      PROVE  AllSound'
  <2>1. Sound(CanceledRow(invoice[i]), received[i], FALSE \/ i \in mailed, edition)
    BY <1>0, <1>6, CanceledRowIsSound DEF Cancel
  <2> QED BY <1>0, <1>6, <2>1, PutIsSound DEF Cancel
<1>7. ASSUME NEW i \in Invoices, Delete(i)
      PROVE  AllSound'
  <2>1. Sound(DeletedRow(invoice[i]), received[i], FALSE \/ i \in mailed, edition)
    BY <1>0, <1>7, DeletedRowIsSound DEF Delete
  <2> QED BY <1>0, <1>7, <2>1, PutIsSound DEF Delete
<1>8. ASSUME NEW S \in SUBSET Invoices, Lapse(S)
      PROVE  AllSound'
  <2>1. ASSUME NEW i \in Invoices
        PROVE  Sound(invoice'[i], received[i], i \in mailed, edition)
    <3>1. CASE i \in S
      <4>1. CanLapse(invoice[i]) /\ invoice'[i] = LapsedRow(invoice[i])
        BY <3>1, <1>8 DEF Lapse
      <4>2. /\ Sound(invoice[i], received[i], i \in mailed, edition)
            /\ edition \in Nat /\ (i \in mailed) \in BOOLEAN
        BY <1>0
      <4>3. Sound(LapsedRow(invoice[i]), received[i], i \in mailed, edition)
        BY <4>1, <4>2, LapsedRowIsSound, Zenon
      <4> QED BY <4>1, <4>3
    <3>2. CASE i \notin S
      BY <3>2, <1>0, <1>8 DEF Lapse
    <3> QED BY <3>1, <3>2
  <2>2. invoice' \in [Invoices -> Row]
    BY <1>8, <2>1 DEF Lapse, Sound
  <2> QED BY <1>8, <2>1, <2>2 DEF Lapse
<1>9. CASE EditOwner
  <2>1. /\ invoice' = invoice /\ received' = received /\ mailed' = mailed
        /\ edition' = edition + 1
    BY <1>9 DEF EditOwner
  <2>2. ASSUME NEW i \in Invoices
        PROVE  Sound(invoice[i], received[i], i \in mailed, edition + 1)
    BY <1>0 DEF Sound
  <2> QED BY <2>1, <2>2
<1>10. CASE UNCHANGED vars
  BY <1>10 DEF vars, Sound
<1> QED BY <1>1, <1>2, <1>3, <1>4, <1>5, <1>6, <1>7, <1>8, <1>9, <1>10 DEF Next

\* Every reachable state satisfies the four invariants: types, the account of
\* the money, the agreement of status and money, and branding and mail.
THEOREM LifecycleSafe ==
    Spec => [](TypeOK /\ MoneyAccounted /\ StatusMatchesMoney /\ IssuedIsBranded)
<1>1. Spec => []AllSound
  BY SoundInit, SoundStep, PTL DEF Spec
<1>2. AllSound => TypeOK /\ MoneyAccounted /\ StatusMatchesMoney /\ IssuedIsBranded
  BY SoundIsTheInvariants
<1> QED BY <1>1, <1>2, PTL

\* A paid invoice has been paid and owes nothing, a partial or overdue one still
\* owes, an unpaid draft or sent one has taken no money: whatever the sequence of
\* payments, edits, nightly jobs and cancels.
THEOREM StatusTellsTheTruth == Spec => []StatusMatchesMoney
BY LifecycleSafe, PTL

\* No invoice that left the house, by mail or by hand, is without owner header.
THEOREM IssuedInvoicesAreBranded == Spec => []IssuedIsBranded
BY LifecycleSafe, PTL

------------------------------------------------------------------------------
(* What a step may do to one row. *)

RowStep(old, new) ==
    \/ new = old
    \/ old.status = "absent"
    \/ \E c \in Customers, t \in Totals : CanEdit(old, t) /\ new = Edited(old, c, t)
    \/ CanIssue(old) /\ \E e \in Nat : new = IssuedRow(old, e)
    \/ \E a \in Amounts : CanPay(old, a) /\ new = PaidRow(old, a)
    \/ CanCancel(old) /\ new = CanceledRow(old)
    \/ CanDelete(old) /\ new = DeletedRow(old)
    \/ CanLapse(old) /\ new = LapsedRow(old)

LEMMA StepIsRowStep ==
    ASSUME AllSound, [Next]_vars, NEW i \in Invoices
    PROVE  RowStep(invoice[i], invoice'[i])
<1>0. invoice \in [Invoices -> Row] /\ edition \in Nat
  BY DEF AllSound
<1>a. ASSUME NEW j \in Invoices, NEW row, Put(j, row), RowStep(invoice[j], row)
      PROVE  RowStep(invoice[i], invoice'[i])
  <2>1. CASE i = j BY <2>1, <1>0, <1>a DEF Put
  <2>2. CASE i # j BY <2>2, <1>0, <1>a DEF Put, RowStep
  <2> QED BY <2>1, <2>2
<1>1. ASSUME NEW j \in Invoices, NEW c \in Customers, NEW t \in Totals,
             Create(j, c, t) \/ Edit(j, c, t)
      PROVE  RowStep(invoice[i], invoice'[i])
  BY <1>a, <1>1 DEF Create, Edit, RowStep
<1>2. ASSUME NEW j \in Invoices, Issue(j)
      PROVE  RowStep(invoice[i], invoice'[i])
  <2> PICK e \in 1 .. edition : Put(j, IssuedRow(invoice[j], e))
    BY <1>2 DEF Issue
  <2>1. e \in Nat
    BY <1>0
  <2> QED BY <1>a, <1>2, <2>1 DEF Issue, RowStep
<1>3. ASSUME NEW j \in Invoices, Mail(j)
      PROVE  RowStep(invoice[i], invoice'[i])
  <2> PICK e \in 1 .. edition : Put(j, MailedRow(invoice[j], e))
    BY <1>3 DEF Mail
  <2>1. e \in Nat
    BY <1>0
  <2>2. RowStep(invoice[j], MailedRow(invoice[j], e))
    BY <2>1 DEF RowStep, MailedRow, CanIssue, CanMove
  <2> QED BY <1>a, <2>2
<1>4. ASSUME NEW j \in Invoices,
             (\E a \in Amounts : Pay(j, a)) \/ Cancel(j) \/ Delete(j)
      PROVE  RowStep(invoice[i], invoice'[i])
  BY <1>a, <1>4 DEF Pay, Cancel, Delete, RowStep
<1>5. ASSUME NEW S \in SUBSET Invoices, Lapse(S)
      PROVE  RowStep(invoice[i], invoice'[i])
  BY <1>5 DEF Lapse, RowStep
<1>6. CASE EditOwner \/ UNCHANGED vars
  BY <1>6 DEF EditOwner, vars, RowStep
<1> QED BY <1>1, <1>2, <1>3, <1>4, <1>5, <1>6 DEF Next

LEMMA RowStepKeepsIssued ==
    ASSUME NEW old \in Row, NEW new, RowStep(old, new), Issued(old)
    PROVE  /\ Issued(new)
           /\ new.cust = old.cust
           /\ new.total = old.total
           /\ new.paid >= old.paid
           /\ new.snap = old.snap
           /\ old.status = "canceled" => new = old
<1>1. old.status \in {"sent", "partial", "paid", "overdue", "canceled"}
  BY DEF Issued, Statuses
<1>2. CASE new = old
  BY <1>2 DEF Row
<1>3. ASSUME NEW a \in Amounts, CanPay(old, a), new = PaidRow(old, a)
      PROVE  /\ new.status \in {"paid", "partial"} /\ new.cust = old.cust
             /\ new.total = old.total /\ new.snap = old.snap
             /\ new.paid = old.paid + a /\ old.status # "canceled"
  BY <1>3 DEF CanPay, PaidRow, Moved, SettledStatus, Row
<1>4. CASE CanCancel(old) /\ new = CanceledRow(old)
  BY <1>1, <1>4 DEF CanCancel, CanMove, CanceledRow, Moved, Row, Issued, Statuses
<1>5. CASE CanLapse(old) /\ new = LapsedRow(old)
  BY <1>1, <1>5 DEF CanLapse, LapsedRow, Moved, Row, Issued, Statuses
<1>6. CASE \E a \in Amounts : CanPay(old, a) /\ new = PaidRow(old, a)
  BY <1>3, <1>6, MoneyAssumption DEF Row, Issued, Statuses
<1> QED BY <1>1, <1>2, <1>4, <1>5, <1>6
        DEF RowStep, CanEdit, CanIssue, CanMove, CanDelete

LEMMA RowStepCounts ==
    ASSUME NEW old \in Row, NEW new, RowStep(old, new), new # old,
           Exists(old), Exists(new)
    PROVE  /\ new.version = old.version + 1
           /\ new.status = old.status \/ CanMove(old.status, new.status)
<1>1. old.status # "absent"
  BY DEF Exists, Statuses
<1>2. ASSUME NEW c \in Customers, NEW t \in Totals, new = Edited(old, c, t)
      PROVE  new.version = old.version + 1 /\ new.status = old.status
  BY <1>2 DEF Edited, Row
<1>3. ASSUME NEW e \in Nat, CanIssue(old), new = IssuedRow(old, e)
      PROVE  new.version = old.version + 1 /\ CanMove(old.status, new.status)
  BY <1>3 DEF IssuedRow, WithSnapshot, Moved, CanIssue, Row
<1>4. ASSUME NEW a \in Amounts, CanPay(old, a), new = PaidRow(old, a)
      PROVE  /\ new.version = old.version + 1
             /\ new.status = old.status \/ CanMove(old.status, new.status)
  <2>1. new.version = old.version + 1 /\ new.status = SettledStatus(old, a)
    BY <1>4 DEF PaidRow, Moved, Row
  <2> QED BY <1>4, <2>1 DEF CanPay
<1>5. CASE CanCancel(old) /\ new = CanceledRow(old)
  BY <1>5 DEF CanCancel, CanceledRow, Moved, Row
<1>6. CASE CanDelete(old) /\ new = DeletedRow(old)
  <2>1. new.status = "deleted"
    BY <1>6 DEF DeletedRow, Row
  <2> QED BY <2>1 DEF Exists, Statuses
<1>7. CASE CanLapse(old) /\ new = LapsedRow(old)
  BY <1>7 DEF CanLapse, LapsedRow, Moved, CanMove, Row
<1> QED BY <1>1, <1>2, <1>3, <1>4, <1>5, <1>6, <1>7 DEF RowStep

\* No operation, in any order, changes what an issued invoice says it bills,
\* deletes it, or revives a canceled one.
THEOREM LifecyclePermanence == Spec => IssuedIsPermanent
<1>1. Spec => []AllSound
  BY SoundInit, SoundStep, PTL DEF Spec
<1>2. AllSound /\ [Next]_vars =>
        [\A i \in Invoices : Issued(invoice[i]) =>
          /\ Issued(invoice'[i])
          /\ invoice'[i].cust = invoice[i].cust
          /\ invoice'[i].total = invoice[i].total
          /\ invoice'[i].paid >= invoice[i].paid
          /\ invoice[i].snap # NoSnapshot => invoice'[i].snap = invoice[i].snap
          /\ invoice[i].status = "canceled" => invoice'[i] = invoice[i]]_vars
  BY StepIsRowStep, RowStepKeepsIssued DEF AllSound
<1> QED BY <1>1, <1>2, PTL DEF Spec, IssuedIsPermanent

\* Every change of a row that stays in the table moves its version by exactly
\* one, so two clients can never hold the same version of different contents.
THEOREM LifecycleVersions == Spec => VersionCounts
<1>1. Spec => []AllSound
  BY SoundInit, SoundStep, PTL DEF Spec
<1>2. AllSound /\ [Next]_vars =>
        [\A i \in Invoices :
          invoice'[i] # invoice[i] /\ Exists(invoice[i]) /\ Exists(invoice'[i]) =>
             /\ invoice'[i].version = invoice[i].version + 1
             /\ \/ invoice'[i].status = invoice[i].status
                \/ CanMove(invoice[i].status, invoice'[i].status)]_vars
  BY StepIsRowStep, RowStepCounts DEF AllSound
<1> QED BY <1>1, <1>2, PTL DEF Spec, VersionCounts
===============================================================================
