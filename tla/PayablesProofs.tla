----------------------------- MODULE PayablesProofs -----------------------------
(***************************************************************************)
(* For every set of documents, requests and clients, every range of totals *)
(* and amounts, every bound and any number of failures.                    *)
(*                                                                         *)
(* Expenses: the invariant, the action properties, and that the service    *)
(* implements Settlement.                                                  *)
(* Stored objects: no orphan and no broken download.                       *)
(* Purchase orders: a sent order is permanent, an edit replaces what its   *)
(* client saw, row and payments agree to the cent and beyond it to the     *)
(* half cent, and the service implements Settlement.                       *)
(***************************************************************************)
EXTENDS Payables, SumTheorems, TLAPS

------------------------------------------------------------------------------
(* Expenses.  AccountsAgree is not inductive: a deleted row must never     *)
(* have had a payment, a row that is not there yet neither, and what a     *)
(* client sees must be what the row was at that version.  Sound says the   *)
(* first two of one row, FormsAreTrue the last.                            *)

Sound(row, sum) ==
    /\ row \in Row /\ sum \in Nat
    /\ RowAgrees(row, sum)
    /\ row.status # "absent" => row.total \in Totals
    /\ ~Exists(row) => sum = 0
    /\ row.status = "absent" => row = Absent

\* A form shows a row that was there, and as it is unless its version moved on.
FormIsTrue(f, row) ==
    /\ row.status # "absent"
    /\ f.seen.version <= row.version
    /\ Exists(row) /\ f.seen.version = row.version => f.seen = row

FormsAreTrue ==
    \A c \in Clients, e \in Expenses : form[c].of = e => FormIsTrue(form[c], expense[e])

AllSound ==
    /\ TypeOK
    /\ \A e \in Expenses : Sound(expense[e], received[e])
    /\ FormsAreTrue

LEMMA AllSoundAccounts == AllSound => AccountsAgree
BY DEF AllSound, AccountsAgree, Sound

------------------------------------------------------------------------------
(* The rows an operation writes. *)

\* What a write of a row may do, as far as a client that has it open can tell:
\* nothing, move the version, or take the row away.
Moves(old, new) ==
    \/ new = old
    \/ new.status # "absent" /\ new.version = old.version + 1
    \/ new.status = "deleted" /\ new.version = old.version

LEMMA PendingIsSound ==
    ASSUME NEW total \in Totals
    PROVE  Sound(Pending(total), 0)
BY MoneyAssumption DEF Sound, Pending, Row, Statuses, RowAgrees, IsEditable, Exists

LEMMA EditedIsSound ==
    ASSUME NEW row, NEW sum, Sound(row, sum), NEW total \in Totals,
           IsEditable(row), total - row.paid >= 0
    PROVE  /\ Sound(Edited(row, total), sum)
           /\ Moves(row, Edited(row, total))
           /\ Edited(row, total).status = row.status
           /\ Edited(row, total).total = total
<1>1. /\ row \in Row /\ total \in Nat /\ total - row.paid \in Int
      /\ row.version + 1 \in Nat
  BY MoneyAssumption DEF Sound, Row
<1> DEFINE new == Edited(row, total)
<1>2. new \in Row
  BY <1>1 DEF Edited, Row
<1>3. /\ new.status = row.status /\ new.paid = row.paid /\ new.total = total
      /\ new.balance = total - row.paid /\ new.stamped = row.stamped
      /\ new.version = row.version + 1
  BY <1>1 DEF Edited, Row
<1> HIDE DEF new
<1>4. Sound(new, sum)
  BY <1>1, <1>2, <1>3 DEF Sound, RowAgrees, IsEditable, Exists, Statuses
<1>5. Moves(row, new)
  BY <1>1, <1>3 DEF Moves, IsEditable
<1> QED BY <1>3, <1>4, <1>5 DEF new

LEMMA PaidRowIsSound ==
    ASSUME NEW row, NEW sum, Sound(row, sum), NEW a \in Nat, a > 0,
           Exists(row), row.status # "canceled"
    PROVE  /\ Sound(PaidRow(row, a), sum + a)
           /\ Moves(row, PaidRow(row, a))
           /\ Exists(PaidRow(row, a))
           /\ PaidRow(row, a).total = row.total
           /\ PaidRow(row, a).status = "paid" <=> sum + a >= row.total
           /\ PaidRow(row, a).status \in {"pending", "overdue", "paid"}
<1> DEFINE new == PaidRow(row, a)
           left == row.total - (row.paid + a)
<1>1. /\ row \in Row /\ sum \in Nat /\ left \in Int /\ row.paid + a \in Nat
      /\ row.version + 1 \in Nat /\ row.paid = sum /\ row.total \in Nat
  BY DEF Sound, Row, RowAgrees
<1>2. new = [row EXCEPT !.paid = row.paid + a, !.balance = left,
                        !.status = IF left <= 0 THEN "paid" ELSE row.status,
                        !.stamped = row.stamped \/ left <= 0,
                        !.version = row.version + 1]
  BY <1>1 DEF PaidRow, Row
<1>3. row.status \in {"pending", "overdue", "paid"} /\ row.stamped \in BOOLEAN
  BY <1>1 DEF Exists, Statuses, Row
<1> HIDE DEF left
<1>4. new \in Row
  BY <1>1, <1>2, <1>3 DEF Row, Statuses
<1>5. /\ new.status = (IF left <= 0 THEN "paid" ELSE row.status)
      /\ new.paid = row.paid + a /\ new.total = row.total
      /\ new.balance = left /\ new.version = row.version + 1
      /\ new.stamped = (row.stamped \/ left <= 0)
  BY <1>1, <1>2 DEF Row
<1> HIDE DEF new
<1>6. row.status = "paid" => left <= 0
  BY <1>1, <1>3 DEF Sound, RowAgrees, left
<1>7. RowAgrees(new, sum + a)
  <2>1. new.paid = sum + a /\ new.balance = new.total - (sum + a)
    BY <1>1, <1>5 DEF left
  <2>2. CASE left <= 0
    BY <2>1, <2>2, <1>5 DEF RowAgrees, IsEditable
  <2>3. CASE ~(left <= 0)
    <3>1. new.status = row.status /\ row.status # "paid"
      BY <2>3, <1>5, <1>6
    <3>2. ~row.stamped
      BY <3>1, <1>3 DEF Sound, RowAgrees, IsEditable
    <3>3. ~new.stamped
      BY <3>2, <2>3, <1>5
    <3> QED BY <2>1, <2>3, <3>1, <3>3, <1>1, <1>5 DEF RowAgrees
  <2> QED BY <2>2, <2>3
<1>8. new.status \in {"pending", "overdue", "paid"}
  BY <1>3, <1>5
<1>9. Sound(new, sum + a)
  <2>1. new.total \in Totals
    BY <1>3, <1>5 DEF Sound
  <2>2. Exists(new)
    BY <1>8 DEF Exists, Statuses
  <2>3. sum + a \in Nat
    BY <1>1
  <2> QED BY <1>4, <1>7, <1>8, <2>1, <2>2, <2>3 DEF Sound
<1>10. Moves(row, new)
  BY <1>5, <1>8 DEF Moves
<1>11. new.status = "paid" <=> sum + a >= row.total
  BY <1>1, <1>5, <1>6 DEF left
<1> QED BY <1>5, <1>8, <1>9, <1>10, <1>11 DEF new, Exists, Statuses

\* The row of an expense that turns out to be covered already.
Settled(row) == [row EXCEPT !.status = "paid", !.stamped = TRUE, !.version = @ + 1]

LEMMA SettledIsSound ==
    ASSUME NEW row, NEW sum, Sound(row, sum), Exists(row), row.balance <= 0
    PROVE  /\ Sound(Settled(row), sum)
           /\ Moves(row, Settled(row))
           /\ Settled(row).status = "paid"
           /\ Settled(row).total = row.total
<1>1. row \in Row /\ row.version + 1 \in Nat
  BY DEF Sound, Row
<1> DEFINE new == Settled(row)
<1>2. new \in Row
  BY <1>1 DEF Settled, Row, Statuses
<1>3. /\ new.status = "paid" /\ new.paid = row.paid /\ new.total = row.total
      /\ new.balance = row.balance /\ new.stamped = TRUE
      /\ new.version = row.version + 1
  BY <1>1 DEF Settled, Row
<1> HIDE DEF new
<1>4. Sound(new, sum)
  BY <1>1, <1>2, <1>3 DEF Sound, RowAgrees, IsEditable, Exists, Statuses
<1> QED BY <1>3, <1>4 DEF new, Moves

\* Canceled, or overdue.
LEMMA MovedIsSound ==
    ASSUME NEW row, NEW sum, Sound(row, sum), NEW to \in {"overdue", "canceled"},
           CanMove(row.status, to)
    PROVE  /\ Sound(Moved(row, to), sum)
           /\ Moves(row, Moved(row, to))
           /\ Moved(row, to).status = to
           /\ Moved(row, to).total = row.total
<1>1. row \in Row /\ row.version + 1 \in Nat
  BY DEF Sound, Row
<1> DEFINE new == Moved(row, to)
<1>2. new \in Row
  BY <1>1 DEF Moved, Row, Statuses
<1>3. /\ new.status = to /\ new.paid = row.paid /\ new.total = row.total
      /\ new.balance = row.balance /\ new.stamped = row.stamped
      /\ new.version = row.version + 1
  BY <1>1 DEF Moved, Row
<1>4. to = "overdue" => row.status = "pending"
  BY DEF CanMove
<1>5. row.status \in {"pending", "overdue", "paid"}
  BY DEF CanMove
<1> HIDE DEF new
<1>6. Sound(new, sum)
  BY <1>1, <1>2, <1>3, <1>4, <1>5 DEF Sound, RowAgrees, IsEditable, Exists, Statuses
<1>7. Moves(row, new)
  BY <1>3 DEF Moves
<1> QED BY <1>3, <1>6, <1>7 DEF new

Removed(row) == [row EXCEPT !.status = "deleted"]

LEMMA RemovedIsSound ==
    ASSUME NEW row, Sound(row, 0), Exists(row)
    PROVE  /\ Sound(Removed(row), 0)
           /\ Moves(row, Removed(row))
           /\ Removed(row).status = "deleted"
           /\ Removed(row).total = row.total
<1>1. row \in Row
  BY DEF Sound
<1> DEFINE new == Removed(row)
<1>2. new \in Row
  BY <1>1 DEF Removed, Row, Statuses
<1>3. /\ new.status = "deleted" /\ new.paid = row.paid /\ new.total = row.total
      /\ new.balance = row.balance /\ new.stamped = row.stamped
      /\ new.version = row.version
  BY <1>1 DEF Removed, Row
<1> HIDE DEF new
<1>4. Sound(new, 0)
  BY <1>1, <1>2, <1>3 DEF Sound, RowAgrees, IsEditable, Exists, Statuses
<1> QED BY <1>3, <1>4 DEF new, Moves

------------------------------------------------------------------------------
(* The invariant. *)

LEMMA MovesKeepFormsTrue ==
    ASSUME NEW f \in [of: Expenses \cup {Nothing}, seen: Row],
           NEW old \in Row, NEW new \in Row, Moves(old, new), FormIsTrue(f, old)
    PROVE  FormIsTrue(f, new)
<1>1. f.seen.version \in Nat /\ old.version \in Nat
  BY DEF Row
<1>2. CASE new = old
  BY <1>2
<1>3. CASE new.status # "absent" /\ new.version = old.version + 1
  BY <1>1, <1>3 DEF FormIsTrue
<1>4. CASE new.status = "deleted" /\ new.version = old.version
  BY <1>1, <1>4 DEF FormIsTrue, Exists, Statuses
<1> QED BY <1>2, <1>3, <1>4 DEF Moves

\* Forms are opened on the row that is there, closed, or left alone.
FormsKept ==
    /\ form' \in [Clients -> [of: Expenses \cup {Nothing}, seen: Row]]
    /\ \A c \in Clients : form'[c] \in {form[c], NoForm}

LEMMA FormsClosed ==
    ASSUME TypeOK, NEW c \in Clients, form' = [form EXCEPT ![c] = NoForm]
    PROVE  FormsKept
<1>1. Absent \in Row
  BY DEF Absent, Row
<1>2. NoForm \in [of: Expenses \cup {Nothing}, seen: Row]
  BY <1>1 DEF NoForm
<1> QED BY <1>2 DEF TypeOK, FormsKept

LEMMA FormsUnchanged == TypeOK /\ form' = form => FormsKept
BY DEF TypeOK, FormsKept

\* One row is raised or moved, and its payments with it.
LEMMA RowWritten ==
    ASSUME AllSound, FormsKept, byHand' \in [Expenses -> Nat],
           NEW e \in Expenses, NEW row, NEW sum, Sound(row, sum),
           expense[e].status = "absent" \/ Moves(expense[e], row),
           expense' = [expense EXCEPT ![e] = row],
           received' = [received EXCEPT ![e] = sum]
    PROVE  AllSound'
<1>1. row \in Row /\ sum \in Nat
  BY DEF Sound
<1>2. TypeOK'
  BY <1>1 DEF AllSound, TypeOK, FormsKept
<1>3. \A d \in Expenses : Sound(expense'[d], received'[d])
  BY DEF AllSound, TypeOK
<1>4. FormsAreTrue'
  <2> SUFFICES ASSUME NEW c \in Clients, NEW d \in Expenses, form'[c].of = d
               PROVE  FormIsTrue(form'[c], expense'[d])
    BY DEF FormsAreTrue
  <2>1. form'[c] = form[c] /\ form[c].of = d
    BY NothingAssumption DEF FormsKept, NoForm
  <2>2. FormIsTrue(form[c], expense[d])
    BY <2>1 DEF AllSound, FormsAreTrue
  <2>3. CASE d = e
    <3>1. expense'[d] = row /\ Moves(expense[d], row)
      BY <2>2, <2>3 DEF AllSound, TypeOK, FormIsTrue
    <3>2. form[c] \in [of: Expenses \cup {Nothing}, seen: Row] /\ expense[d] \in Row
      BY DEF AllSound, TypeOK
    <3> QED BY <1>1, <2>1, <2>2, <3>1, <3>2, MovesKeepFormsTrue
  <2>4. CASE d # e
    BY <2>1, <2>2, <2>4 DEF AllSound, TypeOK
  <2> QED BY <2>3, <2>4
<1> QED BY <1>2, <1>3, <1>4 DEF AllSound

\* The same, of an operation that leaves the payments alone.
LEMMA RowWrittenUnpaid ==
    ASSUME AllSound, FormsKept, byHand' = byHand, received' = received,
           NEW e \in Expenses, NEW row, Sound(row, received[e]),
           expense[e].status = "absent" \/ Moves(expense[e], row),
           expense' = [expense EXCEPT ![e] = row]
    PROVE  AllSound'
<1>1. received' = [received EXCEPT ![e] = received[e]]
  BY DEF AllSound, TypeOK
<1>2. byHand' \in [Expenses -> Nat]
  BY DEF AllSound, TypeOK
<1> QED BY <1>1, <1>2, RowWritten

LEMMA InitIsSound == Init => AllSound
<1> SUFFICES ASSUME Init PROVE AllSound
  OBVIOUS
<1>1. Absent \in Row
  BY DEF Absent, Row
<1>2. TypeOK
  BY <1>1 DEF Init, TypeOK, NoForm
<1>3. Sound(Absent, 0)
  BY <1>1 DEF Sound, Absent, RowAgrees, IsEditable, Exists, Statuses
<1>4. FormsAreTrue
  BY NothingAssumption DEF Init, FormsAreTrue, NoForm
<1> QED BY <1>2, <1>3, <1>4 DEF AllSound, Init

LEMMA CreateKeepsSound ==
    ASSUME AllSound, NEW e \in Expenses, NEW t \in Totals, CreateExpense(e, t)
    PROVE  AllSound'
<1>1. expense[e].status = "absent" /\ received[e] = 0
  BY DEF CreateExpense, AllSound, Sound, Exists, Statuses
<1>2. Sound(Pending(t), received[e])
  BY <1>1, PendingIsSound
<1>3. FormsKept
  BY FormsUnchanged DEF CreateExpense, AllSound
<1> QED BY <1>1, <1>2, <1>3, RowWrittenUnpaid DEF CreateExpense, Put

\* Duplicate raises a total that another row had.
LEMMA DuplicateCreates ==
    ASSUME AllSound, NEW e \in Expenses, NEW source \in Expenses, Duplicate(e, source)
    PROVE  \E t \in Totals : CreateExpense(e, t)
<1>1. expense[source].total \in Totals
  BY DEF Duplicate, AllSound, Sound, Exists, Statuses
<1> QED BY <1>1 DEF Duplicate

\* What an update is, of the row it found.
LEMMA UpdateEdits ==
    ASSUME AllSound, NEW c \in Clients, NEW total \in Totals, NEW e \in Expenses,
           form[c].of = e, IsEditable(expense[e]), total - expense[e].paid >= 0
    PROVE  /\ Sound(Edited(expense[e], total), received[e])
           /\ Moves(expense[e], Edited(expense[e], total))
           /\ Edited(expense[e], total).status = expense[e].status
           /\ Edited(expense[e], total).total = total
BY EditedIsSound DEF AllSound

LEMMA UpdateKeepsSound ==
    ASSUME AllSound, NEW c \in Clients, NEW total \in Totals, Update(c, total)
    PROVE  AllSound'
<1>1. PICK e \in Expenses :
         /\ form[c].of = e /\ IsEditable(expense[e]) /\ total - expense[e].paid >= 0
         /\ Put(e, Edited(expense[e], total))
         /\ form' = [form EXCEPT ![c] = NoForm]
         /\ UNCHANGED <<received, byHand>>
  BY DEF Update
<1>2. FormsKept
  BY <1>1, FormsClosed DEF AllSound
<1>3. /\ Sound(Edited(expense[e], total), received[e])
      /\ Moves(expense[e], Edited(expense[e], total))
  BY <1>1, UpdateEdits
<1>4. expense' = [expense EXCEPT ![e] = Edited(expense[e], total)]
  BY <1>1 DEF Put
<1> QED BY <1>1, <1>2, <1>3, <1>4, RowWrittenUnpaid

LEMMA ApplyPaymentKeepsSound ==
    ASSUME AllSound, NEW e \in Expenses, NEW a \in Nat, a > 0,
           Exists(expense[e]), expense[e].status # "canceled",
           ApplyPayment(e, a), byHand' \in [Expenses -> Nat], form' = form
    PROVE  AllSound'
<1>1. Sound(expense[e], received[e])
  BY DEF AllSound
<1>2. /\ Sound(PaidRow(expense[e], a), received[e] + a)
      /\ Moves(expense[e], PaidRow(expense[e], a))
  BY <1>1, PaidRowIsSound
<1>3. FormsKept
  BY FormsUnchanged DEF AllSound
<1>4. received' = [received EXCEPT ![e] = received[e] + a]
  BY DEF ApplyPayment
<1>5. expense' = [expense EXCEPT ![e] = PaidRow(expense[e], a)]
  BY DEF ApplyPayment, Put
<1> QED BY <1>2, <1>3, <1>4, <1>5, RowWritten

LEMMA RecordPaymentKeepsSound ==
    ASSUME AllSound, NEW e \in Expenses, NEW a \in Amounts, RecordPayment(e, a)
    PROVE  AllSound'
<1>1. a \in Nat /\ a > 0
  BY MoneyAssumption
<1>2. byHand' \in [Expenses -> Nat]
  BY <1>1 DEF RecordPayment, AllSound, TypeOK
<1> QED BY <1>1, <1>2, ApplyPaymentKeepsSound DEF RecordPayment

LEMMA MarkAsPaidKeepsSound ==
    ASSUME AllSound, NEW e \in Expenses, MarkAsPaid(e)
    PROVE  AllSound'
<1>1. Sound(expense[e], received[e]) /\ byHand' \in [Expenses -> Nat]
  BY DEF MarkAsPaid, AllSound, TypeOK
<1>2. CASE expense[e].balance > 0 /\ ApplyPayment(e, expense[e].balance)
  <2>1. expense[e].balance \in Nat
    BY <1>1, <1>2 DEF Sound, Row
  <2> QED BY <1>1, <1>2, <2>1, ApplyPaymentKeepsSound DEF MarkAsPaid
<1>3. CASE expense[e].balance <= 0 /\ Put(e, Settled(expense[e])) /\ received' = received
  <2>1. FormsKept
    BY FormsUnchanged DEF MarkAsPaid, AllSound
  <2>2. Exists(expense[e]) /\ byHand' = byHand
    BY DEF MarkAsPaid
  <2>3. /\ Sound(Settled(expense[e]), received[e])
        /\ Moves(expense[e], Settled(expense[e]))
    BY <1>1, <1>3, <2>2, SettledIsSound
  <2> QED BY <1>3, <2>1, <2>2, <2>3, RowWrittenUnpaid DEF Put
<1> QED BY <1>2, <1>3 DEF MarkAsPaid, Settled

LEMMA CancelKeepsSound ==
    ASSUME AllSound, NEW e \in Expenses, Cancel(e)
    PROVE  AllSound'
<1>1. FormsKept
  BY FormsUnchanged DEF Cancel, AllSound
<1>2. /\ Sound(Moved(expense[e], "canceled"), received[e])
      /\ Moves(expense[e], Moved(expense[e], "canceled"))
  BY MovedIsSound DEF Cancel, AllSound
<1> QED BY <1>1, <1>2, RowWrittenUnpaid DEF Cancel, Put

LEMMA HardDeleteKeepsSound ==
    ASSUME AllSound, NEW e \in Expenses, Exists(expense[e]), received[e] = 0, HardDelete(e)
    PROVE  AllSound'
<1>1. FormsKept
  BY FormsUnchanged DEF HardDelete, AllSound
<1>2. /\ Sound(Removed(expense[e]), received[e])
      /\ Moves(expense[e], Removed(expense[e]))
  BY RemovedIsSound DEF AllSound
<1> QED BY <1>1, <1>2, RowWrittenUnpaid DEF HardDelete, Put, Removed

LEMMA LapseKeepsSound ==
    ASSUME AllSound, NEW late \in SUBSET Expenses, Lapse(late)
    PROVE  AllSound'
<1>1. \A e \in Expenses :
         /\ Sound(expense'[e], received[e])
         /\ Moves(expense[e], expense'[e])
  <2> SUFFICES ASSUME NEW e \in Expenses
               PROVE  Sound(expense'[e], received[e]) /\ Moves(expense[e], expense'[e])
    OBVIOUS
  <2>1. CASE e \in late
    <3>1. expense'[e] = Moved(expense[e], "overdue") /\ CanMove(expense[e].status, "overdue")
      BY <2>1 DEF Lapse, CanMove
    <3> QED BY <3>1, MovedIsSound DEF AllSound
  <2>2. CASE e \notin late
    BY <2>2 DEF Lapse, AllSound, Moves
  <2> QED BY <2>1, <2>2
<1>2. \A e \in Expenses : expense'[e] \in Row
  BY <1>1 DEF Sound
<1>3. expense' \in [Expenses -> Row]
  BY <1>2 DEF Lapse
<1>4. FormsAreTrue'
  <2> SUFFICES ASSUME NEW c \in Clients, NEW e \in Expenses, form[c].of = e
               PROVE  FormIsTrue(form[c], expense'[e])
    BY DEF FormsAreTrue, Lapse
  <2>1. FormIsTrue(form[c], expense[e])
    BY DEF AllSound, FormsAreTrue
  <2>2. form[c] \in [of: Expenses \cup {Nothing}, seen: Row] /\ expense[e] \in Row
    BY DEF AllSound, TypeOK
  <2> QED BY <1>1, <1>2, <2>1, <2>2, MovesKeepFormsTrue
<1>5. UNCHANGED <<received, byHand, form>>
  BY DEF Lapse
<1> QED BY <1>1, <1>3, <1>4, <1>5 DEF AllSound, TypeOK

LEMMA OpenFormKeepsSound ==
    ASSUME AllSound, NEW c \in Clients, NEW e \in Expenses, OpenForm(c, e)
    PROVE  AllSound'
<1>1. /\ expense' = expense /\ received' = received /\ byHand' = byHand
      /\ form' = [form EXCEPT ![c] = [of |-> e, seen |-> expense[e]]]
      /\ Exists(expense[e])
  BY DEF OpenForm
<1>2. TypeOK'
  BY <1>1 DEF AllSound, TypeOK
<1>3. FormsAreTrue'
  <2> SUFFICES ASSUME NEW k \in Clients, NEW d \in Expenses, form'[k].of = d
               PROVE  FormIsTrue(form'[k], expense[d])
    BY <1>1 DEF FormsAreTrue
  <2>1. CASE k = c
    <3>1. form'[k] = [of |-> e, seen |-> expense[e]] /\ d = e
      BY <1>1, <2>1 DEF AllSound, TypeOK
    <3>2. expense[e].status # "absent" /\ expense[e].version \in Nat
      BY <1>1 DEF Exists, Statuses, AllSound, TypeOK, Row
    <3> QED BY <3>1, <3>2 DEF FormIsTrue
  <2>2. CASE k # c
    BY <1>1, <2>2 DEF AllSound, TypeOK, FormsAreTrue
  <2> QED BY <2>1, <2>2
<1> QED BY <1>1, <1>2, <1>3 DEF AllSound

LEMMA CloseFormKeepsSound ==
    ASSUME AllSound, NEW c \in Clients, CloseForm(c)
    PROVE  AllSound'
<1>1. /\ expense' = expense /\ received' = received /\ byHand' = byHand
      /\ FormsKept
  BY FormsClosed DEF CloseForm, AllSound
<1>2. FormsAreTrue'
  BY <1>1, NothingAssumption DEF AllSound, FormsAreTrue, FormsKept, NoForm
<1> QED BY <1>1, <1>2 DEF AllSound, TypeOK, FormsKept

LEMMA StepKeepsSound == AllSound /\ [Next]_vars => AllSound'
<1> SUFFICES ASSUME AllSound, [Next]_vars PROVE AllSound'
  OBVIOUS
<1>1. ASSUME NEW e \in Expenses, NEW t \in Totals, CreateExpense(e, t) PROVE AllSound'
  BY <1>1, CreateKeepsSound
<1>2. ASSUME NEW e \in Expenses, NEW source \in Expenses, Duplicate(e, source)
      PROVE AllSound'
  BY <1>1, <1>2, DuplicateCreates
<1>3. ASSUME NEW e \in Expenses, NEW a \in Amounts, RecordPayment(e, a) PROVE AllSound'
  BY <1>3, RecordPaymentKeepsSound
<1>4. ASSUME NEW e \in Expenses, MarkAsPaid(e) PROVE AllSound'
  BY <1>4, MarkAsPaidKeepsSound
<1>5. ASSUME NEW e \in Expenses, Cancel(e) PROVE AllSound'
  BY <1>5, CancelKeepsSound
<1>6. ASSUME NEW e \in Expenses, Delete(e) PROVE AllSound'
  BY <1>5, <1>6, HardDeleteKeepsSound DEF Delete
<1>7. ASSUME NEW late \in SUBSET Expenses, Lapse(late) PROVE AllSound'
  BY <1>7, LapseKeepsSound
<1>8. ASSUME NEW c \in Clients, NEW e \in Expenses, OpenForm(c, e) PROVE AllSound'
  BY <1>8, OpenFormKeepsSound
<1>9. ASSUME NEW c \in Clients, NEW t \in Totals, Update(c, t) PROVE AllSound'
  BY <1>9, UpdateKeepsSound
<1>10. ASSUME NEW c \in Clients, CloseForm(c) PROVE AllSound'
  BY <1>10, CloseFormKeepsSound
<1>11. CASE UNCHANGED vars
  BY <1>11 DEF vars, AllSound, TypeOK, FormsAreTrue
<1> QED
  BY <1>1, <1>2, <1>3, <1>4, <1>5, <1>6, <1>7, <1>8, <1>9, <1>10, <1>11 DEF Next

LEMMA SoundAlways == Spec => []AllSound
BY InitIsSound, StepKeepsSound, PTL DEF Spec

(* The row, its payments and its status tell one story (_apply_payment,    *)
(* mark_as_paid, update, delete, cancel and the nightly job), whatever the *)
(* sequence of requests and however old the forms they come from.          *)
THEOREM ExpensesKeepAccounts == Spec => []AccountsAgree
BY SoundAlways, AllSoundAccounts, PTL

------------------------------------------------------------------------------
(* What a step may do to one expense. *)

Quiet(d) ==
    expense'[d] = expense[d] /\ received'[d] = received[d] /\ byHand'[d] = byHand[d]

Raised(d) == expense[d].status = "absent" /\ received'[d] = received[d]

Rewritten(d) ==
    /\ Exists(expense[d]) /\ IsEditable(expense[d]) /\ Exists(expense'[d])
    /\ received'[d] = received[d]
    /\ \E c \in Clients : form[c] = [of |-> d, seen |-> expense[d]]

Paid(d) ==
    /\ expense[d].status # "canceled" /\ Exists(expense'[d])
    /\ expense'[d].total = expense[d].total
    /\ received'[d] > received[d]
    /\ byHand'[d] = byHand[d] => received'[d] = expense[d].total

Carried(d) ==
    /\ expense[d].status # "canceled" /\ Exists(expense'[d])
    /\ expense'[d].total = expense[d].total
    /\ received'[d] = received[d]

Gone(d) ==
    /\ received[d] = 0 /\ received'[d] = 0
    /\ expense'[d].total = expense[d].total

Effect(d) ==
    Quiet(d) \/ Raised(d) \/ Rewritten(d) \/ Paid(d) \/ Carried(d) \/ Gone(d)

\* An operation on e leaves every other expense as it was.
LEMMA OthersAreQuiet ==
    ASSUME TypeOK, NEW e \in Expenses, NEW row, NEW sum, NEW hand,
           expense' = [expense EXCEPT ![e] = row],
           received' = [received EXCEPT ![e] = sum],
           byHand' = [byHand EXCEPT ![e] = hand],
           NEW d \in Expenses
    PROVE  IF d = e THEN expense'[d] = row /\ received'[d] = sum /\ byHand'[d] = hand
                    ELSE Quiet(d)
BY DEF TypeOK, Quiet

LEMMA OthersAreQuietUnpaid ==
    ASSUME TypeOK, NEW e \in Expenses, NEW row,
           expense' = [expense EXCEPT ![e] = row],
           received' = received, byHand' = byHand,
           NEW d \in Expenses
    PROVE  /\ received'[d] = received[d] /\ byHand'[d] = byHand[d]
           /\ IF d = e THEN expense'[d] = row ELSE Quiet(d)
BY DEF TypeOK, Quiet

LEMMA CreateHasEffect ==
    ASSUME AllSound, NEW e \in Expenses, NEW t \in Totals, CreateExpense(e, t),
           NEW d \in Expenses
    PROVE  Effect(d)
<1>1. /\ received'[d] = received[d]
      /\ d # e => Quiet(d)
  BY OthersAreQuietUnpaid DEF CreateExpense, Put, AllSound
<1> QED BY <1>1 DEF CreateExpense, Effect, Raised

LEMMA UpdateHasEffect ==
    ASSUME AllSound, NEW c \in Clients, NEW total \in Totals, Update(c, total),
           NEW d \in Expenses
    PROVE  Effect(d)
<1>1. PICK e \in Expenses :
         /\ form[c].of = e /\ Exists(expense[e]) /\ IsEditable(expense[e])
         /\ form[c].seen.version = expense[e].version
         /\ total - expense[e].paid >= 0
         /\ Put(e, Edited(expense[e], total))
         /\ UNCHANGED <<received, byHand>>
  BY DEF Update
<1>2. expense' = [expense EXCEPT ![e] = Edited(expense[e], total)]
  BY <1>1 DEF Put
<1>3. /\ received'[d] = received[d]
      /\ IF d = e THEN expense'[d] = Edited(expense[e], total) ELSE Quiet(d)
  BY <1>1, <1>2, OthersAreQuietUnpaid DEF AllSound
<1>4. ASSUME d = e PROVE Rewritten(d)
  <2>1. Exists(expense'[d])
    BY <1>1, <1>3, <1>4, UpdateEdits DEF Exists
  <2>2. form[c] \in [of: Expenses \cup {Nothing}, seen: Row] /\ form[c].seen = expense[d]
    BY <1>1, <1>4 DEF AllSound, TypeOK, FormsAreTrue, FormIsTrue
  <2>3. form[c] = [of |-> d, seen |-> expense[d]]
    BY <1>1, <1>4, <2>2
  <2> QED BY <1>1, <1>3, <1>4, <2>1, <2>3 DEF Rewritten
<1> QED BY <1>3, <1>4 DEF Effect

LEMMA PaymentHasEffect ==
    ASSUME AllSound, NEW e \in Expenses, NEW a \in Nat, a > 0, NEW hand,
           Exists(expense[e]), expense[e].status # "canceled",
           ApplyPayment(e, a), byHand' = [byHand EXCEPT ![e] = hand],
           hand = byHand[e] => received[e] + a = expense[e].total,
           NEW d \in Expenses
    PROVE  Effect(d)
<1>1. /\ expense' = [expense EXCEPT ![e] = PaidRow(expense[e], a)]
      /\ received' = [received EXCEPT ![e] = received[e] + a]
  BY DEF ApplyPayment, Put
<1>2. IF d = e THEN /\ expense'[d] = PaidRow(expense[e], a)
                    /\ received'[d] = received[e] + a
                    /\ byHand'[d] = hand
               ELSE Quiet(d)
  <2>1. TypeOK
    BY DEF AllSound
  <2>2. byHand' = [byHand EXCEPT ![e] = hand]
    OBVIOUS
  <2>3. PICK row, sum : row = PaidRow(expense[e], a) /\ sum = received[e] + a
    OBVIOUS
  <2>4. expense' = [expense EXCEPT ![e] = row] /\ received' = [received EXCEPT ![e] = sum]
    BY <1>1, <2>3
  <2> HIDE DEF PaidRow
  <2>5. IF d = e THEN expense'[d] = row /\ received'[d] = sum /\ byHand'[d] = hand
                 ELSE Quiet(d)
    BY <2>1, <2>2, <2>4, OthersAreQuiet
  <2> QED BY <2>3, <2>5
<1>3. ASSUME d = e PROVE Paid(d)
  <2>1. Sound(expense[e], received[e])
    BY DEF AllSound
  <2>2. /\ Exists(PaidRow(expense[e], a))
        /\ PaidRow(expense[e], a).total = expense[e].total
    BY <2>1, PaidRowIsSound
  <2>3. received[e] + a > received[e]
    BY <2>1 DEF Sound
  <2> QED BY <1>2, <1>3, <2>2, <2>3 DEF Paid
<1> QED BY <1>2, <1>3 DEF Effect

LEMMA RecordPaymentHasEffect ==
    ASSUME AllSound, NEW e \in Expenses, NEW a \in Amounts, RecordPayment(e, a),
           NEW d \in Expenses
    PROVE  Effect(d)
<1>1. a \in Nat /\ a > 0
  BY MoneyAssumption
<1>2. byHand' = [byHand EXCEPT ![e] = byHand[e] + a] /\ byHand[e] + a # byHand[e]
  BY <1>1 DEF RecordPayment, AllSound, TypeOK
<1> QED BY <1>1, <1>2, PaymentHasEffect DEF RecordPayment

LEMMA MarkAsPaidHasEffect ==
    ASSUME AllSound, NEW e \in Expenses, MarkAsPaid(e), NEW d \in Expenses
    PROVE  Effect(d)
<1>1. /\ Sound(expense[e], received[e]) /\ Exists(expense[e])
      /\ expense[e].status # "canceled"
      /\ byHand' = byHand /\ byHand' = [byHand EXCEPT ![e] = byHand[e]]
  BY DEF MarkAsPaid, AllSound, TypeOK
<1>2. CASE expense[e].balance > 0 /\ ApplyPayment(e, expense[e].balance)
  <2>1. /\ expense[e].balance \in Nat
        /\ received[e] + expense[e].balance = expense[e].total
    BY <1>1, <1>2 DEF Sound, Row, RowAgrees
  <2> QED BY <1>1, <1>2, <2>1, PaymentHasEffect
<1>3. CASE expense[e].balance <= 0 /\ Put(e, Settled(expense[e])) /\ received' = received
  <2>1. expense' = [expense EXCEPT ![e] = Settled(expense[e])]
    BY <1>3 DEF Put
  <2>2. /\ received'[d] = received[d]
        /\ IF d = e THEN expense'[d] = Settled(expense[e]) ELSE Quiet(d)
    BY <1>1, <1>3, <2>1, OthersAreQuietUnpaid DEF AllSound
  <2>3. /\ Settled(expense[e]).status = "paid"
        /\ Settled(expense[e]).total = expense[e].total
    BY <1>1, <1>3, SettledIsSound
  <2> QED BY <1>1, <2>2, <2>3 DEF Effect, Carried, Exists, Statuses
<1> QED BY <1>2, <1>3 DEF MarkAsPaid, Settled

LEMMA CancelHasEffect ==
    ASSUME AllSound, NEW e \in Expenses, Cancel(e), NEW d \in Expenses
    PROVE  Effect(d)
<1>1. /\ expense' = [expense EXCEPT ![e] = Moved(expense[e], "canceled")]
      /\ received' = received /\ byHand' = byHand
      /\ CanMove(expense[e].status, "canceled")
  BY DEF Cancel, Put
<1>2. /\ received'[d] = received[d]
      /\ IF d = e THEN expense'[d] = Moved(expense[e], "canceled") ELSE Quiet(d)
  BY <1>1, OthersAreQuietUnpaid DEF AllSound
<1>3. /\ Moved(expense[e], "canceled").status = "canceled"
      /\ Moved(expense[e], "canceled").total = expense[e].total
  BY <1>1, MovedIsSound DEF AllSound
<1> QED BY <1>1, <1>2, <1>3 DEF Effect, Carried, Exists, Statuses, CanMove

LEMMA HardDeleteHasEffect ==
    ASSUME AllSound, NEW e \in Expenses, Exists(expense[e]), received[e] = 0,
           HardDelete(e), NEW d \in Expenses
    PROVE  Effect(d)
<1>1. /\ expense' = [expense EXCEPT ![e] = Removed(expense[e])]
      /\ received' = received /\ byHand' = byHand
  BY DEF HardDelete, Put, Removed
<1>2. /\ received'[d] = received[d]
      /\ IF d = e THEN expense'[d] = Removed(expense[e]) ELSE Quiet(d)
  BY <1>1, OthersAreQuietUnpaid DEF AllSound
<1>3. Removed(expense[e]).total = expense[e].total
  BY RemovedIsSound DEF AllSound
<1> QED BY <1>2, <1>3 DEF Effect, Gone

LEMMA LapseHasEffect ==
    ASSUME AllSound, NEW late \in SUBSET Expenses, Lapse(late), NEW d \in Expenses
    PROVE  Effect(d)
<1>1. received'[d] = received[d] /\ byHand'[d] = byHand[d]
  BY DEF Lapse
<1>2. CASE d \in late
  <2>1. expense'[d] = Moved(expense[d], "overdue") /\ CanMove(expense[d].status, "overdue")
    BY <1>2 DEF Lapse, CanMove
  <2>2. /\ Moved(expense[d], "overdue").status = "overdue"
        /\ Moved(expense[d], "overdue").total = expense[d].total
    BY <2>1, MovedIsSound DEF AllSound
  <2> QED BY <1>1, <2>1, <2>2 DEF Effect, Carried, Exists, Statuses, CanMove
<1>3. CASE d \notin late
  BY <1>1, <1>3 DEF Lapse, Effect, Quiet
<1> QED BY <1>2, <1>3

LEMMA StepHasEffect ==
    ASSUME AllSound, [Next]_vars, NEW d \in Expenses
    PROVE  Effect(d)
<1>1. ASSUME NEW e \in Expenses, NEW t \in Totals, CreateExpense(e, t) PROVE Effect(d)
  BY <1>1, CreateHasEffect
<1>2. ASSUME NEW e \in Expenses, NEW source \in Expenses, Duplicate(e, source)
      PROVE Effect(d)
  BY <1>1, <1>2, DuplicateCreates
<1>3. ASSUME NEW e \in Expenses, NEW a \in Amounts, RecordPayment(e, a) PROVE Effect(d)
  BY <1>3, RecordPaymentHasEffect
<1>4. ASSUME NEW e \in Expenses, MarkAsPaid(e) PROVE Effect(d)
  BY <1>4, MarkAsPaidHasEffect
<1>5. ASSUME NEW e \in Expenses, Cancel(e) PROVE Effect(d)
  BY <1>5, CancelHasEffect
<1>6. ASSUME NEW e \in Expenses, Delete(e) PROVE Effect(d)
  BY <1>5, <1>6, HardDeleteHasEffect DEF Delete
<1>7. ASSUME NEW late \in SUBSET Expenses, Lapse(late) PROVE Effect(d)
  BY <1>7, LapseHasEffect
<1>8. ASSUME NEW c \in Clients, NEW e \in Expenses, OpenForm(c, e) PROVE Effect(d)
  BY <1>8 DEF OpenForm, Effect, Quiet
<1>9. ASSUME NEW c \in Clients, NEW t \in Totals, Update(c, t) PROVE Effect(d)
  BY <1>9, UpdateHasEffect
<1>10. ASSUME NEW c \in Clients, CloseForm(c) PROVE Effect(d)
  BY <1>10 DEF CloseForm, Effect, Quiet
<1>11. CASE UNCHANGED vars
  BY <1>11 DEF vars, Effect, Quiet
<1> QED
  BY <1>1, <1>2, <1>3, <1>4, <1>5, <1>6, <1>7, <1>8, <1>9, <1>10, <1>11 DEF Next

(* mark_as_paid brings what was received exactly to the total, however     *)
(* often a request is repeated.                                            *)
THEOREM MarkAsPaidSettlesExactly == Spec => SettlesExactly
<1>1. ASSUME AllSound, [Next]_vars, NEW e \in Expenses,
             received'[e] # received[e], byHand'[e] = byHand[e]
      PROVE  received'[e] = expense'[e].total /\ received[e] < received'[e]
  <2>1. Effect(e)
    BY <1>1, StepHasEffect
  <2>2. received[e] \in Nat
    BY <1>1 DEF AllSound, TypeOK
  <2>3. \/ received[e] = 0 /\ expense[e].status = "absent"
        \/ expense[e].status # "absent"
    BY <1>1 DEF AllSound, Sound, Exists, Statuses
  <2> QED BY <1>1, <2>1, <2>2, <2>3
             DEF Effect, Quiet, Raised, Rewritten, Paid, Carried, Gone
<1>2. AllSound /\ [Next]_vars =>
         [\A e \in Expenses :
             received'[e] # received[e] /\ byHand'[e] = byHand[e] =>
                received'[e] = expense'[e].total /\ received[e] < received'[e]]_vars
  BY <1>1
<1> QED BY <1>2, SoundAlways, PTL DEF Spec, SettlesExactly

(* Once money was received the expense stays, the sum never shrinks, and a *)
(* canceled one never changes again: delete() only cancels it.             *)
THEOREM PaymentsStay == Spec => PaymentsAreKept
<1>1. ASSUME AllSound, [Next]_vars, NEW e \in Expenses, received[e] > 0
      PROVE  /\ Exists(expense'[e])
             /\ received'[e] >= received[e]
             /\ expense[e].status = "canceled" => expense'[e] = expense[e]
  <2>1. Effect(e)
    BY <1>1, StepHasEffect
  <2>2. received[e] \in Nat /\ Exists(expense[e]) /\ received[e] # 0
    BY <1>1 DEF AllSound, TypeOK, Sound
  <2>3. received'[e] \in Nat
    BY <1>1, StepKeepsSound DEF AllSound, TypeOK
  <2>4. CASE Quiet(e)
    BY <2>2, <2>4 DEF Quiet
  <2>5. CASE Rewritten(e)
    BY <2>2, <2>5 DEF Rewritten, IsEditable
  <2>6. CASE Paid(e) \/ Carried(e)
    BY <2>2, <2>3, <2>6 DEF Paid, Carried
  <2>7. ~Raised(e) /\ ~Gone(e)
    BY <2>2 DEF Raised, Gone, Exists, Statuses
  <2> QED BY <2>1, <2>4, <2>5, <2>6, <2>7 DEF Effect
<1>2. AllSound /\ [Next]_vars =>
         [\A e \in Expenses : received[e] > 0 =>
             /\ Exists(expense'[e])
             /\ received'[e] >= received[e]
             /\ expense[e].status = "canceled" => expense'[e] = expense[e]]_vars
  BY <1>1
<1> QED BY <1>2, SoundAlways, PTL DEF Spec, PaymentsAreKept

(* A client's edit only replaces what it had on its screen: assert_version *)
(* in update(), because every other operation moves the version.           *)
THEOREM EditsWereSeen == Spec => EditsReplaceWhatWasSeen
<1>1. ASSUME AllSound, [Next]_vars, NEW e \in Expenses,
             expense'[e].total # expense[e].total, Exists(expense[e])
      PROVE  \E c \in Clients : form[c] = [of |-> e, seen |-> expense[e]]
  <2>1. Effect(e)
    BY <1>1, StepHasEffect
  <2> QED BY <1>1, <2>1 DEF Effect, Quiet, Raised, Rewritten, Paid, Carried, Gone,
                            Exists, Statuses
<1>2. AllSound /\ [Next]_vars =>
         [\A e \in Expenses :
             expense'[e].total # expense[e].total /\ Exists(expense[e]) =>
                \E c \in Clients : form[c] = [of |-> e, seen |-> expense[e]]]_vars
  BY <1>1
<1> QED BY <1>2, SoundAlways, PTL DEF Spec, EditsReplaceWhatWasSeen

------------------------------------------------------------------------------
(* Settlement is implemented: what one row owes and where it stands. *)

Owed == [e \in Expenses |-> expense[e].total]
Stands == [e \in Expenses |-> Standing(expense[e])]

LEMMA StandingOf ==
    ASSUME NEW row
    PROVE  /\ row.status = "absent" => Standing(row) = "none"
           /\ IsEditable(row) => Standing(row) = "open"
           /\ row.status = "paid" => Standing(row) = "settled"
           /\ row.status = "canceled" => Standing(row) = "void"
           /\ row.status = "deleted" => Standing(row) = "gone"
BY DEF Standing, IsEditable

\* A write of one row, seen as the abstract step of that document.
LEMMA OneDocument ==
    ASSUME TypeOK, NEW e \in Expenses, NEW row, expense' = [expense EXCEPT ![e] = row]
    PROVE  /\ Owed' = [Owed EXCEPT ![e] = row.total]
           /\ Stands' = [Stands EXCEPT ![e] = Standing(row)]
           /\ row.total = expense[e].total => Owed' = Owed
           /\ Standing(row) = Standing(expense[e]) => Stands' = Stands
           /\ Owed[e] = expense[e].total /\ Stands[e] = Standing(expense[e])
BY DEF TypeOK, Owed, Stands

LEMMA CreateRaises ==
    ASSUME AllSound, NEW e \in Expenses, NEW t \in Totals, CreateExpense(e, t)
    PROVE  Promise!Raise(e, t)
<1>1. /\ Pending(t).total = t /\ Standing(Pending(t)) = "open"
      /\ Standing(expense[e]) = "none"
  BY StandingOf DEF Pending, IsEditable, CreateExpense
<1>2. expense' = [expense EXCEPT ![e] = Pending(t)] /\ received' = received
  BY DEF CreateExpense, Put
<1>3. /\ Owed' = [Owed EXCEPT ![e] = Pending(t).total]
      /\ Stands' = [Stands EXCEPT ![e] = Standing(Pending(t))]
      /\ Stands[e] = Standing(expense[e])
  BY <1>2, OneDocument DEF AllSound
<1>4. /\ Owed' = [Owed EXCEPT ![e] = t]
      /\ Stands' = [Stands EXCEPT ![e] = "open"] /\ Stands[e] = "none"
  BY <1>1, <1>3
<1> QED BY <1>2, <1>4 DEF Promise!Raise, Owed, Stands

LEMMA UpdateReprices ==
    ASSUME AllSound, NEW c \in Clients, NEW total \in Totals, Update(c, total)
    PROVE  \E e \in Expenses : Promise!Reprice(e, total)
<1>1. PICK e \in Expenses :
         /\ form[c].of = e /\ IsEditable(expense[e]) /\ total - expense[e].paid >= 0
         /\ Put(e, Edited(expense[e], total))
         /\ received' = received
  BY DEF Update
<1> DEFINE row == Edited(expense[e], total)
<1>2. /\ row.status = expense[e].status /\ row.total = total
  BY <1>1, UpdateEdits
<1>3. /\ Standing(row) = Standing(expense[e]) /\ Standing(expense[e]) = "open"
  BY <1>1, <1>2, StandingOf DEF IsEditable
<1>4. total >= received[e]
  BY <1>1, MoneyAssumption DEF AllSound, Sound, RowAgrees
<1>5. expense' = [expense EXCEPT ![e] = row]
  BY <1>1 DEF Put
<1> HIDE DEF row
<1>6. /\ Owed' = [Owed EXCEPT ![e] = total] /\ Stands' = Stands /\ Stands[e] = "open"
  BY <1>2, <1>3, <1>5, OneDocument DEF AllSound
<1>7. Promise!Reprice(e, total)
  BY <1>1, <1>4, <1>6 DEF Promise!Reprice, Owed, Stands
<1> QED BY <1>7

LEMMA PaymentIsReceived ==
    ASSUME AllSound, NEW e \in Expenses, NEW a \in Nat, a > 0,
           Exists(expense[e]), expense[e].status # "canceled", ApplyPayment(e, a)
    PROVE  Promise!Receive(e)
<1>1. Sound(expense[e], received[e]) /\ TypeOK
  BY DEF AllSound
<1> DEFINE row == PaidRow(expense[e], a)
<1>2. /\ row.total = expense[e].total
      /\ row.status = "paid" <=> received[e] + a >= expense[e].total
      /\ row.status \in {"pending", "overdue", "paid"}
  BY <1>1, PaidRowIsSound
<1>3. /\ expense' = [expense EXCEPT ![e] = row]
      /\ received' = [received EXCEPT ![e] = received[e] + a]
  BY DEF ApplyPayment, Put
<1> HIDE DEF row
<1>4. Standing(row) = IF received[e] + a >= expense[e].total THEN "settled" ELSE "open"
  BY <1>2, StandingOf DEF IsEditable
<1>5. Standing(expense[e]) \in {"open", "settled"}
  BY StandingOf DEF Exists, Statuses, IsEditable
<1>6. /\ row.total = expense[e].total => Owed' = Owed
      /\ Stands' = [Stands EXCEPT ![e] = Standing(row)]
      /\ Owed[e] = expense[e].total /\ Stands[e] = Standing(expense[e])
  BY <1>1, <1>3, OneDocument
<1>7. /\ Owed' = Owed /\ Owed[e] = expense[e].total
      /\ Stands' = [Stands EXCEPT ![e] = IF received[e] + a >= expense[e].total
                                         THEN "settled" ELSE "open"]
      /\ Stands[e] \in {"open", "settled"}
  BY <1>2, <1>4, <1>5, <1>6
<1>8. received'[e] = received[e] + a /\ received'[e] \in Nat
  BY <1>1, <1>3 DEF TypeOK
<1> QED BY <1>3, <1>7, <1>8 DEF Promise!Receive, Owed, Stands

LEMMA MarkAsPaidSettles ==
    ASSUME AllSound, NEW e \in Expenses, MarkAsPaid(e)
    PROVE  Promise!Receive(e) \/ Promise!Settle(e)
<1>1. /\ Sound(expense[e], received[e]) /\ TypeOK /\ Exists(expense[e])
      /\ expense[e].status # "canceled"
  BY DEF MarkAsPaid, AllSound
<1>2. CASE expense[e].balance > 0 /\ ApplyPayment(e, expense[e].balance)
  <2>1. expense[e].balance \in Nat
    BY <1>1, <1>2 DEF Sound, Row
  <2> QED BY <1>1, <1>2, <2>1, PaymentIsReceived
<1>3. CASE /\ expense[e].balance <= 0 /\ expense[e].status # "paid"
           /\ Put(e, Settled(expense[e])) /\ received' = received
  <2> DEFINE row == Settled(expense[e])
  <2>1. row.status = "paid" /\ row.total = expense[e].total
    BY <1>1, <1>3, SettledIsSound
  <2>2. expense' = [expense EXCEPT ![e] = row]
    BY <1>3 DEF Put
  <2> HIDE DEF row
  <2>3. Standing(row) = "settled" /\ Standing(expense[e]) = "open"
    BY <1>1, <1>3, <2>1, StandingOf DEF Exists, Statuses, IsEditable
  <2>4. received[e] >= expense[e].total
    BY <1>1, <1>3 DEF Sound, RowAgrees, Row
  <2>5. /\ row.total = expense[e].total => Owed' = Owed
        /\ Stands' = [Stands EXCEPT ![e] = Standing(row)]
        /\ Owed[e] = expense[e].total /\ Stands[e] = Standing(expense[e])
    BY <1>1, <2>2, OneDocument
  <2>6. /\ Owed' = Owed /\ Owed[e] = expense[e].total
        /\ Stands' = [Stands EXCEPT ![e] = "settled"] /\ Stands[e] = "open"
    BY <2>1, <2>3, <2>5
  <2> QED BY <1>3, <2>4, <2>6 DEF Promise!Settle, Owed, Stands
<1> QED BY <1>2, <1>3 DEF MarkAsPaid, Settled

LEMMA CancelVoids ==
    ASSUME AllSound, NEW e \in Expenses, Cancel(e)
    PROVE  Promise!Void(e)
<1> DEFINE row == Moved(expense[e], "canceled")
<1>1. /\ expense' = [expense EXCEPT ![e] = row] /\ received' = received
      /\ CanMove(expense[e].status, "canceled")
  BY DEF Cancel, Put
<1>2. row.status = "canceled" /\ row.total = expense[e].total
  BY <1>1, MovedIsSound DEF AllSound
<1> HIDE DEF row
<1>3. Standing(row) = "void" /\ Standing(expense[e]) \in {"open", "settled"}
  BY <1>1, <1>2, StandingOf DEF CanMove, IsEditable
<1>4. /\ row.total = expense[e].total => Owed' = Owed
      /\ Stands' = [Stands EXCEPT ![e] = Standing(row)]
      /\ Owed[e] = expense[e].total /\ Stands[e] = Standing(expense[e])
  BY <1>1, OneDocument DEF AllSound
<1>5. /\ Owed' = Owed /\ Stands' = [Stands EXCEPT ![e] = "void"]
      /\ Stands[e] \in {"open", "settled"}
  BY <1>2, <1>3, <1>4
<1> QED BY <1>1, <1>5 DEF Promise!Void, Owed, Stands

LEMMA HardDeleteRemoves ==
    ASSUME AllSound, NEW e \in Expenses, Exists(expense[e]), received[e] = 0, HardDelete(e)
    PROVE  Promise!Remove(e)
<1> DEFINE row == Removed(expense[e])
<1>1. expense' = [expense EXCEPT ![e] = row] /\ received' = received
  BY DEF HardDelete, Put, Removed
<1>2. row.status = "deleted" /\ row.total = expense[e].total
  BY RemovedIsSound DEF AllSound
<1> HIDE DEF row
<1>3. Standing(row) = "gone" /\ Standing(expense[e]) \in {"open", "settled", "void"}
  BY <1>2, StandingOf DEF Exists, Statuses, IsEditable
<1>4. /\ row.total = expense[e].total => Owed' = Owed
      /\ Stands' = [Stands EXCEPT ![e] = Standing(row)]
      /\ Owed[e] = expense[e].total /\ Stands[e] = Standing(expense[e])
  BY <1>1, OneDocument DEF AllSound
<1>5. /\ Owed' = Owed /\ Stands' = [Stands EXCEPT ![e] = "gone"]
      /\ Stands[e] \in {"open", "settled", "void"}
  BY <1>2, <1>3, <1>4
<1> QED BY <1>1, <1>5 DEF Promise!Remove, Owed, Stands

\* Overdue is still open.
LEMMA LapseStands ==
    ASSUME AllSound, NEW late \in SUBSET Expenses, Lapse(late)
    PROVE  Owed' = Owed /\ Stands' = Stands /\ received' = received
<1>1. ASSUME NEW e \in Expenses
      PROVE  /\ expense'[e].total = expense[e].total
             /\ Standing(expense'[e]) = Standing(expense[e])
  <2>1. CASE e \in late
    <3>1. /\ expense'[e] = Moved(expense[e], "overdue")
          /\ CanMove(expense[e].status, "overdue") /\ expense[e].status = "pending"
      BY <2>1 DEF Lapse, CanMove
    <3>2. /\ Moved(expense[e], "overdue").status = "overdue"
          /\ Moved(expense[e], "overdue").total = expense[e].total
      BY <3>1, MovedIsSound DEF AllSound
    <3> QED BY <3>1, <3>2, StandingOf DEF IsEditable
  <2>2. CASE e \notin late
    BY <2>2 DEF Lapse
  <2> QED BY <2>1, <2>2
<1>2. received' = received
  BY DEF Lapse
<1> QED BY <1>1, <1>2 DEF Owed, Stands

LEMMA StepSettles == AllSound /\ [Next]_vars => [Promise!Next]_(Promise!vars)
<1> SUFFICES ASSUME AllSound, [Next]_vars PROVE [Promise!Next]_(Promise!vars)
  OBVIOUS
<1>1. ASSUME NEW e \in Expenses, NEW t \in Totals, CreateExpense(e, t)
      PROVE  Promise!Next
  BY <1>1, CreateRaises DEF Promise!Next
<1>2. ASSUME NEW e \in Expenses, NEW source \in Expenses, Duplicate(e, source)
      PROVE  Promise!Next
  BY <1>1, <1>2, DuplicateCreates
<1>3. ASSUME NEW e \in Expenses, NEW a \in Amounts, RecordPayment(e, a)
      PROVE  Promise!Next
  <2>1. a \in Nat /\ a > 0
    BY MoneyAssumption
  <2>2. Promise!Receive(e)
    BY <1>3, <2>1, PaymentIsReceived DEF RecordPayment
  <2> QED BY <2>2 DEF Promise!Next
<1>4. ASSUME NEW e \in Expenses, MarkAsPaid(e) PROVE Promise!Next
  BY <1>4, MarkAsPaidSettles DEF Promise!Next
<1>5. ASSUME NEW e \in Expenses, Cancel(e) PROVE Promise!Next
  BY <1>5, CancelVoids DEF Promise!Next
<1>6. ASSUME NEW e \in Expenses, Delete(e) PROVE Promise!Next
  <2>1. CASE Exists(expense[e]) /\ received[e] = 0 /\ HardDelete(e)
    BY <2>1, HardDeleteRemoves DEF Promise!Next
  <2> QED BY <1>5, <1>6, <2>1 DEF Delete
<1>7. ASSUME Owed' = Owed, Stands' = Stands, received' = received
      PROVE  UNCHANGED Promise!vars
  BY <1>7 DEF Promise!vars, Owed, Stands
<1>8. ASSUME NEW late \in SUBSET Expenses, Lapse(late) PROVE UNCHANGED Promise!vars
  BY <1>7, <1>8, LapseStands
<1>9. ASSUME NEW c \in Clients, NEW t \in Totals, Update(c, t) PROVE Promise!Next
  BY <1>9, UpdateReprices DEF Promise!Next
<1>10. ASSUME expense' = expense, received' = received PROVE UNCHANGED Promise!vars
  BY <1>7, <1>10 DEF Owed, Stands
<1>11. ASSUME NEW c \in Clients, NEW e \in Expenses, OpenForm(c, e) \/ CloseForm(c)
       PROVE  UNCHANGED Promise!vars
  BY <1>10, <1>11 DEF OpenForm, CloseForm
<1>12. ASSUME NEW c \in Clients, CloseForm(c) PROVE UNCHANGED Promise!vars
  BY <1>10, <1>12 DEF CloseForm
<1>13. CASE UNCHANGED vars
  BY <1>10, <1>13 DEF vars
<1> QED
  BY <1>1, <1>2, <1>3, <1>4, <1>5, <1>6, <1>8, <1>9, <1>11, <1>12, <1>13 DEF Next

(* Expenses keep the payable's promise: an expense counts as settled       *)
(* exactly when a payment has covered it, is repriced only while open and  *)
(* never below what was received, and only goes when nothing was.          *)
THEOREM ExpensesSettle == Spec => ImplementsSettlement
<1>1. Init => Promise!Init
  BY StandingOf DEF Init, Promise!Init, Absent
<1> QED BY <1>1, SoundAlways, StepSettles, PTL DEF Spec, ImplementsSettlement, Promise!Spec

------------------------------------------------------------------------------
(* Stored objects.  The invariant gives each request what its row locks    *)
(* and its fresh keys guarantee it until it ends.                          *)

Has(w, task, stages) == job[w].task = task /\ job[w].stage \in stages

\* A document being attached is in the store and in no table yet.
AttachOK(w) ==
    Has(w, "attach", {"stored", "flushed"}) /\
    /\ job[w].parent \in Parents
    /\ job[w].stage = "flushed" => job[w].parent \in live
    /\ \E d \in Documents : job[w].keys = {d} /\ d \in stored /\ owner[d] = None

\* What a delete has taken from the store, or the store has refused to delete.
PurgedOK(w) ==
    job[w].stage = "purged" => \A d \in job[w].keys : d \in stored => d \in blamed

DetachOK(w) ==
    Has(w, "detach", {"flushed", "purged"}) /\
    /\ job[w].parent \in live
    /\ \E d \in Documents : job[w].keys = {d} /\ owner[d] = job[w].parent
    /\ PurgedOK(w)

\* Nothing is attached to or detached from a parent under its delete's lock.
RemoveOK(w) ==
    Has(w, "remove", {"flushed", "purged"}) /\
    /\ job[w].parent \in live
    /\ job[w].keys = {d \in Documents : owner[d] = job[w].parent}
    /\ PurgedOK(w)

\* No other request knows the key of a new logo.
LogoOK(w) ==
    Has(w, "logo", {"loaded", "flushed"}) /\
    /\ job[w].keys = {} \/ \E k \in Logos : job[w].keys = {k}
    /\ \A k \in job[w].keys :
          k \in stored /\ k # logo /\ \A v \in Workers : job[v].old # k

JobOK(w) == job[w] = Idle \/ AttachOK(w) \/ DetachOK(w) \/ RemoveOK(w) \/ LogoOK(w)

\* Two requests never work on one key, nor on a parent that one of them deletes.
JobsApart ==
    \A v, w \in Workers : v # w =>
        /\ job[v].keys \cap job[w].keys = {}
        /\ Changing(v, "remove")
             /\ \/ Changing(w, "remove") \/ Changing(w, "attach") \/ Changing(w, "detach")
           => job[v].parent # job[w].parent

OwnedOK(d) ==
    owner[d] # None =>
        /\ owner[d] \in live
        /\ d \in used
        /\ \/ d \in stored \/ d \in torn
           \/ \E w \in Workers : job[w].stage = "purged" /\ d \in job[w].keys

StoreInv ==
    /\ StoreTypeOK
    /\ \A w \in Workers : /\ JobOK(w)
                          /\ job[w].keys \subseteq used
                          /\ job[w].old \in used \cup {None}
    /\ JobsApart
    /\ \A d \in Documents : OwnedOK(d)
    /\ NoOrphans
    /\ logo # None => logo \in stored

LEMMA StoreInvIsEnough == StoreInv => NoOrphans /\ RowsHaveObjects
BY DEF StoreInv, OwnedOK, RowsHaveObjects, InUse

\* A request that starts, or moves on, has a well-formed record.
LEMMA GoKeepsType ==
    ASSUME StoreTypeOK, NEW w \in Workers, NEW r \in Job, Go(w, r)
    PROVE  /\ job' \in [Workers -> Job]
           /\ job'[w] = r
           /\ \A v \in Workers : v # w => job'[v] = job[v]
BY DEF StoreTypeOK, Go

LEMMA IdleIsJob == Idle \in Job
BY DEF Idle, Job, Stages

LEMMA FinishKeepsType ==
    ASSUME StoreTypeOK, NEW w \in Workers, Finish(w)
    PROVE  /\ job' \in [Workers -> Job]
           /\ job'[w] = Idle
           /\ \A v \in Workers : v # w => job'[v] = job[v]
BY IdleIsJob DEF StoreTypeOK, Finish

LEMMA UploadKeeps ==
    ASSUME StoreInv, NEW w \in Workers, NEW p \in Parents, NEW d \in Documents,
           Upload(w, p, d)
    PROVE  StoreInv'
<1> PICK r : r = [task |-> "attach", stage |-> "stored", parent |-> p, keys |-> {d},
                  old |-> None]
  OBVIOUS
<1>1. r \in Job /\ Go(w, r)
  BY DEF Job, Stages, Upload
<1>2. /\ job' \in [Workers -> Job]
      /\ job'[w] = r
      /\ \A v \in Workers : v # w => job'[v] = job[v]
  BY <1>1, GoKeepsType DEF StoreInv
<1>3. /\ r.task = "attach" /\ r.stage = "stored" /\ r.parent = p /\ r.keys = {d}
      /\ r.old = None
  OBVIOUS
<1> HIDE DEF Go
<1>4. /\ job[w] = Idle /\ d \notin used
      /\ used' = used \cup {d} /\ stored' = stored \cup {d}
      /\ UNCHANGED <<live, owner, logo, blamed, torn, failures>>
  BY DEF Upload
<1>5. job[w].stage = "idle" /\ job[w].keys = {} /\ job[w].task = "none" /\ job[w].old = None
  BY <1>4 DEF Idle
<1>6. StoreTypeOK'
  BY <1>2, <1>4 DEF StoreInv, StoreTypeOK
<1>7. owner[d] = None
  BY <1>4 DEF StoreInv, OwnedOK, StoreTypeOK
<1>8. JobOK(w)'
  BY <1>2, <1>3, <1>4, <1>7 DEF JobOK, AttachOK, Has
<1>9. ASSUME NEW v \in Workers, v # w PROVE JobOK(v)'
  BY <1>9, <1>2, <1>3, <1>4, NoneAssumption
  DEF StoreInv, JobOK, AttachOK, DetachOK, RemoveOK, LogoOK, PurgedOK, Has
<1>10. JobsApart'
  BY <1>2, <1>3, <1>4, <1>5 DEF StoreInv, JobsApart, Changing
<1>11. ASSUME NEW e \in Documents PROVE OwnedOK(e)'
  BY <1>2, <1>4, <1>5 DEF StoreInv, OwnedOK
<1>12. NoOrphans'
  BY <1>2, <1>3, <1>4, <1>5 DEF StoreInv, NoOrphans, InUse
<1> QED
  BY <1>2, <1>3, <1>4, <1>6, <1>8, <1>9, <1>10, <1>11, <1>12 DEF StoreInv

LEMMA AttachKeeps ==
    ASSUME StoreInv, NEW w \in Workers, Attach(w)
    PROVE  StoreInv'
<1> PICK r : r = [job[w] EXCEPT !.stage = "flushed"]
  OBVIOUS
<1>1. /\ job[w] \in Job /\ job[w].task = "attach" /\ job[w].stage = "stored"
      /\ job[w].parent \in live /\ ~ParentHeld(job[w].parent)
  BY DEF Attach, Doing, StoreInv, StoreTypeOK
<1>2. /\ r \in Job /\ r.task = "attach" /\ r.stage = "flushed"
      /\ r.parent = job[w].parent /\ r.keys = job[w].keys /\ r.old = job[w].old
  BY <1>1 DEF Job, Stages
<1>3. Go(w, r) /\ UNCHANGED <<stored, used, live, owner, logo, blamed, torn, failures>>
  BY DEF Attach
<1>4. /\ job' \in [Workers -> Job]
      /\ job'[w] = r
      /\ \A v \in Workers : v # w => job'[v] = job[v]
  BY <1>2, <1>3, GoKeepsType DEF StoreInv
<1>5. StoreTypeOK'
  BY <1>3, <1>4 DEF StoreInv, StoreTypeOK
<1>6. AttachOK(w)
  BY <1>1 DEF StoreInv, JobOK, AttachOK, DetachOK, RemoveOK, LogoOK, Has, Idle
<1>7. AttachOK(w)'
  BY <1>1, <1>2, <1>3, <1>4, <1>6 DEF AttachOK, Has
<1>9. \A v \in Workers : job'[v].keys = job[v].keys /\ job'[v].parent = job[v].parent
                         /\ job'[v].old = job[v].old
  BY <1>2, <1>4
<1>8. ASSUME NEW v \in Workers, v # w PROVE JobOK(v)'
  BY <1>8, <1>3, <1>4, <1>9
  DEF StoreInv, JobOK, AttachOK, DetachOK, RemoveOK, LogoOK, PurgedOK, Has
<1>10. \A v \in Workers : Changing(v, "remove")' => v # w /\ Changing(v, "remove")
                                                    /\ job'[v].parent # job'[w].parent
  <2> SUFFICES ASSUME NEW v \in Workers, Changing(v, "remove")'
               PROVE  /\ v # w /\ Changing(v, "remove")
                      /\ job'[v].parent # job'[w].parent
    OBVIOUS
  <2>1. job'[v].task = "remove"
    BY DEF Changing
  <2>2. v # w
    BY <2>1, <1>2, <1>4
  <2>3. Changing(v, "remove")
    BY <2>2, <1>4 DEF Changing
  <2>4. job[v].parent # job[w].parent
    BY <2>3, <1>1 DEF ParentHeld
  <2> QED
    BY <2>2, <2>3, <2>4, <1>9
<1>11. JobsApart'
  BY <1>2, <1>4, <1>9, <1>10 DEF StoreInv, JobsApart, Changing
<1>12. ASSUME NEW e \in Documents PROVE OwnedOK(e)'
  BY <1>1, <1>2, <1>3, <1>4 DEF StoreInv, OwnedOK
<1>13. NoOrphans'
  BY <1>3, <1>9 DEF StoreInv, NoOrphans, InUse
<1> QED
  BY <1>2, <1>3, <1>5, <1>7, <1>8, <1>9, <1>11, <1>12, <1>13 DEF StoreInv, JobOK

LEMMA DetachKeeps ==
    ASSUME StoreInv, NEW w \in Workers, NEW d \in Documents, Detach(w, d)
    PROVE  StoreInv'
<1> PICK r : r = [task |-> "detach", stage |-> "flushed", parent |-> owner[d],
                  keys |-> {d}, old |-> None]
  OBVIOUS
<1>1. /\ job[w] = Idle /\ owner[d] # None
      /\ ~DocumentHeld(d) /\ ~ParentHeld(owner[d])
      /\ UNCHANGED <<stored, used, live, owner, logo, blamed, torn, failures>>
  BY DEF Detach
<1>2. owner[d] \in live /\ owner[d] \in Parents /\ d \in used
  BY <1>1 DEF StoreInv, OwnedOK, StoreTypeOK
<1>3. /\ r \in Job /\ r.task = "detach" /\ r.stage = "flushed" /\ r.parent = owner[d]
      /\ r.keys = {d} /\ r.old = None
  BY <1>2 DEF Job, Stages
<1>4. Go(w, r)
  BY DEF Detach
<1>5. /\ job' \in [Workers -> Job]
      /\ job'[w] = r
      /\ \A v \in Workers : v # w => job'[v] = job[v]
  BY <1>3, <1>4, GoKeepsType DEF StoreInv
<1>6. job[w].stage = "idle" /\ job[w].keys = {} /\ job[w].task = "none" /\ job[w].old = None
  BY <1>1 DEF Idle
<1>7. StoreTypeOK'
  BY <1>1, <1>5 DEF StoreInv, StoreTypeOK
<1>8. DetachOK(w)'
  BY <1>1, <1>2, <1>3, <1>5 DEF DetachOK, Has, PurgedOK
<1>9. ASSUME NEW v \in Workers, v # w PROVE JobOK(v)'
  BY <1>9, <1>1, <1>3, <1>5, NoneAssumption
  DEF StoreInv, JobOK, AttachOK, DetachOK, RemoveOK, LogoOK, PurgedOK, Has
<1>10. ASSUME NEW v \in Workers, v # w PROVE d \notin job[v].keys
  <2>1. CASE job[v] = Idle
    BY <2>1 DEF Idle
  <2>2. CASE AttachOK(v)
    BY <2>2, <1>1 DEF AttachOK
  <2>3. CASE DetachOK(v)
    BY <2>3, <1>1 DEF DetachOK, Has, DocumentHeld, Changing
  <2>4. CASE RemoveOK(v)
    BY <2>4, <1>1 DEF RemoveOK, Has, ParentHeld, Changing
  <2>5. CASE LogoOK(v)
    BY <2>5, KeysAssumption DEF LogoOK
  <2> QED
    BY <2>1, <2>2, <2>3, <2>4, <2>5 DEF StoreInv, JobOK
<1>11. ASSUME NEW v \in Workers, v # w, Changing(v, "remove") PROVE job[v].parent # owner[d]
  BY <1>11, <1>1 DEF ParentHeld
<1>12. JobsApart'
  BY <1>3, <1>5, <1>10, <1>11 DEF StoreInv, JobsApart, Changing
<1>13. ASSUME NEW e \in Documents PROVE OwnedOK(e)'
  BY <1>1, <1>5, <1>6 DEF StoreInv, OwnedOK
<1>14. NoOrphans'
  BY <1>1, <1>5, <1>6 DEF StoreInv, NoOrphans, InUse
<1> QED
  BY <1>1, <1>2, <1>3, <1>5, <1>7, <1>8, <1>9, <1>12, <1>13, <1>14 DEF StoreInv, JobOK

LEMMA RemoveParentKeeps ==
    ASSUME StoreInv, NEW w \in Workers, NEW p \in Parents, RemoveParent(w, p)
    PROVE  StoreInv'
<1> PICK r : r = [task |-> "remove", stage |-> "flushed", parent |-> p,
                  keys |-> {d \in Documents : owner[d] = p}, old |-> None]
  OBVIOUS
<1>1. /\ job[w] = Idle /\ p \in live
      /\ ~ParentHeld(p) /\ ~ParentShared(p)
      /\ \A d \in Documents : owner[d] = p => ~DocumentHeld(d)
      /\ UNCHANGED <<stored, used, live, owner, logo, blamed, torn, failures>>
  BY DEF RemoveParent
<1>2. /\ r \in Job /\ r.task = "remove" /\ r.stage = "flushed" /\ r.parent = p
      /\ r.keys = {d \in Documents : owner[d] = p} /\ r.old = None
  BY DEF Job, Stages
<1>3. Go(w, r)
  BY DEF RemoveParent
<1>4. /\ job' \in [Workers -> Job]
      /\ job'[w] = r
      /\ \A v \in Workers : v # w => job'[v] = job[v]
  BY <1>2, <1>3, GoKeepsType DEF StoreInv
<1>5. job[w].stage = "idle" /\ job[w].keys = {} /\ job[w].task = "none" /\ job[w].old = None
  BY <1>1 DEF Idle
<1>6. StoreTypeOK'
  BY <1>1, <1>4 DEF StoreInv, StoreTypeOK
<1>7. RemoveOK(w)'
  BY <1>1, <1>2, <1>4 DEF RemoveOK, Has, PurgedOK
<1>8. ASSUME NEW v \in Workers, v # w PROVE JobOK(v)'
  BY <1>8, <1>1, <1>2, <1>4, NoneAssumption
  DEF StoreInv, JobOK, AttachOK, DetachOK, RemoveOK, LogoOK, PurgedOK, Has
<1>9. ASSUME NEW v \in Workers, v # w, NEW d \in job[v].keys, d \in r.keys PROVE FALSE
  <2>0. d \in Documents /\ owner[d] = p /\ p # None
    BY <1>9, <1>2, NoneAssumption
  <2>1. CASE job[v] = Idle
    BY <2>1, <1>9 DEF Idle
  <2>2. CASE AttachOK(v)
    BY <2>2, <2>0, <1>9 DEF AttachOK
  <2>3. CASE DetachOK(v)
    BY <2>3, <2>0, <1>1, <1>9 DEF DetachOK, Has, DocumentHeld, Changing
  <2>4. CASE RemoveOK(v)
    BY <2>4, <2>0, <1>1, <1>9 DEF RemoveOK, Has, ParentHeld, Changing
  <2>5. CASE LogoOK(v)
    BY <2>5, <2>0, <1>9, KeysAssumption DEF LogoOK
  <2> QED
    BY <2>1, <2>2, <2>3, <2>4, <2>5 DEF StoreInv, JobOK
<1>10. ASSUME NEW v \in Workers, v # w,
              Changing(v, "remove") \/ Changing(v, "attach") \/ Changing(v, "detach")
       PROVE job[v].parent # p
  <2>1. CASE Changing(v, "remove") \/ Changing(v, "attach")
    BY <2>1, <1>1 DEF ParentHeld, ParentShared
  <2>2. CASE Changing(v, "detach")
    <3>1. DetachOK(v)
      BY <2>2 DEF StoreInv, JobOK, AttachOK, DetachOK, RemoveOK, LogoOK, Has, Idle, Changing
    <3> QED
      BY <2>2, <3>1, <1>1 DEF DetachOK, DocumentHeld
  <2> QED
    BY <1>10, <2>1, <2>2
<1>11. JobsApart'
  <2>1. \A v, u \in Workers : v # u => job'[v].keys \cap job'[u].keys = {}
    BY <1>2, <1>4, <1>9 DEF StoreInv, JobsApart
  <2>2. ASSUME NEW v \in Workers, NEW u \in Workers, v # u, Changing(v, "remove")',
               Changing(u, "remove")' \/ Changing(u, "attach")' \/ Changing(u, "detach")'
        PROVE  job'[v].parent # job'[u].parent
    BY <2>2, <1>2, <1>4, <1>10 DEF StoreInv, JobsApart, Changing
  <2> QED
    BY <2>1, <2>2 DEF JobsApart
<1>12. ASSUME NEW e \in Documents PROVE OwnedOK(e)'
  BY <1>1, <1>4, <1>5 DEF StoreInv, OwnedOK
<1>13. NoOrphans'
  BY <1>1, <1>4, <1>5 DEF StoreInv, NoOrphans, InUse
<1>14. r.keys \subseteq used
  BY <1>2, NoneAssumption DEF StoreInv, OwnedOK
<1> QED
  BY <1>1, <1>2, <1>4, <1>6, <1>7, <1>8, <1>11, <1>12, <1>13, <1>14 DEF StoreInv, JobOK

LEMMA PurgeKeeps ==
    ASSUME StoreInv, NEW w \in Workers, Purge(w)
    PROVE  StoreInv'
<1> PICK r : r = [job[w] EXCEPT !.stage = "purged"]
  OBVIOUS
<1>1. /\ job[w] \in Job /\ job[w].task \in {"detach", "remove"} /\ job[w].stage = "flushed"
      /\ UNCHANGED <<used, live, owner, logo, torn, failures>>
  BY DEF Purge, Doing, StoreInv, StoreTypeOK
<1>2. /\ r \in Job /\ r.task = job[w].task /\ r.stage = "purged"
      /\ r.parent = job[w].parent /\ r.keys = job[w].keys /\ r.old = job[w].old
  BY <1>1 DEF Job, Stages
<1>3. Go(w, r)
  BY DEF Purge
<1>4. PICK refused \in SUBSET job[w].keys :
          /\ stored' = stored \ (job[w].keys \ refused)
          /\ blamed' = blamed \cup refused
  BY DEF Purge
<1>5. /\ job' \in [Workers -> Job]
      /\ job'[w] = r
      /\ \A v \in Workers : v # w => job'[v] = job[v]
  BY <1>2, <1>3, GoKeepsType DEF StoreInv
<1>6. \A v \in Workers : job'[v].keys = job[v].keys /\ job'[v].parent = job[v].parent
                         /\ job'[v].old = job[v].old
  BY <1>2, <1>5
<1>7. job[w].keys \subseteq Documents /\ (DetachOK(w) \/ RemoveOK(w))
  BY <1>1 DEF StoreInv, JobOK, AttachOK, DetachOK, RemoveOK, LogoOK, Has, Idle
<1>8. StoreTypeOK'
  BY <1>1, <1>4, <1>5, <1>7 DEF StoreInv, StoreTypeOK
<1>9. PurgedOK(w)'
  BY <1>2, <1>4, <1>5 DEF PurgedOK
<1>10. JobOK(w)'
  BY <1>1, <1>2, <1>5, <1>7, <1>9 DEF JobOK, DetachOK, RemoveOK, Has
<1>11. ASSUME NEW v \in Workers, v # w PROVE JobOK(v)'
  <2>1. /\ job'[v] = job[v]
        /\ \A k \in job[v].keys : k \in stored <=> k \in stored'
    BY <1>4, <1>5, <1>11 DEF StoreInv, JobsApart
  <2>2. CASE job[v] = Idle
    BY <2>1, <2>2 DEF JobOK, Idle
  <2>3. CASE AttachOK(v)
    BY <2>1, <2>3, <1>1 DEF JobOK, AttachOK, Has
  <2>4. CASE DetachOK(v)
    BY <2>1, <2>4, <1>1, <1>4 DEF JobOK, DetachOK, PurgedOK, Has
  <2>5. CASE RemoveOK(v)
    BY <2>1, <2>5, <1>1, <1>4 DEF JobOK, RemoveOK, PurgedOK, Has
  <2>6. CASE LogoOK(v)
    BY <2>1, <2>6, <1>1, <1>6 DEF JobOK, LogoOK, Has
  <2> QED
    BY <2>2, <2>3, <2>4, <2>5, <2>6 DEF StoreInv, JobOK
<1>12. \A v \in Workers : \A task \in {"remove", "attach", "detach"} :
          Changing(v, task)' = Changing(v, task)
  <2> SUFFICES ASSUME NEW v \in Workers, NEW task \in {"remove", "attach", "detach"}
               PROVE  Changing(v, task)' = Changing(v, task)
    OBVIOUS
  <2>1. CASE v = w
    BY <2>1, <1>1, <1>2, <1>5 DEF Changing
  <2>2. CASE v # w
    BY <2>2, <1>5 DEF Changing
  <2> QED
    BY <2>1, <2>2
<1>13. JobsApart'
  BY <1>6, <1>12 DEF StoreInv, JobsApart
<1>14. ASSUME NEW e \in Documents PROVE OwnedOK(e)'
  <2>1. CASE e \in job[w].keys
    BY <2>1, <1>1, <1>2, <1>5 DEF StoreInv, OwnedOK
  <2>2. CASE e \notin job[w].keys
    BY <2>2, <1>1, <1>4, <1>5 DEF StoreInv, OwnedOK
  <2> QED
    BY <2>1, <2>2
<1>15. NoOrphans'
  BY <1>1, <1>4, <1>6 DEF StoreInv, NoOrphans, InUse
<1>16. (logo # None => logo \in stored)'
  BY <1>1, <1>4, <1>7, KeysAssumption DEF StoreInv, StoreTypeOK
<1> QED
  BY <1>1, <1>6, <1>8, <1>10, <1>11, <1>13, <1>14, <1>15, <1>16 DEF StoreInv

\* upload_logo and remove_logo load the profile; the key of the first is fresh.
LEMMA LoadLogoKeeps ==
    ASSUME StoreInv, NEW w \in Workers, job[w] = Idle,
           NEW K, K = {} \/ \E k \in Logos : K = {k} /\ k \notin used,
           NEW r, r = [task |-> "logo", stage |-> "loaded", parent |-> None, keys |-> K,
                       old |-> logo],
           Go(w, r), used' = used \cup K, stored' = stored \cup K,
           UNCHANGED <<live, owner, logo, blamed, torn, failures>>
    PROVE  StoreInv'
<1>1. K \subseteq Logos /\ K \cap used = {}
  OBVIOUS
<1>2. /\ r \in Job /\ r.task = "logo" /\ r.stage = "loaded" /\ r.parent = None
      /\ r.keys = K /\ r.old = logo
  BY <1>1 DEF Job, Stages, StoreInv, StoreTypeOK
<1>3. /\ job' \in [Workers -> Job]
      /\ job'[w] = r
      /\ \A v \in Workers : v # w => job'[v] = job[v]
  BY <1>2, GoKeepsType DEF StoreInv
<1>4. job[w].stage = "idle" /\ job[w].keys = {} /\ job[w].task = "none" /\ job[w].old = None
  BY DEF Idle
<1>5. StoreTypeOK'
  BY <1>1, <1>3 DEF StoreInv, StoreTypeOK
<1>6. logo = None \/ logo \in used
  BY DEF StoreInv, StoreTypeOK
<1>7. LogoOK(w)'
  <2>1. Has(w, "logo", {"loaded", "flushed"})' /\ (K = {} \/ \E k \in Logos : K = {k})
    BY <1>2, <1>3 DEF Has
  <2>2. ASSUME NEW k \in K PROVE k \in stored' /\ k # logo'
    BY <1>1, <1>6, NoneAssumption
  <2>3. ASSUME NEW k \in K, NEW v \in Workers PROVE job'[v].old # k
    BY <1>1, <1>2, <1>3, <1>6, NoneAssumption DEF StoreInv
  <2> QED
    BY <2>1, <2>2, <2>3, <1>2, <1>3 DEF LogoOK
<1>8. ASSUME NEW v \in Workers, v # w PROVE JobOK(v)'
  <2>1. /\ job'[v] = job[v] /\ job[v].keys \subseteq used
        /\ \A k \in job[v].keys : k \in stored <=> k \in stored'
    BY <1>1, <1>3, <1>8 DEF StoreInv
  <2>2. CASE job[v] = Idle
    BY <2>1, <2>2 DEF JobOK, Idle
  <2>3. CASE AttachOK(v)
    BY <2>1, <2>3 DEF JobOK, AttachOK, Has
  <2>4. CASE DetachOK(v)
    BY <2>1, <2>4 DEF JobOK, DetachOK, PurgedOK, Has
  <2>5. CASE RemoveOK(v)
    BY <2>1, <2>5 DEF JobOK, RemoveOK, PurgedOK, Has
  <2>6. CASE LogoOK(v)
    <3>1. \A k \in job[v].keys : \A u \in Workers : job'[u].old # k
      BY <2>6, <1>2, <1>3 DEF LogoOK
    <3> QED
      BY <2>1, <2>6, <3>1 DEF JobOK, LogoOK, Has
  <2> QED
    BY <2>2, <2>3, <2>4, <2>5, <2>6 DEF StoreInv, JobOK
<1>9. JobsApart'
  BY <1>1, <1>2, <1>3 DEF StoreInv, JobsApart, Changing
<1>10. ASSUME NEW e \in Documents PROVE OwnedOK(e)'
  BY <1>3, <1>4 DEF StoreInv, OwnedOK
<1>11. NoOrphans'
  BY <1>1, <1>3, <1>4, KeysAssumption DEF StoreInv, NoOrphans, InUse
<1> QED
  BY <1>1, <1>2, <1>3, <1>5, <1>6, <1>7, <1>8, <1>9, <1>10, <1>11 DEF StoreInv, JobOK

LEMMA UploadLogoKeeps ==
    ASSUME StoreInv, NEW w \in Workers, NEW k \in Logos, UploadLogo(w, k)
    PROVE  StoreInv'
<1> PICK r : r = [task |-> "logo", stage |-> "loaded", parent |-> None, keys |-> {k},
                  old |-> logo]
  OBVIOUS
<1>1. job[w] = Idle /\ Go(w, r) /\ used' = used \cup {k} /\ stored' = stored \cup {k}
      /\ UNCHANGED <<live, owner, logo, blamed, torn, failures>> /\ k \notin used
  BY DEF UploadLogo
<1>2. {k} = {} \/ \E j \in Logos : {k} = {j} /\ j \notin used
  BY <1>1
<1> QED
  BY <1>1, <1>2, LoadLogoKeeps

LEMMA RemoveLogoKeeps ==
    ASSUME StoreInv, NEW w \in Workers, RemoveLogo(w)
    PROVE  StoreInv'
<1> PICK r : r = [task |-> "logo", stage |-> "loaded", parent |-> None, keys |-> {},
                  old |-> logo]
  OBVIOUS
<1>1. job[w] = Idle /\ Go(w, r) /\ used' = used \cup {} /\ stored' = stored \cup {}
      /\ UNCHANGED <<live, owner, logo, blamed, torn, failures>>
  BY DEF RemoveLogo
<1> QED
  BY <1>1, LoadLogoKeeps

LEMMA FlushLogoKeeps ==
    ASSUME StoreInv, NEW w \in Workers, FlushLogo(w)
    PROVE  StoreInv'
<1> PICK r : r = [job[w] EXCEPT !.stage = "flushed"]
  OBVIOUS
<1>1. job[w] \in Job /\ job[w].task = "logo" /\ job[w].stage = "loaded"
  BY DEF FlushLogo, Doing, StoreInv, StoreTypeOK
<1>2. /\ r \in Job /\ r.task = "logo" /\ r.stage = "flushed"
      /\ r.parent = job[w].parent /\ r.keys = job[w].keys /\ r.old = job[w].old
  BY <1>1 DEF Job, Stages
<1>3. Go(w, r) /\ UNCHANGED <<stored, used, live, owner, logo, blamed, torn, failures>>
  BY DEF FlushLogo
<1>4. /\ job' \in [Workers -> Job]
      /\ job'[w] = r
      /\ \A v \in Workers : v # w => job'[v] = job[v]
  BY <1>2, <1>3, GoKeepsType DEF StoreInv
<1>5. StoreTypeOK'
  BY <1>3, <1>4 DEF StoreInv, StoreTypeOK
<1>6. \A v \in Workers : job'[v].keys = job[v].keys /\ job'[v].parent = job[v].parent
                         /\ job'[v].old = job[v].old
  BY <1>2, <1>4
<1>7. LogoOK(w)
  BY <1>1 DEF StoreInv, JobOK, AttachOK, DetachOK, RemoveOK, LogoOK, Has, Idle
<1>8. LogoOK(w)'
  BY <1>2, <1>3, <1>4, <1>6, <1>7 DEF LogoOK, Has
<1>9. ASSUME NEW v \in Workers, v # w PROVE JobOK(v)'
  BY <1>9, <1>3, <1>4, <1>6
  DEF StoreInv, JobOK, AttachOK, DetachOK, RemoveOK, LogoOK, PurgedOK, Has
<1>12. \A v \in Workers : \A task \in {"remove", "attach", "detach"} :
          Changing(v, task)' = Changing(v, task)
  <2> SUFFICES ASSUME NEW v \in Workers, NEW task \in {"remove", "attach", "detach"}
               PROVE  Changing(v, task)' = Changing(v, task)
    OBVIOUS
  <2>1. CASE v = w
    BY <2>1, <1>1, <1>2, <1>4 DEF Changing
  <2>2. CASE v # w
    BY <2>2, <1>4 DEF Changing
  <2> QED
    BY <2>1, <2>2
<1>10. JobsApart'
  BY <1>6, <1>12 DEF StoreInv, JobsApart
<1>11. ASSUME NEW e \in Documents PROVE OwnedOK(e)'
  BY <1>1, <1>3, <1>4 DEF StoreInv, OwnedOK
<1>13. NoOrphans'
  BY <1>3, <1>6 DEF StoreInv, NoOrphans, InUse
<1> QED
  BY <1>3, <1>5, <1>6, <1>8, <1>9, <1>10, <1>11, <1>13 DEF StoreInv, JobOK

------------------------------------------------------------------------------
(* The end of a request.                                                   *)

\* What must not happen to a request while another one ends.
LEMMA OthersKept ==
    ASSUME StoreInv, NEW v \in Workers, job'[v] = job[v],
           \A k \in job[v].keys : /\ k \in stored <=> k \in stored'
                                  /\ k \in Documents => owner'[k] = owner[k]
                                  /\ k # logo',
           job[v].task # "logo" /\ job[v].stage \in {"flushed", "purged"}
             /\ job[v].parent \in live => job[v].parent \in live',
           Changing(v, "remove") => {d \in Documents : owner'[d] = job[v].parent} =
                                    {d \in Documents : owner[d] = job[v].parent},
           blamed \subseteq blamed',
           \A u \in Workers : job'[u].old = job[u].old \/ job'[u].old = None
    PROVE  JobOK(v)'
<1>1. CASE job[v] = Idle
  BY <1>1 DEF JobOK, Idle
<1>2. CASE AttachOK(v)
  BY <1>2 DEF JobOK, AttachOK, Has
<1>3. CASE DetachOK(v)
  BY <1>3 DEF JobOK, DetachOK, PurgedOK, Has
<1>4. CASE RemoveOK(v)
  BY <1>4 DEF JobOK, RemoveOK, PurgedOK, Has, Changing
<1>5. CASE LogoOK(v)
  BY <1>5, NoneAssumption DEF JobOK, LogoOK, Has
<1> QED
  BY <1>1, <1>2, <1>3, <1>4, <1>5 DEF StoreInv, JobOK

LEMMA FinishKeepsApart ==
    ASSUME StoreInv, NEW w \in Workers, Finish(w)
    PROVE  /\ JobsApart'
           /\ JobOK(w)'
           /\ job' \in [Workers -> Job]
           /\ job'[w].keys = {} /\ job'[w].old = None /\ job'[w].stage = "idle"
           /\ \A v \in Workers : v # w => job'[v] = job[v]
           /\ \A v \in Workers : job'[v].old = job[v].old \/ job'[v].old = None
           /\ \A v \in Workers : v # w => job[v].keys \cap job[w].keys = {}
<1>1. /\ job' \in [Workers -> Job]
      /\ job'[w] = Idle
      /\ \A v \in Workers : v # w => job'[v] = job[v]
  BY FinishKeepsType DEF StoreInv
<1>2. Idle.keys = {} /\ Idle.task = "none" /\ Idle.stage = "idle" /\ Idle.old = None
  BY DEF Idle
<1>3. JobOK(w)'
  BY <1>1 DEF JobOK, Idle
<1>4. JobsApart'
  BY <1>1, <1>2 DEF StoreInv, JobsApart, Changing
<1> QED
  BY <1>1, <1>2, <1>3, <1>4 DEF StoreInv, JobsApart

LEMMA CommitAttachKeeps ==
    ASSUME StoreInv, NEW w \in Workers, CommitAttach(w), Finish(w),
           UNCHANGED <<used, blamed, torn, failures>>
    PROVE  StoreInv'
<1>1. /\ JobsApart'
      /\ JobOK(w)'
      /\ job' \in [Workers -> Job]
      /\ job'[w].keys = {} /\ job'[w].old = None /\ job'[w].stage = "idle"
      /\ \A v \in Workers : v # w => job'[v] = job[v]
      /\ \A v \in Workers : job'[v].old = job[v].old \/ job'[v].old = None
      /\ \A v \in Workers : v # w => job[v].keys \cap job[w].keys = {}
  BY FinishKeepsApart
<1>2. /\ job[w].task = "attach" /\ job[w].stage = "flushed"
      /\ UNCHANGED <<stored, live, logo>>
  BY DEF CommitAttach, Doing
<1>3. AttachOK(w)
  BY <1>2 DEF StoreInv, JobOK, AttachOK, DetachOK, RemoveOK, LogoOK, Has, Idle
<1> PICK p : p = job[w].parent
  OBVIOUS
<1>4. PICK d \in Documents : job[w].keys = {d} /\ d \in stored /\ owner[d] = None
  BY <1>3 DEF AttachOK
<1>5. p \in live /\ p \in Parents /\ p # None
  BY <1>2, <1>3, NoneAssumption DEF AttachOK
<1>6. owner' = [e \in Documents |-> IF e = d THEN p ELSE owner[e]]
  BY <1>4 DEF CommitAttach
<1>7. StoreTypeOK'
  BY <1>1, <1>2, <1>5, <1>6 DEF StoreInv, StoreTypeOK
<1>8. ASSUME NEW v \in Workers, v # w PROVE JobOK(v)'
  <2>1. ASSUME Changing(v, "remove")
        PROVE  {e \in Documents : owner'[e] = job[v].parent} =
               {e \in Documents : owner[e] = job[v].parent}
    <3>1. job[v].parent # p
      BY <1>2, <1>8, <2>1 DEF StoreInv, JobsApart, Changing
    <3>2. job[v].parent # None
      BY <2>1, NoneAssumption
      DEF Changing, StoreInv, StoreTypeOK, JobOK, AttachOK, DetachOK, RemoveOK, LogoOK, Has, Idle
    <3> QED
      BY <3>1, <3>2, <1>4, <1>6
  <2>2. \A k \in job[v].keys : k # d
    BY <1>1, <1>4, <1>8
  <2>3. \A k \in job[v].keys : k # logo
    BY NoneAssumption, KeysAssumption
    DEF StoreInv, StoreTypeOK, JobOK, AttachOK, DetachOK, RemoveOK, LogoOK, Idle
  <2> QED
    BY <1>1, <1>2, <1>6, <1>8, <2>1, <2>2, <2>3, OthersKept
<1>9. ASSUME NEW e \in Documents PROVE OwnedOK(e)'
  <2>1. CASE e = d
    BY <2>1, <1>2, <1>4, <1>5, <1>6 DEF OwnedOK, StoreInv, StoreTypeOK
  <2>2. CASE e # d
    BY <2>2, <1>1, <1>2, <1>6 DEF StoreInv, OwnedOK
  <2> QED
    BY <2>1, <2>2
<1>10. NoOrphans'
  BY <1>1, <1>2, <1>4, <1>5, <1>6 DEF StoreInv, NoOrphans, InUse
<1> QED
  BY <1>1, <1>2, <1>7, <1>8, <1>9, <1>10 DEF StoreInv

LEMMA CommitDeleteKeeps ==
    ASSUME StoreInv, NEW w \in Workers, CommitDelete(w), Finish(w),
           UNCHANGED <<used, blamed, torn, failures>>
    PROVE  StoreInv'
<1>1. /\ JobsApart'
      /\ JobOK(w)'
      /\ job' \in [Workers -> Job]
      /\ job'[w].keys = {} /\ job'[w].old = None /\ job'[w].stage = "idle"
      /\ \A v \in Workers : v # w => job'[v] = job[v]
      /\ \A v \in Workers : job'[v].old = job[v].old \/ job'[v].old = None
      /\ \A v \in Workers : v # w => job[v].keys \cap job[w].keys = {}
  BY FinishKeepsApart
<1> PICK p, K : p = job[w].parent /\ K = job[w].keys
  OBVIOUS
<1>2. /\ job[w].task \in {"detach", "remove"} /\ job[w].stage = "purged"
      /\ UNCHANGED <<stored, logo>>
  BY DEF CommitDelete, Doing
<1>3. DetachOK(w) \/ RemoveOK(w)
  BY <1>2 DEF StoreInv, JobOK, AttachOK, DetachOK, RemoveOK, LogoOK, Has, Idle
<1>4. /\ K \subseteq Documents
      /\ \A d \in K : owner[d] = p
      /\ \A d \in K : d \in stored => d \in blamed
      /\ job[w].task = "remove" => K = {d \in Documents : owner[d] = p}
      /\ p \in live /\ p \in Parents /\ p # None
  BY <1>2, <1>3, NoneAssumption DEF DetachOK, RemoveOK, PurgedOK, Has, StoreInv, StoreTypeOK
<1>5. owner' = [d \in Documents |-> IF d \in K THEN None ELSE owner[d]]
  BY <1>4 DEF CommitDelete
<1>6. live' = IF job[w].task = "remove" THEN live \ {p} ELSE live
  BY DEF CommitDelete
<1>7. StoreTypeOK'
  BY <1>1, <1>2, <1>5, <1>6 DEF StoreInv, StoreTypeOK
<1>8. ASSUME NEW v \in Workers, v # w PROVE JobOK(v)'
  <2>1. ASSUME Changing(v, "remove")
        PROVE  {e \in Documents : owner'[e] = job[v].parent} =
               {e \in Documents : owner[e] = job[v].parent}
    <3>1. job[v].parent # p
      BY <1>2, <1>8, <2>1 DEF StoreInv, JobsApart, Changing
    <3>2. job[v].parent # None
      BY <2>1, NoneAssumption
      DEF Changing, StoreInv, StoreTypeOK, JobOK, AttachOK, DetachOK, RemoveOK, LogoOK, Has, Idle
    <3> QED
      BY <3>1, <3>2, <1>4, <1>5
  <2>2. \A k \in job[v].keys : k \notin K
    BY <1>1, <1>8
  <2>3. \A k \in job[v].keys : k # logo
    BY NoneAssumption, KeysAssumption
    DEF StoreInv, StoreTypeOK, JobOK, AttachOK, DetachOK, RemoveOK, LogoOK, Idle
  <2>4. ASSUME job[v].task # "logo", job[v].stage \in {"flushed", "purged"},
               job[v].parent \in live
        PROVE  job[v].parent \in live'
    <3>1. CASE job[w].task # "remove"
      BY <3>1, <1>6, <2>4
    <3>2. CASE job[w].task = "remove"
      <4>1. job[v].task \in {"attach", "detach", "remove"}
        BY <2>4 DEF StoreInv, JobOK, AttachOK, DetachOK, RemoveOK, LogoOK, Has, Idle
      <4>2. job[v].parent # p
        BY <3>2, <4>1, <2>4, <1>2, <1>8 DEF StoreInv, JobsApart, Changing
      <4> QED
        BY <4>2, <1>6, <2>4
    <3> QED
      BY <3>1, <3>2
  <2> QED
    BY <1>1, <1>2, <1>5, <1>8, <2>1, <2>2, <2>3, <2>4, OthersKept
<1>9. ASSUME NEW e \in Documents PROVE OwnedOK(e)'
  <2>1. CASE e \in K
    BY <2>1, <1>5 DEF OwnedOK
  <2>2. CASE e \notin K
    BY <2>2, <1>1, <1>2, <1>4, <1>5, <1>6 DEF StoreInv, OwnedOK
  <2> QED
    BY <2>1, <2>2
<1>10. NoOrphans'
  BY <1>1, <1>2, <1>4, <1>5 DEF StoreInv, NoOrphans, InUse
<1> QED
  BY <1>1, <1>2, <1>7, <1>8, <1>9, <1>10 DEF StoreInv

LEMMA CommitLogoKeeps ==
    ASSUME StoreInv, NEW w \in Workers, CommitLogo(w), Finish(w),
           UNCHANGED <<used, blamed, torn, failures>>
    PROVE  StoreInv'
<1>1. /\ JobsApart'
      /\ JobOK(w)'
      /\ job' \in [Workers -> Job]
      /\ job'[w].keys = {} /\ job'[w].old = None /\ job'[w].stage = "idle"
      /\ \A v \in Workers : v # w => job'[v] = job[v]
      /\ \A v \in Workers : job'[v].old = job[v].old \/ job'[v].old = None
      /\ \A v \in Workers : v # w => job[v].keys \cap job[w].keys = {}
  BY FinishKeepsApart
<1>2. /\ job[w].task = "logo" /\ job[w].stage = "flushed"
      /\ stored' = stored \ {job[w].old}
      /\ UNCHANGED <<live, owner>>
  BY DEF CommitLogo, Doing
<1>3. LogoOK(w)
  BY <1>2 DEF StoreInv, JobOK, AttachOK, DetachOK, RemoveOK, LogoOK, Has, Idle
<1>4. job[w].old \in Logos \cup {None}
  BY DEF StoreInv, StoreTypeOK, Job
<1>5. \/ logo' = None
      \/ logo' \in job[w].keys /\ logo' \in Logos /\ logo' \in stored'
  <2>1. CASE job[w].keys = {}
    BY <2>1 DEF CommitLogo
  <2>2. ASSUME NEW k \in Logos, job[w].keys = {k} PROVE logo' = k /\ k \in stored'
    <3>1. logo' = CHOOSE j \in {k} : TRUE
      BY <2>2 DEF CommitLogo
    <3> QED
      BY <3>1, <2>2, <1>2, <1>3 DEF LogoOK
  <2> QED
    BY <2>1, <2>2, <1>3 DEF LogoOK
<1>6. \A d \in Documents : d \in stored <=> d \in stored'
  BY <1>2, <1>4, NoneAssumption, KeysAssumption
<1>7. StoreTypeOK'
  BY <1>1, <1>2, <1>5 DEF StoreInv, StoreTypeOK
<1>8. ASSUME NEW v \in Workers, v # w PROVE JobOK(v)'
  <2>1. ASSUME NEW k \in job[v].keys PROVE k # logo'
    <3>1. k # None
      BY NoneAssumption DEF StoreInv, StoreTypeOK, Job
    <3> QED
      BY <3>1, <1>1, <1>5, <1>8
  <2>2. ASSUME NEW k \in job[v].keys PROVE k \in stored <=> k \in stored'
    <3>1. CASE k \in Documents
      BY <3>1, <1>6
    <3>2. CASE k \notin Documents
      BY <3>2, <1>2 DEF StoreInv, JobOK, AttachOK, DetachOK, RemoveOK, LogoOK, Idle
    <3> QED
      BY <3>1, <3>2
  <2> QED
    BY <1>1, <1>2, <1>8, <2>1, <2>2, OthersKept
<1>9. ASSUME NEW e \in Documents PROVE OwnedOK(e)'
  BY <1>1, <1>2, <1>6 DEF StoreInv, OwnedOK
<1>10. NoOrphans'
  <2>1. ASSUME NEW d \in Documents PROVE d \notin job[w].keys
    BY <1>3, KeysAssumption DEF LogoOK
  <2> QED
    BY <2>1, <1>1, <1>2 DEF StoreInv, NoOrphans, InUse
<1> QED
  BY <1>1, <1>2, <1>5, <1>7, <1>8, <1>9, <1>10 DEF StoreInv

\* A request that ends without effect: its document, if it was attaching one, is
\* deleted again unless the process died, in which case it is blamed.
LEMMA EndWithoutEffectKeeps ==
    ASSUME StoreInv, NEW w \in Workers, Finish(w), job[w] # Idle,
           UNCHANGED <<used, live, owner, logo>>, failures' \in 0 .. MaxFailures,
           torn \subseteq torn', torn' \subseteq torn \cup job[w].keys,
           torn' \subseteq Documents, TornBy(w) \subseteq torn',
           \/ /\ stored' = IF job[w].task = "attach" THEN stored \ job[w].keys ELSE stored
              /\ blamed' = blamed
           \/ /\ stored' = stored
              /\ blamed' = blamed \cup job[w].keys
    PROVE  StoreInv'
<1>1. /\ JobsApart'
      /\ JobOK(w)'
      /\ job' \in [Workers -> Job]
      /\ job'[w].keys = {} /\ job'[w].old = None /\ job'[w].stage = "idle"
      /\ \A v \in Workers : v # w => job'[v] = job[v]
      /\ \A v \in Workers : job'[v].old = job[v].old \/ job'[v].old = None
      /\ \A v \in Workers : v # w => job[v].keys \cap job[w].keys = {}
  BY FinishKeepsApart
<1>2. job[w].keys \subseteq Documents \cup Logos
  BY DEF StoreInv, StoreTypeOK, Job
<1>3. stored' \subseteq stored /\ stored \ job[w].keys \subseteq stored' /\ blamed \subseteq blamed'
  OBVIOUS
<1>4. ASSUME NEW d \in stored, d \notin stored' PROVE d \in Documents /\ owner[d] = None
  <2>1. job[w].task = "attach" /\ d \in job[w].keys
    BY <1>4
  <2>2. AttachOK(w)
    BY <2>1 DEF StoreInv, JobOK, AttachOK, DetachOK, RemoveOK, LogoOK, Has, Idle
  <2> QED
    BY <2>1, <2>2 DEF AttachOK
<1>5. StoreTypeOK'
  BY <1>1, <1>2, <1>3 DEF StoreInv, StoreTypeOK
<1>6. ASSUME NEW v \in Workers, v # w PROVE JobOK(v)'
  <2>1. \A k \in job[v].keys : k \in stored <=> k \in stored'
    BY <1>1, <1>3, <1>6
  <2>2. \A k \in job[v].keys : k # logo
    BY NoneAssumption, KeysAssumption
    DEF StoreInv, StoreTypeOK, JobOK, AttachOK, DetachOK, RemoveOK, LogoOK, Idle
  <2> QED
    BY <1>1, <1>3, <1>6, <2>1, <2>2, OthersKept
<1>7. ASSUME NEW e \in Documents, owner[e] # None PROVE OwnedOK(e)'
  <2>1. /\ owner[e] \in live /\ e \in used
        /\ \/ e \in stored \/ e \in torn
           \/ \E v \in Workers : job[v].stage = "purged" /\ e \in job[v].keys
    BY <1>7 DEF StoreInv, OwnedOK
  <2>2. CASE e \in stored
    BY <2>1, <2>2, <1>4, <1>7 DEF OwnedOK
  <2>3. CASE e \in torn
    BY <2>1, <2>3 DEF OwnedOK
  <2>4. ASSUME NEW v \in Workers, job[v].stage = "purged", e \in job[v].keys, e \notin stored
        PROVE  OwnedOK(e)'
    <3>1. CASE v = w
      BY <3>1, <2>1, <2>4 DEF TornBy, OwnedOK
    <3>2. CASE v # w
      BY <3>2, <1>1, <2>1, <2>4 DEF OwnedOK
    <3> QED
      BY <3>1, <3>2
  <2> QED
    BY <2>1, <2>2, <2>3, <2>4
<1>8. ASSUME NEW e \in Documents, owner[e] = None PROVE OwnedOK(e)'
  BY <1>8 DEF OwnedOK
<1>9. ASSUME NEW d \in Documents, d \in stored', owner'[d] = None
      PROVE  InUse(d)' \/ d \in blamed'
  <2>1. InUse(d) \/ d \in blamed
    BY <1>3, <1>9 DEF StoreInv, NoOrphans
  <2>2. CASE d \in job[w].keys
    <3>1. AttachOK(w)
      BY <2>2, <1>9, NoneAssumption, KeysAssumption
      DEF StoreInv, StoreTypeOK, JobOK, AttachOK, DetachOK, RemoveOK, LogoOK, Idle
    <3> QED
      BY <2>2, <3>1, <1>9 DEF AttachOK, Has
  <2>3. CASE d \notin job[w].keys
    BY <2>1, <2>3, <1>1, <1>3 DEF InUse
  <2> QED
    BY <2>2, <2>3
<1>10. NoOrphans'
  BY <1>9 DEF NoOrphans
<1>11. (logo # None => logo \in stored)'
  BY <1>4, KeysAssumption DEF StoreInv, StoreTypeOK
<1> QED
  BY <1>1, <1>5, <1>6, <1>7, <1>8, <1>10, <1>11 DEF StoreInv

LEMMA TornKept ==
    ASSUME StoreInv, NEW w \in Workers
    PROVE  TornBy(w) \subseteq Documents /\ TornBy(w) \subseteq job[w].keys
BY DEF TornBy, StoreInv, JobOK, AttachOK, DetachOK, RemoveOK, LogoOK, Has, Idle

LEMMA FaultsAreCounted ==
    ASSUME StoreInv, Fault
    PROVE  failures' \in 0 .. MaxFailures
BY FailuresAssumption DEF StoreInv, StoreTypeOK, Fault

LEMMA RollBackKeeps ==
    ASSUME StoreInv, NEW w \in Workers, RollBack(w)
    PROVE  StoreInv'
<1>1. /\ job[w] # Idle /\ Finish(w) /\ UNCHANGED <<used, live, owner, logo, blamed>>
      /\ torn' = torn \cup TornBy(w)
      /\ stored' = IF job[w].task = "attach" THEN stored \ job[w].keys ELSE stored
  BY DEF RollBack
<1>2. failures' \in 0 .. MaxFailures
  BY FaultsAreCounted DEF RollBack
<1>3. /\ torn \subseteq torn' /\ torn' \subseteq torn \cup job[w].keys
      /\ torn' \subseteq Documents /\ TornBy(w) \subseteq torn'
  BY <1>1, TornKept DEF StoreInv, StoreTypeOK
<1> QED
  BY <1>1, <1>2, <1>3, EndWithoutEffectKeeps

LEMMA DieKeeps ==
    ASSUME StoreInv, NEW w \in Workers, Die(w)
    PROVE  StoreInv'
<1>1. /\ job[w] # Idle /\ Finish(w) /\ UNCHANGED <<stored, used, live, owner, logo>>
      /\ torn' = torn \cup TornBy(w)
      /\ blamed' = blamed \cup job[w].keys
  BY DEF Die
<1>2. failures' \in 0 .. MaxFailures
  BY FaultsAreCounted DEF Die
<1>3. /\ torn \subseteq torn' /\ torn' \subseteq torn \cup job[w].keys
      /\ torn' \subseteq Documents /\ TornBy(w) \subseteq torn'
  BY <1>1, TornKept DEF StoreInv, StoreTypeOK
<1> QED
  BY <1>1, <1>2, <1>3, EndWithoutEffectKeeps

LEMMA RefuseKeeps ==
    ASSUME StoreInv, NEW w \in Workers, Refuse(w)
    PROVE  StoreInv'
<1>1. /\ job[w].task = "attach" /\ job[w].stage = "stored" /\ Finish(w)
      /\ stored' = stored \ job[w].keys
      /\ UNCHANGED <<used, live, owner, logo, blamed, torn, failures>>
  BY DEF Refuse, Doing
<1>2. job[w] # Idle /\ TornBy(w) = {}
  BY <1>1 DEF Idle, TornBy
<1>3. failures' \in 0 .. MaxFailures /\ torn \subseteq Documents
  BY <1>1 DEF StoreInv, StoreTypeOK
<1> QED
  BY <1>1, <1>2, <1>3, EndWithoutEffectKeeps

LEMMA StoreInvInit == StoreInit => StoreInv
<1> SUFFICES ASSUME StoreInit PROVE StoreInv
  OBVIOUS
<1>1. \A w \in Workers : job[w] = Idle
  BY DEF StoreInit
<1>2. Idle.keys = {} /\ Idle.task = "none" /\ Idle.stage = "idle" /\ Idle.old = None
  BY DEF Idle
<1>3. StoreTypeOK
  BY IdleIsJob, FailuresAssumption DEF StoreInit, StoreTypeOK
<1>4. \A w \in Workers : JobOK(w)
  BY <1>1 DEF JobOK
<1>5. JobsApart
  BY <1>1, <1>2 DEF JobsApart, Changing
<1>6. (\A d \in Documents : OwnedOK(d)) /\ NoOrphans
  BY DEF StoreInit, OwnedOK, NoOrphans
<1> QED
  BY <1>1, <1>2, <1>3, <1>4, <1>5, <1>6 DEF StoreInv, StoreInit

LEMMA StoreInvStutters == StoreInv /\ UNCHANGED storeVars => StoreInv'
BY DEF StoreInv, storeVars, StoreTypeOK, JobOK, AttachOK, DetachOK, RemoveOK, LogoOK, PurgedOK,
       Has, JobsApart, Changing, OwnedOK, NoOrphans, InUse

LEMMA StoreInvStep == StoreInv /\ [StoreNext]_storeVars => StoreInv'
<1> SUFFICES ASSUME StoreInv, [StoreNext]_storeVars PROVE StoreInv'
  OBVIOUS
<1>1. CASE UNCHANGED storeVars
  BY <1>1, StoreInvStutters
<1>2. ASSUME NEW w \in Workers, NEW p \in Parents, NEW d \in Documents, Upload(w, p, d)
      PROVE  StoreInv'
  BY <1>2, UploadKeeps
<1>3. ASSUME NEW w \in Workers, NEW p \in Parents, RemoveParent(w, p) PROVE StoreInv'
  BY <1>3, RemoveParentKeeps
<1>4. ASSUME NEW w \in Workers, NEW d \in Documents, Detach(w, d) PROVE StoreInv'
  BY <1>4, DetachKeeps
<1>5. ASSUME NEW w \in Workers, NEW k \in Logos, UploadLogo(w, k) PROVE StoreInv'
  BY <1>5, UploadLogoKeeps
<1>6. ASSUME NEW w \in Workers, RemoveLogo(w) PROVE StoreInv'
  BY <1>6, RemoveLogoKeeps
<1>7. ASSUME NEW w \in Workers, Attach(w) PROVE StoreInv'
  BY <1>7, AttachKeeps
<1>8. ASSUME NEW w \in Workers, Purge(w) PROVE StoreInv'
  BY <1>8, PurgeKeeps
<1>9. ASSUME NEW w \in Workers, FlushLogo(w) PROVE StoreInv'
  BY <1>9, FlushLogoKeeps
<1>10. ASSUME NEW w \in Workers, Commit(w) PROVE StoreInv'
  BY <1>10, CommitAttachKeeps, CommitDeleteKeeps, CommitLogoKeeps DEF Commit
<1>11. ASSUME NEW w \in Workers, RollBack(w) PROVE StoreInv'
  BY <1>11, RollBackKeeps
<1>12. ASSUME NEW w \in Workers, Die(w) PROVE StoreInv'
  BY <1>12, DieKeeps
<1>13. ASSUME NEW w \in Workers, Refuse(w) PROVE StoreInv'
  BY <1>13, RefuseKeeps
<1> QED
  BY <1>1, <1>2, <1>3, <1>4, <1>5, <1>6, <1>7, <1>8, <1>9, <1>10, <1>11, <1>12, <1>13
  DEF StoreNext

\* The three services share no row: a step of one leaves the others' state alone.
LEMMA StoreInvAlways == PayableSpec => []StoreInv
<1>1. PayableInit => StoreInv
  BY StoreInvInit DEF PayableInit
<1>2. StoreInv /\ [ExpenseStep \/ OrderStep \/ ObjectStep]_payableVars => StoreInv'
  BY StoreInvStep DEF ExpenseStep, OrderStep, ObjectStep, payableVars, storeVars
<1> QED
  BY <1>1, <1>2, PTL DEF PayableSpec

\* storage_tx, and the order in which the services write rows and objects: an
\* object of a document has a committed row or a request still at work on it,
\* unless a process died over it or the store refused the delete.
THEOREM NoObjectIsOrphaned == PayableSpec => []NoOrphans
BY StoreInvAlways, StoreInvIsEnough, PTL

\* A committed document has its parent and its object until a delete takes them
\* both, and the profile's logo is always in the store.
THEOREM RowsKeepTheirObjects == PayableSpec => []RowsHaveObjects
BY StoreInvAlways, StoreInvIsEnough, PTL

------------------------------------------------------------------------------
(* Purchase orders.  What is paid is a sum over a table: all that is needed *)
(* of it here is that it is the value of one field.                         *)

OrderRow(row) ==
    row \in [status: PO!Statuses \cup {"absent", "deleted"}, total: {row.total},
             paid: {row.paid}, balance: {row.balance}, version: Nat, stamped: {row.stamped}]

\* An order is created once, edited as a draft, and once sent keeps its total;
\* every change of a row that stays moves its version.
OrderMoves(old, new) ==
    /\ OrderRow(new)
    /\ \/ new = old
       \/ old.status = "absent" /\ new.status = "draft"
       \/ old.status = "draft" /\ new.status = "deleted" /\ new.version = old.version
       \/ /\ new.version = old.version + 1
          /\ \/ new.status = old.status
             \/ old.status = "draft" /\ new.status = "sent"
             \/ {old.status, new.status} \subseteq {"sent", "paid"}
          /\ old.status # "draft" => new.total = old.total

\* A form shows a row that was there, and as it is unless its version moved on.
OrderFormsAreTrue ==
    \A c \in Buyers, o \in Orders : orderForm[c].of = o =>
        /\ order[o].status # "absent"
        /\ orderForm[c].seen.version \in Nat
        /\ orderForm[c].seen.version <= order[o].version
        /\ PO!Exists(order[o]) /\ orderForm[c].seen.version = order[o].version
              => orderForm[c].seen = order[o]

OrderInv ==
    /\ order = [o \in Orders |-> order[o]] /\ \A o \in Orders : OrderRow(order[o])
    /\ orderForm = [c \in Buyers |-> orderForm[c]]
    /\ OrderFormsAreTrue

LEMMA DraftMoves ==
    ASSUME NEW total, NEW balance, NEW old, old.status = "absent"
    PROVE  OrderMoves(old, PO!Draft(total, balance))
BY DEF OrderMoves, OrderRow, PO!Draft, PO!Statuses

\* The shape of a row whose version moves on.
LEMMA NextRow ==
    ASSUME NEW row, OrderRow(row), NEW new, NEW total, NEW paid, NEW balance, NEW stamped,
           NEW status \in PO!Statuses \cup {"absent", "deleted"},
           new \in [status: {status}, total: {total}, paid: {paid}, balance: {balance},
                    version: {row.version + 1}, stamped: {stamped}]
    PROVE  OrderRow(new) /\ new.status = status /\ new.total = total
              /\ new.version = row.version + 1
<1>1. row.version + 1 \in Nat
  BY DEF OrderRow
<1> QED
  BY <1>1 DEF OrderRow

LEMMA AnnotatedMoves ==
    ASSUME NEW row, OrderRow(row)
    PROVE  OrderMoves(row, [row EXCEPT !.version = @ + 1])
<1> PICK new : new = [row EXCEPT !.version = @ + 1]
  OBVIOUS
<1>1. new \in [status: {row.status}, total: {row.total}, paid: {row.paid},
               balance: {row.balance}, version: {row.version + 1}, stamped: {row.stamped}]
  BY DEF OrderRow
<1>2. row.status \in PO!Statuses \cup {"absent", "deleted"}
  BY DEF OrderRow
<1> QED
  BY <1>1, <1>2, NextRow DEF OrderMoves

LEMMA RepricedMoves ==
    ASSUME NEW row, OrderRow(row), row.status = "draft", NEW total
    PROVE  OrderMoves(row, [row EXCEPT !.total = total, !.balance = total - row.paid,
                                       !.version = @ + 1])
<1> PICK left : left = total - row.paid
  OBVIOUS
<1> PICK new : new = [row EXCEPT !.total = total, !.balance = left, !.version = @ + 1]
  OBVIOUS
<1>1. new \in [status: {"draft"}, total: {total}, paid: {row.paid},
               balance: {left}, version: {row.version + 1}, stamped: {row.stamped}]
  BY DEF OrderRow
<1>2. row.version + 1 \in Nat /\ "draft" \in PO!Statuses
  BY DEF OrderRow, PO!Statuses
<1>3. OrderRow(new) /\ new.status = "draft" /\ new.version = row.version + 1
  BY <1>1, <1>2 DEF OrderRow
<1> QED
  BY <1>3 DEF OrderMoves

LEMMA IssuedMoves ==
    ASSUME NEW row, OrderRow(row), row.status = "draft"
    PROVE  OrderMoves(row, [row EXCEPT !.status = "sent", !.version = @ + 1])
<1> PICK new : new = [row EXCEPT !.status = "sent", !.version = @ + 1]
  OBVIOUS
<1>1. new \in [status: {"sent"}, total: {row.total}, paid: {row.paid},
               balance: {row.balance}, version: {row.version + 1}, stamped: {row.stamped}]
  BY DEF OrderRow
<1>2. row.version + 1 \in Nat /\ "sent" \in PO!Statuses
  BY DEF OrderRow, PO!Statuses
<1>3. /\ OrderRow(new) /\ new.status = "sent" /\ new.total = row.total
      /\ new.version = row.version + 1
  BY <1>1, <1>2 DEF OrderRow
<1> QED
  BY <1>3 DEF OrderMoves

LEMMA PaidMoves ==
    ASSUME NEW row, OrderRow(row), row.status \in {"sent", "paid"}, NEW applied
    PROVE  OrderMoves(row, PO!PaidRow(row, applied))
<1> PICK left, paid, stamped, status :
        /\ left = row.total - (row.paid + applied) /\ paid = row.paid + applied
        /\ stamped = (row.stamped \/ left <= 0)
        /\ status = IF left <= 0 THEN "paid" ELSE row.status
  OBVIOUS
<1> PICK new : new = PO!PaidRow(row, applied)
  OBVIOUS
<1>1. new = [row EXCEPT !.paid = paid, !.balance = left, !.status = status,
                        !.stamped = stamped, !.version = row.version + 1]
  BY DEF PO!PaidRow, OrderRow
<1>2. status \in {"sent", "paid"}
  OBVIOUS
<1>3. new \in [status: {status}, total: {row.total}, paid: {paid}, balance: {left},
               version: {row.version + 1}, stamped: {stamped}]
  BY <1>1 DEF OrderRow
<1> QED
  BY <1>2, <1>3, NextRow DEF OrderMoves, PO!Statuses

LEMMA ResyncedMoves ==
    ASSUME NEW row, OrderRow(row), NEW sum
    PROVE  OrderMoves(row, PO!Resynced(row, sum))
<1> PICK left : left = row.total - sum
  OBVIOUS
<1> PICK status : status = IF row.status = "paid" /\ left > 0 THEN "sent"
                           ELSE IF row.status = "sent" /\ left <= 0 THEN "paid"
                           ELSE row.status
  OBVIOUS
<1> PICK stamped : stamped = IF row.status = "paid" /\ left > 0 THEN FALSE
                             ELSE row.stamped \/ (row.status = "sent" /\ left <= 0)
  OBVIOUS
<1> PICK new : new = PO!Resynced(row, sum)
  OBVIOUS
<1>1. new = [row EXCEPT !.paid = sum, !.balance = left, !.status = status,
                        !.stamped = stamped, !.version = row.version + 1]
  BY DEF PO!Resynced, OrderRow
<1>2. status = row.status \/ {row.status, status} \subseteq {"sent", "paid"}
  OBVIOUS
<1>3. new \in [status: {status}, total: {row.total}, paid: {sum}, balance: {left},
               version: {row.version + 1}, stamped: {stamped}]
  BY <1>1 DEF OrderRow
<1>4. status \in PO!Statuses \cup {"absent", "deleted"}
  BY <1>2 DEF OrderRow, PO!Statuses
<1> QED
  BY <1>2, <1>3, <1>4, NextRow DEF OrderMoves

LEMMA DeletedMoves ==
    ASSUME NEW row, OrderRow(row), row.status = "draft"
    PROVE  OrderMoves(row, [row EXCEPT !.status = "deleted"])
<1> PICK new : new = [row EXCEPT !.status = "deleted"]
  OBVIOUS
<1>1. new \in [status: {"deleted"}, total: {row.total}, paid: {row.paid},
               balance: {row.balance}, version: {row.version}, stamped: {row.stamped}]
  BY DEF OrderRow
<1>2. OrderRow(new) /\ new.status = "deleted" /\ new.version = row.version
  BY <1>1 DEF OrderRow
<1> QED
  BY <1>2 DEF OrderMoves

OrdersMove ==
    /\ order' = [o \in Orders |-> order'[o]]
    /\ \A o \in Orders : OrderMoves(order[o], order'[o])

LEMMA PutMoves ==
    ASSUME OrderInv, NEW o, NEW row, PO!Put(o, row), o \in Orders => OrderMoves(order[o], row)
    PROVE  OrdersMove /\ \A x \in Orders : x # o => order'[x] = order[x]
<1>1. order' = [x \in Orders |-> IF x = o THEN row ELSE order[x]]
  BY DEF PO!Put, OrderInv
<1> QED
  BY <1>1 DEF OrdersMove, OrderMoves, OrderInv

LEMMA OrdersStay ==
    ASSUME OrderInv, order' = order
    PROVE  OrdersMove
BY DEF OrderInv, OrdersMove, OrderMoves

\* What a step does to the forms: nothing, or it opens or closes one, or an edit
\* uses one up whose version is still that of the draft it is about.
Opens ==
    \E c \in Buyers, o \in Orders :
        /\ PO!Exists(order[o])
        /\ orderForm' = [orderForm EXCEPT ![c] = [of |-> o, seen |-> order[o]]]
        /\ order' = order

Closes(c) == orderForm' = [orderForm EXCEPT ![c] = PO!NoForm]

Edits ==
    \E c \in Buyers, o \in Orders :
        /\ orderForm[c].of = o
        /\ PO!Exists(order[o])
        /\ orderForm[c].seen.version = order[o].version
        /\ Closes(c)
        /\ \A x \in Orders : x # o => order'[x] = order[x]

OrderStepIs ==
    /\ OrdersMove
    /\ \/ orderForm' = orderForm
       \/ Opens
       \/ \E c \in Buyers : Closes(c) /\ order' = order
       \/ Edits

LEMMA OrderStepKinds ==
    ASSUME OrderInv, [PO!Next]_(PO!vars)
    PROVE  OrderStepIs
<1>1. \A o \in Orders : OrderRow(order[o])
  BY DEF OrderInv
<1>2. CASE UNCHANGED PO!vars
  BY <1>2, OrdersStay DEF PO!vars, OrderStepIs
<1>3. ASSUME NEW o \in Orders, NEW t \in OrderTotals, PO!Create(o, t) PROVE OrderStepIs
  BY <1>3, DraftMoves, PutMoves DEF PO!Create, OrderStepIs
<1>4. ASSUME NEW o \in Orders, NEW source \in Orders, PO!Duplicate(o, source) PROVE OrderStepIs
  BY <1>4, DraftMoves, PutMoves DEF PO!Duplicate, OrderStepIs
<1>5. ASSUME NEW o \in Orders, PO!Issue(o) PROVE OrderStepIs
  BY <1>5, <1>1, IssuedMoves, PutMoves DEF PO!Issue, OrderStepIs
<1>6. ASSUME NEW o \in Orders, NEW p \in Payments, NEW a \in OrderAmounts,
             NEW own \in BOOLEAN, NEW r \in Rates, PO!RecordPayment(o, p, a, own, r)
      PROVE  OrderStepIs
  <2>1. order[o].status \in {"sent", "paid"}
    BY <1>6 DEF PO!RecordPayment, PO!Exists, PO!Statuses
  <2>2. OrderMoves(order[o], PO!PaidRow(order[o], PO!Converted(a, r)))
    BY <1>1, <2>1, PaidMoves
  <2> QED
    BY <1>6, <2>2, PutMoves DEF PO!RecordPayment, OrderStepIs
<1>7. ASSUME NEW o \in Orders, PO!Delete(o) PROVE OrderStepIs
  BY <1>7, <1>1, DeletedMoves, PutMoves DEF PO!Delete, OrderStepIs
<1>8. ASSUME NEW p \in Payments, NEW row, PO!ChangePayment(p, row) PROVE OrderStepIs
  <2> PICK o : o = payment[p].of
    OBVIOUS
  <2> PICK sum : sum = PO!PaidBy(payment', o)
    OBVIOUS
  <2>1. PO!Put(o, PO!Resynced(order[o], sum)) /\ orderForm' = orderForm
    BY <1>8 DEF PO!ChangePayment
  <2>2. o \in Orders => OrderMoves(order[o], PO!Resynced(order[o], sum))
    BY <1>1, ResyncedMoves
  <2> QED
    BY <2>1, <2>2, PutMoves DEF OrderStepIs
<1>9. ASSUME NEW c \in Buyers, NEW o \in Orders, PO!OpenForm(c, o) PROVE OrderStepIs
  BY <1>9, OrdersStay DEF PO!OpenForm, OrderStepIs, Opens
<1>10. ASSUME NEW c \in Buyers, PO!CloseForm(c) PROVE OrderStepIs
  BY <1>10, OrdersStay DEF PO!CloseForm, OrderStepIs, Closes
<1>11. ASSUME NEW c \in Buyers, PO!Annotate(c) PROVE OrderStepIs
  <2>1. PICK o \in Orders :
          /\ orderForm[c].of = o /\ PO!Exists(order[o])
          /\ PO!CanUpdate(order[o], orderForm[c].seen)
          /\ PO!Put(o, [order[o] EXCEPT !.version = @ + 1])
          /\ Closes(c)
    BY <1>11 DEF PO!Annotate, PO!Update, Closes
  <2>2. OrdersMove /\ \A x \in Orders : x # o => order'[x] = order[x]
    BY <1>1, <2>1, AnnotatedMoves, PutMoves
  <2> QED
    BY <2>1, <2>2 DEF PO!CanUpdate, OrderStepIs, Edits
<1>12. ASSUME NEW c \in Buyers, NEW t \in OrderTotals, PO!Reprice(c, t) PROVE OrderStepIs
  <2>1. PICK o \in Orders :
          /\ orderForm[c].of = o /\ PO!Exists(order[o])
          /\ PO!CanUpdate(order[o], orderForm[c].seen)
          /\ PO!Put(o, [order[o] EXCEPT !.total = t, !.balance = t - order[o].paid,
                                        !.version = @ + 1])
          /\ Closes(c)
    BY <1>12 DEF PO!Reprice, PO!Update, Closes
  <2>2. order[o].status = "draft"
    BY <2>1 DEF PO!CanUpdate
  <2> PICK row : row = [order[o] EXCEPT !.total = t, !.balance = t - order[o].paid,
                                        !.version = @ + 1]
    OBVIOUS
  <2>3. OrderMoves(order[o], row)
    BY <1>1, <2>2, RepricedMoves
  <2>4. OrdersMove /\ \A x \in Orders : x # o => order'[x] = order[x]
    BY <2>1, <2>3, PutMoves
  <2> QED
    BY <2>1, <2>4 DEF PO!CanUpdate, OrderStepIs, Edits
<1> QED
  BY <1>2, <1>3, <1>4, <1>5, <1>6, <1>7, <1>8, <1>9, <1>10, <1>11, <1>12
  DEF PO!Next, PO!MarkAsSent, PO!SendOrder, PO!UpdatePayment, PO!DeletePayment

LEMMA MovesKeepForms ==
    ASSUME NEW old, NEW new, OrderRow(old), OrderMoves(old, new),
           old.status # "absent", NEW version \in Nat, version <= old.version
    PROVE  /\ new.status # "absent" /\ version <= new.version
           /\ PO!Exists(new) /\ version = new.version => new = old
BY DEF OrderRow, OrderMoves, PO!Exists, PO!Statuses

LEMMA OrderInvInit == PO!Init => OrderInv
<1>1. OrderRow(PO!Absent) /\ PO!Absent.status = "absent"
  BY DEF OrderRow, PO!Absent
<1>2. Nothing \notin Orders
  BY OrderAssumption DEF PO!OrderConstants
<1> QED
  BY <1>1, <1>2 DEF PO!Init, OrderInv, OrderFormsAreTrue, PO!NoForm

LEMMA OrderInvStep == OrderInv /\ [PO!Next]_(PO!vars) => OrderInv'
<1> SUFFICES ASSUME OrderInv, [PO!Next]_(PO!vars) PROVE OrderInv'
  OBVIOUS
<1>1. OrderStepIs
  BY OrderStepKinds
<1>2. Nothing \notin Orders
  BY OrderAssumption DEF PO!OrderConstants
<1>3. /\ order' = [o \in Orders |-> order'[o]]
      /\ \A o \in Orders : OrderRow(order'[o]) /\ OrderMoves(order[o], order'[o])
  BY <1>1 DEF OrderStepIs, OrdersMove, OrderMoves
<1>4. orderForm' = [c \in Buyers |-> orderForm'[c]]
  BY <1>1 DEF OrderStepIs, Opens, Closes, Edits, OrderInv
<1>5. ASSUME NEW c \in Buyers, NEW o \in Orders, orderForm'[c].of = o
      PROVE  \/ orderForm'[c] = orderForm[c]
             \/ PO!Exists(order[o]) /\ orderForm'[c].seen = order[o] /\ order'[o] = order[o]
  <2>1. CASE orderForm' = orderForm
    BY <2>1
  <2>2. CASE Opens
    BY <2>2, <1>5 DEF Opens, OrderInv
  <2>3. ASSUME NEW d \in Buyers, Closes(d) PROVE orderForm'[c] = orderForm[c]
    BY <2>3, <1>2, <1>5 DEF Closes, OrderInv, PO!NoForm
  <2> QED
    BY <1>1, <2>1, <2>2, <2>3 DEF OrderStepIs, Edits
<1>6. ASSUME NEW c \in Buyers, NEW o \in Orders, orderForm'[c].of = o
      PROVE  /\ order'[o].status # "absent"
             /\ orderForm'[c].seen.version \in Nat
             /\ orderForm'[c].seen.version <= order'[o].version
             /\ PO!Exists(order'[o]) /\ orderForm'[c].seen.version = order'[o].version
                   => orderForm'[c].seen = order'[o]
  <2>1. CASE orderForm'[c] = orderForm[c]
    <3> PICK version : version = orderForm[c].seen.version
      OBVIOUS
    <3>1. /\ order[o].status # "absent" /\ version \in Nat /\ version <= order[o].version
          /\ PO!Exists(order[o]) /\ version = order[o].version => orderForm[c].seen = order[o]
      BY <2>1, <1>6 DEF OrderInv, OrderFormsAreTrue
    <3>2. /\ order'[o].status # "absent" /\ version <= order'[o].version
          /\ PO!Exists(order'[o]) /\ version = order'[o].version => order'[o] = order[o]
      BY <3>1, <1>3, MovesKeepForms DEF OrderInv
    <3> QED
      BY <2>1, <3>1, <3>2
  <2>2. CASE PO!Exists(order[o]) /\ orderForm'[c].seen = order[o] /\ order'[o] = order[o]
    BY <2>2, <1>3 DEF PO!Exists, PO!Statuses, OrderRow
  <2> QED
    BY <1>5, <1>6, <2>1, <2>2
<1> QED
  BY <1>3, <1>4, <1>6 DEF OrderInv, OrderFormsAreTrue

LEMMA OthersLeaveOrders ==
    [ExpenseStep \/ OrderStep \/ ObjectStep]_payableVars => [PO!Next]_(PO!vars)
BY DEF ExpenseStep, OrderStep, ObjectStep, payableVars, orderVars, PO!vars

LEMMA OrderInvAlways == PayableSpec => []OrderInv
<1>1. PayableInit => OrderInv
  BY OrderInvInit DEF PayableInit
<1>2. OrderInv /\ [ExpenseStep \/ OrderStep \/ ObjectStep]_payableVars => OrderInv'
  BY OthersLeaveOrders, OrderInvStep
<1> QED
  BY <1>1, <1>2, PTL DEF PayableSpec

\* Every operation of the purchase-order service: a sent order is never a draft
\* again nor deleted, and never changes its total, whatever payments are made,
\* corrected and taken back, and whoever still has it open in a form.
THEOREM SentOrdersStay == PayableSpec => SentIsPermanent
<1>1. ASSUME OrderInv, [PO!Next]_(PO!vars), NEW o \in Orders,
             order[o].status \in {"sent", "paid"}
      PROVE  order'[o].status \in {"sent", "paid"} /\ order'[o].total = order[o].total
  <2>1. OrderMoves(order[o], order'[o])
    BY <1>1, OrderStepKinds DEF OrderStepIs, OrdersMove
  <2> QED
    BY <1>1, <2>1 DEF OrderMoves
<1>2. OrderInv /\ [ExpenseStep \/ OrderStep \/ ObjectStep]_payableVars =>
        [\A o \in Orders : order[o].status \in {"sent", "paid"} =>
            /\ order'[o].status \in {"sent", "paid"}
            /\ order'[o].total = order[o].total]_(PO!vars)
  BY <1>1, OthersLeaveOrders
<1> QED
  BY <1>2, OrderInvAlways, PTL DEF PayableSpec, SentIsPermanent, PO!SentIsPermanent

\* update() of a purchase order, and the version that payments, corrections and
\* sends all move: the row an edit replaces is the row its client saw.
THEOREM OrderEditsWereSeen == PayableSpec => OrderEditsReplaceWhatWasSeen
<1>1. ASSUME OrderInv, [PO!Next]_(PO!vars), NEW c \in Buyers, NEW o \in Orders,
             orderForm[c].of = o, orderForm'[c] = PO!NoForm, order'[o] # order[o]
      PROVE  orderForm[c].seen = order[o]
  <2>1. OrderStepIs
    BY <1>1, OrderStepKinds
  <2>2. Nothing \notin Orders
    BY OrderAssumption DEF PO!OrderConstants
  <2>3. orderForm'[c] # orderForm[c]
    BY <1>1, <2>2 DEF PO!NoForm
  <2>4. Edits
    <3>1. ~Opens /\ order' # order /\ orderForm' # orderForm
      BY <1>1, <2>3 DEF Opens
    <3> QED
      BY <2>1, <3>1 DEF OrderStepIs
  <2>5. /\ orderForm[c].of = o /\ PO!Exists(order[o])
        /\ orderForm[c].seen.version = order[o].version
    <3> PICK d \in Buyers, x \in Orders :
          /\ orderForm[d].of = x /\ PO!Exists(order[x])
          /\ orderForm[d].seen.version = order[x].version
          /\ Closes(d)
          /\ \A y \in Orders : y # x => order'[y] = order[y]
      BY <2>4 DEF Edits
    <3>1. x = o
      BY <1>1
    <3>2. c # d => orderForm'[c] = orderForm[c]
      BY DEF Closes
    <3> QED
      BY <2>3, <3>1, <3>2
  <2> QED
    BY <1>1, <2>5 DEF OrderInv, OrderFormsAreTrue
<1>2. OrderInv /\ [ExpenseStep \/ OrderStep \/ ObjectStep]_payableVars =>
        [\A c \in Buyers, o \in Orders :
            /\ orderForm[c].of = o
            /\ orderForm'[c] = PO!NoForm
            /\ order'[o] # order[o]
            => orderForm[c].seen = order[o]]_(PO!vars)
  BY <1>1, OthersLeaveOrders
<1> QED
  BY <1>2, OrderInvAlways, PTL
  DEF PayableSpec, OrderEditsReplaceWhatWasSeen, PO!OrderEditsReplaceWhatWasSeen

------------------------------------------------------------------------------
(* The books of an order: the sum of its payments, the balance and the     *)
(* status that follows from them.                                          *)

\* What payment p of a table is worth to order o.
Worth(table, o) ==
    [p \in Payments |-> IF table[p].of = o
                        THEN PO!Converted(table[p].amount, table[p].rate) ELSE 0]

LEMMA OrderConstantsHold ==
    /\ OrderTotals \subseteq Nat /\ OrderAmounts \subseteq Nat /\ Rates \subseteq Nat
    /\ RateUnit \in Nat \ {0} /\ IsFiniteSet(Payments) /\ Nothing \notin Orders
    /\ RateStep \in Nat \ {0} /\ RateUnit % RateStep = 0
BY OrderAssumption DEF PO!OrderConstants, PO!IsFiniteSet, IsFiniteSet

LEMMA TotalsAreNumbers == \A t \in OrderTotals : t \in Nat
BY OrderConstantsHold

\* PaidBy, which folds over the payments, is their total.
LEMMA PaidIsTotal ==
    ASSUME NEW table, NEW o
    PROVE  PO!PaidBy(table, o) = Total(Worth(table, o), Payments)
<1>f. IsFiniteSet(Payments)
  BY OrderConstantsHold
<1> DEFINE D(g) == [s \in SUBSET Payments |->
        IF s = {} THEN 0
        ELSE LET x == CHOOSE x \in s : TRUE
             IN (IF table[x].of = o THEN PO!Converted(table[x].amount, table[x].rate)
                 ELSE 0) + g[s \ {x}]]
<1> DEFINE it == CHOOSE g : g = D(g)
<1>1. PO!PaidBy(table, o) = it[Payments]
  BY DEF PO!PaidBy, PO!MapThenSumSet, PO!MapThenFoldSet
<1>2. ASSUME NEW g PROVE (g = D(g)) <=> Sums(Worth(table, o), g, Payments)
  BY PickIsIn DEF Sums, SumStep, Worth, Pick
<1>3. PICK h : Sums(Worth(table, o), h, Payments)
  BY <1>f, SumsExist DEF Summable
<1>4. h = D(h)
  BY <1>2, <1>3
<1>5. it = D(it)
  <2> HIDE DEF D
  <2> QED BY <1>4
<1>6. Sums(Worth(table, o), it, Payments)
  <2> HIDE DEF D, it
  <2> QED BY <1>2, <1>5
<1> QED
  <2> HIDE DEF D, it
  <2> QED BY <1>f, <1>1, <1>6, SumsIsTotal

\* Division by a positive number, and what it leaves.
LEMMA Division ==
    \A n \in Nat, d \in Nat \ {0} :
        /\ n \div d \in Nat
        /\ d * (n \div d) <= n /\ n < d * (n \div d) + d
OBVIOUS

LEMMA ConvertedRounds ==
    ASSUME NEW a \in Nat, NEW r \in Nat
    PROVE  /\ PO!Converted(a, r) \in Nat
           /\ Within((2 * RateUnit) * PO!Converted(a, r) - 2 * (a * r), RateUnit)
<1>1. RateUnit \in Nat \ {0}
  BY OrderConstantsHold
<1> PICK e, n, d : e = a * r /\ n = 2 * a * r + RateUnit /\ d = 2 * RateUnit
  OBVIOUS
<1>2. e \in Nat /\ n = 2 * e + RateUnit
  OBVIOUS
<1>3. n \in Nat /\ d \in Nat \ {0}
  BY <1>1, <1>2
<1> PICK c : c = n \div d
  OBVIOUS
<1>4. c \in Nat /\ d * c <= n /\ n < d * c + d
  BY <1>3, Division
<1>5. PO!Converted(a, r) = c
  BY DEF PO!Converted
<1> PICK dc : dc = d * c
  OBVIOUS
<1>6. dc \in Int
  BY <1>3, <1>4
<1>7. Within(dc - 2 * e, RateUnit)
  BY <1>1, <1>2, <1>4, <1>6 DEF Within
<1> QED
  BY <1>4, <1>5, <1>7

\* What is left of a rate in its column is within half of its last decimal; a rate
\* of one is kept as it is.
LEMMA StoredRounds ==
    ASSUME NEW r \in Nat
    PROVE  PO!Stored(r) \in Nat /\ Within(2 * PO!Stored(r) - 2 * r, RateStep)
<1>1. RateStep \in Nat \ {0}
  BY OrderConstantsHold
<1> PICK n, d : n = 2 * r + RateStep /\ d = 2 * RateStep
  OBVIOUS
<1>2. n \in Nat /\ d \in Nat \ {0}
  BY <1>1
<1> PICK q : q = n \div d
  OBVIOUS
<1>3. q \in Nat /\ d * q <= n /\ n < d * q + d
  BY <1>2, Division
<1> PICK s : s = RateStep * q
  OBVIOUS
<1>4. PO!Stored(r) = s /\ s \in Nat /\ d * q = 2 * s
  BY <1>1, <1>3 DEF PO!Stored
<1> QED
  BY <1>1, <1>3, <1>4 DEF Within

LEMMA StoredOne == PO!Stored(RateUnit) = RateUnit
<1>1. RateStep \in Nat \ {0} /\ RateUnit \in Nat \ {0} /\ RateUnit % RateStep = 0
  BY OrderConstantsHold
<1> PICK k : k = RateUnit \div RateStep
  OBVIOUS
<1>2. k \in Nat /\ RateUnit = RateStep * k
  <2>1. \A n \in Nat, d \in Nat \ {0} :
           n \div d \in Nat /\ (n % d = 0 => n = d * (n \div d))
    OBVIOUS
  <2> QED
    BY <1>1, <2>1
<1> PICK n, d : n = 2 * RateUnit + RateStep /\ d = 2 * RateStep
  OBVIOUS
<1>3. n \in Nat /\ d \in Nat \ {0} /\ d * k = 2 * RateUnit
  BY <1>1, <1>2
<1>4. n \div d = k
  <2> PICK q : q = n \div d
    OBVIOUS
  <2>1. q \in Nat /\ d * q <= n /\ n < d * q + d
    BY <1>3, Division
  <2>2. d * q < d * (k + 1) /\ d * k < d * (q + 1)
    BY <1>1, <1>2, <1>3, <2>1
  <2>3. q < k + 1 /\ k < q + 1
    <3>1. \A x, y \in Nat : d * x < d * y => x < y
      BY <1>3
    <3> QED
      BY <1>2, <2>1, <2>2, <3>1
  <2> QED
    BY <1>2, <2>1, <2>3
<1> QED
  BY <1>2, <1>4 DEF PO!Stored

\* At a rate of one a payment is worth its amount.
LEMMA WorthAtOne ==
    ASSUME NEW a \in Nat
    PROVE  PO!Converted(a, RateUnit) = a
<1> PICK c, u : c = PO!Converted(a, RateUnit) /\ u = RateUnit
  OBVIOUS
<1>1. u \in Nat \ {0}
  BY OrderConstantsHold
<1>2. c \in Nat /\ Within((2 * u) * c - 2 * (a * u), u)
  BY <1>1, ConvertedRounds
<1> PICK x, ux : x = c - a /\ ux = u * x
  OBVIOUS
<1>3. x \in Int /\ ux \in Int /\ (2 * u) * c - 2 * (a * u) = 2 * ux
  BY <1>1, <1>2
<1>4. x >= 1 => ux >= u
  BY <1>1, <1>3
<1>5. x <= -1 => ux <= -u
  BY <1>1, <1>3
<1>6. -u <= 2 * ux /\ 2 * ux <= u
  BY <1>2, <1>3 DEF Within
<1>7. x = 0
  BY <1>1, <1>3, <1>4, <1>5, <1>6
<1> QED
  BY <1>2, <1>7

\* A row of the payments' table: one in the order's currency has rate one.
PaymentOK(row) ==
    /\ row \in PO!PaymentRow
    /\ row.own => row.rate = RateUnit
    /\ row.of = Nothing => row = PO!NoPayment

PaymentsOK(table) ==
    /\ table \in [Payments -> PO!PaymentRow]
    /\ \A p \in Payments : PaymentOK(table[p])

\* worth is what the row is worth exactly, up to what the order may be out by.
IsNear(row, worth) ==
    Within((2 * RateUnit) * worth - 2 * (row.amount * row.rate), PO!Slack(row))

LEMMA SlackIsNatural == ASSUME NEW row, PaymentOK(row) PROVE PO!Slack(row) \in Nat
BY OrderConstantsHold DEF PaymentOK, PO!PaymentRow, PO!Slack

\* Summed again: converted at the rate of the row.
LEMMA ResummedIsNear ==
    ASSUME NEW row, PaymentOK(row)
    PROVE  IsNear(row, PO!Converted(row.amount, row.rate))
<1> PICK a, r, c, e : /\ a = row.amount /\ r = row.rate
                      /\ c = PO!Converted(a, r) /\ e = a * r
  OBVIOUS
<1>1. a \in Nat /\ r \in Nat /\ e \in Nat /\ row.own \in BOOLEAN
  BY DEF PaymentOK, PO!PaymentRow
<1>2. /\ RateUnit \in Nat \ {0} /\ RateStep \in Nat \ {0}
      /\ c \in Nat /\ Within((2 * RateUnit) * c - 2 * e, RateUnit)
  BY <1>1, ConvertedRounds, OrderConstantsHold
<1> PICK uc, as : uc = (2 * RateUnit) * c /\ as = a * RateStep
  OBVIOUS
<1>3. uc \in Nat /\ as \in Nat
  BY <1>1, <1>2
<1>4. CASE row.own
  <2>1. r = RateUnit /\ c = a
    BY <1>1, <1>4, WorthAtOne DEF PaymentOK
  <2>2. uc = 2 * e
    BY <1>1, <1>2, <2>1
  <2> QED
    BY <1>1, <1>4, <2>2 DEF IsNear, PO!Slack, Within
<1>5. CASE ~row.own
  BY <1>1, <1>2, <1>3, <1>5 DEF IsNear, PO!Slack, Within
<1> QED
  BY <1>1, <1>4, <1>5

\* Recorded: converted at the rate as requested.
LEMMA RecordedIsNear ==
    ASSUME NEW o \in Orders, NEW a \in Nat, NEW own \in BOOLEAN, NEW r \in Nat,
           PO!Acceptable(own, r)
    PROVE  /\ PaymentOK(PO!Paid(o, a, own, r)) /\ PO!Paid(o, a, own, r).of = o
           /\ PO!Converted(a, r) \in Nat
           /\ IsNear(PO!Paid(o, a, own, r), PO!Converted(a, r))
           /\ own => PO!Converted(a, r) = PO!Converted(a, PO!Stored(r))
<1> PICK s, c, row : s = PO!Stored(r) /\ c = PO!Converted(a, r) /\ row = PO!Paid(o, a, own, r)
  OBVIOUS
<1>1. /\ RateUnit \in Nat \ {0} /\ RateStep \in Nat \ {0} /\ o # Nothing
      /\ c \in Nat /\ Within((2 * RateUnit) * c - 2 * (a * r), RateUnit)
      /\ s \in Nat /\ Within(2 * s - 2 * r, RateStep)
  BY ConvertedRounds, StoredRounds, OrderConstantsHold
<1>2. /\ row.of = o /\ row.amount = a /\ row.own = own /\ row.rate = s
      /\ row \in PO!PaymentRow
  BY <1>1 DEF PO!Paid, PO!PaymentRow
<1>3. own => r = RateUnit /\ s = RateUnit
  BY StoredOne DEF PO!Acceptable, PO!SameCurrency
<1>4. PaymentOK(row)
  BY <1>1, <1>2, <1>3 DEF PaymentOK
<1>5. CASE own
  <2>1. c = PO!Converted(row.amount, row.rate)
    BY <1>2, <1>3, <1>5
  <2> QED
    BY <1>1, <1>2, <1>3, <1>4, <1>5, <2>1, ResummedIsNear
<1>6. CASE ~own
  <2> PICK uc, ar, as, x, at : /\ uc = (2 * RateUnit) * c /\ ar = a * r /\ as = a * s
                               /\ x = 2 * s - 2 * r /\ at = a * RateStep
    OBVIOUS
  <2>1. uc \in Nat /\ ar \in Nat /\ as \in Nat /\ x \in Int /\ at \in Nat
    BY <1>1
  <2>2. Within(a * x, at)
    BY <1>1, <2>1, WithinScales
  <2>3. a * x = 2 * as - 2 * ar
    BY <1>1
  <2>4. Within(uc - 2 * as, RateUnit + at)
    BY <1>1, <2>1, <2>2, <2>3 DEF Within
  <2>5. PO!Slack(row) = RateUnit + at
    BY <1>2, <1>6 DEF PO!Slack
  <2> QED
    BY <1>1, <1>2, <1>4, <1>6, <2>4, <2>5 DEF IsNear
<1> QED
  BY <1>5, <1>6

LEMMA WorthIsNatural ==
    ASSUME NEW table, PaymentsOK(table), NEW o, NEW p \in Payments
    PROVE  Worth(table, o)[p] \in Nat
BY ConvertedRounds DEF PaymentsOK, PO!PaymentRow, Worth

LEMMA PaidIsNatural ==
    ASSUME NEW table, PaymentsOK(table), NEW o
    PROVE  PO!PaidBy(table, o) \in Nat
BY WorthIsNatural, PaidIsTotal, TotalNonNegative, OrderConstantsHold

LEMMA NothingPaid ==
    ASSUME NEW table, PaymentsOK(table), NEW o, \A p \in Payments : table[p].of # o
    PROVE  PO!PaidBy(table, o) = 0
<1>1. \A p \in Payments : Worth(table, o)[p] = 0
  BY DEF Worth
<1> QED
  BY <1>1, PaidIsTotal, TotalOfZeroes, OrderConstantsHold

\* A payment entered for an order adds what it is worth to the order's sum.
LEMMA PaidGrows ==
    ASSUME NEW table, PaymentsOK(table), NEW new, PaymentsOK(new), NEW o,
           NEW p \in Payments, table[p].of # o, new[p].of = o,
           \A q \in Payments : q # p => new[q] = table[q]
    PROVE  PO!PaidBy(new, o)
              = PO!PaidBy(table, o) + PO!Converted(new[p].amount, new[p].rate)
<1> PICK v, w : v = Worth(new, o) /\ w = Worth(table, o)
  OBVIOUS
<1>3. \A q \in Payments : v[q] \in Int /\ w[q] \in Int
  BY WorthIsNatural
<1>4. \A q \in Payments : q # p => v[q] = w[q]
  BY DEF Worth
<1>5. OneTermApart(v, w, Payments, p)
  BY <1>3, <1>4, TotalChanges, OrderConstantsHold
<1>6. w[p] = 0 /\ v[p] = PO!Converted(new[p].amount, new[p].rate)
  BY DEF Worth
<1> QED
  BY <1>3, <1>5, <1>6, PaidIsTotal DEF OneTermApart

\* A payment of one order, however it changes, leaves the others' sums alone.
LEMMA PaidElsewhere ==
    ASSUME NEW table, NEW new, NEW o,
           \A q \in Payments : new[q] = table[q] \/ (table[q].of # o /\ new[q].of # o)
    PROVE  PO!PaidBy(new, o) = PO!PaidBy(table, o)
<1>1. \A q \in Payments : Worth(new, o)[q] = Worth(table, o)[q]
  BY DEF Worth
<1> QED
  BY <1>1, PaidIsTotal, TotalCongruence, OrderConstantsHold

\* Of a payment's row, to order o: its amount at its rate, and what the order may
\* be out by, both in halves of 1/RateUnit of a cent.
Exact(table, o) ==
    [p \in Payments |-> IF table[p].of = o THEN table[p].amount * table[p].rate ELSE 0]
Slacks(table, o) ==
    [p \in Payments |-> IF table[p].of = o THEN PO!Slack(table[p]) ELSE 0]

AllOwn(table, o) == \A p \in Payments : table[p].of = o => table[p].own

\* What an order may say is paid, with that table of payments.
MoneyOK(table, o, paid) ==
    /\ paid \in Nat
    /\ AllOwn(table, o) => paid = PO!PaidBy(table, o)
    /\ Within((2 * RateUnit) * paid - 2 * Total(Exact(table, o), Payments),
              Total(Slacks(table, o), Payments))

LEMMA ExactAreNumbers ==
    ASSUME NEW table, PaymentsOK(table), NEW o, NEW p \in Payments
    PROVE  Exact(table, o)[p] \in Int /\ Slacks(table, o)[p] \in Int
<1>1. PaymentOK(table[p])
  BY DEF PaymentsOK
<1>2. PO!Slack(table[p]) \in Int /\ table[p].amount * table[p].rate \in Int
  BY <1>1, SlackIsNatural DEF PaymentOK, PO!PaymentRow
<1> QED
  BY <1>2 DEF Exact, Slacks

\* As a resync sums it up.
LEMMA MoneyResynced ==
    ASSUME NEW table, PaymentsOK(table), NEW o
    PROVE  MoneyOK(table, o, PO!PaidBy(table, o))
<1> PICK v, w, b : v = Worth(table, o) /\ w = Exact(table, o) /\ b = Slacks(table, o)
  OBVIOUS
<1>1. \A p \in Payments : v[p] \in Int /\ w[p] \in Int /\ b[p] \in Int
  BY WorthIsNatural, ExactAreNumbers
<1>2. ASSUME NEW p \in Payments PROVE Within((2 * RateUnit) * v[p] - 2 * w[p], b[p])
  <2>1. CASE table[p].of = o
    <3>1. PaymentOK(table[p])
      BY DEF PaymentsOK
    <3>2. IsNear(table[p], PO!Converted(table[p].amount, table[p].rate))
      BY <3>1, ResummedIsNear
    <3> QED
      BY <2>1, <3>2 DEF IsNear, Worth, Exact, Slacks
  <2>2. CASE table[p].of # o
    <3>1. v[p] = 0 /\ w[p] = 0 /\ b[p] = 0
      BY <2>2 DEF Worth, Exact, Slacks
    <3> QED
      BY <3>1, OrderConstantsHold DEF Within
  <2> QED
    BY <2>1, <2>2
<1>3. IsFiniteSet(Payments) /\ 2 * RateUnit \in Int
  BY OrderConstantsHold
<1>4. Within((2 * RateUnit) * Total(v, Payments) - 2 * Total(w, Payments), Total(b, Payments))
  BY <1>1, <1>2, <1>3, TotalsDriftBy
<1> QED
  BY <1>4, PaidIsTotal, PaidIsNatural DEF MoneyOK

\* As recording a payment adds to it.
LEMMA MoneyRecorded ==
    ASSUME NEW table, PaymentsOK(table), NEW new, PaymentsOK(new), NEW o,
           NEW p \in Payments, table[p].of # o, new[p].of = o,
           \A q \in Payments : q # p => new[q] = table[q],
           NEW worth \in Nat, IsNear(new[p], worth),
           new[p].own => worth = PO!Converted(new[p].amount, new[p].rate),
           NEW paid, MoneyOK(table, o, paid)
    PROVE  MoneyOK(new, o, paid + worth)
<1> PICK v, w, a, b : /\ v = Exact(new, o) /\ w = Exact(table, o)
                      /\ a = Slacks(new, o) /\ b = Slacks(table, o)
  OBVIOUS
<1>1. \A q \in Payments : v[q] \in Int /\ w[q] \in Int /\ a[q] \in Int /\ b[q] \in Int
  BY ExactAreNumbers
<1>2. \A q \in Payments : q # p => v[q] = w[q] /\ a[q] = b[q]
  BY DEF Exact, Slacks
<1>3. OneTermApart(v, w, Payments, p) /\ OneTermApart(a, b, Payments, p)
  BY <1>1, <1>2, TotalChanges, OrderConstantsHold
<1>4. w[p] = 0 /\ b[p] = 0 /\ Within((2 * RateUnit) * worth - 2 * v[p], a[p])
  BY DEF Exact, Slacks, IsNear
<1>5. paid \in Nat /\ RateUnit \in Nat
  BY OrderConstantsHold DEF MoneyOK
<1> PICK up, uw : up = (2 * RateUnit) * paid /\ uw = (2 * RateUnit) * worth
  OBVIOUS
<1>6. /\ up \in Int /\ uw \in Int
      /\ (2 * RateUnit) * (paid + worth) = up + uw
  BY <1>5
<1>7. /\ Total(v, Payments) = Total(w, Payments) + v[p]
      /\ Total(a, Payments) = Total(b, Payments) + a[p]
      /\ Total(w, Payments) \in Int /\ Total(b, Payments) \in Int
  BY <1>1, <1>3, <1>4 DEF OneTermApart
<1>8. Within((up + uw) - 2 * Total(v, Payments), Total(a, Payments))
  <2>1. Within(up - 2 * Total(w, Payments), Total(b, Payments))
    BY DEF MoneyOK
  <2>2. Within(uw - 2 * v[p], a[p])
    BY <1>4
  <2>3. v[p] \in Int /\ a[p] \in Int
    BY <1>1
  <2> QED
    BY <1>6, <1>7, <2>1, <2>2, <2>3 DEF Within
<1>9. ASSUME AllOwn(new, o) PROVE paid + worth = PO!PaidBy(new, o)
  <2>1. AllOwn(table, o) /\ new[p].own
    BY <1>9 DEF AllOwn
  <2> QED
    BY <2>1, PaidGrows DEF MoneyOK
<1> QED
  BY <1>5, <1>6, <1>8, <1>9 DEF MoneyOK

\* A payment of another order does not touch it.
LEMMA MoneyElsewhere ==
    ASSUME NEW table, NEW new, NEW o, NEW paid, MoneyOK(table, o, paid),
           \A q \in Payments : new[q] = table[q] \/ (table[q].of # o /\ new[q].of # o)
    PROVE  MoneyOK(new, o, paid)
<1>1. \A q \in Payments : /\ Exact(new, o)[q] = Exact(table, o)[q]
                          /\ Slacks(new, o)[q] = Slacks(table, o)[q]
  BY DEF Exact, Slacks
<1>2. /\ Total(Exact(new, o), Payments) = Total(Exact(table, o), Payments)
      /\ Total(Slacks(new, o), Payments) = Total(Slacks(table, o), Payments)
  BY <1>1, TotalCongruence, OrderConstantsHold
<1>3. PO!PaidBy(new, o) = PO!PaidBy(table, o) /\ (AllOwn(new, o) <=> AllOwn(table, o))
  BY PaidElsewhere DEF AllOwn
<1> QED
  BY <1>2, <1>3 DEF MoneyOK

\* What the row of an order says, when that much is paid.
BookOK(row, sum, none) ==
    /\ row.status \in PO!Statuses \cup {"absent", "deleted"}
    /\ row.status # "absent" => row.total \in OrderTotals
    /\ row.paid = sum
    /\ row.balance = row.total - sum \/ (row.balance = 0 /\ none)
    /\ row.status = "paid" => sum >= row.total /\ row.stamped = TRUE
    /\ row.status # "paid" => row.stamped = FALSE
    /\ row.status = "sent" => none \/ sum < row.total
    /\ row.status \notin {"sent", "paid"} => none

Unpaid(table, o) == \A p \in Payments : table[p].of # o

OrderBooks ==
    /\ PaymentsOK(payment)
    /\ \A o \in Orders :
          /\ BookOK(order[o], order[o].paid, Unpaid(payment, o))
          /\ MoneyOK(payment, o, order[o].paid)

\* No payments, nothing paid.
LEMMA NothingReceived ==
    ASSUME OrderBooks, NEW o \in Orders, Unpaid(payment, o)
    PROVE  order[o].paid = 0
<1>1. AllOwn(payment, o) /\ PO!PaidBy(payment, o) = 0
  BY NothingPaid DEF OrderBooks, Unpaid, AllOwn
<1> QED
  BY <1>1 DEF OrderBooks, MoneyOK

LEMMA BooksAgree == OrderBooks => OrdersAgree
<1> SUFFICES ASSUME OrderBooks, NEW o \in Orders
             PROVE  LET row == order[o] IN
                    /\ \/ row.balance = row.total - row.paid
                       \/ row.balance = 0 /\ PO!PaymentsOf(o) = {}
                    /\ row.status = "paid" => row.paid >= row.total /\ row.stamped
                    /\ row.status = "sent" => ~row.stamped
                    /\ row.status = "sent" /\ PO!PaymentsOf(o) # {}
                          => row.paid < row.total
                    /\ (\A p \in PO!PaymentsOf(o) : payment[p].own)
                          => row.paid = PO!PaidBy(payment, o)
  BY DEF OrdersAgree, PO!OrdersAgree
<1>1. /\ BookOK(order[o], order[o].paid, Unpaid(payment, o))
      /\ AllOwn(payment, o) => order[o].paid = PO!PaidBy(payment, o)
  BY DEF OrderBooks, MoneyOK
<1>2. /\ Unpaid(payment, o) <=> PO!PaymentsOf(o) = {}
      /\ AllOwn(payment, o) <=> \A p \in PO!PaymentsOf(o) : payment[p].own
  BY DEF Unpaid, AllOwn, PO!PaymentsOf
<1> QED
  BY <1>1, <1>2 DEF BookOK

LEMMA DraftBooks ==
    ASSUME NEW total \in OrderTotals, NEW balance \in {0, total}
    PROVE  BookOK(PO!Draft(total, balance), 0, TRUE)
<1>1. total \in Int
  BY TotalsAreNumbers
<1> QED
  BY <1>1 DEF PO!Draft, BookOK, PO!Statuses

\* A row whose totals and status do not change keeps its books; so does one that
\* is sent or deleted as a draft.
LEMMA SameBooks ==
    ASSUME NEW row, NEW sum, NEW none, BookOK(row, sum, none), NEW new,
           new.total = row.total, new.paid = row.paid, new.balance = row.balance,
           new.stamped = row.stamped,
           \/ new.status = row.status
           \/ row.status = "draft" /\ new.status \in {"sent", "deleted"}
    PROVE  BookOK(new, sum, none)
BY DEF BookOK, PO!Statuses

LEMMA RepricedBooks ==
    ASSUME NEW row, OrderRow(row), row.status = "draft", NEW none, BookOK(row, 0, none),
           NEW total \in OrderTotals, NEW new,
           new = [row EXCEPT !.total = total, !.balance = total - row.paid, !.version = @ + 1]
    PROVE  BookOK(new, 0, none)
<1> PICK left : left = total - row.paid
  OBVIOUS
<1>1. /\ new.status = "draft" /\ new.total = total /\ new.paid = row.paid
      /\ new.balance = left /\ new.stamped = row.stamped
  BY DEF OrderRow
<1>2. total \in Int
  BY TotalsAreNumbers
<1> QED
  BY <1>1, <1>2 DEF BookOK

\* What a payment, its correction and its removal all make of a row.
SettledAt(row, new, sum) ==
    /\ new.total = row.total
    /\ new.paid = sum
    /\ new.balance = row.total - sum
    /\ sum >= row.total => new.status = "paid" /\ new.stamped = TRUE
    /\ ~(sum >= row.total) => new.status = "sent" /\ new.stamped = FALSE

LEMMA SettledBooks ==
    ASSUME NEW row, NEW new, NEW sum \in Nat, NEW none, row.total \in OrderTotals,
           SettledAt(row, new, sum)
    PROVE  BookOK(new, sum, none)
<1>1. row.total \in Int
  BY TotalsAreNumbers
<1> QED
  BY <1>1 DEF SettledAt, BookOK, PO!Statuses

LEMMA PaidSettles ==
    ASSUME NEW row, OrderRow(row), row.status \in {"sent", "paid"},
           NEW sum \in Nat, NEW none, BookOK(row, sum, none), NEW applied \in Nat
    PROVE  SettledAt(row, PO!PaidRow(row, applied), sum + applied)
<1> PICK left, paid, stamped, status :
        /\ left = row.total - (row.paid + applied) /\ paid = row.paid + applied
        /\ stamped = (row.stamped \/ left <= 0)
        /\ status = IF left <= 0 THEN "paid" ELSE row.status
  OBVIOUS
<1> PICK new : new = PO!PaidRow(row, applied)
  OBVIOUS
<1>1. new = [row EXCEPT !.paid = paid, !.balance = left, !.status = status,
                        !.stamped = stamped, !.version = row.version + 1]
  BY DEF PO!PaidRow, OrderRow
<1>2. /\ new.status = status /\ new.total = row.total /\ new.paid = paid
      /\ new.balance = left /\ new.stamped = stamped
  BY <1>1 DEF OrderRow
<1>3. row.total \in Int /\ row.paid = sum
  BY TotalsAreNumbers DEF BookOK
<1>4. left <= 0 <=> sum + applied >= row.total
  BY <1>3
<1>5. row.status = "paid" => left <= 0
  BY <1>3 DEF BookOK
<1>6. left <= 0 => status = "paid" /\ stamped = TRUE
  OBVIOUS
<1>7. ~(left <= 0) => status = "sent" /\ stamped = FALSE
  BY <1>5 DEF BookOK
<1>8. paid = sum + applied /\ left = row.total - (sum + applied)
  BY <1>3
<1> QED
  BY <1>2, <1>4, <1>6, <1>7, <1>8 DEF SettledAt

LEMMA ResyncedSettles ==
    ASSUME NEW row, OrderRow(row), row.status \in {"sent", "paid"},
           NEW old, NEW none, BookOK(row, old, none), NEW sum \in Nat
    PROVE  SettledAt(row, PO!Resynced(row, sum), sum)
<1> PICK left : left = row.total - sum
  OBVIOUS
<1> PICK status : status = IF row.status = "paid" /\ left > 0 THEN "sent"
                           ELSE IF row.status = "sent" /\ left <= 0 THEN "paid"
                           ELSE row.status
  OBVIOUS
<1> PICK stamped : stamped = IF row.status = "paid" /\ left > 0 THEN FALSE
                             ELSE row.stamped \/ (row.status = "sent" /\ left <= 0)
  OBVIOUS
<1> PICK new : new = PO!Resynced(row, sum)
  OBVIOUS
<1>1. new = [row EXCEPT !.paid = sum, !.balance = left, !.status = status,
                        !.stamped = stamped, !.version = row.version + 1]
  BY DEF PO!Resynced, OrderRow
<1>2. /\ new.status = status /\ new.total = row.total /\ new.paid = sum
      /\ new.balance = left /\ new.stamped = stamped
  BY <1>1 DEF OrderRow
<1>3. row.total \in Int
  BY TotalsAreNumbers DEF BookOK
<1>4. left <= 0 <=> sum >= row.total
  BY <1>3
<1>5. left > 0 <=> ~(left <= 0)
  BY <1>3
<1>6. ASSUME left <= 0 PROVE status = "paid" /\ stamped = TRUE
  <2>1. CASE row.status = "paid"
    BY <1>5, <1>6, <2>1 DEF BookOK
  <2>2. CASE row.status = "sent"
    BY <1>5, <1>6, <2>2
  <2> QED
    BY <2>1, <2>2
<1>7. ASSUME ~(left <= 0) PROVE status = "sent" /\ stamped = FALSE
  <2>1. CASE row.status = "paid"
    BY <1>5, <1>7, <2>1
  <2>2. CASE row.status = "sent"
    BY <1>5, <1>7, <2>2 DEF BookOK
  <2> QED
    BY <2>1, <2>2
<1> QED
  BY <1>2, <1>4, <1>6, <1>7 DEF SettledAt

\* Settlement, as purchase orders implement it.
OrderOwed == [o \in Orders |-> order[o].total]
OrderReceived == [o \in Orders |-> order[o].paid]
OrderStands == [o \in Orders |-> PO!Standing(order[o])]

LEMMA OrderStanding ==
    ASSUME NEW row
    PROVE  /\ row.status = "absent" => PO!Standing(row) = "none"
           /\ row.status \in {"draft", "sent"} => PO!Standing(row) = "open"
           /\ row.status = "paid" => PO!Standing(row) = "settled"
           /\ row.status = "deleted" => PO!Standing(row) = "gone"
BY DEF PO!Standing

\* A row is written and no payment: what follows for the books and the mapping.
LEMMA OnlyTheRow ==
    ASSUME OrderInv, OrderBooks, NEW o \in Orders, NEW row, PO!Put(o, row),
           payment' = payment, row.paid = order[o].paid,
           BookOK(row, row.paid, Unpaid(payment, o))
    PROVE  /\ OrderBooks'
           /\ OrderOwed' = [OrderOwed EXCEPT ![o] = row.total]
           /\ OrderStands' = [OrderStands EXCEPT ![o] = PO!Standing(row)]
           /\ OrderReceived' = OrderReceived
<1>1. order' = [x \in Orders |-> IF x = o THEN row ELSE order[x]]
  BY DEF PO!Put, OrderInv
<1>2. \A x \in Orders : x # o => order'[x] = order[x]
  BY <1>1
<1>3. order'[o] = row
  BY <1>1
<1>4. \A x \in Orders : order'[x].paid = order[x].paid
  BY <1>2, <1>3
<1>5. OrderBooks'
  <2>1. PaymentsOK(payment')
    BY DEF OrderBooks
  <2>2. ASSUME NEW x \in Orders
        PROVE  /\ BookOK(order'[x], order'[x].paid, Unpaid(payment', x))
               /\ MoneyOK(payment', x, order'[x].paid)
    <3>1. CASE x = o
      BY <3>1, <1>3 DEF OrderBooks
    <3>2. CASE x # o
      BY <3>2, <1>2 DEF OrderBooks
    <3> QED
      BY <3>1, <3>2
  <2> QED
    BY <2>1, <2>2 DEF OrderBooks
<1> QED
  BY <1>1, <1>2, <1>3, <1>4, <1>5 DEF OrderOwed, OrderStands, OrderReceived

LEMMA CreateSettles ==
    ASSUME OrderInv, OrderBooks, NEW o \in Orders, order[o].status = "absent",
           NEW total \in OrderTotals, NEW balance \in {0, total},
           PO!Put(o, PO!Draft(total, balance)), payment' = payment
    PROVE  OrderBooks' /\ PO!Promise!Raise(o, total)
<1> PICK row : row = PO!Draft(total, balance)
  OBVIOUS
<1>1. BookOK(order[o], order[o].paid, Unpaid(payment, o)) /\ PaymentsOK(payment)
  BY DEF OrderBooks
<1>2. Unpaid(payment, o)
  BY <1>1 DEF BookOK
<1>3. order[o].paid = 0
  BY <1>2, NothingReceived
<1>4. BookOK(row, 0, TRUE)
  BY DraftBooks
<1>5. BookOK(row, row.paid, Unpaid(payment, o)) /\ row.paid = order[o].paid
  BY <1>2, <1>3, <1>4 DEF BookOK
<1>6. row.total = total /\ row.status = "draft"
  BY DEF PO!Draft
<1>7. PO!Standing(row) = "open" /\ PO!Standing(order[o]) = "none"
  BY <1>6, OrderStanding
<1>8. /\ OrderBooks'
      /\ OrderOwed' = [OrderOwed EXCEPT ![o] = row.total]
      /\ OrderStands' = [OrderStands EXCEPT ![o] = PO!Standing(row)]
      /\ OrderReceived' = OrderReceived
  BY <1>5, OnlyTheRow
<1>9. /\ OrderOwed' = [OrderOwed EXCEPT ![o] = total]
      /\ OrderStands' = [OrderStands EXCEPT ![o] = "open"]
      /\ OrderStands[o] = "none"
  BY <1>6, <1>7, <1>8 DEF OrderStands
<1> QED
  BY <1>8, <1>9 DEF PO!Promise!Raise, OrderOwed, OrderStands, OrderReceived

\* A note, or the send of a draft: nothing Settlement looks at.
LEMMA QuietSettles ==
    ASSUME OrderInv, OrderBooks, NEW o \in Orders, NEW new, PO!Put(o, new),
           payment' = payment,
           new.total = order[o].total, new.paid = order[o].paid,
           new.balance = order[o].balance, new.stamped = order[o].stamped,
           \/ new.status = order[o].status
           \/ order[o].status = "draft" /\ new.status = "sent"
    PROVE  OrderBooks' /\ UNCHANGED <<OrderOwed, OrderReceived, OrderStands>>
<1>1. BookOK(order[o], order[o].paid, Unpaid(payment, o))
  BY DEF OrderBooks
<1>2. BookOK(new, new.paid, Unpaid(payment, o))
  BY <1>1, SameBooks
<1>3. PO!Standing(new) = PO!Standing(order[o])
  BY OrderStanding DEF PO!Standing
<1>4. /\ OrderBooks'
      /\ OrderOwed' = [OrderOwed EXCEPT ![o] = new.total]
      /\ OrderStands' = [OrderStands EXCEPT ![o] = PO!Standing(new)]
      /\ OrderReceived' = OrderReceived
  BY <1>2, OnlyTheRow
<1>5. OrderOwed[o] = new.total /\ OrderStands[o] = PO!Standing(new)
  BY <1>3 DEF OrderOwed, OrderStands
<1> QED
  BY <1>4, <1>5 DEF OrderOwed, OrderStands

LEMMA RepriceSettles ==
    ASSUME OrderInv, OrderBooks, NEW o \in Orders, order[o].status = "draft",
           NEW total \in OrderTotals, payment' = payment,
           PO!Put(o, [order[o] EXCEPT !.total = total, !.balance = total - order[o].paid,
                                      !.version = @ + 1])
    PROVE  OrderBooks' /\ PO!Promise!Reprice(o, total)
<1> PICK row : row = [order[o] EXCEPT !.total = total, !.balance = total - order[o].paid,
                                      !.version = @ + 1]
  OBVIOUS
<1>1. BookOK(order[o], order[o].paid, Unpaid(payment, o)) /\ PaymentsOK(payment)
  BY DEF OrderBooks
<1>2. Unpaid(payment, o)
  BY <1>1 DEF BookOK
<1>3. order[o].paid = 0
  BY <1>2, NothingReceived
<1>4. OrderRow(order[o])
  BY DEF OrderInv
<1>5. BookOK(row, row.paid, Unpaid(payment, o)) /\ row.paid = order[o].paid
  <2>1. BookOK(row, 0, Unpaid(payment, o))
    BY <1>1, <1>3, <1>4, RepricedBooks
  <2> QED
    BY <1>3, <2>1 DEF BookOK
<1>6. row.total = total /\ row.status = "draft"
  BY <1>4 DEF OrderRow
<1>7. PO!Standing(row) = "open" /\ PO!Standing(order[o]) = "open"
  BY <1>6, OrderStanding
<1>8. /\ OrderBooks'
      /\ OrderOwed' = [OrderOwed EXCEPT ![o] = row.total]
      /\ OrderStands' = [OrderStands EXCEPT ![o] = PO!Standing(row)]
      /\ OrderReceived' = OrderReceived
  BY <1>3, <1>5, OnlyTheRow
<1>9. /\ OrderOwed' = [OrderOwed EXCEPT ![o] = total]
      /\ OrderStands' = OrderStands /\ OrderStands[o] = "open" /\ OrderReceived[o] = 0
  <2>1. OrderStands[o] = PO!Standing(order[o]) /\ OrderReceived[o] = 0
    BY <1>3 DEF OrderStands, OrderReceived
  <2>2. OrderStands' = OrderStands
    BY <1>7, <1>8, <2>1 DEF OrderStands
  <2> QED
    BY <1>6, <1>7, <1>8, <2>1, <2>2
<1>10. total >= OrderReceived[o]
  BY <1>9, TotalsAreNumbers
<1> QED
  BY <1>8, <1>9, <1>10 DEF PO!Promise!Reprice, OrderOwed, OrderStands, OrderReceived

LEMMA DeleteSettles ==
    ASSUME OrderInv, OrderBooks, NEW o \in Orders, PO!Delete(o)
    PROVE  OrderBooks' /\ PO!Promise!Remove(o)
<1> PICK row : row = [order[o] EXCEPT !.status = "deleted"]
  OBVIOUS
<1>0. order[o].status = "draft" /\ PO!Put(o, row) /\ payment' = payment
  BY DEF PO!Delete
<1>1. BookOK(order[o], order[o].paid, Unpaid(payment, o)) /\ PaymentsOK(payment)
  BY DEF OrderBooks
<1>2. Unpaid(payment, o)
  BY <1>0, <1>1 DEF BookOK
<1>3. order[o].paid = 0
  BY <1>2, NothingReceived
<1>4. OrderRow(order[o])
  BY DEF OrderInv
<1>5. /\ row.status = "deleted" /\ row.total = order[o].total /\ row.paid = order[o].paid
      /\ row.balance = order[o].balance /\ row.stamped = order[o].stamped
  BY <1>4 DEF OrderRow
<1>6. BookOK(row, row.paid, Unpaid(payment, o))
  BY <1>0, <1>1, <1>5, SameBooks
<1>7. PO!Standing(row) = "gone" /\ PO!Standing(order[o]) = "open"
  BY <1>0, <1>5, OrderStanding
<1>8. /\ OrderBooks'
      /\ OrderOwed' = [OrderOwed EXCEPT ![o] = row.total]
      /\ OrderStands' = [OrderStands EXCEPT ![o] = PO!Standing(row)]
      /\ OrderReceived' = OrderReceived
  BY <1>0, <1>5, <1>6, OnlyTheRow
<1>9. /\ OrderOwed' = OrderOwed
      /\ OrderStands' = [OrderStands EXCEPT ![o] = "gone"] /\ OrderStands[o] = "open"
      /\ OrderReceived[o] = 0
  BY <1>3, <1>5, <1>7, <1>8 DEF OrderStands, OrderReceived, OrderOwed
<1> QED
  BY <1>8, <1>9 DEF PO!Promise!Remove, OrderOwed, OrderStands, OrderReceived

\* A payment of the order is written, and its row with the new sum.
LEMMA MoneySettles ==
    ASSUME OrderInv, OrderBooks, NEW o \in Orders, NEW p \in Payments, NEW money,
           payment' = [payment EXCEPT ![p] = money], PaymentsOK(payment'),
           {payment[p].of, money.of} \subseteq {o, Nothing},
           order[o].status \in {"sent", "paid"},
           NEW row, NEW sum, MoneyOK(payment', o, sum),
           PO!Put(o, row), SettledAt(order[o], row, sum)
    PROVE  OrderBooks' /\ PO!Promise!Receive(o)
<1>1. BookOK(order[o], order[o].paid, Unpaid(payment, o)) /\ PaymentsOK(payment)
  BY DEF OrderBooks
<1>2. order[o].total \in OrderTotals
  BY <1>1 DEF BookOK
<1>3. sum \in Nat /\ row.paid = sum
  BY DEF MoneyOK, SettledAt
<1>4. BookOK(row, sum, Unpaid(payment', o))
  BY <1>2, <1>3, SettledBooks
<1>5. order' = [x \in Orders |-> IF x = o THEN row ELSE order[x]]
  BY DEF PO!Put, OrderInv
<1>6. ASSUME NEW x \in Orders, x # o
      PROVE  /\ order'[x] = order[x]
             /\ MoneyOK(payment', x, order[x].paid)
             /\ Unpaid(payment', x) <=> Unpaid(payment, x)
  <2>1. x # Nothing
    BY OrderConstantsHold
  <2>2. payment[p].of # x /\ money.of # x
    BY <1>6, <2>1
  <2>3. \A q \in Payments :
           payment'[q] = payment[q] \/ (payment[q].of # x /\ payment'[q].of # x)
    BY <1>1, <2>2 DEF PaymentsOK
  <2>4. MoneyOK(payment', x, order[x].paid)
    <3>1. MoneyOK(payment, x, order[x].paid)
      BY DEF OrderBooks
    <3> QED
      BY <2>3, <3>1, MoneyElsewhere
  <2>5. \A q \in Payments : payment'[q].of = x <=> payment[q].of = x
    BY <2>3
  <2> QED
    BY <1>5, <1>6, <2>4, <2>5 DEF Unpaid
<1>7. OrderBooks'
  <2>1. ASSUME NEW x \in Orders
        PROVE  /\ BookOK(order'[x], order'[x].paid, Unpaid(payment', x))
               /\ MoneyOK(payment', x, order'[x].paid)
    <3>1. CASE x = o
      BY <3>1, <1>3, <1>4, <1>5
    <3>2. CASE x # o
      <4>1. BookOK(order[x], order[x].paid, Unpaid(payment, x))
        BY DEF OrderBooks
      <4> QED
        BY <3>2, <4>1, <1>6 DEF BookOK
    <3> QED
      BY <3>1, <3>2
  <2> QED
    BY <2>1 DEF OrderBooks
<1>8. /\ row.total = order[o].total
      /\ PO!Standing(row) = IF sum >= order[o].total THEN "settled" ELSE "open"
      /\ PO!Standing(order[o]) \in {"open", "settled"}
  BY OrderStanding DEF SettledAt
<1>9. /\ OrderOwed' = OrderOwed /\ OrderOwed[o] = order[o].total
      /\ OrderStands' = [OrderStands EXCEPT ![o] = PO!Standing(row)]
      /\ OrderStands[o] = PO!Standing(order[o])
      /\ OrderReceived' = [OrderReceived EXCEPT ![o] = sum]
      /\ OrderReceived'[o] = sum
  BY <1>3, <1>5, <1>6, <1>8 DEF OrderOwed, OrderStands, OrderReceived
<1>10. /\ OrderReceived' = [OrderReceived EXCEPT ![o] = OrderReceived'[o]]
       /\ OrderReceived'[o] \in Nat
       /\ OrderStands' = [OrderStands EXCEPT ![o] =
                             IF OrderReceived'[o] >= OrderOwed[o] THEN "settled" ELSE "open"]
       /\ OrderStands[o] \in {"open", "settled"}
  BY <1>3, <1>8, <1>9
<1> QED
  BY <1>7, <1>9, <1>10 DEF PO!Promise!Receive, OrderOwed, OrderStands, OrderReceived

LEMMA RecordSettles ==
    ASSUME OrderInv, OrderBooks, NEW o \in Orders, NEW p \in Payments,
           NEW a \in OrderAmounts, NEW own \in BOOLEAN, NEW r \in Rates,
           PO!RecordPayment(o, p, a, own, r)
    PROVE  OrderBooks' /\ PO!Promise!Receive(o)
<1> PICK money : money = PO!Paid(o, a, own, r)
  OBVIOUS
<1> PICK row, applied : applied = PO!Converted(a, r) /\ row = PO!PaidRow(order[o], applied)
  OBVIOUS
<1>1. /\ payment[p] = PO!NoPayment /\ order[o].status \in {"sent", "paid"}
      /\ PO!Acceptable(own, r)
      /\ payment' = [payment EXCEPT ![p] = money]
      /\ PO!Put(o, row)
  BY DEF PO!RecordPayment, PO!Exists, PO!Statuses
<1>2. /\ PaymentOK(money) /\ money.of = o /\ applied \in Nat /\ IsNear(money, applied)
      /\ money.own => applied = PO!Converted(money.amount, money.rate)
  <2>1. a \in Nat /\ r \in Nat
    BY OrderConstantsHold
  <2>2. money.own = own /\ money.amount = a /\ money.rate = PO!Stored(r)
    BY DEF PO!Paid
  <2> QED
    BY <1>1, <2>1, <2>2, RecordedIsNear
<1>3. /\ PaymentsOK(payment) /\ BookOK(order[o], order[o].paid, Unpaid(payment, o))
      /\ MoneyOK(payment, o, order[o].paid)
  BY DEF OrderBooks
<1>4. /\ PaymentsOK(payment') /\ payment'[p] = money
      /\ \A q \in Payments : q # p => payment'[q] = payment[q]
  BY <1>1, <1>2, <1>3 DEF PaymentsOK, PaymentOK
<1>5. payment[p].of = Nothing /\ o # Nothing
  BY <1>1, OrderConstantsHold DEF PO!NoPayment
<1> PICK sum : sum = order[o].paid + applied
  OBVIOUS
<1>6. MoneyOK(payment', o, sum)
  BY <1>2, <1>3, <1>4, <1>5, MoneyRecorded
<1>7. order[o].paid \in Nat
  BY <1>3 DEF MoneyOK
<1>8. SettledAt(order[o], row, sum)
  BY <1>1, <1>2, <1>3, <1>7, PaidSettles DEF OrderInv
<1>9. {payment[p].of, money.of} \subseteq {o, Nothing}
  BY <1>2, <1>5
<1> QED
  BY <1>1, <1>4, <1>6, <1>8, <1>9, MoneySettles

\* Correcting a payment or taking it back.
LEMMA ChangeSettles ==
    ASSUME OrderInv, OrderBooks, NEW p \in Payments, NEW money,
           PO!ChangePayment(p, money), money.of \in {payment[p].of, Nothing},
           PaymentOK(money)
    PROVE  \E o \in Orders : OrderBooks' /\ PO!Promise!Receive(o)
<1> PICK o : o = payment[p].of
  OBVIOUS
<1> PICK row, sum : sum = PO!PaidBy(payment', o) /\ row = PO!Resynced(order[o], sum)
  OBVIOUS
<1>1. /\ payment[p] # PO!NoPayment
      /\ payment' = [payment EXCEPT ![p] = money]
      /\ PO!Put(o, row)
  BY DEF PO!ChangePayment
<1>2. PaymentsOK(payment)
  BY DEF OrderBooks
<1>3. o \in Orders
  BY <1>1, <1>2 DEF PaymentsOK, PaymentOK, PO!PaymentRow
<1>4. BookOK(order[o], order[o].paid, Unpaid(payment, o))
  BY <1>3 DEF OrderBooks
<1>5. order[o].status \in {"sent", "paid"}
  BY <1>4 DEF BookOK, Unpaid
<1>6. PaymentsOK(payment')
  BY <1>1, <1>2 DEF PaymentsOK, PaymentOK
<1>7. MoneyOK(payment', o, sum) /\ sum \in Nat
  BY <1>6, MoneyResynced, PaidIsNatural
<1>8. SettledAt(order[o], row, sum)
  BY <1>3, <1>4, <1>5, <1>7, ResyncedSettles DEF OrderInv
<1>9. {payment[p].of, money.of} \subseteq {o, Nothing}
  OBVIOUS
<1> QED
  BY <1>1, <1>3, <1>5, <1>6, <1>7, <1>8, <1>9, MoneySettles

OrderSettleStep ==
    OrderBooks' /\ (PO!Promise!Next \/ UNCHANGED <<OrderOwed, OrderReceived, OrderStands>>)

LEMMA BooksStay ==
    ASSUME OrderBooks, UNCHANGED <<order, payment>>
    PROVE  OrderSettleStep
<1>1. \A o \in Orders : /\ order'[o] = order[o]
                        /\ Unpaid(payment', o) <=> Unpaid(payment, o)
  BY DEF Unpaid
<1>2. OrderBooks'
  <2>1. ASSUME NEW o \in Orders
        PROVE  /\ BookOK(order'[o], order'[o].paid, Unpaid(payment', o))
               /\ MoneyOK(payment', o, order'[o].paid)
    BY <1>1 DEF OrderBooks
  <2> QED
    BY <2>1 DEF OrderBooks
<1> QED
  BY <1>1, <1>2 DEF OrderSettleStep, OrderOwed, OrderReceived, OrderStands

LEMMA OrderBooksStep ==
    ASSUME OrderInv, OrderBooks, [PO!Next]_(PO!vars)
    PROVE  OrderSettleStep
<1>1. CASE UNCHANGED PO!vars
  BY <1>1, BooksStay DEF PO!vars
<1>2. ASSUME NEW o \in Orders, NEW t \in OrderTotals, PO!Create(o, t) PROVE OrderSettleStep
  BY <1>2, CreateSettles DEF PO!Create, OrderSettleStep, PO!Promise!Next
<1>3. ASSUME NEW o \in Orders, NEW source \in Orders, PO!Duplicate(o, source)
      PROVE  OrderSettleStep
  <2> PICK total : total = order[source].total
    OBVIOUS
  <2>1. /\ order[o].status = "absent" /\ PO!Put(o, PO!Draft(total, 0)) /\ payment' = payment
        /\ order[source].status # "absent"
    BY <1>3 DEF PO!Duplicate, PO!Exists, PO!Statuses
  <2>2. total \in OrderTotals
    BY <2>1 DEF OrderBooks, BookOK
  <2>3. OrderBooks' /\ PO!Promise!Raise(o, total)
    BY <2>1, <2>2, CreateSettles
  <2> QED
    BY <2>2, <2>3 DEF OrderSettleStep, PO!Promise!Next
<1>4. ASSUME NEW o \in Orders, PO!Issue(o) PROVE OrderSettleStep
  <2> PICK row : row = [order[o] EXCEPT !.status = "sent", !.version = @ + 1]
    OBVIOUS
  <2>1. order[o].status = "draft" /\ PO!Put(o, row) /\ payment' = payment
    BY <1>4 DEF PO!Issue
  <2>2. /\ row.status = "sent" /\ row.total = order[o].total /\ row.paid = order[o].paid
        /\ row.balance = order[o].balance /\ row.stamped = order[o].stamped
    BY DEF OrderInv, OrderRow
  <2> QED
    BY <2>1, <2>2, QuietSettles DEF OrderSettleStep
<1>5. ASSUME NEW o \in Orders, NEW p \in Payments, NEW a \in OrderAmounts,
             NEW own \in BOOLEAN, NEW r \in Rates, PO!RecordPayment(o, p, a, own, r)
      PROVE  OrderSettleStep
  BY <1>5, RecordSettles DEF OrderSettleStep, PO!Promise!Next
<1>6. ASSUME NEW o \in Orders, PO!Delete(o) PROVE OrderSettleStep
  BY <1>6, DeleteSettles DEF OrderSettleStep, PO!Promise!Next
<1>7. ASSUME NEW p \in Payments, NEW a \in OrderAmounts, NEW own \in BOOLEAN,
             NEW r \in Rates \cup {payment[p].rate}, PO!UpdatePayment(p, a, own, r)
      PROVE  OrderSettleStep
  <2> PICK o, money : o = payment[p].of /\ money = PO!Paid(o, a, own, r)
    OBVIOUS
  <2>1. PO!ChangePayment(p, money) /\ PO!Acceptable(own, r)
    BY <1>7 DEF PO!UpdatePayment
  <2>2. payment[p] # PO!NoPayment /\ PaymentOK(payment[p])
    BY <2>1 DEF PO!ChangePayment, OrderBooks, PaymentsOK
  <2>3. o \in Orders /\ payment[p].rate \in Nat
    BY <2>2 DEF PaymentOK, PO!PaymentRow
  <2>4. a \in Nat /\ r \in Nat
    BY <2>3, OrderConstantsHold
  <2>5. PaymentOK(money) /\ money.of = o
    BY <2>1, <2>3, <2>4, RecordedIsNear
  <2> QED
    BY <2>1, <2>3, <2>5, ChangeSettles DEF OrderSettleStep, PO!Promise!Next
<1>8. ASSUME NEW p \in Payments, PO!DeletePayment(p) PROVE OrderSettleStep
  <2> PICK money : money = PO!NoPayment
    OBVIOUS
  <2>1. PO!ChangePayment(p, money) /\ money.of = Nothing /\ PaymentOK(money)
    BY <1>8 DEF PO!DeletePayment, PO!NoPayment, PO!PaymentRow, PaymentOK
  <2> QED
    BY <2>1, ChangeSettles DEF OrderSettleStep, PO!Promise!Next
<1>9. ASSUME NEW c \in Buyers, NEW o \in Orders, PO!OpenForm(c, o) PROVE OrderSettleStep
  BY <1>9, BooksStay DEF PO!OpenForm
<1>10. ASSUME NEW c \in Buyers, PO!CloseForm(c) PROVE OrderSettleStep
  BY <1>10, BooksStay DEF PO!CloseForm
<1>11. ASSUME NEW c \in Buyers, PO!Annotate(c) PROVE OrderSettleStep
  <2>1. PICK o \in Orders : /\ PO!Put(o, [order[o] EXCEPT !.version = @ + 1])
                            /\ payment' = payment
    BY <1>11 DEF PO!Annotate, PO!Update
  <2> PICK row : row = [order[o] EXCEPT !.version = @ + 1]
    OBVIOUS
  <2>2. /\ row.status = order[o].status /\ row.total = order[o].total
        /\ row.paid = order[o].paid /\ row.balance = order[o].balance
        /\ row.stamped = order[o].stamped
    BY DEF OrderInv, OrderRow
  <2> QED
    BY <2>1, <2>2, QuietSettles DEF OrderSettleStep
<1>12. ASSUME NEW c \in Buyers, NEW t \in OrderTotals, PO!Reprice(c, t)
       PROVE  OrderSettleStep
  <2>1. PICK o \in Orders :
          /\ order[o].status = "draft" /\ payment' = payment
          /\ PO!Put(o, [order[o] EXCEPT !.total = t, !.balance = t - order[o].paid,
                                        !.version = @ + 1])
    BY <1>12 DEF PO!Reprice, PO!Update, PO!CanUpdate
  <2>2. OrderBooks' /\ PO!Promise!Reprice(o, t)
    BY <2>1, RepriceSettles
  <2> QED
    BY <2>2 DEF OrderSettleStep, PO!Promise!Next
<1> QED
  BY <1>1, <1>2, <1>3, <1>4, <1>5, <1>6, <1>7, <1>8, <1>9, <1>10, <1>11, <1>12
  DEF PO!Next, PO!MarkAsSent, PO!SendOrder

LEMMA OrderBooksInit ==
    ASSUME PO!Init
    PROVE  OrderBooks /\ PO!Promise!Init
<1>1. /\ order = [o \in Orders |-> PO!Absent]
      /\ payment = [p \in Payments |-> PO!NoPayment]
  BY DEF PO!Init
<1>2. PaymentsOK(payment) /\ \A p \in Payments : payment[p].of = Nothing
  BY <1>1 DEF PaymentsOK, PaymentOK, PO!PaymentRow, PO!NoPayment
<1>3. ASSUME NEW o \in Orders PROVE Unpaid(payment, o) /\ MoneyOK(payment, o, 0)
  <2>1. Unpaid(payment, o)
    BY <1>2, OrderConstantsHold DEF Unpaid
  <2>2. PO!PaidBy(payment, o) = 0
    BY <1>2, <2>1, NothingPaid DEF Unpaid
  <2> QED
    BY <1>2, <2>1, <2>2, MoneyResynced
<1>4. /\ PO!Absent.status = "absent" /\ PO!Absent.total = 0 /\ PO!Absent.paid = 0
      /\ BookOK(PO!Absent, 0, TRUE) /\ PO!Standing(PO!Absent) = "none"
  BY OrderStanding DEF PO!Absent, BookOK
<1>5. OrderBooks
  BY <1>1, <1>2, <1>3, <1>4 DEF OrderBooks, BookOK
<1>6. /\ OrderOwed = [o \in Orders |-> 0] /\ OrderReceived = [o \in Orders |-> 0]
      /\ OrderStands = [o \in Orders |-> "none"]
  BY <1>1, <1>4 DEF OrderOwed, OrderReceived, OrderStands
<1> QED
  BY <1>5, <1>6 DEF PO!Promise!Init, OrderOwed, OrderReceived, OrderStands

LEMMA OrderBooksAlways ==
    PayableSpec => []OrderBooks /\ OrdersSettle
<1>1. PayableInit => OrderBooks /\ PO!Promise!Init
  BY OrderBooksInit DEF PayableInit
<1>2. OrderInv /\ OrderBooks /\ [ExpenseStep \/ OrderStep \/ ObjectStep]_payableVars =>
        OrderSettleStep
  BY OthersLeaveOrders, OrderBooksStep
<1>3. OrderSettleStep => OrderBooks' /\ [PO!Promise!Next]_(PO!Promise!vars)
  BY DEF OrderSettleStep, PO!Promise!vars, OrderOwed, OrderReceived, OrderStands
<1> QED
  BY <1>1, <1>2, <1>3, OrderInvAlways, PTL
  DEF PayableSpec, OrdersSettle, PO!OrdersSettle, PO!Promise!Spec

\* record_payment, update_payment and delete_payment of any number of payments, at
\* any rates: balance and status of an order follow from what it says is paid, and
\* that is the sum of its payments as long as they are all in its own currency.
THEOREM OrdersKeepTheirBooks == PayableSpec => []OrdersAgree
BY OrderBooksAlways, BooksAgree, PTL

\* The purchase-order service implements Settlement: an order is settled exactly
\* when what it says is paid covers what it owes, after every payment, correction
\* and removal.
THEOREM OrdersSettleWhenCovered == PayableSpec => OrdersSettle
BY OrderBooksAlways

\* The sums of the property are totals: over the payments of the order, and so over
\* all payments.
LEMMA ExactIsTotal ==
    ASSUME NEW o
    PROVE  PO!MapThenSumSet(LAMBDA p : payment[p].amount * payment[p].rate,
                            PO!PaymentsOf(o))
              = Total(Exact(payment, o), PO!PaymentsOf(o))
<1> PICK S, w : S = PO!PaymentsOf(o) /\ w = Exact(payment, o)
  OBVIOUS
<1>f. IsFiniteSet(S) /\ \A p \in S : w[p] = payment[p].amount * payment[p].rate
  BY OrderConstantsHold, FS_Subset DEF PO!PaymentsOf, Exact
<1> DEFINE D(g) == [s \in SUBSET S |->
        IF s = {} THEN 0
        ELSE LET x == CHOOSE x \in s : TRUE
             IN (payment[x].amount * payment[x].rate) + g[s \ {x}]]
<1> DEFINE it == CHOOSE g : g = D(g)
<1>1. PO!MapThenSumSet(LAMBDA p : payment[p].amount * payment[p].rate, S) = it[S]
  BY DEF PO!MapThenSumSet, PO!MapThenFoldSet
<1>2. ASSUME NEW g PROVE (g = D(g)) <=> Sums(w, g, S)
  BY <1>f, PickIsIn DEF Sums, SumStep, Pick
<1>3. PICK h : Sums(w, h, S)
  BY <1>f, SumsExist DEF Summable
<1>4. h = D(h)
  BY <1>2, <1>3
<1>5. it = D(it)
  <2> HIDE DEF D
  <2> QED BY <1>4
<1>6. Sums(w, it, S)
  <2> HIDE DEF D, it
  <2> QED BY <1>2, <1>5
<1> QED
  <2> HIDE DEF D, it
  <2> QED BY <1>f, <1>1, <1>6, SumsIsTotal

LEMMA SlackIsTotal ==
    ASSUME NEW o
    PROVE  PO!MapThenSumSet(LAMBDA p : PO!Slack(payment[p]), PO!PaymentsOf(o))
              = Total(Slacks(payment, o), PO!PaymentsOf(o))
<1> PICK S, w : S = PO!PaymentsOf(o) /\ w = Slacks(payment, o)
  OBVIOUS
<1>f. IsFiniteSet(S) /\ \A p \in S : w[p] = PO!Slack(payment[p])
  BY OrderConstantsHold, FS_Subset DEF PO!PaymentsOf, Slacks
<1> DEFINE D(g) == [s \in SUBSET S |->
        IF s = {} THEN 0
        ELSE LET x == CHOOSE x \in s : TRUE IN PO!Slack(payment[x]) + g[s \ {x}]]
<1> DEFINE it == CHOOSE g : g = D(g)
<1>1. PO!MapThenSumSet(LAMBDA p : PO!Slack(payment[p]), S) = it[S]
  BY DEF PO!MapThenSumSet, PO!MapThenFoldSet
<1>2. ASSUME NEW g PROVE (g = D(g)) <=> Sums(w, g, S)
  BY <1>f, PickIsIn DEF Sums, SumStep, Pick
<1>3. PICK h : Sums(w, h, S)
  BY <1>f, SumsExist DEF Summable
<1>4. h = D(h)
  BY <1>2, <1>3
<1>5. it = D(it)
  <2> HIDE DEF D
  <2> QED BY <1>4
<1>6. Sums(w, it, S)
  <2> HIDE DEF D, it
  <2> QED BY <1>2, <1>5
<1> QED
  <2> HIDE DEF D, it
  <2> QED BY <1>f, <1>1, <1>6, SumsIsTotal

LEMMA DriftHolds == OrderBooks => DriftIsBounded
<1> SUFFICES ASSUME OrderBooks, NEW o \in Orders
             PROVE  LET exact == PO!MapThenSumSet(
                                   LAMBDA p : payment[p].amount * payment[p].rate,
                                   PO!PaymentsOf(o))
                    IN  2 * PO!Abs(RateUnit * order[o].paid - exact)
                           <= PO!MapThenSumSet(LAMBDA p : PO!Slack(payment[p]),
                                               PO!PaymentsOf(o))
  BY DEF DriftIsBounded, PO!DriftIsBounded
<1> PICK S, w, b : /\ S = PO!PaymentsOf(o)
                   /\ w = Exact(payment, o) /\ b = Slacks(payment, o)
  OBVIOUS
<1>1. S \in SUBSET Payments /\ \A p \in Payments : p \in S <=> payment[p].of = o
  BY DEF PO!PaymentsOf
<1>2. PaymentsOK(payment) /\ MoneyOK(payment, o, order[o].paid)
  BY DEF OrderBooks
<1>3. IsFiniteSet(Payments) /\ IsFiniteSet(S) /\ RateUnit \in Nat
  BY <1>1, OrderConstantsHold, FS_Subset
<1>4. \A p \in Payments : w[p] \in Int /\ b[p] \in Int
  BY <1>2, ExactAreNumbers
<1>5. \A p \in Payments \ S : w[p] = 0 /\ b[p] = 0
  BY <1>1 DEF Exact, Slacks
<1>6. Total(w, Payments) = Total(w, S) /\ Total(b, Payments) = Total(b, S)
  BY <1>1, <1>3, <1>4, <1>5, TotalRestricts
<1> PICK up, e, t : up = RateUnit * order[o].paid /\ e = Total(w, S) /\ t = Total(b, S)
  OBVIOUS
<1>7. up \in Int /\ e \in Int /\ t \in Int
  <2>1. AnyOrder(w, S) /\ AnyOrder(b, S)
    BY <1>1, <1>3, <1>4, TotalSplits
  <2>2. order[o].paid \in Nat
    BY <1>2 DEF MoneyOK
  <2> QED
    BY <1>3, <2>1, <2>2 DEF AnyOrder
<1>8. Within(2 * up - 2 * e, t)
  <2>1. \A x, y \in Int : (2 * x) * y = 2 * (x * y)
    OBVIOUS
  <2>2. (2 * RateUnit) * order[o].paid = 2 * up
    BY <1>2, <1>3, <2>1 DEF MoneyOK
  <2> QED
    BY <1>2, <1>6, <2>2 DEF MoneyOK
<1>9. 2 * PO!Abs(up - e) <= t
  BY <1>7, <1>8 DEF Within, PO!Abs
<1> QED
  BY <1>9, ExactIsTotal, SlackIsTotal

\* What conversion and the column of the rate may lose: however many payments an
\* order takes, in whatever currencies, and however they are corrected, what it says
\* is paid is that close to the sum of its payments at their stored rates.
THEOREM DriftStaysBounded == PayableSpec => []DriftIsBounded
BY OrderBooksAlways, DriftHolds, PTL
===============================================================================
