-------------------------------- MODULE Parties --------------------------------
(***************************************************************************)
(* Customers and vendors, and the documents raised for them.  A request    *)
(* reads the party's row without a lock; update() then locks it with       *)
(* assert_version (FOR UPDATE), and a document's INSERT takes the foreign  *)
(* key's shared lock on it, each held until the request commits.           *)
(* Left out: every field but status, currency and version.                 *)
(***************************************************************************)
EXTENDS Integers, FiniteSets

CONSTANTS
    Customers, Vendors,     \* disjoint
    Papers,                 \* documents: invoices and quotes, expenses and orders
    Clerks,                 \* concurrent requests
    Currencies,
    MaxVersion              \* bound: version of a row

\* What the constants must be; whoever instantiates the module assumes it.
PartiesConstants ==
    /\ Customers \cap Vendors = {} /\ "none" \notin Customers \cup Vendors
    /\ MaxVersion \in Nat \ {0}

VARIABLES
    party,      \* party[p]: the committed row
    paper,      \* paper[d]: the committed document
    call        \* call[k]: where a request is and what it read

vars == <<party, paper, call>>

Statuses == {"active", "inactive", "deleted"}

Row(status, currency, version) ==
    [status |-> status, currency |-> currency, version |-> version]

NoRow == Row("none", "none", 0)

\* A deleted row's id is never used again.
Gone == Row("gone", "none", 0)

Exists(p) == party[p] \notin {NoRow, Gone}

Paper(of, currency, open) == [of |-> of, currency |-> currency, open |-> open]

NoPaper == Paper("none", "none", FALSE)

PapersOf(p) == {d \in Papers : paper[d].of = p}

\* A request: the paper it raises, the party, the row it read, the version its
\* client saw.
Call(step, p, seen, expected, d) ==
    [step |-> step, of |-> p, seen |-> seen, expected |-> expected, paper |-> d]

Idle == Call("idle", "none", NoRow, 0, "none")

At(k, step) == call[k].step = step

Proceed(k, step) == call' = [call EXCEPT ![k].step = step]

Done(k) == call' = [call EXCEPT ![k] = Idle]

\* Row locks: an update's FOR UPDATE, an inserted document's FOR KEY SHARE.
Locked(p) == \E k \in Clerks : call[k].of = p /\ call[k].step \in {"locked", "edited"}

Shared(p) == \E k \in Clerks : call[k].of = p /\ call[k].step = "inserted"

PutRow(p, row) == party' = [party EXCEPT ![p] = row]

------------------------------------------------------------------------------
Create(p, currency) ==
    /\ party[p] = NoRow
    /\ PutRow(p, Row("active", currency, 1))
    /\ UNCHANGED <<paper, call>>

\* update(): the copy, without a lock; the client saw some version up to it.
ReadToUpdate(k, p, expected) ==
    /\ At(k, "idle") /\ Exists(p)
    /\ call' = [call EXCEPT ![k] = Call("read", p, party[p], expected, "none")]
    /\ UNCHANGED <<party, paper>>

\* assert_version: wait for the row, then compare the versions.  A row that is
\* gone passes, and the flush fails.
Lock(k) ==
    LET p == call[k].of IN
    /\ At(k, "read") /\ ~Locked(p) /\ ~Shared(p)
    /\ IF Exists(p) /\ party[p].version = call[k].expected
       THEN Proceed(k, "locked") ELSE Done(k)
    /\ UNCHANGED <<party, paper>>

FreezeSlip(k, currency) ==
    /\ call[k].of \in Customers /\ currency # call[k].seen.currency
    /\ \E d \in PapersOf(call[k].of) : paper[d].open

\* A customer with documents keeps its currency; a vendor does not.
Frozen(k, currency) ==
    /\ call[k].of \in Customers /\ currency # call[k].seen.currency
    /\ PapersOf(call[k].of) # {}

\* The fields are set on the copy; the commit makes them visible.
Edit(k, currency) ==
    /\ At(k, "locked")
    /\ ~Frozen(k, currency)
    /\ call[k].seen.version < MaxVersion
    /\ call' = [call EXCEPT ![k].step = "edited", ![k].seen.currency = currency]
    /\ UNCHANGED <<party, paper>>

CommitEdit(k) ==
    LET p == call[k].of  seen == call[k].seen IN
    /\ At(k, "edited")
    /\ PutRow(p, Row(party[p].status, seen.currency, seen.version + 1))
    /\ Done(k)
    /\ UNCHANGED paper

\* activate(), deactivate() and the soft delete decide on an unlocked copy.
ReadToMove(k, p) ==
    /\ At(k, "idle") /\ Exists(p)
    /\ call' = [call EXCEPT ![k] = Call("move", p, party[p], 0, "none")]
    /\ UNCHANGED <<party, paper>>

CanMove(k, status, force) ==
    LET p == call[k].of  seen == call[k].seen.status IN
    /\ p \in Vendors => status # "deleted"
    /\ \/ status = "active" /\ seen = "inactive"
       \/ /\ status = "inactive" /\ seen = "active"
          /\ p \in Customers /\ ~force => \A d \in PapersOf(p) : ~paper[d].open
       \/ status = "deleted"

Move(k, status, force) ==
    LET p == call[k].of IN
    /\ At(k, "move") /\ Exists(p) /\ ~Locked(p)
    /\ CanMove(k, status, force)
    /\ PutRow(p, [party[p] EXCEPT !.status = status])
    /\ Done(k)
    /\ UNCHANGED paper

\* The row goes only if no document refers to it (RESTRICT); an unforced request
\* looks first, a vendor's at the open ones.
Remove(k, force) ==
    LET p == call[k].of IN
    /\ At(k, "move") /\ Exists(p) /\ ~Locked(p) /\ ~Shared(p)
    /\ p \in Customers /\ ~force => PapersOf(p) = {}
    /\ p \in Vendors => \A d \in PapersOf(p) : ~paper[d].open
    /\ PapersOf(p) = {}
    /\ PutRow(p, Gone)
    /\ Done(k)
    /\ UNCHANGED paper

\* A document takes its currency from the party as it was read.
ReadForPaper(k, p, d) ==
    /\ At(k, "idle") /\ Exists(p) /\ party[p].status = "active"
    /\ paper[d] = NoPaper /\ \A other \in Clerks : call[other].paper # d
    /\ call' = [call EXCEPT ![k] = Call("drafting", p, party[p], 0, d)]
    /\ UNCHANGED <<party, paper>>

InsertPaper(k) ==
    /\ At(k, "drafting") /\ Exists(call[k].of) /\ ~Locked(call[k].of)
    /\ Proceed(k, "inserted")
    /\ UNCHANGED <<party, paper>>

CommitPaper(k) ==
    LET c == call[k] IN
    /\ At(k, "inserted")
    /\ paper' = [paper EXCEPT ![c.paper] = Paper(c.of, c.seen.currency, TRUE)]
    /\ Done(k)
    /\ UNCHANGED party

\* Refused, timed out, or the process died.
GiveUp(k) ==
    /\ ~At(k, "idle")
    /\ Done(k)
    /\ UNCHANGED <<party, paper>>

\* The document is settled or canceled, or a draft of it is deleted.
ClosePaper(d) ==
    /\ paper[d].open
    /\ \E rest \in {NoPaper, [paper[d] EXCEPT !.open = FALSE]} :
          paper' = [paper EXCEPT ![d] = rest]
    /\ UNCHANGED <<party, call>>

Init ==
    /\ party = [p \in Customers \cup Vendors |-> NoRow]
    /\ paper = [d \in Papers |-> NoPaper]
    /\ call = [k \in Clerks |-> Idle]

Next ==
    \/ \E p \in Customers \cup Vendors :
          \/ \E currency \in Currencies : Create(p, currency)
          \/ \E k \in Clerks :
                \/ \E expected \in 1..party[p].version : ReadToUpdate(k, p, expected)
                \/ ReadToMove(k, p)
                \/ \E d \in Papers : ReadForPaper(k, p, d)
    \/ \E k \in Clerks :
          \/ Lock(k)
          \/ \E currency \in Currencies : Edit(k, currency)
          \/ CommitEdit(k)
          \/ \E force \in BOOLEAN :
                \/ \E status \in Statuses : Move(k, status, force)
                \/ Remove(k, force)
          \/ InsertPaper(k)
          \/ CommitPaper(k)
          \/ GiveUp(k)
    \/ \E d \in Papers : ClosePaper(d)

Spec == Init /\ [][Next]_vars

------------------------------------------------------------------------------
(* A customer's currency changes only while no document of the customer    *)
(* exists, not even one that another request has inserted and is about to  *)
(* commit: the version check's lock and the foreign key's exclude it.      *)
FrozenCurrency ==
    [][\A c \in Customers :
          Exists(c) /\ Exists(c)' /\ party'[c].currency # party[c].currency =>
             PapersOf(c) = {} /\ ~Shared(c)]_vars
===============================================================================
