--------------------------- MODULE ReferenceNumbers ---------------------------
(***************************************************************************)
(* Reference numbers of one scope: the numbers of a day or the global      *)
(* references of invoices, quotes, expenses or orders.  The generator      *)
(* holds a transaction-scoped advisory lock, reads the scope's row in      *)
(* reference_sequences, writes the next value back and inserts the         *)
(* document, all in one transaction at READ COMMITTED.  Imports and data   *)
(* fixes insert a number of their choice without the advisory lock.        *)
(*                                                                         *)
(* On invoices, quotes and expenses a trigger raises the scope's row for   *)
(* whoever inserts.  Purchase orders have no such trigger: their scopes    *)
(* are "bare", and only the generator moves the mark.                      *)
(***************************************************************************)
EXTENDS FiniteSetsExt, Integers

CONSTANTS
    Writers,       \* database sessions that create or import documents
    MaxNumber,     \* bound: the largest number tried
    MaxTries       \* MAX_REFERENCE_RETRIES

ASSUME NumberAssumption == MaxNumber \in Nat
ASSUME TriesAssumption  == MaxTries \in Nat

VARIABLES
    scope,         \* "triggered" or "bare": has the document's table the trigger
    documents,     \* numbers of the committed documents
    issued,        \* every number a committed document ever had
    mark,          \* committed last_value of the scope's row; 0 is no row
    writer,        \* per session, its transaction
    overtaken      \* an import committed a number the generator does not reckon with

refVars == <<scope, documents, issued, mark, writer, overtaken>>

Numbers == 1 .. MaxNumber

Idle == [doing |-> "nothing", stage |-> "idle", number |-> 0, value |-> 0,
         fresh |-> FALSE, tries |-> 0]

Writer ==
    {t \in [doing: {"nothing", "create", "import"},
            stage: {"idle", "retry", "locked", "read", "marked", "inserted"},
            number: Numbers \cup {0}, value: Numbers \cup {0},
            fresh: BOOLEAN, tries: 0 .. MaxTries] :
       t.stage \in {"read", "marked", "inserted"} => t.number \in Numbers}

RefInit ==
    /\ scope \in {"triggered", "bare"}
    /\ documents = {} /\ issued = {}
    /\ mark = 0
    /\ writer = [w \in Writers |-> Idle]
    /\ overtaken = FALSE

------------------------------------------------------------------------------
At(w, doing, stage) == writer[w].doing = doing /\ writer[w].stage = stage

\* The advisory lock, which a rollback to the savepoint gives back.
HoldsScope(w) ==
    writer[w].doing = "create" /\ writer[w].stage \in {"locked", "read", "marked", "inserted"}

\* The row lock of an uncommitted write to the scope's row.
HoldsRow(w) == writer[w].stage = "marked" \/ At(w, "create", "inserted")

\* An uncommitted entry in the unique index.
Inserting(w, n) == writer[w].number = n
                   /\ (writer[w].stage = "inserted" \/ At(w, "import", "marked"))

Others(w) == Writers \ {w}

Put(w, record) == writer' = [writer EXCEPT ![w] = record]

Creating(stage, number, value, fresh, tries) ==
    [doing |-> "create", stage |-> stage, number |-> number, value |-> value,
     fresh |-> fresh, tries |-> tries]

Importing(stage, number, value) ==
    [doing |-> "import", stage |-> stage, number |-> number, value |-> value,
     fresh |-> FALSE, tries |-> 0]

\* create() and convert() open a savepoint; generate() locks the scope.
Lock(w) ==
    /\ writer[w].stage \in {"idle", "retry"}
    /\ \A v \in Writers : ~HoldsScope(v)
    /\ Put(w, Creating("locked", 0, 0, FALSE, writer[w].tries))
    /\ UNCHANGED <<scope, documents, issued, mark, overtaken>>

NextNumberSlip == Max(documents \cup {0}) + 1

\* The persisted mark decides; the table is scanned only for a new scope.
NextNumber == IF mark > 0 THEN mark + 1 ELSE Max(documents \cup {0}) + 1

\* The read sees what is committed; it takes no lock on the row.
Read(w) ==
    /\ At(w, "create", "locked")
    /\ NextNumber \in Numbers
    /\ Put(w, Creating("read", NextNumber, NextNumber, mark = 0, writer[w].tries))
    /\ UNCHANGED <<scope, documents, issued, mark, overtaken>>

\* The flush updates the row, or inserts it if there was none, once whoever
\* else has written it is done.
Mark(w) ==
    /\ At(w, "create", "read")
    /\ \A v \in Others(w) : ~HoldsRow(v)
    /\ writer[w].fresh => mark = 0
    /\ Put(w, Creating("marked", writer[w].number, writer[w].value, FALSE, writer[w].tries))
    /\ UNCHANGED <<scope, documents, issued, mark, overtaken>>

\* The document's own trigger finds the mark already raised.
Insert(w) ==
    /\ At(w, "create", "marked")
    /\ \A v \in Others(w) : ~Inserting(v, writer[w].number)
    /\ writer[w].number \notin documents
    /\ Put(w, Creating("inserted", writer[w].number, writer[w].value, FALSE, writer[w].tries))
    /\ UNCHANGED <<scope, documents, issued, mark, overtaken>>

\* A unique index refuses the row or the document: _with_reference_retry rolls
\* back to the savepoint, mark included, and tries again, or gives up with a 409.
Collide(w) ==
    /\ \/ At(w, "create", "read") /\ writer[w].fresh /\ mark > 0
       \/ At(w, "create", "marked") /\ writer[w].number \in documents
    /\ Put(w, IF writer[w].tries < MaxTries
              THEN Creating("retry", 0, 0, FALSE, writer[w].tries + 1)
              ELSE Idle)
    /\ UNCHANGED <<scope, documents, issued, mark, overtaken>>

------------------------------------------------------------------------------
\* An import inserts a document under a number of its choice ...
Import(w, n) ==
    /\ writer[w] = Idle
    /\ n \notin documents
    /\ \A v \in Others(w) : ~Inserting(v, n)
    /\ Put(w, Importing("inserted", n, 0))
    /\ UNCHANGED <<scope, documents, issued, mark, overtaken>>

RaisedSlip(n) == n

\* GREATEST(last_value, EXCLUDED.last_value).
Raised(n) == IF n > mark THEN n ELSE mark

\* ... and where there is a trigger, bump_reference_sequence() upserts the mark,
\* waiting for its row.
Bump(w) ==
    /\ scope = "triggered"
    /\ At(w, "import", "inserted")
    /\ \A v \in Others(w) : ~HoldsRow(v)
    /\ Put(w, Importing("marked", writer[w].number, Raised(writer[w].number)))
    /\ UNCHANGED <<scope, documents, issued, mark, overtaken>>

\* The transaction has written the scope's row.
Marks(w) == At(w, "create", "inserted") \/ At(w, "import", "marked")

\* Nothing raises the mark for an import into a bare table.
Unmarked(w) == scope = "bare" /\ At(w, "import", "inserted")

\* A generator has read a mark this import goes past, or nobody raised it.
Overtakes(w) ==
    \/ At(w, "import", "marked") /\ \E v \in Writers : At(v, "create", "read")
    \/ Unmarked(w) /\ writer[w].number > mark

Commit(w) ==
    /\ Marks(w) \/ Unmarked(w)
    /\ documents' = documents \cup {writer[w].number}
    /\ issued' = issued \cup {writer[w].number}
    /\ mark' = IF Marks(w) THEN writer[w].value ELSE mark
    /\ overtaken' = (overtaken \/ Overtakes(w))
    /\ Put(w, Idle)
    /\ UNCHANGED scope

\* Any failure, a deadlock's victim included: the transaction leaves no trace.
RollBack(w) ==
    /\ writer[w] # Idle
    /\ Put(w, Idle)
    /\ UNCHANGED <<scope, documents, issued, mark, overtaken>>

\* A draft is deleted for good.
DeleteDraft(n) ==
    /\ n \in documents
    /\ documents' = documents \ {n}
    /\ UNCHANGED <<scope, issued, mark, writer, overtaken>>

RefNext ==
    \/ \E w \in Writers :
          \/ Lock(w) \/ Read(w) \/ Mark(w) \/ Insert(w) \/ Collide(w)
          \/ \E n \in Numbers : Import(w, n)
          \/ Bump(w) \/ Commit(w) \/ RollBack(w)
    \/ \E n \in Numbers : DeleteDraft(n)

RefSpec == RefInit /\ [][RefNext]_refVars

------------------------------------------------------------------------------
RefTypeOK ==
    /\ scope \in {"triggered", "bare"}
    /\ documents \subseteq Numbers
    /\ issued \subseteq Numbers
    /\ mark \in Numbers \cup {0}
    /\ writer \in [Writers -> Writer]
    /\ overtaken \in BOOLEAN

\* A number about to be committed by the generator was never a document's,
\* deleted ones included.
NewNumbers == \A w \in Writers : At(w, "create", "inserted") => writer[w].number \notin issued

\* "For a financial ledger a reference must never be reused": so it is, however
\* creates, failures, deletes and imports interleave, as long as no import
\* overtakes the generator: commits between its read of the mark and its write,
\* or, into a table without the trigger, commits a number above the mark.
NeverReissued == ~overtaken => NewNumbers

\* Under the same condition the mark never falls.
MarkFallsOnlyIfOvertaken == [][~overtaken => mark' >= mark]_refVars
===============================================================================
