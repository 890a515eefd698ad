------------------------- MODULE QuoteConversionProofs -------------------------
(***************************************************************************)
(* The invariants of QuoteConversion, that an approved quote is permanent, *)
(* and that invoices go on beside the quotes as InvoiceLifecycle says, for *)
(* every set of quotes, invoices, customers and clerks and every bound.    *)
(*                                                                         *)
(* OneInvoicePerQuote is not inductive.  What it needs is in BornApart (an *)
(* invoice created from a quote existed from then on, if only as a deleted *)
(* row, so a later conversion takes another one) and in RowOK (what a row  *)
(* of the table holds whatever its status).                                *)
(***************************************************************************)
EXTENDS QuoteConversion, InvoiceLifecycleProofs, FiniteSetTheorems

IssuedQuote == {"sent", "approved", "invoiced"}

\* What one row of `quotes` holds, under the owner's edition ed.
RowOK(row, ed) ==
    /\ row \in QuoteRow
    /\ row.status = "absent" => row = NoQuote
    /\ QuoteExists(row) => row.cust \in Customers /\ row.total \in Totals
    /\ row.snap <= ed
    /\ row.status \in IssuedQuote => row.snap # NoSnapshot

\* The quote and the invoices ever created from it.
KidsOK(row, kids) ==
    /\ kids \subseteq Invoices
    /\ \A i, j \in kids : i = j
    /\ row.status = "absent" => kids = {}
    /\ row.status = "invoiced" => kids # {}
    /\ QuoteExists(row) /\ kids # {} => row.status = "invoiced"

\* Its link names the one that exists.
Linked(row, kids, table) ==
    QuoteExists(row) =>
       \A i \in Invoices : row.invoice = i <=> i \in kids /\ Exists(table[i])

MailOK(row, queued) ==
    queued /\ row.snap = NoSnapshot => row.status \in {"expired", "deleted"}

BornApart ==
    \A q \in Quotes : \A i \in born[q] :
        /\ invoice[i].status # "absent"
        /\ \A p \in Quotes \ {q} : i \notin born[p]

SalesInv ==
    /\ AllSound
    /\ SalesTypeOK
    /\ \A q \in Quotes :
          /\ RowOK(quote[q], edition)
          /\ KidsOK(quote[q], born[q])
          /\ Linked(quote[q], born[q], invoice)
          /\ MailOK(quote[q], q \in quoted)
    /\ BornApart

LEMMA SalesInvIsEnough == SalesInv => OneInvoicePerQuote /\ IssuedQuotesAreBranded
<1> SUFFICES ASSUME SalesInv, NEW q \in Quotes
             PROVE  /\ Cardinality(born[q]) <= 1
                    /\ quote[q].status = "invoiced" => born[q] # {}
                    /\ QuoteExists(quote[q]) /\ born[q] # {} => quote[q].status = "invoiced"
                    /\ QuoteExists(quote[q]) =>
                          {quote[q].invoice} \ {Nothing} = {i \in born[q] : Exists(invoice[i])}
                    /\ \A p \in Quotes \ {q} : born[p] \cap born[q] = {}
                    /\ quote[q].status \in IssuedQuote => quote[q].snap \in 1 .. edition
                    /\ q \in quoted /\ quote[q].snap = NoSnapshot =>
                          quote[q].status \in {"expired", "deleted"}
  BY DEF OneInvoicePerQuote, IssuedQuotesAreBranded, IssuedQuote
<1>1. /\ RowOK(quote[q], edition) /\ KidsOK(quote[q], born[q])
      /\ Linked(quote[q], born[q], invoice) /\ MailOK(quote[q], q \in quoted)
  BY DEF SalesInv
<1>2. Cardinality(born[q]) <= 1
  <2>1. CASE born[q] = {}
    BY <2>1, FS_EmptySet
  <2>2. ASSUME NEW i \in born[q] PROVE Cardinality(born[q]) <= 1
    <3>1. born[q] = {i}
      BY <1>1, <2>2 DEF KidsOK
    <3>2. Cardinality({i}) = 1
      BY FS_Singleton
    <3> QED BY <3>1, <3>2
  <2> QED BY <2>1, <2>2
<1>3. QuoteExists(quote[q]) =>
         {quote[q].invoice} \ {Nothing} = {i \in born[q] : Exists(invoice[i])}
  <2>1. quote[q].invoice \in Invoices \cup {Nothing} /\ Nothing \notin Invoices
    BY <1>1, QuoteNothingAssumption DEF RowOK, QuoteRow
  <2> QED BY <1>1, <2>1 DEF Linked, KidsOK
<1>4. \A p \in Quotes \ {q} : born[p] \cap born[q] = {}
  BY DEF SalesInv, BornApart
<1>5. quote[q].status \in IssuedQuote => quote[q].snap \in 1 .. edition
  <2>1. quote[q].snap \in Nat /\ edition \in Nat
    BY <1>1 DEF RowOK, QuoteRow, SalesInv, AllSound
  <2> QED BY <1>1, <2>1 DEF RowOK, NoSnapshot
<1> QED BY <1>1, <1>2, <1>3, <1>4, <1>5 DEF KidsOK, MailOK

------------------------------------------------------------------------------
(* Steps that write one quote and no invoice. *)

\* What such a step leaves of the link and of what was approved.
Kept(old, new) ==
    /\ new.invoice = old.invoice
    /\ new.status # "absent"
    /\ QuoteExists(new) =>
          /\ QuoteExists(old) \/ old.status = "absent"
          /\ new.status = "invoiced" <=> old.status = "invoiced"

Stays(q) ==
    quote[q].status \in {"approved", "invoiced"} =>
       /\ quote'[q].cust = quote[q].cust
       /\ quote'[q].total = quote[q].total
       /\ quote'[q].snap = quote[q].snap
       /\ \/ quote'[q].status = quote[q].status
          \/ quote'[q].status = "invoiced" /\ quote[q].status = "approved"
          \/ quote'[q].status = "deleted" /\ \E k \in Clerks : deleting[k] = q

\* The rest of the state, of a step that creates no invoice.
Beside ==
    /\ vars' = vars /\ born' = born
    /\ past' \subseteq Quotes
    /\ synced' \subseteq Customers
    /\ deleting' \in [Clerks -> Quotes \cup {Nothing}]

LEMMA QuoteKept ==
    ASSUME NEW old, NEW new, NEW kids, NEW table,
           RowOK(old, edition), KidsOK(old, kids), Linked(old, kids, table),
           Kept(old, new)
    PROVE  KidsOK(new, kids) /\ Linked(new, kids, table)
<1>1. QuoteExists(old) => old.status # "absent"
  BY DEF QuoteExists, QuoteStatuses
<1>2. old.status = "absent" => old.invoice = Nothing /\ kids = {}
  BY DEF RowOK, KidsOK, NoQuote
<1>3. Nothing \notin Invoices
  BY QuoteNothingAssumption
<1>4. new.status = "invoiced" => QuoteExists(new)
  BY DEF QuoteExists, QuoteStatuses
<1> QED BY <1>1, <1>2, <1>3, <1>4 DEF Kept, KidsOK, Linked

LEMMA BesideKeeps ==
    ASSUME SalesInv, Beside
    PROVE  AllSound' /\ BornApart' /\ TypeOK'
BY DEF SalesInv, Beside, AllSound, BornApart, vars, Sound, TypeOK

LEMMA QuoteWritten ==
    ASSUME SalesInv, Beside, NEW q \in Quotes, NEW row,
           quote' = [quote EXCEPT ![q] = row],
           quoted' \in {quoted, quoted \cup {q}},
           RowOK(row, edition), Kept(quote[q], row), MailOK(row, q \in quoted'),
           Stays(q)
    PROVE  SalesInv' /\ \A p \in Quotes : Stays(p)
<1>1. /\ AllSound' /\ BornApart' /\ TypeOK'
      /\ edition' = edition /\ invoice' = invoice /\ born' = born
  BY BesideKeeps DEF Beside, vars
<1>2. row \in QuoteRow
  BY DEF RowOK
<1>3. SalesTypeOK'
  BY <1>1, <1>2 DEF SalesInv, SalesTypeOK, Beside
<1>4. ASSUME NEW p \in Quotes
      PROVE  /\ RowOK(quote'[p], edition) /\ KidsOK(quote'[p], born[p])
             /\ Linked(quote'[p], born[p], invoice) /\ MailOK(quote'[p], p \in quoted')
             /\ Stays(p)
  <2>1. /\ RowOK(quote[p], edition) /\ KidsOK(quote[p], born[p])
        /\ Linked(quote[p], born[p], invoice) /\ MailOK(quote[p], p \in quoted)
    BY DEF SalesInv
  <2>2. CASE p = q
    <3>1. quote'[p] = row
      BY <2>2 DEF SalesInv, SalesTypeOK
    <3>2. KidsOK(row, born[p]) /\ Linked(row, born[p], invoice)
      BY <2>1, <2>2, QuoteKept
    <3> QED BY <2>2, <3>1, <3>2
  <2>3. CASE p # q
    <3>1. quote'[p] = quote[p] /\ (p \in quoted' <=> p \in quoted)
      BY <2>3 DEF SalesInv, SalesTypeOK
    <3> QED BY <2>1, <3>1 DEF MailOK, Stays
  <2> QED BY <2>2, <2>3
<1>5. SalesInv'
  BY <1>1, <1>3, <1>4 DEF SalesInv
<1> QED BY <1>4, <1>5

LEMMA SalesFacts ==
    ASSUME SalesInv, NEW q \in Quotes
    PROVE  /\ RowOK(quote[q], edition) /\ MailOK(quote[q], q \in quoted)
           /\ quote[q] \in QuoteRow /\ quote[q].version + 1 \in Nat
           /\ edition \in Nat \ {0}
BY DEF SalesInv, AllSound, RowOK, QuoteRow

\* Only the quotes change.
LEMMA OnlyQuotesBeside ==
    ASSUME SalesInv, OnlyQuotes, past' \subseteq Quotes
    PROVE  Beside
BY DEF SalesInv, SalesTypeOK, OnlyQuotes, Beside

LEMMA MovedQuoteRow ==
    ASSUME NEW row \in QuoteRow, edition \in Nat \ {0}, NEW to \in QuoteStatuses,
           NEW new, new = MovedQuote(row, to)
    PROVE  /\ new \in QuoteRow
           /\ new.status = to /\ new.cust = row.cust /\ new.total = row.total
           /\ new.invoice = row.invoice /\ new.deal = row.deal
           /\ new.version = row.version + 1
           /\ new.snap = IF row.snap = NoSnapshot THEN edition ELSE row.snap
<1> DEFINE up == [row EXCEPT !.status = to, !.version = @ + 1]
<1>0. row.version + 1 \in Nat
  BY DEF QuoteRow
<1>1. /\ up \in QuoteRow /\ up.status = to /\ up.cust = row.cust
      /\ up.total = row.total /\ up.invoice = row.invoice /\ up.deal = row.deal
      /\ up.snap = row.snap /\ up.version = row.version + 1
  BY <1>0 DEF QuoteRow
<1>2. MovedQuote(row, to) = WithSnapshot(up, edition)
  BY DEF MovedQuote
<1> HIDE DEF up
<1>3. CASE row.snap = NoSnapshot
  BY <1>1, <1>2, <1>3 DEF WithSnapshot, QuoteRow
<1>4. CASE row.snap # NoSnapshot
  BY <1>1, <1>2, <1>4 DEF WithSnapshot
<1> QED BY <1>3, <1>4

\* A move to a status other than INVOICED, as the guards of the actions allow it.
LEMMA MoveIsOK ==
    ASSUME SalesInv, NEW q \in Quotes, NEW to \in {"sent", "approved"},
           quote[q].status \in {"draft", "sent", "expired"}
    PROVE  /\ RowOK(MovedQuote(quote[q], to), edition)
           /\ Kept(quote[q], MovedQuote(quote[q], to))
           /\ MovedQuote(quote[q], to).snap # NoSnapshot
<1> PICK new : new = MovedQuote(quote[q], to)
  OBVIOUS
<1>1. /\ RowOK(quote[q], edition) /\ quote[q] \in QuoteRow /\ edition \in Nat \ {0}
      /\ to \in QuoteStatuses
  BY SalesFacts DEF QuoteStatuses
<1>2. /\ new \in QuoteRow
      /\ new.status = to /\ new.cust = quote[q].cust /\ new.total = quote[q].total
      /\ new.invoice = quote[q].invoice
      /\ new.snap = IF quote[q].snap = NoSnapshot THEN edition ELSE quote[q].snap
  BY <1>1, MovedQuoteRow
<1>3. new.snap # NoSnapshot /\ new.snap <= edition
  BY <1>1, <1>2 DEF RowOK, NoSnapshot, QuoteRow
<1>4. QuoteExists(quote[q]) /\ new.status \notin {"absent", "invoiced"}
      /\ quote[q].status # "invoiced"
  BY <1>2 DEF QuoteExists, QuoteStatuses
<1>5. RowOK(new, edition)
  BY <1>1, <1>2, <1>3, <1>4 DEF RowOK
<1>6. Kept(quote[q], new)
  BY <1>2, <1>4 DEF Kept
<1> QED BY <1>3, <1>5, <1>6

LEMMA CreateQuoteKeeps ==
    ASSUME SalesInv, NEW q \in Quotes, NEW c \in Customers, NEW t \in Totals,
           NEW deal \in BOOLEAN, CreateQuote(q, c, t, deal)
    PROVE  SalesInv' /\ \A p \in Quotes : Stays(p)
<1> DEFINE new == [NoQuote EXCEPT !.status = "draft", !.cust = c, !.total = t,
                                  !.version = 1, !.deal = deal]
<1>1. /\ new \in QuoteRow /\ new.status = "draft" /\ new.cust = c /\ new.total = t
      /\ new.snap = NoSnapshot /\ new.invoice = Nothing
  BY MoneyAssumption DEF NoQuote, QuoteRow, QuoteStatuses, NoSnapshot
<1>2. /\ quote[q].status = "absent" /\ quote' = [quote EXCEPT ![q] = new]
      /\ quoted' = quoted /\ past' = past /\ OnlyQuotes
  BY DEF CreateQuote, PutQuote
<1> HIDE DEF new
<1>3. /\ RowOK(quote[q], edition) /\ MailOK(quote[q], q \in quoted)
      /\ edition \in Nat
  BY SalesFacts
<1>4. quote[q] = NoQuote
  BY <1>2, <1>3 DEF RowOK
<1>5. q \notin quoted
  BY <1>3, <1>4 DEF MailOK, NoQuote
<1>6. RowOK(new, edition)
  BY <1>1, <1>3 DEF RowOK, NoSnapshot, IssuedQuote
<1>7. Kept(quote[q], new)
  BY <1>1, <1>4 DEF Kept, NoQuote
<1>8. Beside
  BY <1>2, OnlyQuotesBeside DEF SalesInv, SalesTypeOK
<1>9. MailOK(new, q \in quoted') /\ Stays(q)
  BY <1>2, <1>5 DEF MailOK, Stays
<1> QED BY <1>2, <1>6, <1>7, <1>8, <1>9, QuoteWritten

LEMMA UpdateQuoteKeeps ==
    ASSUME SalesInv, NEW q \in Quotes, NEW c \in Customers, NEW t \in Totals,
           NEW late \in BOOLEAN, UpdateQuote(q, c, t, late)
    PROVE  SalesInv' /\ \A p \in Quotes : Stays(p)
<1> DEFINE new == [quote[q] EXCEPT !.cust = c, !.total = t, !.version = @ + 1]
<1>1. /\ RowOK(quote[q], edition) /\ MailOK(quote[q], q \in quoted)
      /\ quote[q] \in QuoteRow /\ quote[q].version + 1 \in Nat /\ t \in Nat
  BY SalesFacts, MoneyAssumption
<1>2. /\ new \in QuoteRow /\ new.status = quote[q].status /\ new.cust = c
      /\ new.total = t /\ new.snap = quote[q].snap /\ new.invoice = quote[q].invoice
  BY <1>1 DEF QuoteRow
<1>3. /\ quote[q].status \in {"draft", "sent"} /\ quote' = [quote EXCEPT ![q] = new]
      /\ quoted' = quoted /\ OnlyQuotes
  BY DEF UpdateQuote, PutQuote
<1>4. past' \subseteq Quotes
  BY DEF UpdateQuote, SalesInv, SalesTypeOK
<1> HIDE DEF new
<1>5. RowOK(new, edition)
  BY <1>1, <1>2, <1>3 DEF RowOK
<1>6. Kept(quote[q], new)
  BY <1>2, <1>3 DEF Kept, QuoteExists, QuoteStatuses
<1>7. MailOK(new, q \in quoted') /\ Stays(q)
  BY <1>1, <1>2, <1>3 DEF MailOK, Stays
<1>8. Beside
  BY <1>3, <1>4, OnlyQuotesBeside
<1> QED BY <1>3, <1>5, <1>6, <1>7, <1>8, QuoteWritten

\* mark-as-sent and approve, and send for a draft.
LEMMA MoveKeeps ==
    ASSUME SalesInv, NEW q \in Quotes, NEW to \in {"sent", "approved"},
           quote[q].status \in {"draft", "sent", "expired"},
           quote' = [quote EXCEPT ![q] = MovedQuote(quote[q], to)],
           quoted' \in {quoted, quoted \cup {q}}, past' = past, OnlyQuotes
    PROVE  SalesInv' /\ \A p \in Quotes : Stays(p)
<1>1. /\ RowOK(MovedQuote(quote[q], to), edition)
      /\ Kept(quote[q], MovedQuote(quote[q], to))
      /\ MovedQuote(quote[q], to).snap # NoSnapshot
  BY MoveIsOK
<1>2. Beside
  BY OnlyQuotesBeside DEF SalesInv, SalesTypeOK
<1>3. MailOK(MovedQuote(quote[q], to), q \in quoted') /\ Stays(q)
  BY <1>1 DEF MailOK, Stays
<1> QED BY <1>1, <1>2, <1>3, QuoteWritten

LEMMA MarkQuoteSentKeeps ==
    ASSUME SalesInv, NEW q \in Quotes, MarkQuoteSent(q)
    PROVE  SalesInv' /\ \A p \in Quotes : Stays(p)
BY MoveKeeps DEF MarkQuoteSent, CanMoveQuote, PutQuote

LEMMA ApproveKeeps ==
    ASSUME SalesInv, NEW q \in Quotes, Approve(q)
    PROVE  SalesInv' /\ \A p \in Quotes : Stays(p)
BY MoveKeeps DEF Approve, PutQuote

\* A mail of a quote that stays as it is.
LEMMA SendQuoteKeeps ==
    ASSUME SalesInv, NEW q \in Quotes, SendQuote(q)
    PROVE  SalesInv' /\ \A p \in Quotes : Stays(p)
<1>1. /\ QuoteExists(quote[q]) /\ quote[q].status # "invoiced"
      /\ quoted' = quoted \cup {q} /\ past' = past /\ OnlyQuotes
  BY DEF SendQuote
<1>2. CASE quote[q].status = "draft"
  <2>1. quote' = [quote EXCEPT ![q] = MovedQuote(quote[q], "sent")]
    BY <1>2 DEF SendQuote, PutQuote
  <2> QED BY <1>1, <1>2, <2>1, MoveKeeps
<1>3. CASE quote[q].status # "draft"
  <2>1. quote' = [quote EXCEPT ![q] = quote[q]] /\ quote'[q] = quote[q]
    BY <1>3 DEF SendQuote, PutQuote, SalesInv, SalesTypeOK
  <2>2. RowOK(quote[q], edition)
    BY SalesFacts
  <2>3. MailOK(quote[q], q \in quoted')
    BY <1>1, <1>3, <2>2 DEF RowOK, MailOK, IssuedQuote, QuoteExists, QuoteStatuses
  <2>4. Kept(quote[q], quote[q])
    BY <1>1 DEF Kept, QuoteExists, QuoteStatuses
  <2>5. Beside
    BY <1>1, OnlyQuotesBeside DEF SalesInv, SalesTypeOK
  <2>6. Stays(q)
    BY <2>1 DEF Stays
  <2> QED BY <1>1, <2>1, <2>2, <2>3, <2>4, <2>5, <2>6, QuoteWritten
<1> QED BY <1>2, <1>3

LEMMA DeleteQuoteKeeps ==
    ASSUME SalesInv, NEW k \in Clerks, DeleteQuote(k)
    PROVE  SalesInv' /\ \A p \in Quotes : Stays(p)
<1>1. PICK q \in Quotes : deleting[k] = q
  BY DEF DeleteQuote, SalesInv, SalesTypeOK
<1> DEFINE new == [quote[q] EXCEPT !.status = "deleted"]
<1>2. /\ RowOK(quote[q], edition) /\ quote[q] \in QuoteRow
  BY SalesFacts
<1>3. /\ new \in QuoteRow /\ new.status = "deleted" /\ new.cust = quote[q].cust
      /\ new.total = quote[q].total /\ new.snap = quote[q].snap
      /\ new.invoice = quote[q].invoice
  BY <1>2 DEF QuoteRow, NoRow
<1>4. quote' = [quote EXCEPT ![q] = new] /\ quoted' = quoted
  BY <1>1 DEF DeleteQuote
<1>5. Beside
  BY DEF DeleteQuote, Beside, SalesInv, SalesTypeOK
<1> HIDE DEF new
<1>6. ~QuoteExists(new) /\ new.status \notin IssuedQuote
  BY <1>3 DEF QuoteExists, QuoteStatuses, IssuedQuote
<1>7. RowOK(new, edition) /\ Kept(quote[q], new) /\ MailOK(new, q \in quoted')
  BY <1>2, <1>3, <1>6 DEF RowOK, Kept, MailOK
<1>8. Stays(q)
  <2>1. quote'[q] = new
    BY <1>4 DEF SalesInv, SalesTypeOK
  <2> QED BY <1>1, <1>3, <2>1 DEF Stays
<1> QED BY <1>4, <1>5, <1>7, <1>8, QuoteWritten

\* The SET NULL of a deleted deal.
LEMMA DealDeletedKeeps ==
    ASSUME SalesInv, NEW q \in Quotes, DealDeleted(q)
    PROVE  SalesInv' /\ \A p \in Quotes : Stays(p)
<1> DEFINE new == [quote[q] EXCEPT !.deal = FALSE]
<1>1. /\ RowOK(quote[q], edition) /\ quote[q] \in QuoteRow
      /\ MailOK(quote[q], q \in quoted)
  BY SalesFacts
<1>2. /\ new \in QuoteRow /\ new.status = quote[q].status /\ new.cust = quote[q].cust
      /\ new.total = quote[q].total /\ new.snap = quote[q].snap
      /\ new.invoice = quote[q].invoice
  BY <1>1 DEF QuoteRow
<1>3. /\ quote' = [quote EXCEPT ![q] = new] /\ quoted' = quoted /\ past' = past
      /\ OnlyQuotes /\ quote[q].deal
  BY DEF DealDeleted, PutQuote
<1>4. quote[q].status # "absent"
  <2>1. ~NoQuote.deal
    BY DEF NoQuote
  <2> QED BY <1>1, <1>3, <2>1 DEF RowOK
<1> HIDE DEF new
<1>5. RowOK(new, edition) /\ Kept(quote[q], new) /\ MailOK(new, q \in quoted')
  BY <1>1, <1>2, <1>3, <1>4 DEF RowOK, Kept, MailOK, QuoteExists
<1>6. Stays(q)
  <2>1. quote'[q] = new
    BY <1>3 DEF SalesInv, SalesTypeOK
  <2> QED BY <1>2, <2>1 DEF Stays
<1>7. Beside
  BY <1>3, OnlyQuotesBeside DEF SalesInv, SalesTypeOK
<1> QED BY <1>3, <1>5, <1>6, <1>7, QuoteWritten

LEMMA QuotesUntouched ==
    ASSUME SalesInv, Beside, quote' = quote, quoted' = quoted
    PROVE  SalesInv' /\ \A p \in Quotes : Stays(p)
<1>1. /\ AllSound' /\ BornApart' /\ TypeOK'
      /\ edition' = edition /\ invoice' = invoice /\ born' = born
  BY BesideKeeps DEF Beside, vars
<1>2. SalesTypeOK'
  BY <1>1 DEF SalesInv, SalesTypeOK, Beside
<1> QED BY <1>1, <1>2 DEF SalesInv, Stays

LEMMA RequestsAndProfilesKeep ==
    ASSUME SalesInv,
           \/ \E k \in Clerks, q \in Quotes : ReadForDelete(k, q)
           \/ \E q \in Quotes : DueDatePasses(q)
           \/ \E c \in Customers : EditProfile(c) \/ SyncProfile(c)
    PROVE  SalesInv' /\ \A p \in Quotes : Stays(p)
<1>1. ASSUME NEW k \in Clerks, NEW q \in Quotes, ReadForDelete(k, q)
      PROVE  Beside /\ quote' = quote /\ quoted' = quoted
  BY <1>1 DEF ReadForDelete, Beside, SalesInv, SalesTypeOK
<1>2. ASSUME NEW q \in Quotes, DueDatePasses(q)
      PROVE  Beside /\ quote' = quote /\ quoted' = quoted
  BY <1>2, OnlyQuotesBeside DEF DueDatePasses, SalesInv, SalesTypeOK
<1>3. ASSUME NEW c \in Customers, EditProfile(c) \/ SyncProfile(c)
      PROVE  Beside /\ quote' = quote /\ quoted' = quoted
  BY <1>3 DEF EditProfile, SyncProfile, Beside, SalesInv, SalesTypeOK
<1> QED BY <1>1, <1>2, <1>3, QuotesUntouched

\* The nightly job writes several rows, each as an operation on it could.
LEMMA ExpireKeeps ==
    ASSUME SalesInv, Expire
    PROVE  SalesInv' /\ \A p \in Quotes : Stays(p)
<1>1. Beside /\ quoted' = quoted
  BY OnlyQuotesBeside DEF Expire, SalesInv, SalesTypeOK
<1>2. /\ AllSound' /\ BornApart' /\ TypeOK'
      /\ edition' = edition /\ invoice' = invoice /\ born' = born
  BY <1>1, BesideKeeps DEF Beside, vars
<1>3. ASSUME NEW p \in Quotes
      PROVE  /\ RowOK(quote'[p], edition) /\ KidsOK(quote'[p], born[p])
             /\ Linked(quote'[p], born[p], invoice) /\ MailOK(quote'[p], p \in quoted)
             /\ Stays(p)
  <2> DEFINE new == [quote[p] EXCEPT !.status = "expired", !.version = @ + 1]
  <2>1. /\ RowOK(quote[p], edition) /\ KidsOK(quote[p], born[p])
        /\ Linked(quote[p], born[p], invoice) /\ MailOK(quote[p], p \in quoted)
    BY DEF SalesInv
  <2>2. /\ quote[p] \in QuoteRow /\ quote[p].version + 1 \in Nat
    BY SalesFacts
  <2>3. \/ quote'[p] = quote[p]
        \/ quote'[p] = new /\ quote[p].status \in {"draft", "sent"}
    BY DEF Expire
  <2>4. /\ new \in QuoteRow /\ new.status = "expired" /\ new.cust = quote[p].cust
        /\ new.total = quote[p].total /\ new.snap = quote[p].snap
        /\ new.invoice = quote[p].invoice
    BY <2>2 DEF QuoteRow, QuoteStatuses
  <2> HIDE DEF new
  <2>5. CASE quote'[p] = quote[p]
    BY <2>1, <2>5 DEF Stays
  <2>6. CASE quote'[p] = new /\ quote[p].status \in {"draft", "sent"}
    <3>1. QuoteExists(quote[p]) /\ QuoteExists(new)
      BY <2>4, <2>6 DEF QuoteExists, QuoteStatuses
    <3>2. RowOK(new, edition) /\ Kept(quote[p], new) /\ MailOK(new, p \in quoted)
      BY <2>1, <2>4, <2>6, <3>1 DEF RowOK, Kept, MailOK, IssuedQuote
    <3>3. KidsOK(new, born[p]) /\ Linked(new, born[p], invoice)
      BY <2>1, <3>2, QuoteKept
    <3>4. Stays(p)
      BY <2>6 DEF Stays
    <3> QED BY <2>6, <3>2, <3>3, <3>4
  <2> QED BY <2>3, <2>5, <2>6
<1>4. quote' \in [Quotes -> QuoteRow]
  BY <1>3 DEF Expire, RowOK
<1>5. SalesTypeOK'
  BY <1>1, <1>2, <1>4 DEF SalesInv, SalesTypeOK, Beside
<1>6. SalesInv'
  BY <1>1, <1>2, <1>3, <1>5 DEF SalesInv
<1> QED BY <1>3, <1>6

------------------------------------------------------------------------------
(* Steps that write invoices. *)

\* A row of `invoices` never becomes absent again, nor is a deleted one revived.
LEMMA RowsStay ==
    ASSUME NEW old \in Row, NEW new, RowStep(old, new), old.status # "absent"
    PROVE  new.status # "absent" /\ (Exists(new) => Exists(old))
<1>1. CASE Exists(old)
  <2>1. CASE new = old
    BY <2>1
  <2>2. ASSUME NEW c \in Customers, NEW t \in Totals, new = Edited(old, c, t)
        PROVE  new.status # "absent"
    BY <1>1, <2>2 DEF Edited, Row, Exists, Statuses
  <2>3. ASSUME NEW e \in Nat, new = IssuedRow(old, e)
        PROVE  new.status # "absent"
    BY <2>3 DEF IssuedRow, WithSnapshot, Moved, Row
  <2>4. ASSUME NEW a \in Amounts, new = PaidRow(old, a)
        PROVE  new.status # "absent"
    BY <2>4 DEF PaidRow, Moved, SettledStatus, Row
  <2>5. ASSUME new = CanceledRow(old) \/ new = DeletedRow(old) \/ new = LapsedRow(old)
        PROVE  new.status # "absent"
    BY <2>5 DEF CanceledRow, DeletedRow, LapsedRow, Moved, Row
  <2> QED BY <1>1, <2>1, <2>2, <2>3, <2>4, <2>5 DEF RowStep, Exists, Statuses
<1>2. CASE ~Exists(old)
  <2>1. new = old
    BY <1>2 DEF RowStep, CanEdit, CanIssue, CanPay, CanCancel, CanDelete, CanLapse,
                CanMove, Exists, Statuses
  <2> QED BY <1>2, <2>1
<1> QED BY <1>1, <1>2

LEMMA EditionsGrow ==
    ASSUME AllSound, Next
    PROVE  edition' \in Nat \ {0} /\ edition' >= edition
<1>1. edition \in Nat \ {0}
  BY DEF AllSound
<1>2. edition' = edition \/ edition' = edition + 1
  BY DEF Next, Create, Edit, Issue, Mail, Pay, Cancel, Delete, Lapse, EditOwner, Put
<1> QED BY <1>1, <1>2

\* A conversion is a creation, as far as the invoices are concerned.
LEMMA ConvertCreates ==
    ASSUME SalesInv, NEW q \in Quotes, NEW i \in Invoices, Convert(q, i)
    PROVE  Next
<1>1. QuoteExists(quote[q])
  BY DEF Convert, QuoteExists, QuoteStatuses
<1>2. quote[q].cust \in Customers /\ quote[q].total \in Totals
  BY <1>1, SalesFacts DEF RowOK
<1> QED BY <1>2 DEF Convert, Next

LEMMA ConvertKeeps ==
    ASSUME SalesInv, NEW q \in Quotes, NEW i \in Invoices, Convert(q, i)
    PROVE  SalesInv' /\ \A p \in Quotes : Stays(p)
<1> PICK new : new = Invoiced(quote[q], i)
  OBVIOUS
<1>1. /\ quote[q].status \in {"sent", "approved"}
      /\ Create(i, quote[q].cust, quote[q].total)
      /\ quote' = [quote EXCEPT ![q] = new]
      /\ born' = [born EXCEPT ![q] = born[q] \cup {i}]
      /\ past' = past /\ quoted' = quoted /\ synced' = synced /\ deleting' = deleting
  BY DEF Convert, PutQuote
<1>2. AllSound'
  BY ConvertCreates, SoundStep DEF SalesInv
<1>3. edition' = edition /\ invoice[i].status = "absent"
      /\ invoice' = [invoice EXCEPT ![i] = Draft(quote[q].cust, quote[q].total)]
  BY <1>1 DEF Create, Put
<1>4. /\ RowOK(quote[q], edition) /\ quote[q] \in QuoteRow /\ edition \in Nat \ {0}
      /\ MailOK(quote[q], q \in quoted)
  BY SalesFacts
<1>5. /\ new \in QuoteRow /\ new.status = "invoiced" /\ new.cust = quote[q].cust
      /\ new.total = quote[q].total /\ new.invoice = i
      /\ quote[q].status = "approved" => new.snap = quote[q].snap
      /\ new.snap \in {quote[q].snap, edition} /\ new.snap # NoSnapshot
  <2> PICK step : step = MovedQuote(quote[q], "approved")
    OBVIOUS
  <2>1. /\ step \in QuoteRow /\ step.cust = quote[q].cust
        /\ step.total = quote[q].total
        /\ step.snap = IF quote[q].snap = NoSnapshot THEN edition ELSE quote[q].snap
    BY <1>4, MovedQuoteRow DEF QuoteStatuses
  <2> DEFINE from == IF quote[q].status = "sent" THEN step ELSE quote[q]
  <2>2. /\ from \in QuoteRow /\ from.cust = quote[q].cust
        /\ from.total = quote[q].total
        /\ quote[q].status = "approved" => from.snap = quote[q].snap
        /\ from.snap \in {quote[q].snap, edition} /\ from.snap # NoSnapshot
    BY <1>1, <1>4, <2>1 DEF RowOK, IssuedQuote, NoSnapshot
  <2>3. new = [from EXCEPT !.status = "invoiced", !.version = @ + 1, !.invoice = i]
    BY DEF Invoiced
  <2> HIDE DEF from
  <2>4. from.version + 1 \in Nat
    BY <2>2 DEF QuoteRow
  <2> QED BY <2>2, <2>3, <2>4 DEF QuoteRow, QuoteStatuses
<1>6. /\ KidsOK(quote[q], born[q]) /\ QuoteExists(quote[q]) /\ QuoteExists(new)
      /\ Linked(quote[q], born[q], invoice)
  BY <1>1, <1>5 DEF SalesInv, QuoteExists, QuoteStatuses
<1>7. born[q] = {}
  BY <1>1, <1>6 DEF KidsOK
<1>8. Exists(invoice'[i]) /\ \A j \in Invoices : j # i => invoice'[j] = invoice[j]
  BY <1>3 DEF SalesInv, AllSound, Draft, Exists, Statuses
<1>9. RowOK(new, edition) /\ MailOK(new, q \in quoted)
  BY <1>4, <1>5, <1>6 DEF RowOK, MailOK
<1>10. KidsOK(new, {i}) /\ Linked(new, {i}, invoice')
  BY <1>5, <1>8 DEF KidsOK, Linked
<1>11. ~Exists(invoice[i]) /\ \A p \in Quotes : i \notin born[p]
  BY <1>3 DEF Exists, Statuses, SalesInv, BornApart
<1>12. ASSUME NEW p \in Quotes
       PROVE  /\ RowOK(quote'[p], edition) /\ KidsOK(quote'[p], born'[p])
              /\ Linked(quote'[p], born'[p], invoice') /\ MailOK(quote'[p], p \in quoted)
              /\ Stays(p)
  <2>1. CASE p = q
    <3>1. quote'[p] = new /\ born'[p] = {i}
      BY <1>1, <1>7, <2>1 DEF SalesInv, SalesTypeOK
    <3>2. Stays(p)
      BY <1>1, <1>5, <2>1, <3>1 DEF Stays
    <3> QED BY <1>9, <1>10, <2>1, <3>1, <3>2
  <2>2. CASE p # q
    <3>1. quote'[p] = quote[p] /\ born'[p] = born[p]
      BY <1>1, <2>2 DEF SalesInv, SalesTypeOK
    <3>2. /\ RowOK(quote[p], edition) /\ KidsOK(quote[p], born[p])
          /\ Linked(quote[p], born[p], invoice) /\ MailOK(quote[p], p \in quoted)
      BY DEF SalesInv
    <3>3. Linked(quote[p], born[p], invoice')
      BY <1>8, <1>11, <3>2 DEF Linked
    <3> QED BY <3>1, <3>2, <3>3 DEF Stays
  <2> QED BY <2>1, <2>2
<1>13. BornApart'
  <2> SUFFICES ASSUME NEW p \in Quotes, NEW j \in born'[p]
               PROVE  /\ invoice'[j].status # "absent"
                      /\ \A r \in Quotes \ {p} : j \notin born'[r]
    BY DEF BornApart
  <2>1. j \in Invoices
    BY <1>12 DEF KidsOK
  <2>2. \A r \in Quotes : born'[r] = IF r = q THEN {i} ELSE born[r]
    BY <1>1, <1>7 DEF SalesInv, SalesTypeOK
  <2>3. CASE p = q
    <3>1. j = i
      BY <2>2, <2>3
    <3> QED BY <1>8, <1>11, <2>2, <2>3, <3>1 DEF Exists, Statuses
  <2>4. CASE p # q
    <3>1. j \in born[p] /\ j # i
      BY <1>11, <2>2, <2>4
    <3>2. invoice[j].status # "absent" /\ \A r \in Quotes \ {p} : j \notin born[r]
      BY <3>1 DEF SalesInv, BornApart
    <3> QED BY <1>8, <2>1, <2>2, <3>1, <3>2
  <2> QED BY <2>3, <2>4
<1>14. SalesTypeOK'
  <2>1. TypeOK'
    BY <1>2, SoundIsTheInvariants DEF AllSound, TypeOK
  <2>2. quote' \in [Quotes -> QuoteRow]
    BY <1>1, <1>5 DEF SalesInv, SalesTypeOK
  <2>3. born' \in [Quotes -> SUBSET Invoices]
    BY <1>1 DEF SalesInv, SalesTypeOK
  <2> QED BY <1>1, <2>1, <2>2, <2>3 DEF SalesInv, SalesTypeOK
<1>15. SalesInv'
  BY <1>1, <1>2, <1>3, <1>12, <1>13, <1>14 DEF SalesInv
<1> QED BY <1>12, <1>15

LEMMA InvoiceStepKeeps ==
    ASSUME SalesInv, InvoiceStep
    PROVE  SalesInv' /\ \A p \in Quotes : Stays(p)
<1>1. /\ Next /\ past' = past /\ quoted' = quoted /\ synced' = synced
      /\ deleting' = deleting /\ born' = born
  BY DEF InvoiceStep
<1>2. AllSound' /\ edition' \in Nat \ {0} /\ edition' >= edition
  BY <1>1, SoundStep, EditionsGrow DEF SalesInv
<1>3. ASSUME NEW i \in Invoices, invoice[i].status # "absent"
      PROVE  invoice'[i].status # "absent" /\ (Exists(invoice'[i]) => Exists(invoice[i]))
  <2>1. RowStep(invoice[i], invoice'[i]) /\ invoice[i] \in Row
    BY <1>1, StepIsRowStep DEF SalesInv, AllSound
  <2> QED BY <1>3, <2>1, RowsStay
<1>4. BornApart'
  <2> SUFFICES ASSUME NEW q \in Quotes, NEW i \in born[q]
               PROVE  /\ invoice'[i].status # "absent"
                      /\ \A p \in Quotes \ {q} : i \notin born[p]
    BY <1>1 DEF BornApart
  <2>1. i \in Invoices
    BY DEF SalesInv, KidsOK
  <2> QED BY <1>3, <2>1 DEF SalesInv, BornApart
<1>5. ASSUME NEW q \in Quotes
      PROVE  /\ RowOK(quote'[q], edition') /\ KidsOK(quote'[q], born[q])
             /\ Linked(quote'[q], born[q], invoice') /\ MailOK(quote'[q], q \in quoted)
             /\ Stays(q)
  <2> DEFINE cut == [quote[q] EXCEPT !.invoice = Nothing]
             lost == \E i \in Invoices : quote[q].invoice = i /\ ~Exists(invoice'[i])
  <2>1. /\ RowOK(quote[q], edition) /\ KidsOK(quote[q], born[q])
        /\ Linked(quote[q], born[q], invoice) /\ MailOK(quote[q], q \in quoted)
        /\ quote[q] \in QuoteRow /\ edition \in Nat
    BY SalesFacts DEF SalesInv
  <2>2. quote'[q] = IF lost THEN cut ELSE quote[q]
    BY DEF InvoiceStep
  <2>3. /\ cut \in QuoteRow /\ cut.status = quote[q].status /\ cut.cust = quote[q].cust
        /\ cut.total = quote[q].total /\ cut.snap = quote[q].snap
        /\ cut.invoice = Nothing
    BY <2>1 DEF QuoteRow
  <2> HIDE DEF cut
  <2>4. /\ quote'[q] \in QuoteRow
        /\ quote'[q].status = quote[q].status /\ quote'[q].cust = quote[q].cust
        /\ quote'[q].total = quote[q].total /\ quote'[q].snap = quote[q].snap
        /\ quote'[q].invoice = IF lost THEN Nothing ELSE quote[q].invoice
    BY <2>1, <2>2, <2>3
  <2>5. quote[q].status = "absent" => quote'[q] = NoQuote
    <3> SUFFICES ASSUME quote[q].status = "absent" PROVE quote'[q] = NoQuote
      OBVIOUS
    <3>1. quote[q] = NoQuote /\ quote[q].invoice \notin Invoices
      BY <2>1, QuoteNothingAssumption DEF RowOK, NoQuote
    <3> QED BY <2>2, <3>1
  <2>6. RowOK(quote'[q], edition')
    <3>1. quote'[q].snap <= edition'
      BY <1>2, <2>1, <2>4 DEF RowOK, QuoteRow
    <3> QED BY <2>1, <2>4, <2>5, <3>1 DEF RowOK, QuoteExists
  <2>7. KidsOK(quote'[q], born[q]) /\ MailOK(quote'[q], q \in quoted) /\ Stays(q)
    BY <2>1, <2>4 DEF KidsOK, MailOK, QuoteExists, Stays
  <2>8. Linked(quote'[q], born[q], invoice')
    <3> SUFFICES ASSUME QuoteExists(quote'[q]), NEW i \in Invoices
                 PROVE  quote'[q].invoice = i <=> i \in born[q] /\ Exists(invoice'[i])
      BY DEF Linked
    <3>1. quote[q].invoice = i <=> i \in born[q] /\ Exists(invoice[i])
      BY <2>1, <2>4 DEF Linked, QuoteExists
    <3>2. quote'[q].invoice = i <=> quote[q].invoice = i /\ Exists(invoice'[i])
      BY <2>4, QuoteNothingAssumption
    <3>3. i \in born[q] => invoice[i].status # "absent"
      BY DEF SalesInv, BornApart
    <3> QED BY <1>3, <3>1, <3>2, <3>3
  <2> QED BY <2>6, <2>7, <2>8
<1>6. SalesTypeOK'
  <2>1. TypeOK'
    BY <1>2, SoundIsTheInvariants DEF AllSound, TypeOK
  <2>2. quote' \in [Quotes -> QuoteRow]
    BY <1>5 DEF InvoiceStep, RowOK
  <2> QED BY <1>1, <2>1, <2>2 DEF SalesInv, SalesTypeOK
<1>7. SalesInv'
  BY <1>1, <1>2, <1>4, <1>5, <1>6 DEF SalesInv
<1> QED BY <1>5, <1>7

------------------------------------------------------------------------------
(* The specification. *)

LEMMA SalesInitHolds == SalesInit => SalesInv
<1> SUFFICES ASSUME SalesInit PROVE SalesInv
  OBVIOUS
<1>1. AllSound /\ edition = 1
  BY SoundInit DEF SalesInit, Init
<1>2. NoQuote \in QuoteRow
  BY DEF NoQuote, QuoteRow, NoRow, NoSnapshot
<1>3. ~QuoteExists(NoQuote)
  BY DEF NoQuote, QuoteExists, QuoteStatuses
<1>4. RowOK(NoQuote, 1)
  BY <1>2, <1>3 DEF RowOK, NoQuote, NoSnapshot, IssuedQuote
<1>5. KidsOK(NoQuote, {})
  BY <1>3 DEF KidsOK, NoQuote
<1>6. SalesTypeOK
  <2>1. TypeOK
    BY <1>1, SoundIsTheInvariants
  <2> QED BY <1>2, <2>1 DEF SalesInit, SalesTypeOK
<1>7. ASSUME NEW q \in Quotes
      PROVE  /\ RowOK(quote[q], edition) /\ KidsOK(quote[q], born[q])
             /\ Linked(quote[q], born[q], invoice) /\ MailOK(quote[q], q \in quoted)
  BY <1>1, <1>3, <1>4, <1>5 DEF SalesInit, Linked, MailOK
<1>8. BornApart
  BY DEF SalesInit, BornApart
<1> QED BY <1>1, <1>6, <1>7, <1>8 DEF SalesInv

LEMMA SalesStepKeeps ==
    SalesInv /\ [SalesNext]_salesVars => SalesInv' /\ \A q \in Quotes : Stays(q)
<1> SUFFICES ASSUME SalesInv, [SalesNext]_salesVars
             PROVE  SalesInv' /\ \A q \in Quotes : Stays(q)
  OBVIOUS
<1>1. ASSUME NEW q \in Quotes, NEW c \in Customers, NEW t \in Totals,
             \/ \E deal \in BOOLEAN : CreateQuote(q, c, t, deal)
             \/ \E late \in BOOLEAN : UpdateQuote(q, c, t, late)
      PROVE  SalesInv' /\ \A p \in Quotes : Stays(p)
  BY <1>1, CreateQuoteKeeps, UpdateQuoteKeeps
<1>2. ASSUME NEW q \in Quotes, MarkQuoteSent(q) \/ SendQuote(q) \/ Approve(q)
      PROVE  SalesInv' /\ \A p \in Quotes : Stays(p)
  BY <1>2, MarkQuoteSentKeeps, SendQuoteKeeps, ApproveKeeps
<1>3. ASSUME NEW q \in Quotes, NEW i \in Invoices, Convert(q, i)
      PROVE  SalesInv' /\ \A p \in Quotes : Stays(p)
  BY <1>3, ConvertKeeps
<1>4. ASSUME NEW q \in Quotes, DealDeleted(q)
      PROVE  SalesInv' /\ \A p \in Quotes : Stays(p)
  BY <1>4, DealDeletedKeeps
<1>5. ASSUME NEW k \in Clerks, DeleteQuote(k)
      PROVE  SalesInv' /\ \A p \in Quotes : Stays(p)
  BY <1>5, DeleteQuoteKeeps
<1>6. ASSUME \/ \E k \in Clerks, q \in Quotes : ReadForDelete(k, q)
             \/ \E q \in Quotes : DueDatePasses(q)
             \/ \E c \in Customers : EditProfile(c) \/ SyncProfile(c)
      PROVE  SalesInv' /\ \A p \in Quotes : Stays(p)
  BY <1>6, RequestsAndProfilesKeep
<1>7. CASE Expire
  BY <1>7, ExpireKeeps
<1>8. CASE InvoiceStep
  BY <1>8, InvoiceStepKeeps
<1>9. CASE UNCHANGED salesVars
  <2>1. Beside /\ quote' = quote /\ quoted' = quoted
    BY <1>9 DEF salesVars, salesOnly, Beside, SalesInv, SalesTypeOK
  <2> QED BY <2>1, QuotesUntouched
<1> QED BY <1>1, <1>2, <1>3, <1>4, <1>5, <1>6, <1>7, <1>8, <1>9 DEF SalesNext

LEMMA SalesInvAlways == SalesSpec => []SalesInv
BY SalesInitHolds, SalesStepKeeps, PTL DEF SalesSpec

(* A quote becomes at most one invoice however often it is sent, expired,  *)
(* revived, converted or deleted meanwhile, whatever becomes of the        *)
(* invoice, and the link names it while it exists (convert_to_invoice()).  *)
THEOREM QuotesConvertOnce == SalesSpec => []OneInvoicePerQuote
BY SalesInvAlways, SalesInvIsEnough, PTL

(* No quote is issued without an owner header, on whatever way: every move *)
(* stamps it, and a quote in one of the issued states keeps it.            *)
THEOREM IssuedQuotesCarryHeader == SalesSpec => []IssuedQuotesAreBranded
BY SalesInvAlways, SalesInvIsEnough, PTL

(* What was approved is what is invoiced: no update, mail, nightly job or  *)
(* step of an invoice changes an approved quote's customer, total, header. *)
THEOREM ApprovedQuotesStay == SalesSpec => ApprovedIsPermanent
<1>1. SalesInv /\ [SalesNext]_salesVars =>
         [\A q \in Quotes : quote[q].status \in {"approved", "invoiced"} =>
             /\ quote'[q].cust = quote[q].cust
             /\ quote'[q].total = quote[q].total
             /\ quote'[q].snap = quote[q].snap
             /\ \/ quote'[q].status = quote[q].status
                \/ quote'[q].status = "invoiced" /\ quote[q].status = "approved"
                \/ quote'[q].status = "deleted" /\ \E k \in Clerks : deleting[k] = q]_salesVars
  BY SalesStepKeeps DEF Stays
<1> QED BY <1>1, SalesInvAlways, PTL DEF SalesSpec, ApprovedIsPermanent

(* Conversion is one more way to create an invoice: seen from the invoices *)
(* the sales service is InvoiceLifecycle, and all it guarantees holds.     *)
THEOREM SalesImplementsLifecycle == SalesSpec => Spec
<1>1. SalesInit => Init
  BY DEF SalesInit
<1>2. SalesInv /\ [SalesNext]_salesVars => [Next]_vars
  <2> SUFFICES ASSUME SalesInv, [SalesNext]_salesVars PROVE [Next]_vars
    OBVIOUS
  <2>1. ASSUME NEW q \in Quotes, NEW i \in Invoices, Convert(q, i) PROVE Next
    BY <2>1, ConvertCreates
  <2>2. CASE InvoiceStep
    BY <2>2 DEF InvoiceStep
  <2>3. ASSUME OnlyQuotes \/ UNCHANGED vars PROVE UNCHANGED vars
    BY <2>3 DEF OnlyQuotes
  <2>4. CASE UNCHANGED salesVars
    BY <2>4 DEF salesVars
  <2>5. ASSUME NEW q \in Quotes,
               \/ \E c \in Customers, t \in Totals :
                     \/ \E deal \in BOOLEAN : CreateQuote(q, c, t, deal)
                     \/ \E late \in BOOLEAN : UpdateQuote(q, c, t, late)
               \/ MarkQuoteSent(q) \/ SendQuote(q) \/ Approve(q)
               \/ DueDatePasses(q) \/ DealDeleted(q)
        PROVE  UNCHANGED vars
    BY <2>3, <2>5 DEF CreateQuote, UpdateQuote, MarkQuoteSent, SendQuote, Approve,
                      DueDatePasses, DealDeleted
  <2>6. CASE Expire
    BY <2>3, <2>6 DEF Expire
  <2>7. CASE \/ \E k \in Clerks : DeleteQuote(k) \/ \E q \in Quotes : ReadForDelete(k, q)
             \/ \E c \in Customers : EditProfile(c) \/ SyncProfile(c)
    BY <2>7 DEF DeleteQuote, ReadForDelete, EditProfile, SyncProfile
  <2> QED BY <2>1, <2>2, <2>4, <2>5, <2>6, <2>7 DEF SalesNext
<1> QED BY <1>1, <1>2, SalesInvAlways, PTL DEF SalesSpec, Spec
===============================================================================
