---------------------------- MODULE QuoteConversion ----------------------------
(***************************************************************************)
(* Quotes and the invoices they become.  Every operation on a quote takes  *)
(* its row lock for the checks and the write (FOR UPDATE, or               *)
(* assert_version), except delete_quote, which checks a copy it reads      *)
(* without a lock and deletes whatever is there by then.  Invoices are     *)
(* those of InvoiceLifecycle, which goes on beside the quotes.             *)
(***************************************************************************)
EXTENDS InvoiceLifecycle, FiniteSets

CONSTANTS
    Quotes,          \* primary keys
    Clerks,          \* requests that delete a quote
    Nothing,         \* no quote, no invoice
    MaxQuoteVersion  \* bound: a quote takes at most MaxQuoteVersion - 1 changes

ASSUME QuoteNothingAssumption == Nothing \notin Quotes \cup Invoices
ASSUME QuoteBoundAssumption == MaxQuoteVersion \in Nat \ {0}

VARIABLES
    quote,           \* the table `quotes`
    past,            \* the quotes whose due date has passed
    quoted,          \* the quotes some row of `email_outbox` was queued for
    synced,          \* the customers whose billing profile is synced
    deleting,        \* per clerk, the quote it read as a draft
    born             \* per quote, the invoices ever created from it

salesOnly == <<quote, past, quoted, synced, deleting, born>>

salesVars == <<vars, salesOnly>>

QuoteStatuses == {"draft", "sent", "approved", "invoiced", "expired"}

\* `deal` says whether the quote is linked to a deal of the Sales Desk, `from`
\* is the invoice it became.
QuoteRow == [status: QuoteStatuses \cup NoRow, cust: Customers \cup {NoCustomer},
             total: Nat, version: Nat, snap: Nat, deal: BOOLEAN,
             invoice: Invoices \cup {Nothing}]

NoQuote == [status |-> "absent", cust |-> NoCustomer, total |-> 0, version |-> 0,
            snap |-> NoSnapshot, deal |-> FALSE, invoice |-> Nothing]

SalesInit ==
    /\ Init
    /\ quote = [q \in Quotes |-> NoQuote]
    /\ past = {} /\ quoted = {}
    /\ synced = Customers
    /\ deleting = [k \in Clerks |-> Nothing]
    /\ born = [q \in Quotes |-> {}]

------------------------------------------------------------------------------
QuoteExists(row) == row.status \in QuoteStatuses

QuoteBounded(row) == row.version < MaxQuoteVersion

CanMoveQuote(from, to) ==
    \/ from = "draft"    /\ to \in {"sent", "approved", "expired"}
    \/ from = "sent"     /\ to \in {"approved", "expired"}
    \/ from = "approved" /\ to \in {"invoiced", "expired"}
    \/ from = "expired"  /\ to = "sent"

\* The issue/finalize gate: a quote of a deal waits for the billing profile.
Gate(row) == row.deal => row.cust \in synced

PutQuote(q, row) == quote' = [quote EXCEPT ![q] = row]

OnlyQuotes == UNCHANGED <<vars, synced, deleting, born>>

CreateQuote(q, c, total, deal) ==
    /\ quote[q].status = "absent"
    /\ PutQuote(q, [NoQuote EXCEPT !.status = "draft", !.cust = c, !.total = total,
                                   !.version = 1, !.deal = deal])
    /\ UNCHANGED <<past, quoted>> /\ OnlyQuotes

UpdateQuoteSlip(q, c, total, late) == LET row == quote[q] IN
    /\ QuoteBounded(row)
    /\ row.status \in {"draft", "sent", "approved"}
    /\ row.status # "draft" => c = row.cust
    /\ PutQuote(q, [row EXCEPT !.cust = c, !.total = total, !.version = @ + 1])
    /\ past' = IF late THEN past ELSE past \ {q}
    /\ UNCHANGED quoted /\ OnlyQuotes

\* update(): behind assert_version (see InvoiceLedger!Edit for what it is good
\* for); a sent quote keeps its customer.  A new due date is not in the past.
UpdateQuote(q, c, total, late) == LET row == quote[q] IN
    /\ QuoteBounded(row)
    /\ row.status \in {"draft", "sent"}
    /\ row.status = "sent" => c = row.cust
    /\ PutQuote(q, [row EXCEPT !.cust = c, !.total = total, !.version = @ + 1])
    /\ past' = IF late THEN past ELSE past \ {q}
    /\ UNCHANGED quoted /\ OnlyQuotes

MovedQuote(row, to) ==
    WithSnapshot([row EXCEPT !.status = to, !.version = @ + 1], edition)

\* mark-as-sent also revives an expired quote.
MarkQuoteSent(q) == LET row == quote[q] IN
    /\ QuoteBounded(row)
    /\ Gate(row)
    /\ CanMoveQuote(row.status, "sent")
    /\ PutQuote(q, MovedQuote(row, "sent"))
    /\ UNCHANGED <<past, quoted>> /\ OnlyQuotes

SendQuoteSlip(q) == LET row == quote[q] IN
    /\ QuoteExists(row) /\ QuoteBounded(row)
    /\ row.status # "invoiced"
    /\ PutQuote(q, IF row.status = "draft"
                   THEN [row EXCEPT !.status = "sent", !.version = @ + 1] ELSE row)
    /\ quoted' = quoted \cup {q}
    /\ UNCHANGED past /\ OnlyQuotes

\* send mails any quote not yet converted; it moves (and brands) a draft only.
SendQuote(q) == LET row == quote[q] IN
    /\ QuoteExists(row) /\ QuoteBounded(row)
    /\ row.status # "invoiced"
    /\ Gate(row)
    /\ PutQuote(q, IF row.status = "draft" THEN MovedQuote(row, "sent") ELSE row)
    /\ quoted' = quoted \cup {q}
    /\ UNCHANGED past /\ OnlyQuotes

Approve(q) == LET row == quote[q] IN
    /\ QuoteBounded(row)
    /\ row.status \in {"draft", "sent"}
    /\ q \notin past
    /\ Gate(row)
    /\ PutQuote(q, MovedQuote(row, "approved"))
    /\ UNCHANGED <<past, quoted>> /\ OnlyQuotes

Invoiced(row, i) ==
    LET approved == IF row.status = "sent" THEN MovedQuote(row, "approved") ELSE row
    IN  [approved EXCEPT !.status = "invoiced", !.version = @ + 1, !.invoice = i]

ConvertSlip(q, i) == LET row == quote[q] IN
    /\ QuoteBounded(row)
    /\ row.status \in {"sent", "approved", "invoiced"}
    /\ row.invoice = Nothing
    /\ q \notin past
    /\ Gate(row)
    /\ Create(i, row.cust, row.total)
    /\ PutQuote(q, Invoiced(row, i))
    /\ born' = [born EXCEPT ![q] = @ \cup {i}]
    /\ UNCHANGED <<past, quoted, synced, deleting>>

\* The invoice is created and the quote stamped in one savepoint.
Convert(q, i) == LET row == quote[q] IN
    /\ QuoteBounded(row)
    /\ row.status \in {"sent", "approved"}
    /\ row.invoice = Nothing
    /\ q \notin past
    /\ Gate(row)
    /\ Create(i, row.cust, row.total)
    /\ PutQuote(q, Invoiced(row, i))
    /\ born' = [born EXCEPT ![q] = @ \cup {i}]
    /\ UNCHANGED <<past, quoted, synced, deleting>>

\* delete_quote, without a lock: first the status ...
ReadForDelete(k, q) ==
    /\ deleting[k] = Nothing
    /\ quote[q].status = "draft"
    /\ deleting' = [deleting EXCEPT ![k] = q]
    /\ UNCHANGED <<vars, quote, past, quoted, synced, born>>

\* ... then the DELETE.
DeleteQuote(k) ==
    /\ deleting[k] # Nothing
    /\ quote' = [quote EXCEPT ![deleting[k]].status = "deleted"]
    /\ deleting' = [deleting EXCEPT ![k] = Nothing]
    /\ UNCHANGED <<vars, past, quoted, synced, born>>

\* The nightly job: one UPDATE, whose WHERE is evaluated on the latest rows.
Expire ==
    LET late == {q \in past : quote[q].status \in {"draft", "sent"}} IN
    /\ late # {}
    /\ \A q \in late : QuoteBounded(quote[q])
    /\ quote' = [q \in Quotes |->
                   IF q \in late THEN [quote[q] EXCEPT !.status = "expired",
                                                       !.version = @ + 1]
                   ELSE quote[q]]
    /\ UNCHANGED <<past, quoted>> /\ OnlyQuotes

DueDatePasses(q) ==
    /\ QuoteExists(quote[q]) /\ q \notin past
    /\ past' = past \cup {q}
    /\ UNCHANGED <<quote, quoted>> /\ OnlyQuotes

\* ON DELETE SET NULL: quotes survive their deal.
DealDeleted(q) ==
    /\ quote[q].deal
    /\ PutQuote(q, [quote[q] EXCEPT !.deal = FALSE])
    /\ UNCHANGED <<past, quoted>> /\ OnlyQuotes

EditProfile(c) ==
    /\ synced' = synced \ {c}
    /\ UNCHANGED <<vars, quote, past, quoted, deleting, born>>

SyncProfile(c) ==
    /\ synced' = synced \cup {c}
    /\ UNCHANGED <<vars, quote, past, quoted, deleting, born>>

\* Invoices go their way; a quote whose invoice is deleted loses the link (ON
\* DELETE SET NULL) and stays INVOICED.
InvoiceStep ==
    /\ Next
    /\ quote' = [q \in Quotes |->
                   IF \E i \in Invoices : /\ quote[q].invoice = i
                                          /\ ~Exists(invoice'[i])
                   THEN [quote[q] EXCEPT !.invoice = Nothing] ELSE quote[q]]
    /\ UNCHANGED <<past, quoted, synced, deleting, born>>

SalesNext ==
    \/ \E q \in Quotes :
          \/ \E c \in Customers, t \in Totals :
                \/ \E deal \in BOOLEAN : CreateQuote(q, c, t, deal)
                \/ \E late \in BOOLEAN : UpdateQuote(q, c, t, late)
          \/ MarkQuoteSent(q) \/ SendQuote(q) \/ Approve(q)
          \/ \E i \in Invoices : Convert(q, i)
          \/ \E k \in Clerks : ReadForDelete(k, q)
          \/ DueDatePasses(q)
          \/ DealDeleted(q)
    \/ \E k \in Clerks : DeleteQuote(k)
    \/ Expire
    \/ \E c \in Customers : EditProfile(c) \/ SyncProfile(c)
    \/ InvoiceStep

SalesSpec == SalesInit /\ [][SalesNext]_salesVars

------------------------------------------------------------------------------
SalesTypeOK ==
    /\ TypeOK
    /\ quote \in [Quotes -> QuoteRow]
    /\ past \subseteq Quotes
    /\ quoted \subseteq Quotes
    /\ synced \subseteq Customers
    /\ deleting \in [Clerks -> Quotes \cup {Nothing}]
    /\ born \in [Quotes -> SUBSET Invoices]

\* A quote becomes at most one invoice in its life, even if that invoice is
\* deleted later; the link names it as long as it exists, and no two quotes
\* share one.
OneInvoicePerQuote ==
    \A q \in Quotes : LET row == quote[q] IN
        /\ Cardinality(born[q]) <= 1
        /\ row.status = "invoiced" => born[q] # {}
        /\ QuoteExists(row) /\ born[q] # {} => row.status = "invoiced"
        /\ QuoteExists(row) => {row.invoice} \ {Nothing} = {i \in born[q] : Exists(invoice[i])}
        /\ \A p \in Quotes \ {q} : born[p] \cap born[q] = {}

\* Whatever way it takes (marked, mailed, approved as a draft, revived after it
\* expired, converted unapproved), an issued quote carries an owner header; a
\* mail may go out without one only for a quote that expired as a draft.
IssuedQuotesAreBranded ==
    \A q \in Quotes : LET row == quote[q] IN
        /\ row.status \in {"sent", "approved", "invoiced"} => row.snap \in 1 .. edition
        /\ q \in quoted /\ row.snap = NoSnapshot => row.status \in {"expired", "deleted"}

\* The quote that is converted is the one that was approved: from its approval on
\* its row keeps customer, total and header, and becomes INVOICED or stays.  There
\* is one exception: a delete that had read it as a draft takes the row away.
\* (What its invoice charges is worked out anew; Totals says how.)
ApprovedIsPermanent ==
    [][\A q \in Quotes : quote[q].status \in {"approved", "invoiced"} =>
          /\ quote'[q].cust = quote[q].cust
          /\ quote'[q].total = quote[q].total
          /\ quote'[q].snap = quote[q].snap
          /\ \/ quote'[q].status = quote[q].status
             \/ quote'[q].status = "invoiced" /\ quote[q].status = "approved"
             \/ quote'[q].status = "deleted" /\ \E k \in Clerks : deleting[k] = q]_salesVars
===============================================================================
