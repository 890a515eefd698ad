# A formal model of Priori CRM

TLA+ specifications of the CRM's backend (`src/api/app`): what its services
promise, how its request transactions keep (or break) those promises when they
run concurrently, whether the figures it shows agree, and machine-checked
proofs of the promises that hold. `PROJECT.json` lists every run, property,
theorem, hazard and finding, and maps every definition to the lines it models.

* TLC checks a run with `tlc -config <run>.cfg <Module>`;
* TLAPS checks the proofs with `tlapm <Module>Proofs.tla` and `tlapm SumTheorems.tla`.

## 1. The system

A FastAPI application over PostgreSQL (READ COMMITTED), a React frontend, an
SMTP/SES mail provider, Redis, object storage, and an external scheduler calling
`/internal/...` endpoints. Each HTTP request gets one SQLAlchemy session; the
service flushes, and `CommitOnSuccessRoute` commits before the response is
sent. An exception rolls everything back. Sessions keep loaded values after a
commit (`expire_on_commit=False`), and an UPDATE writes only changed columns.
There is no ORM version column: what protects a row from a concurrent request is
an explicit `SELECT ... FOR UPDATE`, or `assert_version`, or nothing.

| Component | State | Operations that change it | Interacts with | What makes it correct |
|---|---|---|---|---|
| Invoices (`modules/invoices`) | `invoices` (status, amounts, version, owner snapshot), `payments` | create, duplicate, update, mark as sent, send, record payment, cancel, delete, nightly overdue | customers (balance), outbox, owner profile, references | money adds up, status tells the truth about money, an issued invoice is permanent, no lost update |
| Customer balance | `customers.balance` | recomputed after payments and cancels | invoices | equals the rollup of outstanding invoices |
| Email outbox (`common/email_outbox.py`) | `email_outbox` (status, attempts) | enqueue, deliver now, drain, attempt, requeue dead | every document service, provider, scheduler | no mail lost, none sent twice, the retry budget kept, the queue drains |
| Deals (`modules/deals`) | `deals` (status, stage, parking and closing fields, version), stage records, activities | create, update, delete, advance, close, park, resume, log activity | onboarding, quotes, nurture | terminal states are final, one stage at a time, history is kept |
| Sales Desk (`modules/sales_desk`) | none: reads deals and prospects | | deals, nurture | cards, chips, tabs, lists and bells agree on any day |
| Onboarding (`modules/onboarding`) | checklists and tasks | create for a won deal, toggle task, mark complete | deals | exactly one checklist per won deal |
| Quotes (`modules/quotes`) | `quotes` | create, update, mark as sent, send, approve, convert, delete, nightly expiry | invoices, deals, customers' billing profiles, outbox | one invoice per quote, an approved quote is not lost |
| Nurture (`modules/nurture`) | prospects | create, engage, delete | deals | a prospect becomes at most one deal |
| Expenses (`modules/expenses`) | `expenses`, `expense_payments`, documents | create, duplicate, update, record payment, mark as paid, attach, cancel, delete, nightly overdue | vendors, storage | money adds up, settlement idempotent, no dangling document |
| Purchase orders (`modules/purchase_orders`) | orders, line items, payments, documents | create, update, send, payments recorded, corrected and deleted, delete, duplicate | vendors, storage | payments and order agree in any currency, a sent order is permanent |
| Customers, vendors | accounts, billing profiles | create, update, activate, deactivate, delete | all documents | one currency per party; no document without its party |
| Owner profile (`modules/owner`) | current profile, immutable snapshots, the logo's object | update, logo, module settings | documents, storage | issued documents keep their header; the logo can be served |
| References (`common/reference*.py`) | `reference_sequences` high-water marks | generate; the trigger of an insert | all documents | a number once used is never given again (invoices, quotes and expenses) |
| Storage transactions (`common/storage_tx.py`) | keys to delete on commit or rollback, kept on the session | schedule, drain | expenses, orders, owner logo | no live row loses its object, no object outlives its row |
| Auth (`modules/auth`, `common/token_denylist.py`) | one-time codes, reset tokens, denylist, fences | login, verify, refresh, logout, reset | Redis | a token is spent once; a fence ends a session |
| Limiters (`common/rate_limit_store.py`, `common/export_limiter.py`) | windows, slots | hit, run export | all routes | limits hold, slots are returned |
| Financial (`common/financial.py`) | none | pure functions | all documents | totals to the cent, however they were arrived at |
| Reports, dashboard, statements | none: reads the documents | | all documents | the same thing is the same figure everywhere; statements chain |
| PDF, Excel | none | rendering | | |

What is hard here: requests that read, validate and write a row in separate
statements (some under row locks, some not); one aggregate column kept by many
transactions; a queue whose workers commit in the middle of a batch; a provider
whose answer can be lost; an object store outside the transaction; a denylist
read in one step and written in another; a process that can die between any two
of these; sums rounded in different orders; and one figure computed by a dozen
queries, each with its own list of the statuses that count. Section "hazards"
of `PROJECT.json` lists each hazard at its line with the properties about it.

## 2. The modules

| Module | Models | Uses |
|---|---|---|
| `InvoiceRules` | what each handler does to one invoice row, as pure operators | |
| `InvoiceLifecycle` | the abstract invoice service: every operation atomic | `InvoiceRules` |
| `InvoiceLedger` | the service as concurrent request transactions, and `Customer.balance` | `InvoiceRules`, implements `InvoiceLifecycle` |
| `QuoteConversion` | quotes, and their conversion into the invoices of `InvoiceLifecycle` | `InvoiceLifecycle` |
| `EmailOutbox` | the outbox: senders, drains, provider, crashes, requeues | |
| `DealPipeline` | the deal service, requests racing without row locks, and the onboarding row of a won deal | |
| `Desk` | deals and prospects over days, and every figure of the Sales Desk, the bells and the companies | `Paging` |
| `Settlement` | what every payable promises: what is owed, what was received, when it counts as settled | |
| `Expenses` | the expense service | implements `Settlement` |
| `PurchaseOrders` | the purchase-order service | implements `Settlement` |
| `StoredObjects` | documents and the logo: rows, objects, the hooks between them | |
| `ReferenceNumbers` | number generators, imports, and the trigger that only some tables have | |
| `RefreshTokens` | the refresh tokens of a user, the denylist and the fence | |
| `Parties` | customers and vendors beside the documents raised for them | |
| `Totals` | the arithmetic of a document, from draft to invoice, and what the columns keep of its terms | |
| `DealQuotes` | lines, currency and prices of a quote made from a deal | feeds `Totals` |
| `Paging` | pages, caps of exports | |
| `Books` | the document tables as the accounts read them; statements of account | `Paging` |
| `SalesFigures`, `QuoteFigures`, `Figures` | the queries of every report, card, tab, list, page and export | `Books` |
| `Payables` | expenses, orders and stored objects side by side | `Expenses`, `PurchaseOrders`, `StoredObjects` |
| `Services` | deals, references, tokens, parties, the money of one document and the books side by side | `DealPipeline`, `ReferenceNumbers`, `RefreshTokens`, `Parties`, `Totals`, `Books` |
| `MC...` | small instances, symmetry, alternative initial states | |
| `SumTheorems` | sums over finite sets as the community modules fold them, and rows in order, with proofs | |
| `InvoiceLifecycleProofs`, `InvoiceLedgerProofs`, `QuoteConversionProofs`, `EmailOutboxProofs`, `PayablesProofs`, `ServicesProofs`, `DeskProofs` | theorems and their proofs | the module they are named after; `PayablesProofs` has one part each for expenses, stored objects and orders, `ServicesProofs` one for each of the six |

Operators whose name ends in `Slip` are plausible mistakes in the code (a guard
dropped, a lock forgotten, an off-by-one). They are used by no specification;
each property is known to tell one of them from the real definition.

Components that share no table are put side by side: `Payables` and `MCServices`
have a variable `part` that never changes and says which of their components a
behaviour follows (in `MCQuoteConversion`, whether it has quotes or only
invoices). It keeps the state space a sum where a product would say nothing more. Components that do interact
are composed for real: quotes with invoices, invoices with the customer balance
and the outbox queue, deals with onboarding and with prospects, parties with
documents, rows with objects, deal quotes with totals.

### Invoices

State. A row is `[status, cust, total, paid, balance, version, snap]`: the
columns `status`, `customer_id`, `total_due`, `amount_paid`, `balance_due`,
`version`, `owner_snapshot_id`. Line items, discount and VAT are folded into
`total` (integer cents) here; how they make it is `Totals`. `received` sums the
`payments` rows, `mailed` says for which invoices an outbox row was queued,
`edition` counts edits of the owner profile. `absent` and `deleted` are rows
that do not exist (UUIDs are not reused).

`InvoiceLifecycle` is the promise: one atomic action per operation.
`InvoiceLedger` is the code: `Begin`/`Flush` locks the row, validates what is
read under the lock and flushes (`pending`); payments and cancels then run the
statements of `_update_customer_balance` one at a time (`SumOutstanding`,
`LoadCustomer`, `WriteCustomer`, the UPDATE waiting for the customer's row lock
and left out when nothing changed); `Commit` publishes, `Abort` may happen at any
point. An edit is a client's `Read` and, any time later, `Edit` behind
`assert_version`. The nightly job is one UPDATE: `BulkScan` takes the snapshot,
`BulkRow` locks each row and evaluates the WHERE clause again on its latest
version, as PostgreSQL does. Two rows' locks may be taken in any order, so two
nightly jobs can deadlock; `BreakDeadlock` is PostgreSQL's detector.

The refinement mapping is the identity on the committed tables: `Implements ==
Lifecycle!Spec`.

### Quotes

Every operation on a quote holds its row lock from its checks to its commit and
is one action, except `delete_quote`, which is `ReadForDelete` (the unlocked
DRAFT check) and `DeleteQuote`. `Convert` creates the invoice and stamps the
quote in one transaction; the savepoint inside it only retries the number. It is
refused while the customer's billing profile is not synced (`EditProfile`,
`SyncProfile`). `born` is a ghost: the invoices a quote was ever converted into.
The invoices go on by the actions of `InvoiceLifecycle`, and a draft made from a
quote may be deleted like any other. That the due date has passed is a flag the
environment sets (`DueDatePasses`).

### Email outbox

`queue` is the table; `lock` the row locks of a drain; `worker` each session's
stage and the rows it still has to attempt *as it loaded them*. `Drain` is
`FOR UPDATE SKIP LOCKED ... LIMIT`; `Attempt` calls the provider (accepted,
refused, or accepted with the answer lost); `Record` flushes and commits, which
releases every lock of the drain, not only that of the row it wrote. `Record`
writes only columns that differ from the loaded copy (`Overlay`). `DeliverNow`
is the sender's immediate attempt, without a lock. `delivered` and `tries` are
ghosts: what the provider really took and how often it was really called.
SES's own retries inside one call are one attempt.

### Deals and the Sales Desk

`DealPipeline` is about races. Except for the version check of `update`, no
operation locks its row: `Load` reads and validates, and the operation's own
action writes the changed columns over whatever is committed then, its new
version being the loaded one plus one. What stops a stale write is the database:
the CHECK constraints (`Checked`: parking fields exactly on parked deals,
closing fields exactly on closed ones), the uniqueness and the RESTRICT foreign
key of `onboardings.deal_id`. The UPDATE blocks other writers until the commit,
and nothing is read between them, so they are one action. `Fail` rolls back at
any time.

`Desk` is about figures. It runs the same operations one at a time, with owners,
values, dates and the first and last stage records, and prospects that are
planned, engaged into deals and dropped, while `NextDay` passes. Its operators
are the queries of the dashboard, the pipeline page with its chips and filters,
the notification bells, the companies page and the export; the SQL ones compare
dates with a bound, the Python ones count whole days, as the code does. Figures
are rounded half up, but for dollar figures on the pages and the weighted value of
one deal, which `Decimal.quantize` rounds half to even (`HalfEven`).

### Payables

`Expenses`: each operation takes the row lock before it looks, so each is one
action; a client's form (`OpenForm`, `Update`) may be old, and the version it
carries decides. `received` sums `expense_payments`, `byHand` the part of it
that was recorded by a user rather than by mark-as-paid.
`PurchaseOrders`: payments are rows of their own, in a currency of their own
(`rate` converts, rounding half up to a cent), recorded (adding up), corrected
and deleted (summing again). A payment is recorded at the rate of the request and
its row keeps what the column has room for (`Stored`, in multiples of `Step`);
summing again converts at that one. `Duplicate` leaves the copy's balance at its column
default, as the code does. Both map to `Settlement` by what is owed, what was
received and a `Standing` derived from their status.

### Stored objects

A request uploads an object before its row, or deletes it before or after the
commit, depending on the operation; `job` is where each request stands. `Commit`
and `RollBack` run the hooks of `storage_tx`; `Die` is the process killed, and
`Refuse` the store refusing a delete, after which an object may be left over
(`blamed`) or a row without its object (`torn`). These two ghosts are what the
properties exempt, and nothing else is.

### Reference numbers, refresh tokens, parties

`ReferenceNumbers` takes the generator statement by statement (advisory lock,
read of the mark, write of the mark, insert) with a savepoint retry when the
number collides (`Collide`), beside imports that insert without the lock and
raise the mark by the trigger. `scope` says whose numbers they are: invoices,
quotes and expenses have the trigger (`triggered`), purchase orders have none
(`bare`), and an import into their table leaves the mark where it is. `issued` is
a ghost: the numbers that were ever
committed, deleted drafts included.

`RefreshTokens`: `Check` (valid, not revoked, not fenced), `Spend`
(`revoke_if_new`) and `Mint` are separate; losing `Spend` fences the family.
Time runs in half seconds, because a fence has a fraction and a token's `iat`
does not. A token counts the fences its session has outlived (`since`).

`Parties`: a request reads the party unlocked, then locks it with the version
check (`Lock`), or inserts a document, whose foreign key shares the row's lock
(`InsertPaper`) until it commits.

### Totals and the books

`Totals` follows one document from its creation through edits (lines, discount,
VAT, date; each alone or together), sending, approval, conversion and copying,
each with the arithmetic of its own code path, half cents rounded as
`quantize_money` does. `Preview` is the preview endpoint. A request may carry a
VAT rate, and an edit a percentage, of any number of decimals: the totals are
worked out with it, and then the row keeps what `Numeric(5,4)` and `Numeric(5,2)`
have room for (`Stored`). `Typed(doc)` are the documents, as they may have been
typed, that leave the row. `NoRate` is NULL, which is not the rate 0: VAT switched
on at 0 % is a document like any other. An edit of a quote that names no discount
takes the discount away, as the validator of its schema does.

`Books` holds tables of documents that the services can leave (`RealInvoice`
and so on say which) and lets statements of account be drawn over any periods.
The entries of a statement are a function on slots, `<<book, n, 0>>` for the debit
of row n and `<<book, n, k>>` for its k-th payment; sorted by date, debits first,
they are the rows of the statement, and `Closing` is the balance
`StatementGenerator` runs down them. `SalesFigures`, `QuoteFigures` and `Figures` translate every query of
the reports, the dashboard, the lists and the pages of customers and vendors as
an operator over those tables; `BooksReconcile` says which of them have to
agree.

## 3. The runs

| Run | Instance | Shows |
|---|---|---|
| `quotes` | *sales*: 1 quote, 2 invoices, 1 deleting clerk, 4 versions of the quote; *invoices*: 2 invoices, 2 customers, totals 0 and 2, payments 1 and 2, 4 versions, 2 editions | invoice money, status, branding and permanence; one invoice per quote, headers, what was approved is kept |
| `desk` | 2 deals, 1 prospect, 2 owners, 2 currencies whose values do not convert evenly, 2 stages, 3 days, pages of 1 and of 2 | the figures, chips, tabs, lists, bells, companies and export of the Sales Desk agree |
| `ledger` | 2 requests, 2 invoices, 4 versions | row locks: `LockDiscipline`, the refinement `Implements`, `NoLostEdit` |
| `ledger_live` | 2 requests over issued invoices, 3 versions, 2 editions | every transaction ends |
| `ledger_race` | 2 requests | finding: concurrent payments store a stale balance |
| `outbox` | 3 mails, 1 sender, 2 drains of 2, budget 2, 1 crash, 1 requeue; two starts, see the bounds | nothing lost, the budget kept, fresh first rows; the queue settles, though the limit leaves the youngest mail out while the two before it keep failing |
| `outbox_batch` | 2 mails, 2 drains of 2 | finding: batches do send twice |
| `payables` | *expenses*: 2 expenses, 1 form; *orders*: 2 orders, 2 payments, 2 forms, rates 1/4 and 1 in a column of halves; *objects*: 2 requests, 1 parent, 2 documents, 2 logos, 1 failure | rows, payments and statuses agree and implement `Settlement`, settling is idempotent, stale forms are refused, rounding drift is bounded, no orphaned object and no broken download |
| `order_copy` | 2 orders, 1 payment | finding: a sent copy shows as settled unpaid |
| `order_rate` | 1 order, 1 payment of 3 at a rate of 1/4 | finding: a correction moves an order's paid amount without new money |
| `services` | *deals*: 2 requests, 1 deal, 3 stages; *references*: 2 writers, 4 numbers, 1 retry, with and without the trigger; *tokens*: 3 tokens, 2 callers, 2 fences; *parties*: 1 customer or 1 vendor, 2 documents, 2 requests; *totals*: 4 baskets, 4 discounts, 3 rates (0 among them) of which one has a decimal too many, 2 dates; *books*: pairs of invoices, of orders and of quotes, single expenses, 3 days, the statements of one party at a time | onboarding follows a win, closed stays closed; numbers of the tables with the trigger are never reissued; tokens rotate once, fences end sessions; totals to the cent, sent ones from their own row; a customer's currency is frozen; all figures reconcile; vendor statements chain |
| `statement_gap` | the instance of `services` | finding: customer statements do not chain |

Bounds. `MaxVersion` and its kin bound the updates of a row, `MaxEdition` the
edits of the owner profile, `MaxCrashes`, `MaxRequeues`, `MaxFailures`,
`MaxFences`, `MaxTime`, `MaxNumber`, `MaxTries` and `LastDay` what their names
say; they sit in the guards. Two invoices are enough for every interaction in
the code, which never involves more than the rows of one customer; four versions
take a row through issue, partial payment, settlement or lapse, and cancel.
Totals 0 and 2 with payments of 1 and 2 give under-, exact and overpayment and
the zero invoice. Two concurrent requests give every pairwise race; what three
could add to the proved properties is covered by the proofs, which hold for any
number. A drain batch of two is the smallest with a row behind the first commit,
and three mails are the fewest of which it leaves one out.
Three stages are the fewest on which a stale advance moves a deal back. An order
payment of 3 cents at a rate of a quarter is the smallest that rounds, and `Step`
(`RateStep` in `payables`) makes the column keep a half for that quarter, as eight
decimals do to a longer rate and a larger amount. `Fine` has the terms of a
document in halves of a ten-thousandth, so that 2427 of them (12.135 %) is one
its column rounds; 8 and 13 %, which documents may not have, are not offered. Two
callers and a third token show a rotation beside its double and the successor
of one of them. Three days have a day before, inside and after a window, so
three is what two consecutive statements need.

The calendar is scaled, and only by constants: `AgeStep` stands for the 30 days
of an aging bucket, `WeekLength`, `MonthEnds` and `YearEnds` for the calendar of
the dashboard's buckets and the report presets, `LongestRange` for the longest
custom period; on the Sales Desk `Week`, `StaleAfter` and `OldAfter` for 7, 30
and 45 days, a month is a day and a quarter two months. Every comparison keeps
its direction and its closed or open end. The books are enumerated as every pair
of rows a status and a set of payments allow, since what can disagree is how a
row is counted, and how two rows are grouped; a canceled document has at most
one payment. Customers and vendors share no row and no document, so a behaviour of
the parties has one of either (`OneParty`). Limits of 10 or 5 rows on cards
are not reached by two rows; the page size is 1, so pages and their `more` are.

`ledger_race` and `ledger_live` start from issued invoices (`IssuedInit`, a
reachable state up to version numbers) to keep the way to the race short;
`outbox_batch` starts from queued mails (`AllQueued`), and `outbox` has two
starts (`MixedSpec`): one mail sent long ago and two that a sender is still to
queue, with a crash and a requeue to come; or a backlog longer than a batch, of
which the two oldest have failed once, with neither.
Symmetry is declared only over sets whose members the specification does not
tell apart, and never in a liveness run.
Deadlock checking is off everywhere: at its bounds every model really stops
(versions, messages and requeues run out), and so may the service, when no
client comes.

Fairness. *Ledger*: a session thread goes on executing its statements (WF);
PostgreSQL grants a contended row lock to its waiters in turn (SF on the
statements that may wait); its deadlock detector aborts one of a set of mutual
waiters (WF on `BreakDeadlock`). No fairness on clients starting anything or on
aborts. *Outbox*: `scheduled-jobs.yml` keeps calling drain (WF on `Drain`), a
session goes on (WF), the provider answers or its client times out (WF on
`Attempt` whatever the answer), and a row lock is granted in turn (SF on
`Record`). Nothing obliges the provider ever to accept. The other specifications
state no fairness: all they promise is safety, because no service but the outbox
goes on by itself.

## 4. What the proofs establish

For every value of the constants (any number of invoices, requests, mails,
deals, writers, tokens, quotes, expenses, orders, payments, stored objects,
customers, lines), under the modules' named assumptions:

* `LifecycleSafe`, `StatusTellsTheTruth`, `IssuedInvoicesAreBranded`,
  `LifecyclePermanence`, `LifecycleVersions`: the abstract service keeps its
  accounts, and issued invoices are permanent. The conjunction of the four
  invariants is itself inductive; the proof restates it row by row (`AllSound`),
  since each action but `Lapse` touches one row, and shows of each action that
  the row it writes is still sound.
* `LocksProtectRows`: `LockDiscipline`. What a transaction flushed was
  *justified* by the committed row when it flushed it; the inductive step is
  that the row lock keeps the committed row from changing until the flush is
  published, so it still is at the commit.
* `LedgerImplementsLifecycle`: the refinement. Every step but `Commit` and
  `EditOwner` leaves the committed tables alone; a `Commit` is, by
  `LockDiscipline`, the one abstract action its transaction's kind names (the
  nightly job's commit is `Lapse` of the set of rows it locked).
* `LedgerKeepsAccounts`: hence the abstract invariants hold of the concurrent
  service.
* `EditsAreNeverLost`: `NoLostEdit`. The version is compared under the row lock;
  `EditsFit` says that it still is the committed one while the edit is open,
  because by `LockDiscipline` nobody else commits that row.
* `OutboxLosesNothing`, `AttemptsAreReal`, `BatchesStartFresh`: `sent` implies
  taken, `dead` implies the full budget of real attempts. Counts recorded and
  copies loaded never exceed the attempts made; the copies have to be in the
  invariant because a stale copy may be what is written. A locked row is as it
  was loaded, because only its holder may write it and the first write gives up
  every lock.
* `WonDealsAreOnboarded`, `ClosedDealsStayClosed`: the inductive invariant adds
  that existing rows pass their CHECK constraints and that a request's copy was
  one its operation accepts. The evidence columns of a closed deal are what a
  stale write cannot take away, and so the constraint refuses it.
* `NumbersAreNeverReissued`, `TheMarkRises`, `ReferencesAreTyped`: of the tables
  with the trigger, as long as no import commits between a generator's read of the
  mark and its write (`overtaken`); in a table without it an import above the mark
  is what overtakes. The invariant says who excludes whom: one session holds the
  scope's advisory lock, one the row. From that, the mark covers every number
  ever issued, and the number a generator carries is above it from its read to
  its commit.
* `TokensRotateOnce`, `FencesEndTheirSessions`: a token being spent is on the
  denylist, has no successor yet, and one caller alone is spending it
  (`SpendingIsExclusive`), so `Mint` gives it its only successor. For the fence,
  the clock is past every stamp, and a refresh no fence has overlapped still
  holds a token of the current session (`StampsAreOrdered`).
* `QuotesConvertOnce`, `IssuedQuotesCarryHeader`, `ApprovedQuotesStay`,
  `SalesImplementsLifecycle`: the invariant `SalesInv` has the sound invoices of
  `InvoiceLifecycleProofs` beside the quotes. One invoice per quote is not
  inductive: it needs that every invoice in `born` existed from then on, if only
  as a deleted row (`BornApart`), so that a later conversion takes another one,
  and which columns a quote's row has in which status. `BornApart` also says that
  no two quotes share an invoice; the run, with one quote, does not exercise that
  part, the proof covers it. A conversion is a creation to the invoices, which
  gives the fourth theorem, and with it all that is proved of `InvoiceLifecycle`.
* `ExpensesKeepAccounts`, `MarkAsPaidSettlesExactly`, `PaymentsStay`,
  `EditsWereSeen`, `ExpensesSettle`: `AllSound` adds to `AccountsAgree` that a
  deleted expense never had a payment, and that a form whose version is still
  that of the row shows the row as it is. What each action does to a row is one
  of five effects (`Raised`, `Rewritten`, `Paid`, `Carried`, `Gone`), from which
  the refinement of `Settlement` follows without looking at the actions again.
* `NoObjectIsOrphaned`, `RowsKeepTheirObjects`: what a request will do next is
  enough to say which objects have to be there. `StoreInv` gives each request
  what its row locks and its hooks promise (`JobOK`), says that no two requests
  work on one object nor on a parent that one of them deletes (`JobsApart`), and
  that a row whose object is gone is in the hands of a request that deletes both,
  unless the two were torn apart by a failure (`OwnedOK`).
* `SentOrdersStay`, `OrderEditsWereSeen` from the shape of rows and forms alone
  (`OrderInv`); the first, `SentIsPermanent`, is proved and not run. `OrdersKeepTheirBooks`, `DriftStaysBounded`,
  `OrdersSettleWhenCovered` from the sums of the payments: recording adds one payment to
  `amount_paid` at the rate of the request, correcting and deleting sum the table
  again at the rates its rows keep. The two come to the same only for payments in
  the order's own currency, and that is what `OrdersAgree` claims exactly
  (`OrderBooks`); for the others the converted payment is within half a cent of
  what it stands for, and the rate in the row within half its last decimal of the
  one that was asked for, which on every cent of the payment makes the bound of
  `DriftIsBounded` (`Slack`, summed by `TotalsDriftBy`). `SettledAt` says when the
  status follows what the order says is paid.
* `PartiesInvariant`, `CurrenciesAreFrozen`: a version says which currency a
  request read (`ReadFits`; changes of status do not move it); the holder of a
  row's lock excludes other holders and every transaction that has inserted a
  document and not committed it (`Compatible`); so an edit that found no document
  still finds none when it commits.
* `DocumentsAreInOrder`, and from it `TotalsAreAsPreviewed`, `SentInvoicesStand`,
  `DiscountsAddUp`, `TreatmentsAreInForce`, for baskets of any length, any amounts,
  and rates and percentages in parts as fine as you like. `DocOK` says
  of a document as it was typed what its kind and terms call for: lines priced and
  in force (`Drafted`), the total made of its parts (`Totaled`), each line taxed on
  nothing, on its total or on its share (`LinesTaxed`). `RowOK`, the invariant, says
  of the row that some such document leaves it, and of a sent invoice taxed by line
  that the row is such a document itself. What is left of a term when it is stored
  is stored without further loss (`StoredRate`, `StoredDiscount`), so a row can be
  edited, sent and copied as if its terms had been typed. One lemma per operation
  shows that what it leaves alone still fits what it changed, which is where an
  edit that recomputes too little would show. The shares come from the largest
  remainders: what rounding down leaves over is no more than one cent for each
  line that lost a part of one (`FewCentsAreLeft`), and the
  lines ahead of a line by remainder are an order in which exactly the first n
  have fewer than n lines ahead (`RanksCount`), so exactly the cents that are
  left are given out (`SharesAddUp`), none to a line that was not rounded down.
* `BooksInvariant`, `VendorStatementsCarryForward`: `VendorStatementsChain`, for
  any number of expenses, orders, payments and days. The entries of every period
  are a part of one ledger (`Account`), which both the opening balance, a sum in
  SQL, and the rows of the period, a list in Python, are shown to read; so what
  was open before the period and what the period adds make what is open after it
  (`PeriodsAddUp`). The closing balance is a running one, rounded at every row.
  Sorted, every entry is met once (`SortedEnumerates`), and each row moves the
  balance away from the exact sum by half a cent at most (`DriftGrows`), so by
  half a cent for each row in the end (`BalanceDrifts`): the bound the property
  states is what the code keeps, and it cannot be exact as long as converted
  payments are rounded at the row and not in the opening sum. The invariant
  (`MadeFrom`) says the last statement is the one the current tables give.
* `DeskInvariant`, `DeskAlwaysAgrees`: `DeskAgrees`, for any number of deals,
  prospects and owners, any rates, windows, months per quarter and page sizes,
  on any day. The invariant over the history is small (`DeskInv`: a closed deal
  was closed on a day that has come, a lost one for one of the reasons; no page
  needs more of it). The work is in what the pages compute from such rows:
  - *classes*: each page splits the same deals another way (by stage, owner,
    company, status, month of closing, reason). Every deal is in exactly one
    class (`InParts`, `CountedByClass`), so counts add up exactly, and the
    values before rounding too;
  - *rounding*: each figure is within half a cent of its exact sum, so a total
    and its parts differ by half a cent for each rounding on the way (`Near`
    gives each comparison its number of roundings), and that holds of both ways of
    rounding a tie (`HalfUp`, `HalfEven`);
  - *dates*: a deal closes in the quarter exactly when it closes in one of its
    months, and whole days counted by Python fall in the same bucket as SQL's
    comparison with a bound;
  - *lists*: ordered by keys of which no two rows have the same (the
    instant of creation decides last), a list shows every row it selects exactly
    once (`RanksFill`, `RanksAreUsed`), so the length of a list is the count on
    its chip;
  - *pages*: pages of any size (`PageSizes`), and the batches of the export, put
    one after another are the list, and `more` is false on the last of them only
    (`PagesAreWhole`).

What is proved of order payments, of totals, of statements and of the Sales Desk
rests on `SumTheorems`. A sum over a set is the community modules' fold, which
picks one element after another. That the order does not matter, that equal
columns have equal sums, that sums add, scale and compare are proved by a
minimal counterexample among the subsets of the set, whose subset order is well
founded, without an induction theorem that takes an operator. The same module
counts a set by its classes, ranks its members and puts rows in order by their
keys. A recursive function, such as the running balance, is shown to exist, and
a bound on it to hold, by the least number at which it would not.

What the theorems assume is named where the constants are declared, and is what
schemas and columns enforce: amounts are naturals (positive where a payment is
meant), versions and bounds are numbers, the values standing for NULL (`Nothing`,
`None`, `Free`, `NoCustomer`, `NoToken`, "none") are no key, customers are not
vendors (`PartiesConstants`), the payments a table may hold are finitely many
and a rate is positive (`OrderConstants`), and a request has at least one line,
with a known treatment, a discount of at most a hundred percent and a VAT rate of
at most one, each a multiple of some `Fine` part of what its column keeps
(`TotalsConstants`). The tables of the books are sequences of rows whose dates,
totals, payments and rates are naturals (`BooksConstants`). On the Sales Desk (`DeskAssumption`) the tables are finite, a
probability is a percentage, rates are positive and the dollar's own is one, a
deal that counts as active this week is not stale, and the months of the
quarter are among those shown.

Only model-checked:

* liveness (`TransactionsEnd`, `QueueSettles`), which needs fairness and ENABLED;
* `BooksReconcile`: agreements between dozens of queries over the same tables,
  each a filter and a sum or a count of its own. What is worth finding there, a
  status counted in one place and not in the other, is found on two rows. They
  are folds of sequences, selected, grouped and sorted, where what `SumTheorems`
  reaches is a sum over a set.

Violations are by nature shown by TLC only.

## 5. Findings

1. `ledger_race`: `_update_customer_balance` runs under the *invoice's* lock.
   Payments on two invoices of one customer each sum without the other's
   uncommitted row, and the last writes a stale balance.
2. `outbox_batch`: `drain` commits per row, which releases the batch's locks; a
   concurrent drain (the scheduler's `curl` retries after 120 s) sends the rest
   again.
3. `order_copy`: `duplicate` does not set the copy's `balance_due`; once sent,
   the copy counts as settled with nothing paid.
4. `statement_gap`: a customer's statement lists the drafts and canceled
   invoices of its period and adds them up; the next opening balance leaves them
   out.
5. `order_rate`: `record_payment` converts a payment with the rate of the request,
   and every later correction with the rate its row kept, `Numeric(18,8)`. The
   docstring says the two "always agree"; a correction of another payment, or of
   this one's note, may move `amount_paid`, across the total even.

## 6. Also met while reading

These are not spent a run on, because a run above has the same cause or because
the matter is visible from a line or two. The models do what the code does, and
the properties state what is left to hold.

*Transactions.* Issuing an invoice makes it count in the customer balance and
does not recompute it (`docs/database.md:151-153` says each transition does). A
slower failing attempt of a mail overwrites `sent` with `failed`, and the mail
goes out again. Two closes of a deal may both pass, and a lost deal become won
or a won one lost; the same missing row lock lets a stale advance, update or
delete through (`ClosedStaysClosed` says what the constraints still prevent).
`delete_quote` checks DRAFT without a lock (the router says it is refused
otherwise). An import between a generator's read and its write of the mark
lowers the mark (`reference_sequence.py:8-9` says it only rises); the next
number then collides and is retried, or, if its document was deleted meanwhile,
is given again. A stale `activate` can bring a soft-deleted
customer back. An invoice may be created in a currency read before the
customer's currency changed. Two engagements of one prospect, two toggles of one
onboarding task and two guesses of one code each race without a lock.

*Money.* Totals are worked out with the VAT rate, and in an edit with the discount
percentage, as the request carries them; the columns keep four and two decimals.
Sending an invoice taxed by line (`invoices/service.py:694`) works its totals out
again from the row and may change them by cents; so do copying and converting.
The policy in `financial.py:24-25` says totals are "reproducible across
recalculation". `SavedAsPreviewed` is therefore about the terms as they were
typed, and `SentTotalsStand` about those of the row. The weighted value of a deal
(`deals/service.py:545`) and the dollar figures of the Sales Desk
(`sales_desk/service.py:156`) are rounded half to even, where `financial.py:18-26`
says half up everywhere: 4.5 cents are 4 on the desk. `DeskAgrees` holds with
both.

*References.* `purchase_orders` and billing profiles have no trigger that raises
the mark (`reference_triggers.py:88-113`). A draft order imported under a number
above the mark and deleted leaves that number to be given again;
`docs/database.md:73` says no reuse, ever, of orders too. `NeverReissued` excepts
it (`overtaken`).

*Parties.* A vendor's currency may change while its documents are open
(`vendors/service.py:1010`), after which its payables are summed over two
currencies; `expenses/service.py:161-177` says a vendor transacts in one.

*Objects.* `remove_logo` deletes the object that issued snapshots refer to.
A document of an order is deleted from the store before the commit, although the
docstring at `purchase_orders/service.py:1102-1107` says after.

*Documents.* An expired draft quote can be mailed without a status change or an
owner header; approve has no version check. A converted quote with line taxes
and a discount has another tax as an invoice. An edit of a sent quote may change
its amounts, and one that names no discount removes it (`quotes/schemas.py:362`);
the docstring at `quotes/service.py:451` says no amount changes. A sign-in within the very second
of a fence is turned away. The order router (416-427) says an overpayment is
rejected; the service takes it. `README.md:300` says a SENT invoice allows
limited edits; the code allows edits of drafts only.

*Figures.* The dashboard's docstring on receivables (`dashboard/queries.py:73`)
does not hold of overpaid invoices. The orders card of a vendor does not add up
to paid plus pending for a duplicated order, and its payments card includes
those of canceled documents. The tab count of overdue invoices is not the length
of the list filtered by that status. Quotes the nightly job marked expired are
under no tab but "all". Invoice statistics mix currencies. The pipeline list, a
vendor's transactions and cards, and the vendor list are paged by an order that
is not unique, so two pages may repeat or skip a row when another transaction
commits in between (the export runs in one snapshot). `BooksReconcile` and
`DeskAgrees` state the agreements that hold, with these exceptions in them.

## 7. Not modelled, and what is next

Not modelled:

* one-time codes, password reset tokens, passwords: reads and writes of single
  rows without locks, whose one hazard is listed;
* the limiters: counters nothing else depends on;
* onboarding tasks and their completion; module settings of the owner; contacts,
  activity texts, products and search boxes; filters by recurrence and delivery;
  counts of new customers;
* billing profiles, but for the gate they are to a conversion;
* Redis being down, when the denylist fails open and promises nothing; the
  legacy 8 % rate, which new documents may not use;
* PDF and Excel rendering (formatting), request schemas (each input an action
  enumerates is one they accept), and the frontend's pages, whose forms are the
  clients of the models.

Next: onboarding tasks beside the close of their deal, one-time codes and the
engagement of a prospect, each with the race its listed hazard names; then
`BooksReconcile` for any number of documents, query by query.
