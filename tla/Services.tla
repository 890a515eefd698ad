------------------------------- MODULE Services -------------------------------
(***************************************************************************)
(* The services that share no table: deals, reference numbers and refresh  *)
(* tokens as they are, the customers and vendors of module Parties as P,   *)
(* the money of one document, module Totals, as T, and the books with      *)
(* their statements of account, module Books, as A.                        *)
(***************************************************************************)
EXTENDS DealPipeline, ReferenceNumbers, RefreshTokens

CONSTANTS Clients, Suppliers, Papers, Clerks, Currencies, MaxRowVersion,   \* Parties
          Fine, Baskets, Discounts, VatRates, Dates,                       \* Totals
          InvoiceTables, ExpenseTables, OrderTables, QuoteTables,          \* Books
          Customers, Vendors, LastDay, RateUnit, Nobody

VARIABLES party, paper, asked, doc, invoices, expenses, orders, quotes, statement

P == INSTANCE Parties WITH
    Customers <- Clients, Vendors <- Suppliers, MaxVersion <- MaxRowVersion, call <- asked

T == INSTANCE Totals

A == INSTANCE Books

ASSUME PartiesAssumption == P!PartiesConstants
ASSUME TotalsAssumption == T!TotalsConstants
ASSUME BooksAssumption == A!BooksConstants

bookVars == <<invoices, expenses, orders, quotes, statement>>

partyVars == <<party, paper, asked>>

\* A customer's currency changes only while it has no document: Parties!FrozenCurrency.
FrozenCurrency == P!FrozenCurrency

\* The saved totals are the previewed ones: Totals!SavedAsPreviewed.
SavedAsPreviewed == T!SavedAsPreviewed

\* A sent invoice's totals are those of its row: Totals!SentTotalsStand.
SentTotalsStand == T!SentTotalsStand

\* A discount is spread to the cent: Totals!AllocationAddsUp.
AllocationAddsUp == T!AllocationAddsUp

\* A line's treatment is in force on the document's date: Totals!TreatmentsFitTheDate.
TreatmentsFitTheDate == T!TreatmentsFitTheDate

\* A vendor's statements carry forward: Books!VendorStatementsChain.
VendorStatementsChain == A!VendorStatementsChain

\* A customer's statements carry forward: Books!CustomerStatementsChain.
CustomerStatementsChain == A!CustomerStatementsChain
===============================================================================
