--------------------------- MODULE MCQuoteConversion ---------------------------
(***************************************************************************)
(* For TLC: quotes and the invoices they become.  In a behaviour whose     *)
(* `part` is "invoices" there are no quotes, and an invoice lives longer.  *)
(***************************************************************************)
EXTENDS QuoteConversion, TLC

CONSTANTS Buyers, MaxInvoiceVersion

VARIABLE part

Life == INSTANCE InvoiceLifecycle WITH
    Customers <- Buyers, MaxVersion <- MaxInvoiceVersion

ChainInit == SalesInit /\ part \in {"sales", "invoices"}

SalesStep == part = "sales" /\ SalesNext /\ UNCHANGED part

LifeStep == part = "invoices" /\ Life!Next /\ UNCHANGED <<salesOnly, part>>

ChainSpec == ChainInit /\ [][SalesStep \/ LifeStep]_<<salesVars, part>>

Symmetry == Permutations(Invoices)
===============================================================================
