-------------------------------- MODULE Payables --------------------------------
(***************************************************************************)
(* Expenses, purchase orders and the objects they store.  The three        *)
(* services share no row, so a behaviour follows one of them; `part` says  *)
(* which.                                                                  *)
(***************************************************************************)
EXTENDS Expenses, StoredObjects

CONSTANTS Orders, Payments, Buyers, OrderTotals, OrderAmounts, Rates, RateUnit, RateStep

VARIABLES order, payment, orderForm, part

orderVars == <<order, payment, orderForm>>
payableVars == <<vars, orderVars, storeVars, part>>

PO == INSTANCE PurchaseOrders WITH
    form <- orderForm, Clients <- Buyers, Totals <- OrderTotals, Amounts <- OrderAmounts,
    Step <- RateStep

ASSUME OrderAssumption == PO!OrderConstants

PayableInit ==
    /\ part \in {"expenses", "orders", "objects"}
    /\ Init /\ PO!Init /\ StoreInit

ExpenseStep ==
    part = "expenses" /\ Next /\ UNCHANGED <<orderVars, storeVars, part>>

OrderStep ==
    part = "orders" /\ PO!Next /\ UNCHANGED <<vars, storeVars, part>>

ObjectStep ==
    part = "objects" /\ StoreNext /\ UNCHANGED <<vars, orderVars, part>>

PayableSpec == PayableInit /\ [][ExpenseStep \/ OrderStep \/ ObjectStep]_payableVars

\* The row, its payments and its status agree: PurchaseOrders!OrdersAgree.
OrdersAgree == PO!OrdersAgree

\* What conversion and the column of the rate may lose: PurchaseOrders!DriftIsBounded.
DriftIsBounded == PO!DriftIsBounded

\* A sent order stays, with its total: PurchaseOrders!SentIsPermanent.
SentIsPermanent == PO!SentIsPermanent

\* No unseen change is edited away: PurchaseOrders!OrderEditsReplaceWhatWasSeen.
OrderEditsReplaceWhatWasSeen == PO!OrderEditsReplaceWhatWasSeen

\* An order is settled when its payments cover it: it implements Settlement.
OrdersSettle == PO!OrdersSettle
===============================================================================
