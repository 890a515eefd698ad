------------------------------ MODULE Settlement ------------------------------
(***************************************************************************)
(* What every payable promises, whichever table it lives in: so much is    *)
(* owed, so much was received, and the document counts as settled exactly  *)
(* when a payment has covered what is owed.  PurchaseOrders and Expenses   *)
(* implement this module, each with its own statuses and its own way of    *)
(* keeping the sums.                                                       *)
(***************************************************************************)
EXTENDS Integers

CONSTANTS Documents, Sums      \* the totals and payments there may be

VARIABLES owed, received, standing

vars == <<owed, received, standing>>

Standings == {"none", "open", "settled", "void", "gone"}

Init ==
    /\ owed = [d \in Documents |-> 0]
    /\ received = [d \in Documents |-> 0]
    /\ standing = [d \in Documents |-> "none"]

Raise(d, sum) ==
    /\ standing[d] = "none"
    /\ owed' = [owed EXCEPT ![d] = sum]
    /\ standing' = [standing EXCEPT ![d] = "open"]
    /\ UNCHANGED received

\* What is owed may change while the document is open, never below what was
\* received.
Reprice(d, sum) ==
    /\ standing[d] = "open"
    /\ sum >= received[d]
    /\ owed' = [owed EXCEPT ![d] = sum]
    /\ UNCHANGED <<received, standing>>

\* A payment is recorded, corrected or taken back.
Receive(d) ==
    /\ standing[d] \in {"open", "settled"}
    /\ received'[d] \in Nat
    /\ received' = [received EXCEPT ![d] = received'[d]]
    /\ standing' = [standing EXCEPT ![d] =
                      IF received'[d] >= owed[d] THEN "settled" ELSE "open"]
    /\ UNCHANGED owed

Settle(d) ==
    /\ standing[d] = "open"
    /\ received[d] >= owed[d]
    /\ standing' = [standing EXCEPT ![d] = "settled"]
    /\ UNCHANGED <<owed, received>>

Void(d) ==
    /\ standing[d] \in {"open", "settled"}
    /\ standing' = [standing EXCEPT ![d] = "void"]
    /\ UNCHANGED <<owed, received>>

\* Only a document nothing was received for can disappear.
Remove(d) ==
    /\ standing[d] \in {"open", "settled", "void"}
    /\ received[d] = 0
    /\ standing' = [standing EXCEPT ![d] = "gone"]
    /\ UNCHANGED <<owed, received>>

Next ==
    \E d \in Documents :
        \/ \E sum \in Sums : Raise(d, sum) \/ Reprice(d, sum)
        \/ Receive(d)
        \/ Settle(d)
        \/ Void(d)
        \/ Remove(d)

Spec == Init /\ [][Next]_vars
===============================================================================
