-------------------------------- MODULE MCDesk --------------------------------
(***************************************************************************)
(* For TLC: the Sales Desk.  Values that do not convert evenly; each day   *)
(* is a month, and a quarter has two.                                      *)
(***************************************************************************)
EXTENDS Desk

FirstCustomer == [d \in Deals |-> IF d = "d1" THEN "c1" ELSE "c2"]

Offers == { [owner |-> "ann", value |-> 5, currency |-> "KES"],
            [owner |-> "bob", value |-> 3, currency |-> "USD"] }

Prospecting == { [owner |-> "nobody", value |-> 3, on |-> 3] }

Rates == [KES |-> 5, USD |-> 2]

Chances == <<10, 75>>
===============================================================================
