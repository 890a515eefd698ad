------------------------------ MODULE MCPayables ------------------------------
(***************************************************************************)
(* For TLC: the payables.                                                  *)
(***************************************************************************)
EXTENDS Payables, TLC

Symmetry == Permutations(Orders) \cup Permutations(Payments)
               \cup Permutations(Buyers) \cup Permutations(Workers)
===============================================================================
