---------------------------- MODULE MCInvoiceLedger ----------------------------
(* InvoiceLedger on small instances. *)
EXTENDS InvoiceLedger, TLC

Symmetry == Permutations(Workers) \cup Permutations(Invoices)

\* All invoices issued and nothing paid, the balance in step with them: what a
\* customer's rows look like once a further invoice of theirs was canceled.
IssuedInit ==
    /\ edition = 1
    /\ \E c \in Customers, total \in [Invoices -> Totals] :
          /\ invoice = [i \in Invoices |-> IssuedRow(Draft(c, total[i]), 1)]
          /\ balance = [d \in Customers |-> Rollup(invoice, d)]
    /\ received = [i \in Invoices |-> 0]
    /\ mailed = {}
    /\ pending = invoice
    /\ rowLock = [i \in Invoices |-> Free]
    /\ custLock = [c \in Customers |-> Free]
    /\ txn = [w \in Workers |-> NoTxn]
    /\ resync = [w \in Workers |-> NoResync]

IssuedSpec == IssuedInit /\ [][Next]_vars

FairIssuedSpec == IssuedSpec /\ Fairness
================================================================================
