SPECIFICATION FairIssuedSpec
CONSTANTS
    Invoices = {i1, i2}
    Customers = {c1}
    NoCustomer = NoCustomer
    Totals = {2}
    Amounts = {1, 2}
    MaxVersion = 3
    MaxEdition = 2
    Workers = {w1, w2}
    Free = Free
PROPERTIES
    TransactionsEnd
CHECK_DEADLOCK FALSE
