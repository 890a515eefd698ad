SPECIFICATION IssuedSpec
CONSTANTS
    Invoices = {i1, i2}
    Customers = {c1}
    NoCustomer = NoCustomer
    Totals = {2}
    Amounts = {1, 2}
    MaxVersion = 5
    MaxEdition = 1
    Workers = {w1, w2}
    Free = Free
PROPERTIES
    BalanceFollowsMoney
CHECK_DEADLOCK FALSE
