SPECIFICATION Spec
CONSTANTS
    Orders = {o1, o2}
    Clients = {c1}
    Payments = {p1}
    Totals = {2}
    Amounts = {2}
    Rates = {1}
    RateUnit = 1
    Step = 1
    MaxVersion = 4
    Nothing = Nothing
INVARIANTS
    SettledMeansPaid
CHECK_DEADLOCK FALSE
