SPECIFICATION Spec
CONSTANTS
    Orders = {o1}
    Clients = {c1}
    Payments = {p1}
    Totals = {2}
    Amounts = {3}
    Rates = {1, 4}
    RateUnit = 4
    Step = 2
    MaxVersion = 4
    Nothing = Nothing
INVARIANTS
    RecordAndResyncAgree
CHECK_DEADLOCK FALSE
