SPECIFICATION PayableSpec
CONSTANTS
    Expenses = {e1, e2}
    Clients = {c1}
    Totals = {0, 2}
    Amounts = {1}
    MaxVersion = 4
    Nothing = Nothing
    None = None
    Orders = {o1, o2}
    Buyers = {c1, c2}
    Payments = {p1, p2}
    OrderTotals = {2, 4}
    OrderAmounts = {3}
    Rates = {1, 4}
    RateUnit = 4
    RateStep = 2
    Workers = {w1, w2}
    Parents = {a1}
    Documents = {d1, d2}
    Logos = {l1, l2}
    MaxFailures = 1
INVARIANTS
    AccountsAgree
    OrdersAgree
    DriftIsBounded
    NoOrphans
    RowsHaveObjects
PROPERTIES
    SettlesExactly
    PaymentsAreKept
    EditsReplaceWhatWasSeen
    ImplementsSettlement
    OrderEditsReplaceWhatWasSeen
    OrdersSettle
SYMMETRY Symmetry
CHECK_DEADLOCK FALSE
