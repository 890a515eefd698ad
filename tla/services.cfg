SPECIFICATION ServicesSpec
CONSTANTS
    Deals = {d1}
    Workers = {w1, w2}
    Values = {v1, v2}
    LastStage = 3
    MaxVersion = 5
    Writers = {x1, x2}
    MaxNumber = 4
    MaxTries = 1
    Tokens = {t1, t2, t3}
    Callers = {r1, r2}
    NoToken = NoToken
    MaxTime = 3
    MaxFences = 2
    Clients = {"cust"}
    Suppliers = {"sup"}
    Papers = {p1, p2}
    Clerks = {k1, k2}
    MaxRowVersion = 2
    Currencies = {"KES", "USD"}
    Fine = 2
    Baskets <- SomeBaskets
    Discounts <- SomeDiscounts
    VatRates = {0, 1600, 2427}
    Dates = {20260415, 20260416}
    InvoiceTables <- InvoicePairs
    ExpenseTables <- ExpenseSingles
    OrderTables <- OrderPairs
    QuoteTables <- QuotePairs
    Customers = {"c1", "c2"}
    Vendors = {"v1", "v2"}
    LastDay = 3
    RateUnit = 2
    Nobody = "nobody"
INVARIANTS
    OnboardingFollowsWon
    NeverReissued
    RotatedOnce
    FencesEndSessions
    SavedAsPreviewed
    SentTotalsStand
    AllocationAddsUp
    TreatmentsFitTheDate
    BooksReconcile
PROPERTIES
    ClosedStaysClosed
    MarkFallsOnlyIfOvertaken
    FrozenCurrency
    VendorStatementsChain
CHECK_DEADLOCK FALSE
