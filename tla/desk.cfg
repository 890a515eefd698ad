SPECIFICATION DeskSpec
CONSTANTS
    Deals = {"d1", "d2"}
    Prospects = {p1}
    Owners = {"ann", "bob"}
    Everyone = Everyone
    Customers = {"c1", "c2"}
    CustomerOf <- FirstCustomer
    Terms <- Offers
    Plans <- Prospecting
    Currencies = {"KES", "USD"}
    UnitsPerUsd <- Rates
    RateUnit = 2
    LastStage = 2
    Probability <- Chances
    WonReasons = {"fit"}
    LostReasons = {"price"}
    Dates = {3}
    LastDay = 3
    Week = 0
    StaleAfter = 1
    OldAfter = 1
    UpcomingWindow = 1
    MonthLength = 1
    QuarterMonths = 2
    RollingMonths = 3
    PageSizes = {1, 2}
INVARIANT DeskAgrees
CHECK_DEADLOCK FALSE
