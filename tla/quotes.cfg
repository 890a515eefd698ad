SPECIFICATION ChainSpec
CONSTANTS
    Invoices = {i1, i2}
    Customers = {c1}
    Buyers = {c1, c2}
    NoCustomer = NoCustomer
    Totals = {0, 2}
    Amounts = {1, 2}
    MaxVersion = 2
    MaxInvoiceVersion = 4
    MaxEdition = 2
    Quotes = {q1}
    Clerks = {k1}
    Nothing = Nothing
    MaxQuoteVersion = 4
INVARIANTS
    MoneyAccounted
    StatusMatchesMoney
    IssuedIsBranded
    OneInvoicePerQuote
    IssuedQuotesAreBranded
PROPERTIES
    IssuedIsPermanent
    ApprovedIsPermanent
SYMMETRY Symmetry
CHECK_DEADLOCK FALSE
