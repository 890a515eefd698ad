SPECIFICATION Spec
CONSTANTS
    Invoices = {i1, i2}
    Customers = {c1}
    NoCustomer = NoCustomer
    Totals = {2}
    Amounts = {1, 2}
    MaxVersion = 4
    MaxEdition = 1
    Workers = {w1, w2}
    Free = Free
INVARIANTS
    LockDiscipline
PROPERTIES
    Implements
    NoLostEdit
SYMMETRY Symmetry
CHECK_DEADLOCK FALSE
