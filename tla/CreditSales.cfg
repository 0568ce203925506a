\* Two orders of one customer, paid or sold on credit, shipped and taken back.
SPECIFICATION Spec
CONSTANTS
    good = good
    gift = gift
    Orders = {o1, o2}
    Lines = {good, gift}
    Quantity <- MCQuantity
    Price <- MCPrice
    Opening = Opening
    Limits = {4}
    MaxDebt = 4
    MaxReturns = 2
    Amounts = {1}
    MaxUnits = 2
    ReceiptIds = {r1}
    NoFulfilment = NoFulfilment
    NoDocument = NoDocument
    NoAccount = NoAccount
SYMMETRY Symmetry
INVARIANTS
    TypeOK
    CompensationReconciles
PROPERTIES
    GoodsLeaveBacked
CHECK_DEADLOCK FALSE
