\* One order: a deposit left open by the earlier release, re-pricing, refunds,
\* production and invoicing.
SPECIFICATION Spec
CONSTANTS
    Totals = {1, 2}
    Deposits = {1}
    Parts = {glass, hinge}
    MaxQuotes = 2
    MaxAttempts = 2
    MaxDrafts = 2
    NoPayment = NoPayment
    NoDraft = NoDraft
SYMMETRY Symmetry
INVARIANTS
    DoorTypeOK
    MoneyFitsQuote
    MaterialsFollowOrder
    InvoiceNamesQuote
PROPERTIES
    AcceptedAsSeen
CHECK_DEADLOCK FALSE
