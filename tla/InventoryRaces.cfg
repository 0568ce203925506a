\* Two reservations of up to two units, on one balance or on two.
SPECIFICATION Spec
CONSTANTS
    l1 = l1
    StockKeys = {k1, k2}
    Locations = {l1}
    LocationOf <- MCLocationOf
    ReservationIds = {r1, r2}
    Orders = {o1}
    Callers = {c1}
    IdemKeys = {}
    MaxQuantity = 2
    MaxOnHand = 2
    MaxVersion = 6
    MaxTime = 1
    BatchSize = 1
    NoReservation = NoReservation
    NoCall = NoCall
    NoSnapshot = NoSnapshot
    NoKey = NoKey
SYMMETRY Symmetry
INVARIANTS
    ReservedIsHeld
    LedgerReconciles
    NoOversell
    VersionNamesContent
PROPERTIES
    SettledOnce
    OverdueOnlyExpires
