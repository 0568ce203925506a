\* All commands: an order's locks may cross those of a document.
SPECIFICATION FairSpec
CONSTANTS
    Orders = {o1}
    Documents = {d1}
    Locations = {1, 2}
    Variants = {1, 2}
    ReservationsOf <- MCReservationsOf
    Callers = {c1, c2}
    Commands = {"order", "sweep", "document", "stock"}
    Attempts = 2
    NoTxn = NoTxn
INVARIANTS
    SortedCommandsNeverDeadlock
PROPERTIES
    EveryCallEnds
