\* An order's settlement beside a purchase receipt.
SPECIFICATION Spec
CONSTANTS
    Orders = {o1}
    Documents = {d1}
    Locations = {1, 2}
    Variants = {1, 2}
    ReservationsOf <- MCReservationsOf
    Callers = {c1, c2}
    Commands = {"order", "document"}
    Attempts = 2
    NoTxn = NoTxn
INVARIANT NoDeadlock
