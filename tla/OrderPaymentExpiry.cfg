\* A checkout and a staff order, with the expiry worker running; pages of one
\* order, and room for one job.
SPECIFICATION ExpirySpec
CONSTANTS
    Orders = {1, 2}
    StaffOrders = {2}
    Payments = {p1}
    Callers = {c1}
    Amount = 1
    MaxRedemptions = 1
    Ttl = 1
    MaxTime = 2
    NoPayment = NoPayment
    NoCall = NoCall
    PageSize = 1
    MaxBacklog = 3
    JobAttempts = 2
    MaxFaults = 1
    NoPage = NoPage
PROPERTIES
    AbandonedOrderCloses
CHECK_DEADLOCK FALSE
