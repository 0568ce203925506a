\* Two checkout orders and a staff order that can be paid, cancelled, expired or sold on credit,
\* two attempts and two concurrent verifications.
SPECIFICATION Spec
CONSTANTS
    Orders = {o1, o2, o3}
    StaffOrders = {o2}
    Payments = {p1, p2}
    Callers = {c1, c2}
    Amount = 2
    MaxRedemptions = 1
    Ttl = 1
    MaxTime = 1
    NoPayment = NoPayment
    NoCall = NoCall
SYMMETRY Symmetry
INVARIANTS
    StockFollowsOrder
    NoLostSettlement
    NoDoubleCharge
    SettlementAccounted
    NeverAttempted
    RefundsBounded
    PromotionCapacity
PROPERTIES
    OutcomesAreFinal
CHECK_DEADLOCK FALSE
