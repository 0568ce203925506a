-------------------------- MODULE OrderPaymentProofs --------------------------
(***************************************************************************)
(* The safety properties of OrderPayment for every set of orders, attempts *)
(* and concurrent verifications and every bound.                           *)
(*                                                                         *)
(* NoDoubleCharge and SettlementAccounted are not inductive: why a second  *)
(* attempt can be registered only when the first one can never be paid     *)
(* needs to know how far each initiate() call has come (AttemptState),     *)
(* what a verification under way has been told (CallState), that an order  *)
(* has one attempt that has not failed (OneLiveAttempt), and that the      *)
(* worker's expiry is for good (ExpiredStaysClosed).                       *)
(***************************************************************************)
EXTENDS OrderPayment, FiniteSetTheorems, TLAPS

\* Where an initiate() call is, what the gateway knows and what is stored.
AttemptState ==
    \A p \in Payments :
        /\ ~Exists(p) => initiation[p] = "none" /\ gateway[p] = "none"
        /\ Exists(p) =>
             /\ order[payment[p].order].status # "NONE"
             /\ initiation[p] # "none"
             /\ initiation[p] \in {"authorizing", "rejected"} =>
                  gateway[p] = "none" /\ payment[p].status = "PENDING"
             /\ initiation[p] = "redirect" =>
                  /\ gateway[p] = "open"
                  /\ payment[p].status = "PENDING" /\ ~payment[p].authority
             /\ gateway[p] = "none" => ~payment[p].authority
             /\ gateway[p] \in {"offered", "paid", "closed"} => payment[p].authority
             /\ payment[p].status = "FAILED" => gateway[p] \in {"none", "closed"}
             /\ payment[p].status \in Settled => gateway[p] = "paid"

\* A verification is about a stored attempt, and what it was told is so.
CallState ==
    \A c \in Callers : call[c] # NoCall =>
        /\ Exists(call[c].payment)
        /\ payment[call[c].payment].authority
        /\ call[c].step = "verified" => gateway[call[c].payment] = "paid"
        /\ call[c].step = "failed" => gateway[call[c].payment] = "closed"

OneLiveAttempt ==
    \A p, q \in Payments :
        /\ Exists(p) /\ Exists(q) /\ payment[p].order = payment[q].order
        /\ payment[p].status # "FAILED" /\ payment[q].status # "FAILED"
        => p = q

ExpiredStaysClosed ==
    \A o \in Orders : <<"ORDER_EXPIRED", o>> \in events => order[o].status = "CANCELLED"

NoRedemptionYet ==
    \A o \in Orders : order[o].status = "NONE" => order[o].redemption = "NONE"

\* The parts that speak of orders, attempts and the gateway.
MoneyInv ==
    /\ StockFollowsOrder /\ AttemptState /\ CallState /\ OneLiveAttempt
    /\ SettlementAccounted /\ NeverAttempted /\ ExpiredStaysClosed

IInv == TypeOK /\ MoneyInv /\ NoRedemptionYet /\ PromotionCapacity /\ RefundsBounded

-----------------------------------------------------------------------------
(* Capacity                                                                *)

\* The redemptions that hold capacity are finitely many.
LEMMA HoldingFinite == IsFiniteSet(Holding) /\ Cardinality(Holding) \in Nat
<1>1. Holding \in SUBSET Orders
  BY DEF Holding
<1>2. IsFiniteSet(Holding)
  BY <1>1, OrdersAssumption, FS_Subset
<1> QED
  BY <1>2, FS_CardinalityType

\* One redemption changes: the count moves by one exactly when it starts or
\* stops holding capacity.
LEMMA RedemptionStep ==
    ASSUME NEW o \in Orders,
           \A x \in Orders : x # o => order'[x].redemption = order[x].redemption
    PROVE  /\ o \notin Holding /\ o \in Holding' =>
                Cardinality(Holding') = Cardinality(Holding) + 1
           /\ o \in Holding /\ o \notin Holding' =>
                /\ Cardinality(Holding') = Cardinality(Holding) - 1
                /\ Cardinality(Holding) >= 1
           /\ (o \in Holding <=> o \in Holding') => Holding' = Holding
<1>1. ASSUME o \notin Holding, o \in Holding'
      PROVE  Cardinality(Holding') = Cardinality(Holding) + 1
  <2>1. Holding' = Holding \cup {o}
    BY <1>1 DEF Holding
  <2> QED
    BY <1>1, <2>1, HoldingFinite, FS_AddElement
<1>2. ASSUME o \in Holding, o \notin Holding'
      PROVE  /\ Cardinality(Holding') = Cardinality(Holding) - 1
             /\ Cardinality(Holding) >= 1
  <2>1. Holding' = Holding \ {o}
    BY <1>2 DEF Holding
  <2>2. Cardinality(Holding') = Cardinality(Holding) - 1
    BY <1>2, <2>1, HoldingFinite, FS_RemoveElement
  <2>3. Cardinality(Holding') \in Nat
    BY <2>1, HoldingFinite, FS_Subset, FS_CardinalityType
  <2> QED
    BY <2>2, <2>3, HoldingFinite
<1>3. ASSUME o \in Holding <=> o \in Holding'
      PROVE  Holding' = Holding
  BY <1>3 DEF Holding
<1> QED
  BY <1>1, <1>2, <1>3

-----------------------------------------------------------------------------
(* What a step does to one payment row and to one order                    *)

\* The step writes the row of p, and no other payment.
PaymentBecomes(p, status, authority, refunded) ==
    /\ payment' \in [Payments -> Payment \cup {NoPayment}]
    /\ Exists(p) /\ Exists(p)'
    /\ payment'[p].order = payment[p].order /\ payment[p].order \in Orders
    /\ payment'[p].status = status
    /\ payment'[p].authority = authority
    /\ payment'[p].refunded = refunded
    /\ \A q \in Payments : q # p => payment'[q] = payment[q]

\* The step writes the order o, and no other order.
OrderBecomes(o, status, stock, redemption, fulfilled) ==
    /\ order' \in [Orders -> Order]
    /\ order'[o].status = status /\ order'[o].stock = stock
    /\ order'[o].redemption = redemption /\ order'[o].fulfilled = fulfilled
    /\ \A x \in Orders : x # o => order'[x] = order[x]

\* An outcome takes no money from an order that was paid before.
LEMMA PaidStaysPaid ==
    ASSUME SettlementAccounted, NEW p \in Payments, NEW status, NEW authority, NEW refunded,
           PaymentBecomes(p, status, authority, refunded),
           payment[p].status \in Settled => status \in Settled,
           UNCHANGED gateway, NEW x \in Orders, order[x].status = "PAID"
    PROVE  \E q \in AttemptsOf(x)' : payment'[q].status \in Settled /\ gateway'[q] = "paid"
<1>1. PICK q \in AttemptsOf(x) : payment[q].status \in Settled /\ gateway[q] = "paid"
  BY DEF SettlementAccounted
<1>2. q \in Payments /\ Exists(q) /\ payment[q].order = x
  BY <1>1 DEF AttemptsOf
<1>3. Exists(q)' /\ payment'[q].order = x /\ payment'[q].status \in Settled
  BY <1>1, <1>2 DEF PaymentBecomes, Exists
<1>4. q \in AttemptsOf(x)'
  BY <1>2, <1>3 DEF AttemptsOf
<1> QED
  BY <1>1, <1>3, <1>4

\* A stored payment is a row of the table.
LEMMA StoredRow ==
    ASSUME TypeOK, NEW p \in Payments, Exists(p)
    PROVE  payment[p] \in Payment
  BY DEF TypeOK, Exists

\* A row of the table is not the null.
LEMMA RowStored ==
    ASSUME NEW row \in Payment
    PROVE  row # NoPayment
  BY NullAssumption

\* Booking an outcome, with or without a refund, writes one row.
LEMMA OutcomeWrites ==
    ASSUME TypeOK, NEW p \in Payments, Exists(p),
           NEW status \in PaymentStatuses, NEW refunded \in 0..Amount,
           \/ payment' = [payment EXCEPT ![p].refunded = refunded, ![p].status = status]
           \/ /\ payment' = [payment EXCEPT ![p].status = status]
              /\ refunded = payment[p].refunded
    PROVE  PaymentBecomes(p, status, payment[p].authority, refunded)
<1>1. payment[p] \in Payment
  BY StoredRow
<1>2. payment'[p] \in Payment
  BY <1>1 DEF Payment, TypeOK
<1>3. payment' \in [Payments -> Payment \cup {NoPayment}]
  BY <1>2 DEF TypeOK
<1> QED
  BY <1>1, <1>2, <1>3, RowStored DEF PaymentBecomes, Payment, Exists, TypeOK

-----------------------------------------------------------------------------
(* The inductive invariant                                                 *)

\* Nothing has happened yet.
THEOREM InitIInv == Init => IInv
<1> SUFFICES ASSUME Init PROVE IInv
  OBVIOUS
<1>1. TypeOK
  BY BoundsAssumption DEF Init, TypeOK, Order, Payment, Call, OrderStatuses, PaymentStatuses, Topics, InitiationSteps, Sessions
<1>2. MoneyInv
  BY DEF Init, MoneyInv, StockFollowsOrder, AttemptState, CallState, OneLiveAttempt,
     SettlementAccounted, NeverAttempted, ExpiredStaysClosed, Exists, AttemptsOf
<1>3. Holding = {}
  BY DEF Init, Holding
<1>4. PromotionCapacity
  BY <1>3, FS_EmptySet, BoundsAssumption DEF Init, PromotionCapacity
<1>5. NoRedemptionYet /\ RefundsBounded
  BY DEF Init, NoRedemptionYet, RefundsBounded, Exists
<1> QED
  BY <1>1, <1>2, <1>4, <1>5 DEF IInv

\* Every step of an order command, an initiation, a verification, a refund or
\* the gateway keeps the invariant.
THEOREM NextIInv == IInv /\ [Next]_vars => IInv'
<1> SUFFICES ASSUME IInv, [Next]_vars PROVE IInv'
  OBVIOUS
<1> USE DEF IInv, MoneyInv
<1>1. ASSUME NEW o \in Orders, NEW redemption \in {"NONE", "RESERVED"},
             Checkout(o, redemption)
      PROVE  IInv'
  <2>1. OrderBecomes(o, "PENDING_PAYMENT", "ACTIVE", redemption, FALSE)
    BY <1>1, BoundsAssumption DEF Checkout, NewOrder, OrderBecomes, TypeOK, Order,
       OrderStatuses
  <2>2. /\ order[o].status = "NONE" /\ order[o].redemption = "NONE"
        /\ UNCHANGED <<payment, initiation, gateway, call, now>>
        /\ events' = events \cup {<<"ORDER_CREATED", o>>}
    BY <1>1 DEF Checkout, NoRedemptionYet
  <2>3. StockFollowsOrder' /\ AttemptState' /\ CallState' /\ OneLiveAttempt' /\
        NeverAttempted' /\ ExpiredStaysClosed' /\ NoRedemptionYet' /\ RefundsBounded'
    BY <2>1, <2>2 DEF StockFollowsOrder, AttemptState, Exists, Settled, CallState,
       OneLiveAttempt, NeverAttempted, AttemptsOf, ExpiredStaysClosed, NoRedemptionYet,
       RefundsBounded, OrderBecomes, TypeOK, Payment
  <2>4. SettlementAccounted'
    BY <2>1, <2>2 DEF SettlementAccounted, AttemptsOf, Exists, Settled, OrderBecomes,
       TypeOK, Payment
  <2>5. PromotionCapacity'
    BY <1>1, <2>1, <2>2, RedemptionStep, HoldingFinite, BoundsAssumption DEF
       PromotionCapacity, Holding, Checkout, OrderBecomes, CapacityLeft
  <2>6. TypeOK'
    BY <1>1, <2>1, <2>2, BoundsAssumption DEF TypeOK, Order, Payment, Call, OrderStatuses,
       PaymentStatuses, Topics, InitiationSteps, Sessions, Checkout, OrderBecomes, CapacityLeft
  <2> QED
    BY <2>3, <2>4, <2>5, <2>6
<1>2. ASSUME NEW o \in Orders, CreateStaffOrder(o)
      PROVE  IInv'
  <2>1. OrderBecomes(o, "PENDING_PAYMENT", "ACTIVE", "NONE", FALSE)
    BY <1>2, BoundsAssumption DEF CreateStaffOrder, NewOrder, OrderBecomes, TypeOK, Order,
       OrderStatuses
  <2>2. /\ order[o].status = "NONE" /\ order[o].redemption = "NONE"
        /\ UNCHANGED <<payment, usedCount, initiation, gateway, call, now>>
        /\ events' = events \cup {<<"ORDER_CREATED", o>>}
    BY <1>2 DEF CreateStaffOrder, NoRedemptionYet
  <2>3. StockFollowsOrder' /\ AttemptState' /\ CallState' /\ OneLiveAttempt' /\
        NeverAttempted' /\ ExpiredStaysClosed' /\ NoRedemptionYet' /\ RefundsBounded'
    BY <2>1, <2>2 DEF StockFollowsOrder, AttemptState, Exists, Settled, CallState,
       OneLiveAttempt, NeverAttempted, AttemptsOf, ExpiredStaysClosed, NoRedemptionYet,
       RefundsBounded, OrderBecomes, TypeOK, Payment
  <2>4. SettlementAccounted'
    BY <2>1, <2>2 DEF SettlementAccounted, AttemptsOf, Exists, Settled, OrderBecomes,
       TypeOK, Payment
  <2>5. PromotionCapacity'
    BY <2>1, <2>2, RedemptionStep DEF PromotionCapacity, Holding, OrderBecomes
  <2>6. TypeOK'
    BY <2>1, <2>2 DEF TypeOK, Order, Payment, Call, OrderStatuses, PaymentStatuses, Topics,
       InitiationSteps, Sessions, OrderBecomes
  <2> QED
    BY <2>3, <2>4, <2>5, <2>6
<1>3. ASSUME NEW o \in Orders, Cancel(o)
      PROVE  IInv'
  <2>1. /\ order[o].status = "PENDING_PAYMENT" /\ order[o].stock = "ACTIVE" /\ ~order[o].fulfilled
        /\ UNCHANGED <<payment, initiation, gateway, call, now>>
        /\ events' = events \cup {<<"ORDER_CANCELLED", o>>}
    BY <1>3 DEF Cancel, MayCancel, CloseOrder, StockFollowsOrder
  <2>2. OrderBecomes(o, "CANCELLED", "RELEASED",
           IF order[o].redemption = "RESERVED" THEN "RELEASED" ELSE order[o].redemption,
           FALSE)
    BY <1>3, <2>1 DEF Cancel, CloseOrder, OrderBecomes, TypeOK, Order, OrderStatuses
  <2>3. StockFollowsOrder' /\ AttemptState' /\ CallState' /\ OneLiveAttempt'
    BY <2>1, <2>2 DEF StockFollowsOrder, AttemptState, Exists, Settled, CallState,
       OneLiveAttempt, OrderBecomes, TypeOK, Payment
  <2>4. NeverAttempted' /\ ExpiredStaysClosed' /\ NoRedemptionYet' /\ RefundsBounded'
    BY <2>1, <2>2 DEF NeverAttempted, AttemptsOf, Exists, ExpiredStaysClosed,
       NoRedemptionYet, RefundsBounded, OrderBecomes, TypeOK, Payment
  <2>5. SettlementAccounted'
    BY <2>1, <2>2 DEF SettlementAccounted, AttemptsOf, Exists, Settled, OrderBecomes,
       TypeOK, Payment
  <2>6. /\ o \in Holding <=> order[o].redemption \in {"RESERVED", "CONFIRMED"}
        /\ o \in Holding' <=> order[o].redemption = "CONFIRMED"
    BY <2>2 DEF OrderBecomes, Holding
  <2>7. IF order[o].redemption = "RESERVED"
        THEN Cardinality(Holding') = Cardinality(Holding) - 1 /\ Cardinality(Holding) >= 1
        ELSE Holding' = Holding
    BY <2>2, <2>6, RedemptionStep DEF OrderBecomes
  <2>8. usedCount' = Cardinality(Holding') /\ usedCount' \in 0..MaxRedemptions
    BY <1>3, <2>7, HoldingFinite, BoundsAssumption DEF Cancel, CloseOrder, ReturnsCapacity,
       PromotionCapacity
  <2>9. PromotionCapacity'
    BY <2>8, BoundsAssumption DEF PromotionCapacity, Holding
  <2>10. TypeOK'
    BY <2>1, <2>2, <2>8 DEF TypeOK, Order, Payment, Call, OrderStatuses, PaymentStatuses,
       Topics, InitiationSteps, Sessions, OrderBecomes
  <2> QED
    BY <2>3, <2>4, <2>5, <2>9, <2>10
<1>4. ASSUME NEW o \in Orders, ExpireOrder(o)
      PROVE  IInv'
  <2>1. /\ order[o].status = "PENDING_PAYMENT" /\ order[o].stock = "ACTIVE" /\ ~order[o].fulfilled
        /\ UNCHANGED <<payment, initiation, gateway, call, now>>
        /\ events' = events \cup {<<"ORDER_EXPIRED", o>>}
    BY <1>4 DEF ExpireOrder, MayExpire, CloseOrder, StockFollowsOrder
  <2>2. OrderBecomes(o, "CANCELLED", "RELEASED",
           IF order[o].redemption = "RESERVED" THEN "RELEASED" ELSE order[o].redemption,
           FALSE)
    BY <1>4, <2>1 DEF ExpireOrder, CloseOrder, OrderBecomes, TypeOK, Order, OrderStatuses
  <2>3. StockFollowsOrder' /\ AttemptState' /\ CallState' /\ OneLiveAttempt'
    BY <2>1, <2>2 DEF StockFollowsOrder, AttemptState, Exists, Settled, CallState,
       OneLiveAttempt, OrderBecomes, TypeOK, Payment
  <2>4. NeverAttempted' /\ ExpiredStaysClosed' /\ NoRedemptionYet' /\ RefundsBounded'
    BY <1>4, <2>1, <2>2 DEF NeverAttempted, AttemptsOf, Exists, ExpiredStaysClosed,
       NoRedemptionYet, RefundsBounded, OrderBecomes, TypeOK, Payment, ExpireOrder, MayExpire
  <2>5. SettlementAccounted'
    BY <2>1, <2>2 DEF SettlementAccounted, AttemptsOf, Exists, Settled, OrderBecomes,
       TypeOK, Payment
  <2>6. /\ o \in Holding <=> order[o].redemption \in {"RESERVED", "CONFIRMED"}
        /\ o \in Holding' <=> order[o].redemption = "CONFIRMED"
    BY <2>2 DEF OrderBecomes, Holding
  <2>7. IF order[o].redemption = "RESERVED"
        THEN Cardinality(Holding') = Cardinality(Holding) - 1 /\ Cardinality(Holding) >= 1
        ELSE Holding' = Holding
    BY <2>2, <2>6, RedemptionStep DEF OrderBecomes
  <2>8. usedCount' = Cardinality(Holding') /\ usedCount' \in 0..MaxRedemptions
    BY <1>4, <2>7, HoldingFinite, BoundsAssumption DEF ExpireOrder, CloseOrder,
       ReturnsCapacity, PromotionCapacity
  <2>9. PromotionCapacity'
    BY <2>8, BoundsAssumption DEF PromotionCapacity, Holding
  <2>10. TypeOK'
    BY <2>1, <2>2, <2>8 DEF TypeOK, Order, Payment, Call, OrderStatuses, PaymentStatuses,
       Topics, InitiationSteps, Sessions, OrderBecomes
  <2> QED
    BY <2>3, <2>4, <2>5, <2>9, <2>10
<1>5. ASSUME NEW o \in Orders, ApproveCredit(o)
      PROVE  IInv'
  <2>1. /\ order[o].status = "PENDING_PAYMENT" /\ order[o].stock = "ACTIVE"
        /\ AttemptsOf(o) = {}
        /\ UNCHANGED <<payment, usedCount, events, initiation, gateway, call, now>>
    BY <1>5 DEF ApproveCredit, MayApprove, Payable
  <2>2. OrderBecomes(o, "CREDIT_APPROVED", "CONSUMED", order[o].redemption, TRUE)
    <3>1. order \in [Orders -> Order] /\ order[o] \in Order
      BY DEF TypeOK
    <3>2. order' = [order EXCEPT ![o] = [order[o] EXCEPT !.status = "CREDIT_APPROVED",
                                                        !.stock = "CONSUMED",
                                                        !.fulfilled = TRUE]]
      BY <1>5, <3>1 DEF ApproveCredit
    <3>3. [order[o] EXCEPT !.status = "CREDIT_APPROVED", !.stock = "CONSUMED",
                           !.fulfilled = TRUE] \in Order
      BY <3>1 DEF Order, OrderStatuses
    <3>4. QED
      BY <3>1, <3>2, <3>3 DEF OrderBecomes, Order
  <2>3. StockFollowsOrder' /\ AttemptState' /\ CallState' /\ OneLiveAttempt' /\
        NeverAttempted' /\ ExpiredStaysClosed' /\ NoRedemptionYet' /\ RefundsBounded'
    BY <2>1, <2>2 DEF StockFollowsOrder, AttemptState, Exists, Settled, CallState,
       OneLiveAttempt, NeverAttempted, AttemptsOf, ExpiredStaysClosed, NoRedemptionYet,
       RefundsBounded, OrderBecomes, TypeOK, Payment
  <2>4. SettlementAccounted'
    BY <2>1, <2>2 DEF SettlementAccounted, AttemptsOf, Exists, Settled, OrderBecomes,
       TypeOK, Payment
  <2>5. PromotionCapacity'
    BY <2>1, <2>2, RedemptionStep DEF PromotionCapacity, Holding, OrderBecomes
  <2>6. TypeOK'
    BY <2>1, <2>2 DEF TypeOK, Order, Payment, Call, OrderStatuses, PaymentStatuses, Topics,
       InitiationSteps, Sessions, OrderBecomes
  <2> QED
    BY <2>3, <2>4, <2>5, <2>6
<1>6. ASSUME NEW p \in Payments, NEW o \in Orders, Register(p, o)
      PROVE  IInv'
  <2>1. /\ ~Exists(p) /\ order[o].status = "PENDING_PAYMENT"
        /\ \A q \in AttemptsOf(o) : payment[q].status # "PENDING"
        /\ initiation' = [initiation EXCEPT ![p] = "authorizing"]
        /\ UNCHANGED <<order, usedCount, events, gateway, call, now>>
    BY <1>6 DEF Register, Payable, NoActiveAttempt
  <2>2. /\ payment'[p] \in Payment /\ payment'[p].order = o
        /\ payment'[p].status = "PENDING" /\ ~payment'[p].authority
        /\ payment'[p].refunded = 0
        /\ \A q \in Payments : q # p => payment'[q] = payment[q]
    BY <1>6, BoundsAssumption DEF Register, TypeOK, Payment, PaymentStatuses
  <2>3. Exists(p)'
    BY <2>2, NullAssumption DEF Exists
  <2>4. StockFollowsOrder' /\ ExpiredStaysClosed' /\ NoRedemptionYet'
    BY <2>1 DEF StockFollowsOrder, ExpiredStaysClosed, NoRedemptionYet
  <2>5. PromotionCapacity'
    BY <2>1 DEF PromotionCapacity, Holding
  <2>6. AttemptState'
    BY <2>1, <2>2, <2>3 DEF AttemptState, Exists, Settled, TypeOK
  <2>7. CallState'
    BY <2>1, <2>2, <2>3 DEF CallState, Exists, TypeOK, Call
  <2>8. \A q \in AttemptsOf(o) : payment[q].status \notin Settled
    BY <2>1 DEF SettlementAccounted, AttemptsOf
  <2>9. \A q \in AttemptsOf(o) : payment[q].status = "FAILED"
    BY <2>1, <2>8, StoredRow DEF AttemptsOf, Settled, Payment, PaymentStatuses
  <2>10. OneLiveAttempt'
    BY <2>1, <2>2, <2>3, <2>9 DEF OneLiveAttempt, Exists, AttemptsOf, TypeOK
  <2>11. SettlementAccounted'
    BY <2>1, <2>2, <2>3 DEF SettlementAccounted, AttemptsOf, Exists, Settled, TypeOK,
       Payment
  <2>12. NeverAttempted'
    BY <2>1, <2>2, <2>3 DEF NeverAttempted, AttemptsOf, Exists, ExpiredStaysClosed, TypeOK
  <2>13. RefundsBounded'
    BY <2>1, <2>2, <2>3, BoundsAssumption DEF RefundsBounded, Exists, TypeOK
  <2>14. payment' \in [Payments -> Payment \cup {NoPayment}]
    BY <1>6, <2>2 DEF Register, TypeOK
  <2>15. TypeOK'
    BY <2>1, <2>14 DEF TypeOK, Order, Payment, Call, OrderStatuses, PaymentStatuses, Topics,
       InitiationSteps, Sessions
  <2> QED
    BY <2>4, <2>5, <2>6, <2>7, <2>10, <2>11, <2>12, <2>13, <2>15
<1>7. ASSUME NEW p \in Payments, Authorize(p)
      PROVE  IInv'
  <2>1. /\ Exists(p) /\ gateway[p] = "none"
        /\ UNCHANGED <<order, payment, usedCount, events, call, now>>
        /\ \A q \in Payments : q # p => gateway'[q] = gateway[q] /\ initiation'[q] = initiation[q]
        /\ \/ gateway'[p] = "open" /\ initiation'[p] \in {"redirect", "done"}
           \/ gateway'[p] = "none" /\ initiation'[p] = "rejected"
    BY <1>7 DEF Authorize, AttemptState, TypeOK
  <2>2. StockFollowsOrder' /\ OneLiveAttempt' /\ NeverAttempted' /\ ExpiredStaysClosed'
        /\ NoRedemptionYet' /\ RefundsBounded'
    BY <2>1 DEF StockFollowsOrder, OneLiveAttempt, Exists, NeverAttempted, AttemptsOf,
       ExpiredStaysClosed, NoRedemptionYet, RefundsBounded
  <2>3. PromotionCapacity'
    BY <2>1 DEF PromotionCapacity, Holding
  <2>4. AttemptState'
    BY <1>7, <2>1 DEF AttemptState, Exists, Settled, Authorize
  <2>5. CallState'
    BY <2>1 DEF CallState, Exists, TypeOK, Call
  <2>6. SettlementAccounted'
    BY <2>1 DEF SettlementAccounted, AttemptsOf, Exists, Settled, TypeOK, Payment,
       AttemptState
  <2>7. TypeOK'
    BY <1>7, <2>1 DEF TypeOK, Order, Payment, Call, OrderStatuses, PaymentStatuses, Topics,
       InitiationSteps, Sessions, Authorize
  <2> QED
    BY <2>2, <2>3, <2>4, <2>5, <2>6, <2>7
<1>8. ASSUME NEW p \in Payments, PersistAuthorization(p)
      PROVE  IInv'
  <2>1. /\ Exists(p) /\ payment[p].status = "PENDING" /\ gateway[p] = "open"
        /\ UNCHANGED <<order, usedCount, events, call, now>>
        /\ initiation' = [initiation EXCEPT ![p] = "done"]
        /\ gateway'[p] \in {"open", "offered"}
        /\ \A q \in Payments : q # p => gateway'[q] = gateway[q]
    BY <1>8 DEF PersistAuthorization, Offer, AttemptState, TypeOK
  <2>2. payment'[p] \in Payment
    BY <1>8, <2>1, StoredRow DEF PersistAuthorization, Payment, TypeOK
  <2>3. PaymentBecomes(p, payment[p].status, TRUE, payment[p].refunded)
    BY <1>8, <2>1, <2>2, StoredRow, RowStored DEF PersistAuthorization, PaymentBecomes,
       Exists, Payment, TypeOK
  <2>4. StockFollowsOrder' /\ ExpiredStaysClosed' /\ NoRedemptionYet'
    BY <2>1 DEF StockFollowsOrder, ExpiredStaysClosed, NoRedemptionYet
  <2>5. PromotionCapacity'
    BY <2>1 DEF PromotionCapacity, Holding
  <2>6. AttemptState'
    BY <2>1, <2>3 DEF AttemptState, Exists, Settled, PaymentBecomes, TypeOK
  <2>7. CallState'
    BY <2>1, <2>3 DEF CallState, Exists, PaymentBecomes, TypeOK, Call
  <2>8. OneLiveAttempt'
    BY <2>1, <2>3 DEF OneLiveAttempt, Exists, PaymentBecomes
  <2>9. SettlementAccounted'
    BY <2>1, <2>3 DEF SettlementAccounted, AttemptsOf, Exists, Settled, PaymentBecomes,
       TypeOK, AttemptState
  <2>10. NeverAttempted'
    BY <2>1, <2>3 DEF NeverAttempted, AttemptsOf, Exists, PaymentBecomes
  <2>11. RefundsBounded'
    BY <2>1, <2>3 DEF RefundsBounded, Exists, PaymentBecomes
  <2>12. TypeOK'
    BY <1>8, <2>1, <2>3 DEF TypeOK, Order, Payment, Call, OrderStatuses, PaymentStatuses,
       Topics, InitiationSteps, Sessions, PaymentBecomes, PersistAuthorization, Offer
  <2> QED
    BY <2>4, <2>5, <2>6, <2>7, <2>8, <2>9, <2>10, <2>11, <2>12
<1>9. ASSUME NEW p \in Payments, MarkFailed(p)
      PROVE  IInv'
  <2>1. /\ Exists(p) /\ payment[p].status = "PENDING" /\ gateway[p] = "none"
        /\ UNCHANGED <<order, usedCount, events, gateway, call, now>>
        /\ initiation' = [initiation EXCEPT ![p] = "done"]
    BY <1>9 DEF MarkFailed, AttemptState, TypeOK
  <2>2. payment'[p] \in Payment
    BY <1>9, <2>1, StoredRow DEF MarkFailed, Payment, PaymentStatuses, TypeOK
  <2>3. PaymentBecomes(p, "FAILED", payment[p].authority, payment[p].refunded)
    BY <1>9, <2>1, <2>2, StoredRow, RowStored DEF MarkFailed, PaymentBecomes, Exists,
       Payment, TypeOK
  <2>4. StockFollowsOrder' /\ ExpiredStaysClosed' /\ NoRedemptionYet'
    BY <2>1 DEF StockFollowsOrder, ExpiredStaysClosed, NoRedemptionYet
  <2>5. PromotionCapacity'
    BY <2>1 DEF PromotionCapacity, Holding
  <2>6. AttemptState'
    BY <2>1, <2>3 DEF AttemptState, Exists, Settled, PaymentBecomes, TypeOK
  <2>7. CallState'
    BY <2>1, <2>3 DEF CallState, Exists, PaymentBecomes, TypeOK, Call
  <2>8. OneLiveAttempt'
    BY <2>1, <2>3 DEF OneLiveAttempt, Exists, PaymentBecomes
  <2>9. SettlementAccounted'
    BY <2>1, <2>3 DEF SettlementAccounted, AttemptsOf, Exists, Settled, PaymentBecomes,
       TypeOK, AttemptState
  <2>10. NeverAttempted'
    BY <2>1, <2>3 DEF NeverAttempted, AttemptsOf, Exists, PaymentBecomes
  <2>11. RefundsBounded'
    BY <2>1, <2>3, BoundsAssumption DEF RefundsBounded, Exists, PaymentBecomes
  <2>12. TypeOK'
    BY <1>9, <2>1, <2>3 DEF TypeOK, Order, Payment, Call, OrderStatuses, PaymentStatuses,
       Topics, InitiationSteps, Sessions, PaymentBecomes
  <2> QED
    BY <2>4, <2>5, <2>6, <2>7, <2>8, <2>9, <2>10, <2>11, <2>12
<1>10. ASSUME NEW p \in Payments, ReplayInitiation(p)
      PROVE  IInv'
  <2>1. /\ Exists(p) /\ payment[p].authority /\ payment[p].status = "PENDING"
        /\ UNCHANGED <<order, payment, usedCount, events, initiation, call, now>>
        /\ gateway'[p] = gateway[p] \/ (gateway[p] = "open" /\ gateway'[p] = "offered")
        /\ \A q \in Payments : q # p => gateway'[q] = gateway[q]
    BY <1>10 DEF ReplayInitiation, Offer, TypeOK
  <2>2. StockFollowsOrder' /\ OneLiveAttempt' /\ NeverAttempted' /\ ExpiredStaysClosed'
        /\ NoRedemptionYet' /\ RefundsBounded'
    BY <2>1 DEF StockFollowsOrder, OneLiveAttempt, Exists, NeverAttempted, AttemptsOf,
       ExpiredStaysClosed, NoRedemptionYet, RefundsBounded
  <2>3. PromotionCapacity'
    BY <2>1 DEF PromotionCapacity, Holding
  <2>4. AttemptState'
    BY <2>1 DEF AttemptState, Exists, Settled
  <2>5. CallState'
    BY <2>1 DEF CallState, Exists, TypeOK, Call
  <2>6. SettlementAccounted'
    BY <2>1 DEF SettlementAccounted, AttemptsOf, Exists, Settled, TypeOK, Payment
  <2>7. TypeOK'
    BY <1>10, <2>1 DEF TypeOK, Order, Payment, Call, OrderStatuses, PaymentStatuses, Topics,
       InitiationSteps, Sessions, ReplayInitiation, Offer
  <2> QED
    BY <2>2, <2>3, <2>4, <2>5, <2>6, <2>7
<1>11. ASSUME NEW p \in Payments, LoseInitiation(p)
      PROVE  IInv'
  <2>1. /\ UNCHANGED <<order, payment, usedCount, events, gateway, call, now>>
        /\ initiation[p] # "none"
        /\ initiation' = [initiation EXCEPT ![p] = "done"]
    BY <1>11 DEF LoseInitiation
  <2>2. StockFollowsOrder' /\ CallState' /\ OneLiveAttempt' /\ SettlementAccounted' /\
        NeverAttempted' /\ ExpiredStaysClosed' /\ NoRedemptionYet' /\ RefundsBounded'
    BY <2>1 DEF StockFollowsOrder, CallState, Exists, OneLiveAttempt, SettlementAccounted,
       AttemptsOf, Settled, NeverAttempted, ExpiredStaysClosed, NoRedemptionYet, RefundsBounded
  <2>3. PromotionCapacity'
    BY <2>1 DEF PromotionCapacity, Holding
  <2>4. AttemptState'
    BY <2>1 DEF AttemptState, Exists, Settled, TypeOK
  <2>5. TypeOK'
    BY <2>1 DEF TypeOK, Order, Payment, Call, OrderStatuses, PaymentStatuses, Topics,
       InitiationSteps, Sessions
  <2> QED
    BY <2>2, <2>3, <2>4, <2>5
<1>12. ASSUME NEW p \in Payments, VisitGateway(p)
      PROVE  IInv'
  <2>1. /\ gateway[p] = "offered" /\ gateway'[p] \in {"paid", "closed"}
        /\ \A q \in Payments : q # p => gateway'[q] = gateway[q]
        /\ UNCHANGED <<order, payment, usedCount, events, initiation, call, now>>
    BY <1>12 DEF VisitGateway, TypeOK
  <2>2. StockFollowsOrder' /\ OneLiveAttempt' /\ NeverAttempted' /\ ExpiredStaysClosed'
        /\ NoRedemptionYet' /\ RefundsBounded'
    BY <2>1 DEF StockFollowsOrder, OneLiveAttempt, Exists, NeverAttempted, AttemptsOf,
       ExpiredStaysClosed, NoRedemptionYet, RefundsBounded
  <2>3. PromotionCapacity'
    BY <2>1 DEF PromotionCapacity, Holding
  <2>4. AttemptState'
    BY <2>1 DEF AttemptState, Exists, Settled
  <2>5. CallState'
    BY <2>1 DEF CallState, Exists, TypeOK, Call
  <2>6. SettlementAccounted'
    BY <2>1 DEF SettlementAccounted, AttemptsOf, Exists, Settled, AttemptState
  <2>7. TypeOK'
    BY <1>12, <2>1 DEF TypeOK, Order, Payment, Call, OrderStatuses, PaymentStatuses, Topics,
       InitiationSteps, Sessions, VisitGateway
  <2> QED
    BY <2>2, <2>3, <2>4, <2>5, <2>6, <2>7
<1>13. ASSUME NEW p \in Payments, NEW a \in 1..Amount, Refund(p, a)
      PROVE  IInv'
  <2>1. /\ Exists(p) /\ payment[p] \in Payment
        /\ UNCHANGED <<initiation, gateway, call, now>>
        /\ events' = events \cup {<<"PAYMENT_REFUNDED", p>>}
    BY <1>13, StoredRow DEF Refund
  <2>2. /\ payment[p].status \in {"PAID", "PARTIALLY_REFUNDED"}
        /\ payment[p].refunded + a \in 1..Amount
    BY <1>13, <2>1, BoundsAssumption DEF Refund, RemainingRefundable, Payment
  <2>3. PICK status \in {"PARTIALLY_REFUNDED", "REFUNDED"}, total \in 1..Amount :
           /\ total = payment[p].refunded + a
           /\ status = "REFUNDED" <=> total = Amount
           /\ payment' = [payment EXCEPT ![p].refunded = total, ![p].status = status]
    BY <1>13, <2>2 DEF Refund
  <2>4. status \in PaymentStatuses /\ total \in 0..Amount
    BY BoundsAssumption DEF PaymentStatuses
  <2>5. PaymentBecomes(p, status, payment[p].authority, total)
    BY <2>1, <2>3, <2>4, OutcomeWrites
  <2>6. payment[p].order \in Orders
    BY <2>1 DEF Payment
  <2>7. OrderBecomes(payment[p].order, order[payment[p].order].status,
           order[payment[p].order].stock,
           IF RestoresCapacity(p, a) THEN "REFUNDED" ELSE order[payment[p].order].redemption,
           order[payment[p].order].fulfilled)
    BY <1>13, <2>6 DEF Refund, RestoresCapacity, OrderBecomes, TypeOK, Order
  <2>8. \A x \in Orders : /\ order'[x].status = order[x].status
                                /\ order'[x].stock = order[x].stock
                                /\ order'[x].fulfilled = order[x].fulfilled
    BY <2>6, <2>7 DEF OrderBecomes
  <2>9. StockFollowsOrder'
    BY <2>8 DEF StockFollowsOrder
  <2>10. ExpiredStaysClosed'
    BY <2>1, <2>8 DEF ExpiredStaysClosed
  <2>11. AttemptState'
    BY <2>1, <2>2, <2>5, <2>8 DEF AttemptState, Exists, Settled, PaymentBecomes, TypeOK,
       Payment
  <2>12. CallState'
    BY <2>1, <2>5 DEF CallState, Exists, PaymentBecomes, TypeOK, Call
  <2>13. OneLiveAttempt'
    BY <2>2, <2>5 DEF OneLiveAttempt, Exists, PaymentBecomes
  <2>14. AttemptState /\ gateway[p] = "paid"
    BY <2>1, <2>2 DEF AttemptState, Settled
  <2>15. SettlementAccounted'
    BY <2>1, <2>2, <2>5, <2>8, <2>14 DEF SettlementAccounted, AttemptsOf, Exists, Settled,
       PaymentBecomes, TypeOK, Payment
  <2>16. NeverAttempted'
    BY <2>1, <2>5, <2>8 DEF NeverAttempted, AttemptsOf, Exists, PaymentBecomes
  <2>17. NoRedemptionYet'
    BY <2>6, <2>7, <2>8 DEF NoRedemptionYet, OrderBecomes, RestoresCapacity
  <2>18. RefundsBounded'
    BY <2>2, <2>3, <2>5, BoundsAssumption DEF RefundsBounded, Exists, PaymentBecomes
  <2>19. LET o == payment[p].order IN
         /\ o \in Holding <=> order[o].redemption \in {"RESERVED", "CONFIRMED"}
         /\ o \in Holding' <=> o \in Holding /\ ~RestoresCapacity(p, a)
    BY <2>6, <2>7 DEF OrderBecomes, RestoresCapacity, Holding
  <2>20. IF RestoresCapacity(p, a)
         THEN Cardinality(Holding') = Cardinality(Holding) - 1 /\ Cardinality(Holding) >= 1
         ELSE Holding' = Holding
    BY <2>6, <2>7, <2>19, RedemptionStep DEF OrderBecomes, RestoresCapacity
  <2>21. usedCount' = Cardinality(Holding') /\ usedCount' \in 0..MaxRedemptions
    BY <1>13, <2>20, HoldingFinite, BoundsAssumption DEF Refund, PromotionCapacity
  <2>22. PromotionCapacity'
    BY <2>21, BoundsAssumption DEF PromotionCapacity, Holding
  <2>23. TypeOK'
    BY <2>1, <2>5, <2>7, <2>21 DEF TypeOK, Order, Payment, Call, OrderStatuses,
       PaymentStatuses, Topics, InitiationSteps, Sessions, PaymentBecomes, OrderBecomes
  <2> QED
    BY <2>9, <2>10, <2>11, <2>12, <2>13, <2>15, <2>16, <2>17, <2>18, <2>22, <2>23
<1>14. ASSUME NEW c \in Callers, NEW p \in Payments, NEW status,
             Callback(c, p, status) \/ Recheck(c, p)
      PROVE  IInv'
  <2>1. /\ Exists(p) /\ payment[p].authority
        /\ \E step \in {"unconfirmed", "asking"} :
              call' = [call EXCEPT ![c] = [payment |-> p, step |-> step]]
        /\ UNCHANGED <<order, payment, usedCount, events, initiation, gateway, now>>
    BY <1>14 DEF Callback, Recheck, BeginVerify, StepFor
  <2>2. StockFollowsOrder' /\ AttemptState' /\ OneLiveAttempt' /\ SettlementAccounted'
        /\ NeverAttempted' /\ ExpiredStaysClosed' /\ NoRedemptionYet' /\ RefundsBounded'
    BY <2>1 DEF StockFollowsOrder, AttemptState, Exists, Settled, OneLiveAttempt,
       SettlementAccounted, AttemptsOf, NeverAttempted, ExpiredStaysClosed, NoRedemptionYet,
       RefundsBounded
  <2>3. PromotionCapacity'
    BY <2>1 DEF PromotionCapacity, Holding
  <2>4. CallState'
    BY <2>1 DEF CallState, Exists, TypeOK
  <2>5. TypeOK'
    BY <2>1 DEF TypeOK, Order, Payment, Call, OrderStatuses, PaymentStatuses, Topics,
       InitiationSteps, Sessions
  <2> QED
    BY <2>2, <2>3, <2>4, <2>5
<1>15. ASSUME NEW c \in Callers, NEW answer, GatewayAnswers(c, answer)
      PROVE  IInv'
  <2>1. /\ call[c] \in Call /\ call[c] # NoCall
        /\ answer \in {"unconfirmed", "verified", "failed"}
        /\ answer = "verified" => gateway[call[c].payment] = "paid"
        /\ answer = "failed" => gateway[call[c].payment] = "closed"
        /\ call' = [call EXCEPT ![c].step = answer]
        /\ UNCHANGED <<order, payment, usedCount, events, initiation, gateway, now>>
    BY <1>15 DEF GatewayAnswers, Answers, TypeOK
  <2>2. StockFollowsOrder' /\ AttemptState' /\ OneLiveAttempt' /\ SettlementAccounted'
        /\ NeverAttempted' /\ ExpiredStaysClosed' /\ NoRedemptionYet' /\ RefundsBounded'
    BY <2>1 DEF StockFollowsOrder, AttemptState, Exists, Settled, OneLiveAttempt,
       SettlementAccounted, AttemptsOf, NeverAttempted, ExpiredStaysClosed, NoRedemptionYet,
       RefundsBounded
  <2>3. PromotionCapacity'
    BY <2>1 DEF PromotionCapacity, Holding
  <2>4. CallState'
    BY <2>1 DEF CallState, Exists, TypeOK, Call
  <2>5. TypeOK'
    BY <2>1 DEF TypeOK, Order, Payment, Call, OrderStatuses, PaymentStatuses, Topics,
       InitiationSteps, Sessions
  <2> QED
    BY <2>2, <2>3, <2>4, <2>5
<1>16. ASSUME NEW c \in Callers, SettleAfterCancellation(c)
      PROVE  IInv'
  <2>1. PICK p \in Payments, refunded \in 0..Amount :
        /\ p = call[c].payment /\ Exists(p) /\ refunded = payment[p].refunded
        /\ payment[p].status = "PENDING" /\ gateway[p] = "paid"
    BY <1>16, StoredRow DEF SettleAfterCancellation, Ready, StillPending, CallState, TypeOK,
       Call, Payment
  <2>2. /\ payment' = [payment EXCEPT ![p].status = "PAID"]
        /\ events' = events \cup {<<"PAYMENT_VERIFIED_AFTER_CANCELLED", p>>}
        /\ call' = [call EXCEPT ![c] = NoCall]
        /\ UNCHANGED <<order, usedCount, initiation, gateway, now>>
    BY <1>16, <2>1 DEF SettleAfterCancellation, Returned
  <2>3. PaymentBecomes(p, "PAID", payment[p].authority, refunded)
    BY <2>1, <2>2, OutcomeWrites DEF PaymentStatuses
  <2>4. order[payment[p].order].status = "CANCELLED"
    BY <1>16, <2>1 DEF SettleAfterCancellation, ClosedMeanwhile
  <2>5. StockFollowsOrder' /\ NoRedemptionYet'
    BY <2>2 DEF StockFollowsOrder, NoRedemptionYet
  <2>6. PromotionCapacity'
    BY <2>2 DEF PromotionCapacity, Holding
  <2>7. ExpiredStaysClosed'
    BY <2>2 DEF ExpiredStaysClosed
  <2>8. AttemptState'
    BY <2>1, <2>2, <2>3 DEF AttemptState, Exists, Settled, PaymentBecomes
  <2>9. CallState'
    BY <2>1, <2>2, <2>3 DEF CallState, Exists, PaymentBecomes, TypeOK, Call
  <2>10. OneLiveAttempt'
    BY <2>1, <2>2, <2>3 DEF OneLiveAttempt, Exists, PaymentBecomes
  <2>11. SettlementAccounted'
    <3>1. \A x \in Orders : order'[x].status = "PAID" =>
            \E q \in AttemptsOf(x)' : payment'[q].status \in Settled /\ gateway'[q] = "paid"
      BY <2>2, <2>3, PaidStaysPaid DEF Settled
    <3>2. ASSUME NEW q \in Payments, Exists(q)', payment'[q].status \in Settled
          PROVE  \/ /\ order'[payment'[q].order].status = "PAID"
                    /\ <<"PAYMENT_VERIFIED", q>> \in events'
                 \/ /\ order'[payment'[q].order].status = "CANCELLED"
                    /\ <<"PAYMENT_VERIFIED_AFTER_CANCELLED", q>> \in events'
      <4>1. CASE q = p
        BY <4>1, <2>2, <2>3, <2>4 DEF PaymentBecomes
      <4>2. CASE q # p
        BY <4>2, <3>2, <2>2, <2>3 DEF SettlementAccounted, PaymentBecomes, Exists
      <4> QED
        BY <4>1, <4>2
    <3> QED
      BY <3>1, <3>2 DEF SettlementAccounted
  <2>12. NeverAttempted'
    BY <2>1, <2>2, <2>3 DEF NeverAttempted, AttemptsOf, Exists, PaymentBecomes
  <2>13. RefundsBounded'
    BY <2>1, <2>2, <2>3, BoundsAssumption DEF RefundsBounded, Exists, PaymentBecomes
  <2>14. TypeOK'
    BY <2>1, <2>2, <2>3 DEF TypeOK, Order, Payment, Call, OrderStatuses, PaymentStatuses,
       Topics, InitiationSteps, Sessions, PaymentBecomes
  <2> QED
    BY <2>5, <2>6, <2>7, <2>8, <2>9, <2>10, <2>11, <2>12, <2>13, <2>14
<1>17. ASSUME NEW c \in Callers, MarkNotPaid(c)
      PROVE  IInv'
  <2>1. PICK p \in Payments, refunded \in 0..Amount :
        /\ p = call[c].payment /\ Exists(p) /\ refunded = payment[p].refunded
        /\ payment[p].status = "PENDING" /\ gateway[p] = "closed"
    BY <1>17, StoredRow DEF MarkNotPaid, Ready, StillPending, CallState, TypeOK, Call,
       Payment
  <2>2. /\ payment' = [payment EXCEPT ![p].status = "FAILED"]
        /\ events' = events \cup {<<"PAYMENT_VERIFICATION_FAILED", p>>}
        /\ call' = [call EXCEPT ![c] = NoCall]
        /\ UNCHANGED <<order, usedCount, initiation, gateway, now>>
    BY <1>17, <2>1 DEF MarkNotPaid, Returned
  <2>3. PaymentBecomes(p, "FAILED", payment[p].authority, refunded)
    BY <2>1, <2>2, OutcomeWrites DEF PaymentStatuses
  <2>4. StockFollowsOrder' /\ NoRedemptionYet'
    BY <2>2 DEF StockFollowsOrder, NoRedemptionYet
  <2>5. PromotionCapacity'
    BY <2>2 DEF PromotionCapacity, Holding
  <2>6. ExpiredStaysClosed'
    BY <2>2 DEF ExpiredStaysClosed
  <2>7. AttemptState'
    BY <2>1, <2>2, <2>3 DEF AttemptState, Exists, Settled, PaymentBecomes
  <2>8. CallState'
    BY <2>1, <2>2, <2>3 DEF CallState, Exists, PaymentBecomes, TypeOK, Call
  <2>9. OneLiveAttempt'
    BY <2>1, <2>2, <2>3 DEF OneLiveAttempt, Exists, PaymentBecomes
  <2>10. SettlementAccounted'
    <3>1. \A x \in Orders : order'[x].status = "PAID" =>
            \E q \in AttemptsOf(x)' : payment'[q].status \in Settled /\ gateway'[q] = "paid"
      BY <2>1, <2>2, <2>3, PaidStaysPaid DEF Settled
    <3>2. ASSUME NEW q \in Payments, Exists(q)', payment'[q].status \in Settled
          PROVE  /\ q # p /\ payment'[q] = payment[q]
                 /\ Exists(q) /\ payment[q].status \in Settled
      BY <2>3, <3>2 DEF PaymentBecomes, Settled, Exists
    <3>3. order' = order /\ events \subseteq events'
      BY <2>2
    <3> QED
      BY <3>1, <3>2, <3>3 DEF SettlementAccounted
  <2>11. NeverAttempted'
    BY <2>1, <2>2, <2>3 DEF NeverAttempted, AttemptsOf, Exists, PaymentBecomes
  <2>12. RefundsBounded'
    BY <2>1, <2>2, <2>3, BoundsAssumption DEF RefundsBounded, Exists, PaymentBecomes
  <2>13. TypeOK'
    BY <2>1, <2>2, <2>3 DEF TypeOK, Order, Payment, Call, OrderStatuses, PaymentStatuses,
       Topics, InitiationSteps, Sessions, PaymentBecomes
  <2> QED
    BY <2>4, <2>5, <2>6, <2>7, <2>8, <2>9, <2>10, <2>11, <2>12, <2>13
<1>18. ASSUME NEW c \in Callers, ApplyVerified(c)
      PROVE  IInv'
  <2>1. PICK p \in Payments, refunded \in 0..Amount :
        /\ p = call[c].payment /\ Exists(p) /\ refunded = payment[p].refunded
        /\ payment[p].status = "PENDING" /\ gateway[p] = "paid"
    BY <1>18, StoredRow DEF ApplyVerified, Ready, StillPending, CallState, TypeOK, Call,
       Payment
  <2>2. /\ payment' = [payment EXCEPT ![p].status = "PAID"]
        /\ events' = events \cup {<<"PAYMENT_VERIFIED", p>>}
        /\ call' = [call EXCEPT ![c] = NoCall]
        /\ UNCHANGED <<usedCount, initiation, gateway, now>>
    BY <1>18, <2>1 DEF ApplyVerified, Returned
  <2>3. PaymentBecomes(p, "PAID", payment[p].authority, refunded)
    BY <2>1, <2>2, OutcomeWrites DEF PaymentStatuses
  <2>4. PICK o \in Orders : o = payment[p].order
    BY <2>1, StoredRow DEF Payment
  <2>5. order[o].status \notin {"NONE", "PAID", "CANCELLED", "CREDIT_APPROVED"}
    <3>1. order[o].status \notin {"NONE", "CANCELLED", "CREDIT_APPROVED"}
      BY <1>18, <2>1, <2>4 DEF ApplyVerified, ClosedMeanwhile, AttemptState
    <3>2. ASSUME order[o].status = "PAID" PROVE FALSE
      <4>1. PICK q \in Payments : Exists(q) /\ payment[q].order = o /\ payment[q].status \in Settled
        BY <3>2 DEF SettlementAccounted, AttemptsOf
      <4> QED
        BY <4>1, <2>1, <2>4 DEF OneLiveAttempt, Settled
    <3> QED
      BY <3>1, <3>2
  <2>6. order[o].status = "PENDING_PAYMENT" /\ order[o].stock = "ACTIVE"
    BY <2>5 DEF StockFollowsOrder, TypeOK, Order, OrderStatuses
  <2>7. order' = [order EXCEPT
           ![o].status = "PAID",
           ![o].redemption = IF @ = "RESERVED" THEN "CONFIRMED" ELSE @,
           ![o].stock = "CONSUMED",
           ![o].fulfilled = TRUE]
    BY <1>18, <2>1, <2>4, <2>6 DEF ApplyVerified
  <2>8. order[o] \in Order /\ order'[o] \in Order
    <3>1. order[o] \in Order /\ order \in [Orders -> Order]
      BY DEF TypeOK
    <3>2. order'[o] = [order[o] EXCEPT !.status = "PAID",
             !.redemption = IF order[o].redemption = "RESERVED" THEN "CONFIRMED"
                            ELSE order[o].redemption,
             !.stock = "CONSUMED", !.fulfilled = TRUE]
      BY <3>1, <2>7
    <3> QED
      BY <3>1, <3>2 DEF Order, OrderStatuses
  <2>9. OrderBecomes(o, "PAID", "CONSUMED",
           IF order[o].redemption = "RESERVED" THEN "CONFIRMED" ELSE order[o].redemption,
           TRUE)
    BY <2>7, <2>8 DEF OrderBecomes, TypeOK, Order
  <2>10. StockFollowsOrder' /\ NoRedemptionYet'
    BY <2>6, <2>9 DEF StockFollowsOrder, NoRedemptionYet, OrderBecomes
  <2>11. ExpiredStaysClosed'
    BY <2>2, <2>6, <2>9 DEF ExpiredStaysClosed, OrderBecomes
  <2>12. AttemptState'
    <3>1. \A x \in Orders : order[x].status # "NONE" => order'[x].status # "NONE"
      BY <2>9 DEF OrderBecomes
    <3>2. \A q \in Payments : Exists(q) => payment[q].order \in Orders
      BY StoredRow DEF Payment
    <3> QED
      BY <2>1, <2>2, <2>3, <3>1, <3>2 DEF AttemptState, Exists, Settled, PaymentBecomes
  <2>13. CallState'
    BY <2>1, <2>2, <2>3 DEF CallState, Exists, PaymentBecomes, TypeOK, Call
  <2>14. OneLiveAttempt'
    BY <2>1, <2>2, <2>3 DEF OneLiveAttempt, Exists, PaymentBecomes
  <2>15. \A q \in Payments : Exists(q) => payment[q].order \in Orders
    BY StoredRow DEF Payment
  <2>16. \A x \in Orders : order'[x].status = "PAID" =>
            \E q \in AttemptsOf(x)' : payment'[q].status \in Settled /\ gateway'[q] = "paid"
    <3> SUFFICES ASSUME NEW x \in Orders, order'[x].status = "PAID"
                 PROVE  \E q \in AttemptsOf(x)' :
                            payment'[q].status \in Settled /\ gateway'[q] = "paid"
      OBVIOUS
    <3>1. CASE x = o
      <4>1. p \in AttemptsOf(o)' /\ payment'[p].status = "PAID"
        BY <2>1, <2>3, <2>4 DEF PaymentBecomes, AttemptsOf, Exists
      <4> QED
        BY <4>1, <3>1, <2>1, <2>2 DEF Settled
    <3>2. CASE x # o
      <4>1. order[x].status = "PAID"
        BY <3>2, <2>9 DEF OrderBecomes
      <4> QED
        BY <4>1, <2>2, <2>3, PaidStaysPaid DEF Settled
    <3> QED
      BY <3>1, <3>2
  <2>17. \A q \in Payments : Exists(q) /\ payment[q].status \in Settled =>
         payment[q].order # o
    BY <2>6 DEF SettlementAccounted
  <2>18. \A q \in Payments : Exists(q)' /\ payment'[q].status \in Settled =>
            \/ /\ order'[payment'[q].order].status = "PAID"
               /\ <<"PAYMENT_VERIFIED", q>> \in events'
            \/ /\ order'[payment'[q].order].status = "CANCELLED"
               /\ <<"PAYMENT_VERIFIED_AFTER_CANCELLED", q>> \in events'
    <3> SUFFICES ASSUME NEW q \in Payments, Exists(q)', payment'[q].status \in Settled
                 PROVE  \/ /\ order'[payment'[q].order].status = "PAID"
                           /\ <<"PAYMENT_VERIFIED", q>> \in events'
                        \/ /\ order'[payment'[q].order].status = "CANCELLED"
                           /\ <<"PAYMENT_VERIFIED_AFTER_CANCELLED", q>> \in events'
      OBVIOUS
    <3>1. CASE q = p
      BY <3>1, <2>2, <2>3, <2>4, <2>9 DEF PaymentBecomes, OrderBecomes
    <3>2. CASE q # p
      <4>1. payment'[q] = payment[q] /\ Exists(q) /\ payment[q].order \in Orders
        BY <3>2, <2>3, <2>15 DEF PaymentBecomes, Exists
      <4>2. order'[payment[q].order] = order[payment[q].order]
        BY <4>1, <2>9, <2>17 DEF OrderBecomes
      <4> QED
        BY <4>1, <4>2, <2>2 DEF SettlementAccounted
    <3> QED
      BY <3>1, <3>2
  <2>19. SettlementAccounted'
    BY <2>16, <2>18 DEF SettlementAccounted, AttemptsOf, Exists, Settled
  <2>20. NeverAttempted'
    <3>1. \A x \in Orders : AttemptsOf(x)' = AttemptsOf(x)
      BY <2>1, <2>3 DEF AttemptsOf, Exists, PaymentBecomes
    <3>2. \A x \in Orders : order'[x].status = "CREDIT_APPROVED" => order[x].status = "CREDIT_APPROVED"
      BY <2>9 DEF OrderBecomes
    <3>3. \A x : <<"ORDER_EXPIRED", x>> \in events' => <<"ORDER_EXPIRED", x>> \in events
      BY <2>2
    <3> QED
      BY <3>1, <3>2, <3>3 DEF NeverAttempted
  <2>21. o \in Holding <=> o \in Holding'
    BY <2>9 DEF OrderBecomes, Holding
  <2>22. PromotionCapacity'
    BY <2>2, <2>9, <2>21, RedemptionStep DEF PromotionCapacity, Holding, OrderBecomes
  <2>23. RefundsBounded'
    BY <2>1, <2>2, <2>3, BoundsAssumption DEF RefundsBounded, Exists, PaymentBecomes
  <2>24. TypeOK'
    BY <2>1, <2>2, <2>3, <2>9 DEF TypeOK, Order, Payment, Call, OrderStatuses,
       PaymentStatuses, Topics, InitiationSteps, Sessions, PaymentBecomes, OrderBecomes
  <2> QED
    BY <2>10, <2>11, <2>12, <2>13, <2>14, <2>19, <2>20, <2>22, <2>23, <2>24
<1>19. ASSUME NEW c \in Callers, RecordUnconfirmed(c)
      PROVE  IInv'
  <2>1. /\ call[c].payment \in Payments
        /\ events' = events \cup {<<"PAYMENT_VERIFICATION_UNCONFIRMED", call[c].payment>>}
        /\ call' = [call EXCEPT ![c] = NoCall]
        /\ UNCHANGED <<order, payment, usedCount, initiation, gateway, now>>
    BY <1>19 DEF RecordUnconfirmed, Ready, Returned, TypeOK, Call
  <2>2. StockFollowsOrder' /\ AttemptState' /\ OneLiveAttempt' /\ NoRedemptionYet' /\
        RefundsBounded'
    BY <2>1 DEF StockFollowsOrder, AttemptState, Exists, Settled, OneLiveAttempt,
       NoRedemptionYet, RefundsBounded
  <2>3. SettlementAccounted' /\ NeverAttempted' /\ ExpiredStaysClosed'
    BY <2>1 DEF SettlementAccounted, AttemptsOf, Exists, Settled, NeverAttempted,
       ExpiredStaysClosed
  <2>4. PromotionCapacity'
    BY <2>1 DEF PromotionCapacity, Holding
  <2>5. CallState'
    BY <2>1 DEF CallState, Exists, TypeOK, Call
  <2>6. TypeOK'
    BY <2>1 DEF TypeOK, Order, Payment, Call, OrderStatuses, PaymentStatuses, Topics,
       InitiationSteps, Sessions
  <2> QED
    BY <2>2, <2>3, <2>4, <2>5, <2>6
<1>20. ASSUME NEW c \in Callers, EndCall(c)
      PROVE  IInv'
  <2>1. /\ call' = [call EXCEPT ![c] = NoCall]
        /\ UNCHANGED <<order, payment, usedCount, events, initiation, gateway, now>>
    BY <1>20 DEF EndCall, Returned
  <2>2. StockFollowsOrder' /\ AttemptState' /\ OneLiveAttempt' /\ SettlementAccounted'
        /\ NeverAttempted' /\ ExpiredStaysClosed' /\ NoRedemptionYet' /\ RefundsBounded'
    BY <2>1 DEF StockFollowsOrder, AttemptState, Exists, Settled, OneLiveAttempt,
       SettlementAccounted, AttemptsOf, NeverAttempted, ExpiredStaysClosed, NoRedemptionYet,
       RefundsBounded
  <2>3. PromotionCapacity'
    BY <2>1 DEF PromotionCapacity, Holding
  <2>4. CallState'
    BY <2>1 DEF CallState, Exists, TypeOK, Call
  <2>5. TypeOK'
    BY <2>1 DEF TypeOK, Order, Payment, Call, OrderStatuses, PaymentStatuses, Topics,
       InitiationSteps, Sessions
  <2> QED
    BY <2>2, <2>3, <2>4, <2>5
<1>21. ASSUME Tick \/ UNCHANGED vars
      PROVE  IInv'
  <2>1. /\ UNCHANGED <<order, payment, usedCount, events, initiation, gateway, call>>
        /\ now' \in 0..MaxTime
    BY <1>21, BoundsAssumption DEF Tick, vars, TypeOK
  <2>2. StockFollowsOrder' /\ AttemptState' /\ CallState' /\ OneLiveAttempt' /\
        SettlementAccounted' /\ NeverAttempted' /\ ExpiredStaysClosed' /\
        NoRedemptionYet' /\ RefundsBounded'
    BY <2>1 DEF StockFollowsOrder, AttemptState, Exists, Settled, CallState, OneLiveAttempt,
       SettlementAccounted, AttemptsOf, NeverAttempted, ExpiredStaysClosed, NoRedemptionYet,
       RefundsBounded
  <2>3. PromotionCapacity'
    BY <2>1 DEF PromotionCapacity, Holding
  <2>4. TypeOK'
    BY <2>1 DEF TypeOK, Order, Payment, Call, OrderStatuses, PaymentStatuses, Topics,
       InitiationSteps, Sessions
  <2> QED
    BY <2>2, <2>3, <2>4
<1> QED
  BY <1>1, <1>2, <1>3, <1>4, <1>5, <1>6, <1>7, <1>8, <1>9, <1>10, <1>11, <1>12, <1>13, <1>14, <1>15, <1>16, <1>17, <1>18, <1>19, <1>20, <1>21 DEF Next

\* For every instance: whatever is lost, repeated or late, stock and fulfilment
\* follow the order, no money taken by the gateway is written off or taken
\* twice, money booked on a closed order is announced, an expired or credit
\* order was never attempted, promotions stay within their limit and refunds
\* within what was paid.
THEOREM OrderPaymentSafe ==
    Spec => [](/\ TypeOK /\ StockFollowsOrder /\ NoLostSettlement /\ NoDoubleCharge
               /\ SettlementAccounted /\ NeverAttempted /\ PromotionCapacity
               /\ RefundsBounded)
<1>1. IInv => NoLostSettlement
  BY DEF IInv, MoneyInv, AttemptState, NoLostSettlement, Exists
<1>2. IInv => NoDoubleCharge
  BY DEF IInv, MoneyInv, AttemptState, OneLiveAttempt, NoDoubleCharge, Exists
<1> QED
  BY <1>1, <1>2, InitIInv, NextIInv, PTL DEF Spec, IInv, MoneyInv

\* For every instance: a closed order holds no stock and an order that was sold has
\* consumed it, however verifications, cancellations and expiry interleave.
COROLLARY StockNeverOutlivesOrder == Spec => []StockFollowsOrder
  BY OrderPaymentSafe, PTL

\* For every instance: money that the gateway has taken for an attempt is never
\* written off as failed.
COROLLARY SettlementsKept == Spec => []NoLostSettlement
  BY OrderPaymentSafe, PTL

\* For every instance: a settled attempt pays for its order, or operations were told
\* that its order was closed; and a paid order has its money.
COROLLARY SettlementsAnnounced == Spec => []SettlementAccounted
  BY OrderPaymentSafe, PTL

\* For every instance: an order that expires, or is sold on credit, was never
\* offered to the gateway.
COROLLARY UnattemptedStayUnpaid == Spec => []NeverAttempted
  BY OrderPaymentSafe, PTL

\* For every instance: refunds never exceed what was received, and the status of a
\* payment says how much of it went back.
COROLLARY RefundsWithinPayment == Spec => []RefundsBounded
  BY OrderPaymentSafe, PTL

\* For every instance: usedCount counts the redemptions that hold capacity and stays
\* within the promotion's limit, however checkouts and cancellations race.
COROLLARY PromotionsWithinLimit == Spec => []PromotionCapacity
  BY OrderPaymentSafe, PTL

\* No step takes an outcome back.
LEMMA NextOutcome == IInv /\ [Next]_vars => OutcomeStep
<1> SUFFICES ASSUME IInv, [Next]_vars PROVE OutcomeStep
  OBVIOUS
<1>1. TypeOK /\ \A p \in Payments : Exists(p) => payment[p] \in Payment
  BY StoredRow DEF IInv
<1>2. ASSUME UNCHANGED payment PROVE OutcomeStep
  BY <1>2 DEF OutcomeStep
<1>3. ASSUME NEW p \in Payments, NEW o \in Orders, Register(p, o)
      PROVE  OutcomeStep
  BY <1>1, <1>3 DEF Register, OutcomeStep, TypeOK
<1>4. ASSUME NEW p \in Payments, PersistAuthorization(p)
      PROVE  OutcomeStep
  BY <1>1, <1>4 DEF PersistAuthorization, OutcomeStep, TypeOK, Payment
<1>5. ASSUME NEW p \in Payments, MarkFailed(p)
      PROVE  OutcomeStep
  BY <1>1, <1>5 DEF MarkFailed, OutcomeStep, TypeOK, Payment
<1>6. ASSUME NEW p \in Payments, NEW a \in 1..Amount, Refund(p, a)
      PROVE  OutcomeStep
  <2>1. payment[p].status \in {"PAID", "PARTIALLY_REFUNDED"}
    BY <1>1, <1>6, BoundsAssumption DEF Refund, RemainingRefundable
  <2> QED
    BY <1>1, <1>6, <2>1 DEF Refund, OutcomeStep, TypeOK, Payment
<1>7. ASSUME NEW c \in Callers,
             ApplyVerified(c) \/ SettleAfterCancellation(c) \/ MarkNotPaid(c)
      PROVE  OutcomeStep
  <2>1. PICK p \in Payments, status \in {"PAID", "FAILED"} :
           /\ payment[p].status = "PENDING"
           /\ payment' = [payment EXCEPT ![p].status = status]
    BY <1>1, <1>7 DEF ApplyVerified, SettleAfterCancellation, MarkNotPaid, StillPending,
       Ready, TypeOK, Call
  <2> QED
    BY <1>1, <2>1 DEF OutcomeStep, TypeOK
<1>8. ASSUME \/ \E o : \/ \E redemption : Checkout(o, redemption)
                       \/ CreateStaffOrder(o) \/ Cancel(o) \/ ExpireOrder(o)
                       \/ ApproveCredit(o)
             \/ \E p : \/ Authorize(p) \/ ReplayInitiation(p) \/ LoseInitiation(p)
                       \/ VisitGateway(p)
             \/ \E c : \/ \E p, status : Callback(c, p, status)
                       \/ \E p : Recheck(c, p)
                       \/ \E answer : GatewayAnswers(c, answer)
                       \/ RecordUnconfirmed(c) \/ EndCall(c)
             \/ Tick
             \/ UNCHANGED vars
      PROVE  UNCHANGED payment
  BY <1>8 DEF Checkout, CreateStaffOrder, Cancel, ExpireOrder, CloseOrder, ApproveCredit,
     Authorize, ReplayInitiation, LoseInitiation, VisitGateway, Callback, Recheck,
     BeginVerify, GatewayAnswers, RecordUnconfirmed, EndCall, Tick, vars
<1> QED
  BY <1>2, <1>3, <1>4, <1>5, <1>6, <1>7, <1>8 DEF Next

\* For every instance: no late, repeated or concurrent verification changes the
\* outcome of a payment attempt.
THEOREM PaymentOutcomesFinal == Spec => OutcomesAreFinal
<1>1. IInv /\ [Next]_vars => [OutcomeStep]_vars
  BY NextOutcome
<1> QED
  BY <1>1, InitIInv, NextIInv, PTL DEF Spec, OutcomesAreFinal

=============================================================================
