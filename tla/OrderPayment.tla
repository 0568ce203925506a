----------------------------- MODULE OrderPayment -----------------------------
(***************************************************************************)
(* The life of a sales order between checkout and settlement: the order    *)
(* commands (modules/orders), payment initiation, verification, recheck    *)
(* and refund (modules/payments), the redemption of a promotion and the    *)
(* approval of a staff order on credit.                                    *)
(*                                                                         *)
(* Each of these runs in one SERIALIZABLE transaction under the order's    *)
(* advisory lock: one step here.  The gateway is called strictly outside   *)
(* any transaction, so initiate() is register, the gateway's answer, and a *)
(* second transaction; verify() is a lookup, the answer, and a second      *)
(* transaction.  Between these the process may die, the answer may be      *)
(* lost, and every other command may run.                                  *)
(*                                                                         *)
(* The rows of one order's stock reservations and of its redemption change *)
(* together, so each is one field of the order.  The inventory-only expiry *)
(* sweep is not scheduled (docs/OPERATIONS.md forbids it) and is not here; *)
(* module Inventory has it.  Left out: custom door orders, amounts other   *)
(* than the refunded share, the coupon and per-customer limits.            *)
(***************************************************************************)
EXTENDS Integers, FiniteSets

CONSTANTS
    Orders,          \* orders
    StaffOrders,     \* the orders created by staff, the others by checkout
    Payments,        \* ids that payment attempts may get
    Callers,         \* concurrent verifications
    Amount,          \* what an order costs, in refundable units
    MaxRedemptions,  \* Promotion.maxRedemptions
    Ttl,             \* RESERVATION_TTL_MS
    MaxTime,         \* bound: last instant of the clock
    NoPayment,       \* a payment id not used yet
    NoCall           \* a caller with no verification under way

ASSUME OrdersAssumption ==
    /\ IsFiniteSet(Orders)
    /\ StaffOrders \subseteq Orders

ASSUME BoundsAssumption ==
    /\ Amount \in Nat \ {0} /\ MaxRedemptions \in Nat
    /\ Ttl \in Nat \ {0} /\ MaxTime \in Nat

VARIABLES
    order,       \* [Orders -> the order row, its stock, redemption, fulfilment]
    payment,     \* [Payments -> the payment row or NoPayment]
    usedCount,   \* Promotion.usedCount
    events,      \* the outbox rows: <<topic, aggregate id>>
    initiation,  \* [Payments -> where the initiate() call that created it is]
    gateway,     \* [Payments -> the gateway's session for it]
    call,        \* [Callers -> a verification under way]
    now          \* the clock

vars == <<order, payment, usedCount, events, initiation, gateway, call, now>>

-----------------------------------------------------------------------------
(* Types                                                                   *)

OrderStatuses ==
    {"NONE", "PENDING_PAYMENT", "PAID", "CREDIT_APPROVED", "CANCELLED"}
PaymentStatuses == {"PENDING", "PAID", "FAILED", "PARTIALLY_REFUNDED", "REFUNDED"}

Order ==
    [status : OrderStatuses, deadline : Nat,
     stock : {"NONE", "ACTIVE", "RELEASED", "CONSUMED"},
     redemption : {"NONE", "RESERVED", "CONFIRMED", "RELEASED", "REFUNDED"},
     fulfilled : BOOLEAN]

Payment ==
    [order : Orders, status : PaymentStatuses, authority : BOOLEAN,
     refunded : 0..Amount]

Topics ==
    {"ORDER_CREATED", "ORDER_CANCELLED", "ORDER_EXPIRED", "PAYMENT_VERIFIED",
     "PAYMENT_VERIFIED_AFTER_CANCELLED", "PAYMENT_VERIFICATION_FAILED",
     "PAYMENT_VERIFICATION_UNCONFIRMED", "PAYMENT_REFUNDED"}

\* The gateway's answer to authorize(), kept until its transaction.
InitiationSteps == {"none", "authorizing", "redirect", "rejected", "done"}

\* none: the gateway has no session; open: it has, and the buyer has no link;
\* offered: the buyer has the link; paid; closed: it ended without payment.
Sessions == {"none", "open", "offered", "paid", "closed"}

Call == [payment : Payments, step : {"asking", "verified", "failed", "unconfirmed"}]

ASSUME NullAssumption == NoPayment \notin Payment /\ NoCall \notin Call

TypeOK ==
    /\ order \in [Orders -> Order]
    /\ payment \in [Payments -> Payment \cup {NoPayment}]
    /\ usedCount \in 0..MaxRedemptions
    /\ events \subseteq Topics \X (Orders \cup Payments)
    /\ initiation \in [Payments -> InitiationSteps]
    /\ gateway \in [Payments -> Sessions]
    /\ call \in [Callers -> Call \cup {NoCall}]
    /\ now \in 0..MaxTime

-----------------------------------------------------------------------------
(* Helpers                                                                 *)

Exists(p) == payment[p] # NoPayment

AttemptsOf(o) == {p \in Payments : Exists(p) /\ payment[p].order = o}

\* The order still waits for its money and its reservation has not run out.
Payable(o) == order[o].status = "PENDING_PAYMENT" /\ order[o].deadline > now

Settled == {"PAID", "PARTIALLY_REFUNDED", "REFUNDED"}

\* The redemptions that hold capacity of the promotion.
Holding == {o \in Orders : order[o].redemption \in {"RESERVED", "CONFIRMED"}}

-----------------------------------------------------------------------------
(* Orders                                                                  *)

Init ==
    /\ order = [o \in Orders |->
                  [status |-> "NONE", deadline |-> 0, stock |-> "NONE",
                   redemption |-> "NONE", fulfilled |-> FALSE]]
    /\ payment = [p \in Payments |-> NoPayment]
    /\ usedCount = 0
    /\ events = {}
    /\ initiation = [p \in Payments |-> "none"]
    /\ gateway = [p \in Payments |-> "none"]
    /\ call = [c \in Callers |-> NoCall]
    /\ now = 0

NewOrder(redemption) ==
    [status |-> "PENDING_PAYMENT", deadline |-> now + Ttl, stock |-> "ACTIVE",
     redemption |-> redemption, fulfilled |-> FALSE]

\* Bound: the clock reaches the deadline of every order.
WithinClock == now + Ttl <= MaxTime

\* The conditional UPDATE of promotions.reserve; otherwise COUPON_EXHAUSTED.
CapacityLeft == usedCount < MaxRedemptions

\* createForUser: with a promotion, or with none that applies.
Checkout(o, redemption) ==
    /\ o \notin StaffOrders
    /\ order[o].status = "NONE" /\ WithinClock
    /\ \/ redemption = "NONE" /\ UNCHANGED usedCount
       \/ redemption = "RESERVED" /\ CapacityLeft /\ usedCount' = usedCount + 1
    /\ order' = [order EXCEPT ![o] = NewOrder(redemption)]
    /\ events' = events \cup {<<"ORDER_CREATED", o>>}
    /\ UNCHANGED <<payment, initiation, gateway, call, now>>

CreateStaffOrder(o) ==
    /\ o \in StaffOrders
    /\ order[o].status = "NONE" /\ WithinClock
    /\ order' = [order EXCEPT ![o] = NewOrder("NONE")]
    /\ events' = events \cup {<<"ORDER_CREATED", o>>}
    /\ UNCHANGED <<payment, usedCount, initiation, gateway, call, now>>

\* promotions.releaseForOrder: only RESERVED capacity goes back.
ReturnsCapacity(o) == order[o].redemption = "RESERVED"

\* What cancellation and expiry share: the order is closed, its active
\* reservations and its reserved redemption are released.
CloseOrder(o, topic) ==
    /\ order' = [order EXCEPT
                   ![o].status = "CANCELLED",
                   ![o].stock = IF @ = "ACTIVE" THEN "RELEASED" ELSE @,
                   ![o].redemption = IF @ = "RESERVED" THEN "RELEASED" ELSE @]
    /\ usedCount' = IF ReturnsCapacity(o) THEN usedCount - 1 ELSE usedCount
    /\ events' = events \cup {<<topic, o>>}
    /\ UNCHANGED <<payment, initiation, gateway, call, now>>

\* Mutant: cancellation of a paid order is let through.
MayCancelPaid(o) == order[o].status \in {"PENDING_PAYMENT", "PAID"}

\* A payment attempt under way does not stand in the way of a cancellation.
MayCancel(o) == order[o].status = "PENDING_PAYMENT"

Cancel(o) == MayCancel(o) /\ CloseOrder(o, "ORDER_CANCELLED")

\* Mutant: attempts are not looked at.
MayExpireAttempted(o) ==
    order[o].status = "PENDING_PAYMENT" /\ order[o].deadline <= now

\* Read again under the order's lock, whatever the sweep had selected; an
\* order with any attempt, even a failed one, is left for reconciliation.
MayExpire(o) ==
    /\ order[o].status = "PENDING_PAYMENT"
    /\ order[o].deadline <= now
    /\ AttemptsOf(o) = {}

ExpireOrder(o) == MayExpire(o) /\ CloseOrder(o, "ORDER_EXPIRED")

MayApprove(o) ==
    /\ o \in StaffOrders
    /\ Payable(o)
    /\ order[o].stock = "ACTIVE" /\ ~order[o].fulfilled
    /\ AttemptsOf(o) = {}

\* A staff order becomes a credit sale.
ApproveCredit(o) ==
    /\ MayApprove(o)
    /\ order' = [order EXCEPT ![o].status = "CREDIT_APPROVED",
                              ![o].stock = "CONSUMED",
                              ![o].fulfilled = TRUE]
    /\ UNCHANGED <<payment, usedCount, events, initiation, gateway, call, now>>

-----------------------------------------------------------------------------
(* Payment initiation                                                      *)

\* Mutant: an attempt without an authority is thought abandoned.
NoActiveAttemptWithAuthority(o) ==
    \A p \in AttemptsOf(o) : ~(payment[p].status = "PENDING" /\ payment[p].authority)

\* register: an active attempt is replayed or reported, never repeated.
NoActiveAttempt(o) ==
    \A p \in AttemptsOf(o) : payment[p].status # "PENDING"

Register(p, o) ==
    /\ ~Exists(p)
    /\ Payable(o)
    /\ NoActiveAttempt(o)
    /\ payment' = [payment EXCEPT ![p] =
                     [order |-> o, status |-> "PENDING", authority |-> FALSE,
                      refunded |-> 0]]
    /\ initiation' = [initiation EXCEPT ![p] = "authorizing"]
    /\ UNCHANGED <<order, usedCount, events, gateway, call, now>>

\* The gateway opens a session, and its answer arrives or is lost; or it
\* provably opens none (rejected, throttled, disabled).
Authorize(p) ==
    /\ initiation[p] = "authorizing"
    /\ \/ /\ gateway' = [gateway EXCEPT ![p] = "open"]
          /\ \E step \in {"redirect", "done"} :
                initiation' = [initiation EXCEPT ![p] = step]
       \/ /\ initiation' = [initiation EXCEPT ![p] = "rejected"]
          /\ UNCHANGED gateway
    /\ UNCHANGED <<order, payment, usedCount, events, call, now>>

\* The buyer gets the link when the order can still be paid.
Offer(p) ==
    gateway' = [gateway EXCEPT ![p] =
                  IF @ = "open" /\ Payable(payment[p].order)
                                /\ payment[p].status = "PENDING"
                  THEN "offered" ELSE @]

\* The authority is kept even when the order has been cancelled meanwhile.
PersistAuthorization(p) ==
    /\ initiation[p] = "redirect"
    /\ payment' = [payment EXCEPT ![p].authority =
                     @ \/ payment[p].status = "PENDING"]
    /\ Offer(p)
    /\ initiation' = [initiation EXCEPT ![p] = "done"]
    /\ UNCHANGED <<order, usedCount, events, call, now>>

MarkFailed(p) ==
    /\ initiation[p] = "rejected"
    /\ payment' = [payment EXCEPT ![p].status =
                     IF @ = "PENDING" THEN "FAILED" ELSE @]
    /\ initiation' = [initiation EXCEPT ![p] = "done"]
    /\ UNCHANGED <<order, usedCount, events, gateway, call, now>>

\* A retry of initiate() finds the attempt with its authority: attemptForExisting.
ReplayInitiation(p) ==
    /\ Exists(p) /\ payment[p].status = "PENDING" /\ payment[p].authority
    /\ Payable(payment[p].order)
    /\ Offer(p)
    /\ UNCHANGED <<order, payment, usedCount, events, initiation, call, now>>

\* The process dies between two steps of initiate().
LoseInitiation(p) ==
    /\ initiation[p] \in {"authorizing", "redirect", "rejected"}
    /\ initiation' = [initiation EXCEPT ![p] = "done"]
    /\ UNCHANGED <<order, payment, usedCount, events, gateway, call, now>>

-----------------------------------------------------------------------------
(* The buyer at the gateway                                                *)

\* The buyer pays whenever he likes: nothing tells the gateway that the order
\* was cancelled.  A session that ended without payment stays unpaid.
VisitGateway(p) ==
    /\ gateway[p] = "offered"
    /\ \E outcome \in {"paid", "closed"} :
          gateway' = [gateway EXCEPT ![p] = outcome]
    /\ UNCHANGED <<order, payment, usedCount, events, initiation, call, now>>

-----------------------------------------------------------------------------
(* Verification                                                            *)

\* Mutant: the browser's NOK is taken as proof.
StepForFailing(status) == IF status = "NOK" THEN "failed" ELSE "asking"

\* The unsigned browser status NOK never reaches the gateway.
StepFor(status) == IF status = "NOK" THEN "unconfirmed" ELSE "asking"

BeginVerify(c, p, status) ==
    /\ call[c] = NoCall
    /\ Exists(p) /\ payment[p].authority /\ payment[p].status = "PENDING"
    /\ call' = [call EXCEPT ![c] = [payment |-> p, step |-> StepFor(status)]]
    /\ UNCHANGED <<order, payment, usedCount, events, initiation, gateway, now>>

\* Anyone may open the callback's address, at any time and again.
Callback(c, p, status) == BeginVerify(c, p, status)

\* Staff ask again about an attempt that was recorded as unconfirmed.
Recheck(c, p) ==
    /\ <<"PAYMENT_VERIFICATION_UNCONFIRMED", p>> \in events
    /\ BeginVerify(c, p, "none")

\* What the gateway can answer about a session in state s: verified and
\* failed only about a session that has ended; a timeout proves nothing.
Answers(s) ==
    {"unconfirmed"} \cup (IF s = "paid" THEN {"verified"} ELSE {})
                    \cup (IF s = "closed" THEN {"failed"} ELSE {})

GatewayAnswers(c, answer) ==
    /\ call[c] # NoCall /\ call[c].step = "asking"
    /\ answer \in Answers(gateway[call[c].payment])
    /\ call' = [call EXCEPT ![c].step = answer]
    /\ UNCHANGED <<order, payment, usedCount, events, initiation, gateway, now>>

Ready(c, step) == call[c] # NoCall /\ call[c].step = step

Returned(c) == call' = [call EXCEPT ![c] = NoCall]

\* Mutant: the status read before the gateway call is trusted.
StillPendingStale(p) == payment[p].status \in PaymentStatuses

\* The payment is read again under the order's lock.
StillPending(p) == payment[p].status = "PENDING"

\* Mutant: the order is not read again.
ClosedMeanwhileIgnored(o) == order[o].status = "NONE"

\* A cancellation or an expiry won the order's lock.
ClosedMeanwhile(o) == order[o].status = "CANCELLED"

ApplyVerified(c) ==
    LET p == call[c].payment
        o == payment[p].order
    IN  /\ Ready(c, "verified")
        /\ StillPending(p)
        /\ ~ClosedMeanwhile(o)
        /\ order[o].status # "CREDIT_APPROVED"
        /\ payment' = [payment EXCEPT ![p].status = "PAID"]
        /\ order' = [order EXCEPT
                       ![o].status = "PAID",
                       ![o].redemption = IF @ = "RESERVED" THEN "CONFIRMED" ELSE @,
                       ![o].stock = IF @ = "ACTIVE" THEN "CONSUMED" ELSE @,
                       ![o].fulfilled = TRUE]
        /\ events' = events \cup {<<"PAYMENT_VERIFIED", p>>}
        /\ Returned(c)
        /\ UNCHANGED <<usedCount, initiation, gateway, now>>

\* The money is booked and operations are told; nothing is consumed.
SettleAfterCancellation(c) ==
    LET p == call[c].payment
    IN  /\ Ready(c, "verified")
        /\ StillPending(p)
        /\ ClosedMeanwhile(payment[p].order)
        /\ payment' = [payment EXCEPT ![p].status = "PAID"]
        /\ events' = events \cup {<<"PAYMENT_VERIFIED_AFTER_CANCELLED", p>>}
        /\ Returned(c)
        /\ UNCHANGED <<order, usedCount, initiation, gateway, now>>

MarkNotPaid(c) ==
    LET p == call[c].payment
    IN  /\ Ready(c, "failed")
        /\ StillPending(p)
        /\ payment' = [payment EXCEPT ![p].status = "FAILED"]
        /\ events' = events \cup {<<"PAYMENT_VERIFICATION_FAILED", p>>}
        /\ Returned(c)
        /\ UNCHANGED <<order, usedCount, initiation, gateway, now>>

\* One deduplicated record, whoever asks how often.
RecordUnconfirmed(c) ==
    LET p == call[c].payment
    IN  /\ Ready(c, "unconfirmed")
        /\ StillPending(p)
        /\ events' = events \cup {<<"PAYMENT_VERIFICATION_UNCONFIRMED", p>>}
        /\ Returned(c)
        /\ UNCHANGED <<order, payment, usedCount, initiation, gateway, now>>

\* The payment has its outcome already: replay or conflict, and no change.
\* Or the gateway is unavailable, or the process dies: nothing is recorded.
EndCall(c) ==
    /\ call[c] # NoCall
    /\ Returned(c)
    /\ UNCHANGED <<order, payment, usedCount, events, initiation, gateway, now>>

-----------------------------------------------------------------------------
(* Refunds                                                                 *)

\* Mutant: earlier partial refunds are forgotten.
RemainingForgetful(p) ==
    IF payment[p].status \in {"PAID", "PARTIALLY_REFUNDED"} THEN Amount ELSE 0

RemainingRefundable(p) ==
    IF payment[p].status \in {"PAID", "PARTIALLY_REFUNDED"}
    THEN Amount - payment[p].refunded ELSE 0

\* Mutant: a partial refund gives the redemption's capacity back.
RestoresCapacityPartly(p, a) ==
    order[payment[p].order].redemption = "CONFIRMED"

\* promotions.applyRefund: only a refund of the whole amount does.
RestoresCapacity(p, a) ==
    /\ payment[p].refunded + a = Amount
    /\ order[payment[p].order].redemption = "CONFIRMED"

Refund(p, a) ==
    LET o == payment[p].order
        total == payment[p].refunded + a
    IN  /\ Exists(p)
        /\ a <= RemainingRefundable(p)
        /\ payment' = [payment EXCEPT
                         ![p].refunded = total,
                         ![p].status = IF total = Amount THEN "REFUNDED"
                                       ELSE "PARTIALLY_REFUNDED"]
        /\ order' = [order EXCEPT ![o].redemption =
                       IF total = Amount /\ @ = "CONFIRMED" THEN "REFUNDED" ELSE @]
        /\ usedCount' = IF RestoresCapacity(p, a) THEN usedCount - 1 ELSE usedCount
        /\ events' = events \cup {<<"PAYMENT_REFUNDED", p>>}
        /\ UNCHANGED <<initiation, gateway, call, now>>

Tick ==
    /\ now < MaxTime
    /\ now' = now + 1
    /\ UNCHANGED <<order, payment, usedCount, events, initiation, gateway, call>>

-----------------------------------------------------------------------------
(* Specification                                                           *)

Next ==
    \/ \E o \in Orders :
          \/ \E redemption \in {"NONE", "RESERVED"} : Checkout(o, redemption)
          \/ CreateStaffOrder(o)
          \/ Cancel(o)
          \/ ExpireOrder(o)
          \/ ApproveCredit(o)
    \/ \E p \in Payments :
          \/ \E o \in Orders : Register(p, o)
          \/ Authorize(p)
          \/ PersistAuthorization(p)
          \/ MarkFailed(p)
          \/ ReplayInitiation(p)
          \/ LoseInitiation(p)
          \/ VisitGateway(p)
          \/ \E a \in 1..Amount : Refund(p, a)
    \/ \E c \in Callers :
          \/ \E p \in Payments, status \in {"OK", "NOK"} : Callback(c, p, status)
          \/ \E p \in Payments : Recheck(c, p)
          \/ \E answer \in {"verified", "failed", "unconfirmed"} :
                GatewayAnswers(c, answer)
          \/ ApplyVerified(c)
          \/ SettleAfterCancellation(c)
          \/ MarkNotPaid(c)
          \/ RecordUnconfirmed(c)
          \/ EndCall(c)
    \/ Tick

Spec == Init /\ [][Next]_vars

-----------------------------------------------------------------------------
(* Properties                                                              *)

\* Stock and fulfilment follow the order in every interleaving of settlement,
\* cancellation, expiry and credit approval: an order that was paid or sold
\* on credit has consumed its stock and is being fulfilled, a closed one has
\* given its stock back and ships nothing, a waiting one still holds it.
StockFollowsOrder ==
    \A o \in Orders :
        LET sold == order[o].status \in {"PAID", "CREDIT_APPROVED"} IN
        /\ sold <=> order[o].stock = "CONSUMED"
        /\ sold <=> order[o].fulfilled
        /\ order[o].status = "CANCELLED" <=> order[o].stock = "RELEASED"
        /\ order[o].status = "PENDING_PAYMENT" <=> order[o].stock = "ACTIVE"

\* No lost settlement (ADR-0018): money the gateway has taken belongs to an
\* attempt whose authority is stored, and the attempt is never written off,
\* neither by a browser's NOK nor by an answer that proves nothing.
NoLostSettlement ==
    \A p \in Payments :
        gateway[p] = "paid" =>
            Exists(p) /\ payment[p].authority /\ payment[p].status # "FAILED"

\* No double charge: initiate() never lets the buyer pay twice for one order,
\* whatever was retried, lost or rejected: at most one attempt of an order
\* has a session that can be paid or was paid.
NoDoubleCharge ==
    \A p, q \in Payments :
        /\ Exists(p) /\ Exists(q) /\ payment[p].order = payment[q].order
        /\ gateway[p] \in {"offered", "paid"} /\ gateway[q] \in {"offered", "paid"}
        => p = q

\* No lost refund signal (ADR-0018): money booked on a closed order has been
\* announced to operations, and a paid order has its money.
SettlementAccounted ==
    /\ \A p \in Payments :
         Exists(p) /\ payment[p].status \in Settled =>
            \/ /\ order[payment[p].order].status = "PAID"
               /\ <<"PAYMENT_VERIFIED", p>> \in events
            \/ /\ order[payment[p].order].status = "CANCELLED"
               /\ <<"PAYMENT_VERIFIED_AFTER_CANCELLED", p>> \in events
    /\ \A o \in Orders :
         order[o].status = "PAID" =>
            \E p \in AttemptsOf(o) : payment[p].status \in Settled /\ gateway[p] = "paid"

\* An order that was expired by the worker or sold on credit never had a
\* payment attempt: register and these two race for the order's lock.
NeverAttempted ==
    \A o \in Orders :
        \/ order[o].status = "CREDIT_APPROVED"
        \/ <<"ORDER_EXPIRED", o>> \in events
        => AttemptsOf(o) = {}

\* usedCount is the number of redemptions that hold capacity, through
\* checkout, cancellation, expiry, settlement and refunds, and never exceeds
\* the promotion's limit.
PromotionCapacity ==
    /\ usedCount = Cardinality(Holding)
    /\ usedCount <= MaxRedemptions

\* The refunds of a payment never exceed what was captured, and its status
\* says how much of it went back.
RefundsBounded ==
    \A p \in Payments : Exists(p) =>
        /\ payment[p].refunded <= Amount
        /\ payment[p].refunded > 0 => payment[p].status \in {"PARTIALLY_REFUNDED", "REFUNDED"}
        /\ payment[p].status = "REFUNDED" <=> payment[p].refunded = Amount

\* What a step may do to the outcome of an attempt that has one.
OutcomeStep ==
    \A p \in Payments : Exists(p) =>
        \/ payment[p].status = "PENDING"
        \/ payment'[p].status = payment[p].status
        \/ /\ payment[p].status = "PAID"
           /\ payment'[p].status \in {"PARTIALLY_REFUNDED", "REFUNDED"}
        \/ /\ payment[p].status = "PARTIALLY_REFUNDED"
           /\ payment'[p].status = "REFUNDED"

\* A verification that comes late, twice or out of order changes no outcome:
\* an attempt leaves PENDING once, a settled one is only ever refunded
\* further, and a failed one is never resurrected.
OutcomesAreFinal == [][OutcomeStep]_vars

=============================================================================
