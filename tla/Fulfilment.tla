------------------------------ MODULE Fulfilment ------------------------------
(***************************************************************************)
(* Packing and shipping of orders: fulfillment-command, fulfillment-pick,  *)
(* shipment-dispatch and shipment-delivery of apps/api/src/modules/orders. *)
(*                                                                         *)
(* Every command runs under the order's advisory lock in a serializable    *)
(* transaction, so it is one step; a command repeated under its key only   *)
(* returns its stored answer, which changes nothing.  Payments reach this  *)
(* module as what fulfilment reads of them: whether the order was paid and *)
(* how far it has been refunded.  What becomes of an unpaid order is in    *)
(* OrderPayment.  Left out: addresses (checkout and staff orders both have *)
(* one), actors, audit rows; the events of a dispatch and of a delivery go *)
(* through Outbox and CustomerSms.                                         *)
(***************************************************************************)
EXTENDS Integers, FiniteSets

CONSTANTS
    Orders,
    Lines,      \* the lines of every order, each of its own variant
    Quantity,   \* [Lines -> units of the line]
    NoFulfilment

ASSUME FulfilmentAssumption ==
    /\ Lines # {} /\ Quantity \in [Lines -> Nat \ {0}]

VARIABLES
    order,        \* [Orders -> the order's status and its payment]
    fulfilment,   \* [Orders -> the fulfilment with its shipment, or NoFulfilment]
    onHand        \* [Lines -> units of the variant in the warehouse]

fulfilmentVars == <<order, fulfilment, onHand>>

-----------------------------------------------------------------------------
(* Types                                                                   *)

OrderRow ==
    [status : {"PENDING_PAYMENT", "PAID", "CREDIT_APPROVED", "CANCELLED", "RETURNED"},
     payment : {"none", "PAID", "PARTIALLY_REFUNDED", "REFUNDED"},
     consumed : BOOLEAN]

FulfilmentRow ==
    [status : {"PENDING", "PROCESSING", "READY_TO_SHIP", "SHIPPED", "DELIVERED",
               "CANCELLED", "RETURNED"},
     picked : SUBSET Lines, shipment : BOOLEAN]

FulfilmentTypeOK ==
    /\ order \in [Orders -> OrderRow]
    /\ fulfilment \in [Orders -> FulfilmentRow \cup {NoFulfilment}]
    /\ onHand \in [Lines -> Nat]

NewFulfilment == [status |-> "PENDING", picked |-> {}, shipment |-> FALSE]

Is(o, status) == fulfilment[o] # NoFulfilment /\ fulfilment[o].status = status

FulfilmentInit ==
    /\ order = [o \in Orders |-> [status |-> "PENDING_PAYMENT", payment |-> "none",
                                  consumed |-> FALSE]]
    /\ fulfilment = [o \in Orders |-> NoFulfilment]
    /\ onHand = [l \in Lines |-> Quantity[l] * Cardinality(Orders)]

-----------------------------------------------------------------------------
(* Payment                                                                 *)

\* consumeReservationsForOrder: the reserved units leave the stock.
Consume == [l \in Lines |-> onHand[l] - Quantity[l]]

\* A verified payment settles the order: it takes the goods and opens the
\* fulfilment in the same transaction.
Settle(o) ==
    /\ order[o].status = "PENDING_PAYMENT"
    /\ order' = [order EXCEPT ![o] = [status |-> "PAID", payment |-> "PAID", consumed |-> TRUE]]
    /\ fulfilment' = [fulfilment EXCEPT ![o] = NewFulfilment]
    /\ onHand' = Consume

\* A refund of a part or of the rest; the order and its fulfilment stay.
Refund(o, to) ==
    /\ \/ order[o].payment = "PAID" /\ to \in {"PARTIALLY_REFUNDED", "REFUNDED"}
       \/ order[o].payment = "PARTIALLY_REFUNDED" /\ to = "REFUNDED"
    /\ order' = [order EXCEPT ![o].payment = to]
    /\ UNCHANGED <<fulfilment, onHand>>

-----------------------------------------------------------------------------
(* Packing and shipping                                                    *)

\* Mutant: any payment that was ever settled is proof.
SettledPaymentEver(o) == order[o].payment # "none"

SettledPayment(o) == order[o].payment \in {"PAID", "PARTIALLY_REFUNDED"}

\* hasFulfillmentFinancialProof, given whether the order's credit document is
\* in order.
FinancialProof(o, document) ==
    \/ order[o].status = "PAID" /\ SettledPayment(o)
    \/ order[o].status = "CREDIT_APPROVED" /\ document /\ order[o].payment = "none"

Start(o, document) ==
    /\ FinancialProof(o, document) /\ Is(o, "PENDING") /\ order[o].consumed
    /\ fulfilment' = [fulfilment EXCEPT ![o].status = "PROCESSING"]
    /\ UNCHANGED <<order, onHand>>

\* The whole quantity of one line, once.
Pick(o, l, document) ==
    /\ FinancialProof(o, document) /\ Is(o, "PROCESSING") /\ order[o].consumed
    /\ l \notin fulfilment[o].picked
    /\ fulfilment' = [fulfilment EXCEPT ![o].picked = @ \cup {l}]
    /\ UNCHANGED <<order, onHand>>

Ready(o, document) ==
    /\ FinancialProof(o, document) /\ Is(o, "PROCESSING")
    /\ fulfilment[o].picked = Lines
    /\ fulfilment' = [fulfilment EXCEPT ![o].status = "READY_TO_SHIP"]
    /\ UNCHANGED <<order, onHand>>

Dispatch(o, document) ==
    /\ FinancialProof(o, document) /\ Is(o, "READY_TO_SHIP")
    /\ ~fulfilment[o].shipment /\ fulfilment[o].picked = Lines /\ order[o].consumed
    /\ fulfilment' = [fulfilment EXCEPT ![o].status = "SHIPPED", ![o].shipment = TRUE]
    /\ UNCHANGED <<order, onHand>>

\* A delivery is confirmed whatever became of the money.
ConfirmDelivery(o) ==
    /\ Is(o, "SHIPPED") /\ fulfilment[o].shipment
    /\ fulfilment' = [fulfilment EXCEPT ![o].status = "DELIVERED"]
    /\ UNCHANGED <<order, onHand>>

FulfilmentStep(o, document) ==
    \/ Settle(o)
    \/ \E to \in {"PARTIALLY_REFUNDED", "REFUNDED"} : Refund(o, to)
    \/ Start(o, document) \/ Ready(o, document) \/ Dispatch(o, document)
    \/ \E l \in Lines : Pick(o, l, document)
    \/ ConfirmDelivery(o)
=============================================================================
