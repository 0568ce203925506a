------------------------------ MODULE CreditSale ------------------------------
(***************************************************************************)
(* Sales on credit: apps/api/src/modules/credit, on top of Fulfilment.     *)
(*                                                                         *)
(* One customer's account: a limit, a debt document for every order sold   *)
(* on credit and for the balance the customer came with, receipts that are *)
(* allocated to several documents, corrections, and what happens when the  *)
(* goods come back: the debt is reduced first, the rest becomes a refund   *)
(* that is paid out later.  Every command runs under the account's lock,   *)
(* those about an order under the order's lock as well, in a serializable  *)
(* transaction: one step.                                                  *)
(*                                                                         *)
(* The ledger is kept as its sums by document and kind, which is how the   *)
(* code reads it; the returns of an order likewise, so that a payout over  *)
(* two returns stands for one for each.  The expected versions and the     *)
(* evidence hashes of the commands only refuse stale and repeated ones;    *)
(* they, the due dates (an overdue debt only refuses another sale) and the *)
(* customer's own status are left out.  The triggers of                    *)
(* migrations/2026101*credit* check at commit what the properties below    *)
(* say; the model has none of them, so the properties show that the        *)
(* commands' own conditions are enough and no command fails there.         *)
(***************************************************************************)
EXTENDS Fulfilment

CONSTANTS
    Price,        \* [Lines -> price of a unit; a promotional line is free]
    Opening,      \* the document of the opening balance
    Limits,       \* the credit limits that a policy may set
    MaxDebt,      \* MAX_CREDIT_IRR
    MaxReturns,   \* return documents of an order, 100 in the code
    Amounts,      \* bound: amounts that are typed into a command
    MaxUnits,     \* bound: units of a line that are typed into a return
    ReceiptIds,   \* bound: receipts that count at the same time
    NoDocument, NoAccount

Documents == Orders \cup {Opening}

\* The sum of f, of naturals: its units are 1..f[x] for each x.
Total(f) == Cardinality(UNION {{x} \X (1..f[x]) : x \in DOMAIN f})

Worth(units) == Total([l \in Lines |-> Price[l] * units[l]])

GrandTotal == Worth(Quantity)

Account == [status : {"ACTIVE", "SUSPENDED"}, limit : Limits]

\* adjusted: there is a debit adjustment, or a credit note that belongs to no
\* return; noted, refundDue and paidOut sum up the returns.
Document ==
    [amount : 1..MaxDebt, adjustment : Int, adjusted : BOOLEAN,
     noted : Nat, refundDue : Nat, paidOut : Nat, returns : 0..MaxReturns]

\* A receipt is what it allocates to each document.
Receipt == [Documents -> Nat]

\* creditAmount refuses what is beyond MAX_CREDIT_IRR.
ASSUME CreditAssumption ==
    /\ IsFiniteSet(Orders) /\ IsFiniteSet(Lines) /\ IsFiniteSet(ReceiptIds)
    /\ Price \in [Lines -> Nat] /\ GrandTotal > 0
    /\ Opening \notin Orders
    /\ MaxDebt \in Nat /\ Limits \subseteq 0..MaxDebt /\ Amounts \subseteq 1..MaxDebt
    /\ MaxReturns \in Nat /\ MaxUnits \in Nat
    /\ NoAccount \notin Account /\ NoDocument \notin Document
    /\ NoFulfilment \notin FulfilmentRow

VARIABLES
    account,    \* the account's policy, or NoAccount
    document,   \* [Documents -> the sums of its ledger entries, or NoDocument]
    receipts,   \* [ReceiptIds -> what it allocates: nothing once it is reversed]
    returned    \* [Orders -> [Lines -> units that came back]]

creditVars == <<account, document, receipts, returned>>
vars == <<fulfilmentVars, creditVars>>

-----------------------------------------------------------------------------
(* Types                                                                   *)

TypeOK ==
    /\ FulfilmentTypeOK
    /\ account \in Account \cup {NoAccount}
    /\ document \in [Documents -> Document \cup {NoDocument}]
    /\ receipts \in [ReceiptIds -> Receipt]
    /\ returned \in [Orders -> [Lines -> Nat]]
    /\ \A o \in Orders, l \in Lines : returned[o][l] <= Quantity[l]

NewDocument(amount) ==
    [amount |-> amount, adjustment |-> 0, adjusted |-> FALSE,
     noted |-> 0, refundDue |-> 0, paidOut |-> 0, returns |-> 0]

NoReceipt == [d \in Documents |-> 0]

Init ==
    /\ FulfilmentInit
    /\ account = NoAccount
    /\ document = [d \in Documents |-> NoDocument]
    /\ receipts = [r \in ReceiptIds |-> NoReceipt]
    /\ returned = [o \in Orders |-> [l \in Lines |-> 0]]

-----------------------------------------------------------------------------
(* Balances                                                                *)

Issued == {d \in Documents : document[d] # NoDocument}

\* Receipts net of reversals.
Received(d) == Total([r \in ReceiptIds |-> receipts[r][d]])

Principal(d) == document[d].amount + document[d].adjustment - document[d].noted

Outstanding(d) == Principal(d) - Received(d)

Debt == Total([d \in Documents |-> IF d \in Issued THEN Outstanding(d) ELSE 0])

\* availableCredit of the summary.
AvailableCredit ==
    IF account.status = "ACTIVE" /\ account.limit > Debt
    THEN account.limit - Debt ELSE 0

\* checkDebtBound
WithinDebtBound(delta) == Debt + delta \in 0..MaxDebt

-----------------------------------------------------------------------------
(* The account                                                             *)

Policy(status, limit) ==
    /\ account' = [status |-> status, limit |-> limit]
    /\ UNCHANGED <<fulfilmentVars, document, receipts, returned>>

OpeningBalance(amount) ==
    /\ account # NoAccount
    /\ document[Opening] = NoDocument
    /\ WithinDebtBound(amount)
    /\ document' = [document EXCEPT ![Opening] = NewDocument(amount)]
    /\ UNCHANGED <<fulfilmentVars, account, receipts, returned>>

\* approve: the goods are taken and the fulfilment is opened in the same
\* transaction.  An order with any payment attempt is refused.
Approve(o) ==
    /\ order[o].status = "PENDING_PAYMENT" /\ order[o].payment = "none"
    /\ fulfilment[o] = NoFulfilment
    /\ account # NoAccount /\ account.status = "ACTIVE"
    /\ GrandTotal <= AvailableCredit
    /\ document' = [document EXCEPT ![o] = NewDocument(GrandTotal)]
    /\ order' = [order EXCEPT ![o].status = "CREDIT_APPROVED", ![o].consumed = TRUE]
    /\ fulfilment' = [fulfilment EXCEPT ![o] = NewFulfilment]
    /\ onHand' = Consume
    /\ UNCHANGED <<account, receipts, returned>>

\* Money from the customer, allocated to open documents.
RecordReceipt(r, allocations) ==
    /\ receipts[r] = NoReceipt
    /\ \E d \in Documents : allocations[d] > 0
    /\ \A d \in Documents :
         allocations[d] > 0 => d \in Issued /\ allocations[d] <= Outstanding(d)
    /\ receipts' = [receipts EXCEPT ![r] = allocations]
    /\ UNCHANGED <<fulfilmentVars, account, document, returned>>

AllocatedTo(r) == {d \in Documents : receipts[r][d] > 0}

\* Mutant: one document without a refund is enough.
ReversibleSome(r) == \E d \in AllocatedTo(r) : document[d].refundDue = 0

\* A receipt is reversed as a whole, once, and not when part of the money has
\* become a refund.
Reversible(r) == \A d \in AllocatedTo(r) : document[d].refundDue = 0

ReverseReceipt(r) ==
    /\ receipts[r] # NoReceipt
    /\ Reversible(r)
    /\ WithinDebtBound(Total(receipts[r]))
    /\ receipts' = [receipts EXCEPT ![r] = NoReceipt]
    /\ UNCHANGED <<fulfilmentVars, account, document, returned>>

\* A debit adjustment or a credit note.
Adjust(d, amount) ==
    /\ d \in Issued /\ document[d].returns = 0
    /\ Outstanding(d) + amount >= 0
    /\ Principal(d) + amount <= MaxDebt
    /\ WithinDebtBound(amount)
    /\ document' = [document EXCEPT ![d].adjustment = @ + amount, ![d].adjusted = TRUE]
    /\ UNCHANGED <<fulfilmentVars, account, receipts, returned>>

-----------------------------------------------------------------------------
(* Goods that come back                                                    *)

\* Mutant: earlier returns are forgotten.
WithinSaleAlone(o, units) == \A l \in Lines : units[l] <= Quantity[l]

\* No more units come back than were sold, all returns counted.
WithinSale(o, units) == \A l \in Lines : returned[o][l] + units[l] <= Quantity[l]

\* The debt is reduced first; the rest is due to the customer.
DebtCredit(o, amount) == IF amount < Outstanding(o) THEN amount ELSE Outstanding(o)

\* compensate, for the units that come back; an order is closed when all of
\* them have, free lines too.
Compensate(o, units, closed) ==
    LET amount == Worth(units)
        back == [l \in Lines |-> returned[o][l] + units[l]]
        complete == back = Quantity
    IN  /\ order[o].status = "CREDIT_APPROVED" /\ document[o] # NoDocument
        /\ fulfilment[o] # NoFulfilment
        /\ document[o].returns < MaxReturns /\ ~document[o].adjusted
        /\ WithinSale(o, units)
        /\ document' = [document EXCEPT
              ![o].noted = @ + DebtCredit(o, amount),
              ![o].refundDue = @ + amount - DebtCredit(o, amount),
              ![o].returns = @ + 1]
        /\ returned' = [returned EXCEPT ![o] = back]
        /\ onHand' = [l \in Lines |-> onHand[l] + units[l]]
        /\ order' = IF complete THEN [order EXCEPT ![o].status = closed] ELSE order
        /\ fulfilment' = IF complete THEN [fulfilment EXCEPT ![o].status = closed]
                         ELSE fulfilment
        /\ UNCHANGED <<account, receipts>>

\* Before dispatch everything goes back to where it was reserved.
Cancel(o) ==
    /\ \E status \in {"PENDING", "PROCESSING", "READY_TO_SHIP"} : Is(o, status)
    /\ ~fulfilment[o].shipment /\ document[o] # NoDocument /\ document[o].returns = 0
    /\ order[o].consumed
    /\ Compensate(o, Quantity, "CANCELLED")

\* After delivery some units of some lines.
Receive(o, units) ==
    /\ Is(o, "DELIVERED") /\ fulfilment[o].shipment
    /\ \E l \in Lines : units[l] > 0
    /\ Compensate(o, units, "RETURNED")

Payout(o, amount) ==
    /\ account # NoAccount /\ document[o] # NoDocument
    /\ amount <= document[o].refundDue - document[o].paidOut
    /\ document' = [document EXCEPT ![o].paidOut = @ + amount]
    /\ UNCHANGED <<fulfilmentVars, account, receipts, returned>>

-----------------------------------------------------------------------------
(* Specification                                                           *)

\* What hasFulfillmentFinancialProof asks of the credit document.
SoldOnCredit(o) == document[o] # NoDocument /\ document[o].amount = GrandTotal

Next ==
    \/ \E o \in Orders : FulfilmentStep(o, SoldOnCredit(o)) /\ UNCHANGED creditVars
    \/ \E status \in {"ACTIVE", "SUSPENDED"}, limit \in Limits : Policy(status, limit)
    \/ \E amount \in Amounts : OpeningBalance(amount)
    \/ \E o \in Orders : Approve(o) \/ Cancel(o)
    \/ \E r \in ReceiptIds, allocations \in [Documents -> 0..GrandTotal] :
          RecordReceipt(r, allocations)
    \/ \E r \in ReceiptIds : ReverseReceipt(r)
    \/ \E d \in Documents, amount \in Amounts : Adjust(d, amount) \/ Adjust(d, -amount)
    \/ \E o \in Orders, units \in [Lines -> 0..MaxUnits] : Receive(o, units)
    \/ \E o \in Orders, amount \in Amounts : Payout(o, amount)

Spec == Init /\ [][Next]_vars

-----------------------------------------------------------------------------
(* Properties                                                              *)

Sold(o) == document[o] # NoDocument

\* No unit is in two places: what is not in the warehouse was taken for an
\* order and has not come back; goods come back without a shipment only from
\* a cancelled order, and otherwise only after their delivery.
GoodsReconcile ==
    /\ \A l \in Lines :
         onHand[l] + Total([o \in Orders |-> IF order[o].consumed
                                             THEN Quantity[l] - returned[o][l] ELSE 0])
           = Quantity[l] * Cardinality(Orders)
    /\ \A o \in Orders : (\E l \in Lines : returned[o][l] > 0) =>
         IF order[o].status = "CANCELLED" THEN ~fulfilment[o].shipment
         ELSE fulfilment[o].shipment /\ fulfilment[o].status \in {"DELIVERED", "RETURNED"}

\* No document is overpaid, and debt and refunds together account for the
\* price of exactly the units that came back.
DebtReconciles ==
    /\ \A d \in Issued : Outstanding(d) >= 0
    /\ \A o \in Orders : Sold(o) =>
         /\ document[o].noted + document[o].refundDue = Worth(returned[o])
         /\ document[o].returns > 0 => ~document[o].adjusted

\* A refund is only due out of money that was received for the order and
\* has not been reversed, when nothing is owed any more; no more is paid out.
RefundBacked ==
    \A o \in Orders : Sold(o) =>
        /\ document[o].refundDue <= Received(o)
        /\ document[o].refundDue > 0 => Outstanding(o) = 0
        /\ document[o].paidOut <= document[o].refundDue

\* A credit sale is closed exactly when all of its goods are back; then the
\* fulfilment says the same and nothing is owed.
ClosedIsSettled ==
    \A o \in Orders : Sold(o) =>
        /\ order[o].status \in {"CREDIT_APPROVED", "CANCELLED", "RETURNED"}
        /\ order[o].status # "CREDIT_APPROVED" <=> returned[o] = Quantity
        /\ order[o].status # "CREDIT_APPROVED" =>
             Outstanding(o) = 0 /\ fulfilment[o].status = order[o].status

\* The trigger credit_return_reconcile ("Credit return goods/debt/refund
\* evidence does not reconcile") never has to refuse what the commands write,
\* in whatever order sales, receipts, reversals, corrections, shipments,
\* returns and payouts come.
CompensationReconciles ==
    GoodsReconcile /\ DebtReconciles /\ RefundBacked /\ ClosedIsSettled

\* Goods are taken for an order only against its payment or within the limit
\* of an active account, all its debts counted; and they leave the house only
\* while that payment has not been refunded in full, or that sale has not been
\* undone, since.
GoodsLeaveBacked ==
    [][\A o \in Orders :
         /\ ~order[o].consumed /\ order'[o].consumed =>
              \/ order'[o].payment = "PAID"
              \/ account.status = "ACTIVE" /\ Debt' <= account.limit
         /\ fulfilment[o] # NoFulfilment /\ ~fulfilment[o].shipment
            /\ fulfilment'[o].shipment =>
              \/ order[o].status = "PAID" /\ order[o].payment # "REFUNDED"
              \/ order[o].status = "CREDIT_APPROVED" /\ Sold(o) /\ document[o].returns = 0]_vars
=============================================================================
