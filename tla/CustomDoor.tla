------------------------------ MODULE CustomDoor ------------------------------
(***************************************************************************)
(* A door that is built to order: apps/api/src/modules/custom-door-orders, *)
(* with the payments of apps/api/src/modules/payments and the invoices of  *)
(* apps/api/src/modules/invoices that belong to it.                        *)
(*                                                                         *)
(* The order is quoted, possibly several times, accepted by the customer,  *)
(* paid in full, approved by a technician and built from parts that are    *)
(* reserved in the warehouse and consumed.  Each command is a serializable *)
(* transaction, the door's and the payment's under the order's lock: one   *)
(* step.  The gateway and the browser answer between the steps.            *)
(*                                                                         *)
(* Every command of DoorOrdersService names the version of the row that    *)
(* its sender saw and is refused when the row has moved on.  A version is  *)
(* only ever compared for equality, so the model has none: it keeps        *)
(* whether the row has moved on since the customer looked at it, because   *)
(* the customer's command is consent, and whether the sale has since an    *)
(* invoice draft was made of it.  A command repeated under its key is      *)
(* answered with the order as it is, which is what looking at it does.     *)
(*                                                                         *)
(* What a part costs and which rate or invoice policy applies is data and  *)
(* left out; a price is one number above zero, and the parts are those     *)
(* that are linked to the warehouse.  How a reservation moves stock is     *)
(* Inventory's; which answers of the gateway are believed is OrderPayment's.*)
(***************************************************************************)
EXTENDS Integers, Sequences, FiniteSets

CONSTANTS
    Totals,       \* the prices a door may be given
    Deposits,     \* amounts of attempts that an earlier release left open
    Parts,        \* the stock-linked requirements of a quotation
    MaxQuotes,    \* bound: quotations of the order
    MaxAttempts,  \* bound: payment attempts of the order
    MaxDrafts,    \* bound: invoice drafts of the order
    NoPayment, NoDraft

Attempts == 1 .. MaxAttempts
Drafts == 1 .. MaxDrafts
Manual == 0    \* no total: a rate or a rule is missing, so the price is set by hand
NoQuote == 0   \* a quotation version that is null

VARIABLES
    door,      \* the DoorOrder row
    sale,      \* the Order row with the same id
    quotes,    \* the quotations, by version; they are never changed
    payment,   \* [Attempts -> payment and its allocation to a quotation, or NoPayment]
    part,      \* [quotation versions -> [Parts -> where the reservation stands]]
    draft,     \* [Drafts -> invoice draft made from the order, or NoDraft]
    seen       \* the quotation on the customer's screen, and whether it is up to date

vars == <<door, sale, quotes, payment, part, draft, seen>>

-----------------------------------------------------------------------------
(* Types                                                                   *)

Open == {"DRAFT", "PENDING_QUOTE_APPROVAL", "AWAITING_DEPOSIT", "DEPOSIT_PAID",
         "AWAITING_TECHNICAL_APPROVAL", "APPROVED_FOR_PRODUCTION"}
Building == {"IN_PRODUCTION", "QUALITY_CONTROL", "READY_FOR_DELIVERY", "AWAITING_SETTLEMENT"}
Statuses == Open \cup Building \cup {"COMPLETED", "CANCELLED"}

Door == [status : Statuses \cup {"NONE"}, quote : 0 .. MaxQuotes, accepted : 0 .. MaxQuotes,
         technical : BOOLEAN, delivery : BOOLEAN]

Payment == [status : {"PENDING", "PAID", "PARTIALLY_REFUNDED", "REFUNDED", "FAILED"},
            amount : Nat \ {0}, refunded : Nat, quote : 1 .. MaxQuotes,
            authority : BOOLEAN, review : BOOLEAN]

Draft == [state : {"DRAFT", "ISSUED", "CANCELLED"}, quote : 1 .. MaxQuotes, current : BOOLEAN]

ASSUME DoorAssumption ==
    /\ Totals \subseteq Nat \ {0} /\ Deposits \subseteq Nat \ {0}
    /\ MaxQuotes \in Nat \ {0} /\ MaxAttempts \in Nat \ {0}
    /\ MaxDrafts \in Nat
    /\ NoPayment \notin Payment /\ NoDraft \notin Draft

\* OVERDUE: the row says ACTIVE and expiresAt has passed.
Reservation == {"NONE", "ACTIVE", "OVERDUE", "RELEASED", "CONSUMED"}

DoorTypeOK ==
    /\ door \in Door
    /\ sale \in [status : {"DRAFT", "PENDING_PAYMENT", "PAID", "CANCELLED"}, address : BOOLEAN]
    /\ quotes \in Seq([approved : BOOLEAN, total : Totals \cup {Manual}])
    /\ payment \in [Attempts -> {p \in Payment : p.refunded <= p.amount} \cup {NoPayment}]
    /\ part \in [1 .. MaxQuotes -> [Parts -> Reservation]]
    /\ draft \in [Drafts -> Draft \cup {NoDraft}]
    /\ seen \in [quote : 0 .. MaxQuotes, fresh : BOOLEAN]

-----------------------------------------------------------------------------
(* What the commands read                                                  *)

Quote == quotes[door.quote]

AttemptsIn(statuses) == {p \in Attempts : payment[p] # NoPayment /\ payment[p].status \in statuses}

Received == {"PAID", "PARTIALLY_REFUNDED", "REFUNDED"}

\* The money that counts, what was received less what went back: a payment
\* whose first units were refunded contributes the others.
doorPaid ==
    Cardinality(UNION {{p} \X (payment[p].refunded + 1 .. payment[p].amount) : p \in AttemptsIn(Received)})

Pending == AttemptsIn({"PENDING"})

\* What of a payment can still go back.  Mutant: earlier refunds are forgotten.
RefundableForgetful(p) == payment[p].amount

Refundable(p) == payment[p].amount - payment[p].refunded

\* Mutant: a draft that became a document is forgotten.
InvoicedOpen == {d \in Drafts : draft[d] # NoDraft /\ draft[d].state = "DRAFT"}

\* A draft that blocks a new price: an open one, or one that became a document.
Invoiced == {d \in Drafts : draft[d] # NoDraft /\ draft[d].state # "CANCELLED"}

Held == {"ACTIVE", "OVERDUE"}

\* Mutant: the row moves on under its old version.
DoorBecomesSameVersion(d) ==
    /\ door' = d
    /\ UNCHANGED seen

\* The order row moves on and its version with it: what was seen is stale.
DoorBecomes(d) ==
    /\ door' = d
    /\ seen' = [seen EXCEPT !.fresh = FALSE]

\* The sale's version moves on: a draft was made of an older one.
SaleBecomes(s) ==
    /\ sale' = s
    /\ draft' = [d \in Drafts |-> IF draft[d] = NoDraft THEN NoDraft
                                  ELSE [draft[d] EXCEPT !.current = FALSE]]

\* A new quotation becomes the current one.
Quoted(approved, total) ==
    /\ Len(quotes) < MaxQuotes
    /\ quotes' = Append(quotes, [approved |-> approved, total |-> IF approved THEN total ELSE Manual])

-----------------------------------------------------------------------------
(* The order and its quotations                                            *)

\* POST custom-door-orders and its drafts: a complete price is final at once.
Create(asDraft, total) ==
    LET approved == ~asDraft /\ total # Manual IN
    /\ door.status = "NONE"
    /\ Quoted(approved, total)
    /\ DoorBecomes([door EXCEPT !.status = IF asDraft THEN "DRAFT"
                                           ELSE IF approved THEN "AWAITING_DEPOSIT"
                                           ELSE "PENDING_QUOTE_APPROVAL",
                                !.quote = 1])
    /\ sale' = [sale EXCEPT !.status = IF approved THEN "PENDING_PAYMENT" ELSE "DRAFT"]
    /\ UNCHANGED <<payment, part, draft>>

replaceDraft ==
    /\ door.status = "DRAFT"
    /\ Quoted(FALSE, Manual)
    /\ DoorBecomes([door EXCEPT !.quote = @ + 1])
    /\ UNCHANGED <<sale, payment, part, draft>>

submitDraft(total) ==
    LET approved == total # Manual IN
    /\ door.status = "DRAFT"
    /\ Quoted(approved, total)
    /\ DoorBecomes([door EXCEPT !.quote = @ + 1,
                                !.status = IF approved THEN "AWAITING_DEPOSIT"
                                           ELSE "PENDING_QUOTE_APPROVAL"])
    /\ sale' = [sale EXCEPT !.status = IF approved THEN "PENDING_PAYMENT" ELSE @]
    /\ UNCHANGED <<payment, part, draft>>

\* Mutant: an attempt may still be open at the gateway.
MayRequoteUnreconciled(total) ==
    /\ door.status \in {"PENDING_QUOTE_APPROVAL", "AWAITING_DEPOSIT", "DEPOSIT_PAID",
                        "AWAITING_TECHNICAL_APPROVAL"}
    /\ Invoiced = {}
    /\ sale.status # "PAID"
    /\ \A v \in 1 .. MaxQuotes, r \in Parts : part[v][r] \notin Held \cup {"CONSUMED"}
    /\ total >= doorPaid

\* A price may change until production is approved, and only while nothing
\* has been built on the old one.
MayRequote(total) ==
    /\ door.status \in {"PENDING_QUOTE_APPROVAL", "AWAITING_DEPOSIT", "DEPOSIT_PAID",
                        "AWAITING_TECHNICAL_APPROVAL"}
    /\ Invoiced = {}
    /\ sale.status # "PAID"
    /\ Pending = {}
    /\ \A v \in 1 .. MaxQuotes, r \in Parts : part[v][r] \notin Held \cup {"CONSUMED"}
    /\ total >= doorPaid

approveQuote(total) ==
    /\ MayRequote(total)
    /\ Quoted(TRUE, total)
    /\ DoorBecomes([door EXCEPT !.status = "AWAITING_DEPOSIT", !.quote = @ + 1,
                                !.technical = FALSE, !.accepted = NoQuote])
    /\ SaleBecomes([sale EXCEPT !.status = IF @ = "DRAFT" THEN "PENDING_PAYMENT" ELSE @])
    /\ UNCHANGED <<payment, part>>

\* The customer looks at the order.
View ==
    /\ door.status # "NONE"
    /\ seen' = [quote |-> door.quote, fresh |-> TRUE]
    /\ UNCHANGED <<door, sale, quotes, payment, part, draft>>

\* The customer accepts what the screen shows; the answer may not arrive.
accept ==
    /\ seen.fresh
    /\ door.status \in {"AWAITING_DEPOSIT", "DEPOSIT_PAID", "AWAITING_TECHNICAL_APPROVAL"}
    /\ Quote.approved
    /\ DoorBecomes([door EXCEPT !.accepted = door.quote,
                                !.status = IF doorPaid >= Quote.total THEN "DEPOSIT_PAID"
                                           ELSE "AWAITING_DEPOSIT"])
    /\ UNCHANGED <<sale, quotes, payment, part, draft>>

-----------------------------------------------------------------------------
(* Production                                                              *)

Agreed == Quote.approved /\ door.accepted = door.quote

PaidInFull == doorPaid >= Quote.total

technical ==
    /\ door.status \in {"DEPOSIT_PAID", "AWAITING_TECHNICAL_APPROVAL"}
    /\ Agreed /\ PaidInFull
    /\ DoorBecomes([door EXCEPT !.technical = TRUE, !.status = "AWAITING_TECHNICAL_APPROVAL"])
    /\ UNCHANGED <<sale, quotes, payment, part, draft>>

DOOR_TRANSITIONS == {
    <<"AWAITING_DEPOSIT", "DEPOSIT_PAID">>,
    <<"DEPOSIT_PAID", "AWAITING_TECHNICAL_APPROVAL">>,
    <<"AWAITING_TECHNICAL_APPROVAL", "APPROVED_FOR_PRODUCTION">>,
    <<"APPROVED_FOR_PRODUCTION", "IN_PRODUCTION">>,
    <<"IN_PRODUCTION", "QUALITY_CONTROL">>,
    <<"QUALITY_CONTROL", "IN_PRODUCTION">>,
    <<"QUALITY_CONTROL", "READY_FOR_DELIVERY">>,
    <<"READY_FOR_DELIVERY", "AWAITING_SETTLEMENT">>,
    <<"READY_FOR_DELIVERY", "COMPLETED">>,
    <<"AWAITING_SETTLEMENT", "COMPLETED">> } \cup (Open \X {"CANCELLED"})

\* Staff moves production on.  (An unapproved quotation is never accepted, so
\* DRAFT and PENDING_QUOTE_APPROVAL leave by submission, pricing or cancellation.)
transition(to, delivery) ==
    LET reservations == {part[door.quote][r] : r \in Parts} IN
    /\ to # "CANCELLED" /\ <<door.status, to>> \in DOOR_TRANSITIONS
    /\ Agreed /\ PaidInFull
    /\ to \in {"APPROVED_FOR_PRODUCTION", "COMPLETED"} \cup Building => door.technical
    /\ to = "IN_PRODUCTION" => reservations \subseteq {"ACTIVE", "CONSUMED"}
    /\ to \in {"QUALITY_CONTROL", "READY_FOR_DELIVERY", "COMPLETED"} => reservations \subseteq {"CONSUMED"}
    /\ to = "COMPLETED" => doorPaid = Quote.total /\ (delivery \/ door.delivery)
    /\ DoorBecomes([door EXCEPT !.status = to, !.delivery = @ \/ delivery])
    /\ UNCHANGED <<sale, quotes, payment, part, draft>>

\* Mutant: overdue reservations are taken for released.
ReleaseUnexpired == [v \in 1 .. MaxQuotes |->
    [r \in Parts |-> IF part[v][r] = "ACTIVE" THEN "RELEASED" ELSE part[v][r]]]

\* The parts of every quotation are put back on the shelf.
ReleaseAll == [v \in 1 .. MaxQuotes |->
    [r \in Parts |-> IF part[v][r] \in Held THEN "RELEASED" ELSE part[v][r]]]

\* Cancelled by the customer or by staff: no attempt is open and all money went back.
cancel ==
    /\ <<door.status, "CANCELLED">> \in DOOR_TRANSITIONS
    /\ Pending = {} /\ doorPaid = 0
    /\ part' = ReleaseAll
    /\ sale' = [sale EXCEPT !.status = IF @ = "PAID" THEN @ ELSE "CANCELLED"]
    /\ DoorBecomes([door EXCEPT !.status = "CANCELLED"])
    /\ UNCHANGED <<quotes, payment, draft>>

\* A command about one part of the current quotation.
PartBecomes(r, state) ==
    /\ part' = [part EXCEPT ![door.quote][r] = state]
    /\ DoorBecomes(door)
    /\ UNCHANGED <<sale, quotes, payment, draft>>

reserve(r) ==
    /\ door.technical
    /\ door.status \in {"AWAITING_TECHNICAL_APPROVAL", "APPROVED_FOR_PRODUCTION", "IN_PRODUCTION"}
    /\ Quote.approved /\ part[door.quote][r] \in {"NONE", "RELEASED"}
    /\ PartBecomes(r, "ACTIVE")

consume(r) ==
    /\ door.status = "IN_PRODUCTION"
    /\ part[door.quote][r] = "ACTIVE"
    /\ PartBecomes(r, "CONSUMED")

release(r) ==
    /\ door.status \notin {"NONE", "COMPLETED", "CANCELLED"}
    /\ part[door.quote][r] \in Held
    /\ PartBecomes(r, "RELEASED")

\* A reservation's expiresAt passes.
Overdue(r) ==
    /\ door.status # "NONE" /\ part[door.quote][r] = "ACTIVE"
    /\ part' = [part EXCEPT ![door.quote][r] = "OVERDUE"]
    /\ UNCHANGED <<door, sale, quotes, payment, draft, seen>>

-----------------------------------------------------------------------------
(* Payments                                                                *)

PaymentBecomes(p, changes) ==
    /\ payment' = [payment EXCEPT ![p] = changes]
    /\ UNCHANGED <<quotes, part, draft>>

\* The customer starts a payment: always for all that is owed.
register(p) ==
    LET newest == quotes[Len(quotes)]
        amount == newest.total - doorPaid IN
    /\ door.status \notin {"NONE", "DRAFT", "PENDING_QUOTE_APPROVAL", "CANCELLED", "COMPLETED"}
    /\ newest.approved /\ Len(quotes) = door.quote /\ door.accepted = door.quote
    /\ amount > 0
    /\ Pending = {}
    /\ payment[p] = NoPayment /\ \A q \in Attempts : q < p => payment[q] # NoPayment
    /\ PaymentBecomes(p, [status |-> "PENDING", amount |-> amount, refunded |-> 0,
                          quote |-> door.quote, authority |-> FALSE, review |-> FALSE])
    /\ UNCHANGED <<door, sale, seen>>

\* The gateway's authority is kept, whatever became of the order meanwhile.
persistAuthorization(p) ==
    /\ p \in Pending /\ ~payment[p].authority
    /\ PaymentBecomes(p, [payment[p] EXCEPT !.authority = TRUE])
    /\ UNCHANGED <<door, sale, seen>>

\* The gateway refuses to open the attempt, or says later that it was not paid.
\* An answer that is lost leaves the attempt PENDING.
markFailed(p) ==
    /\ p \in Pending
    /\ PaymentBecomes(p, [payment[p] EXCEPT !.status = "FAILED"])
    /\ UNCHANGED <<door, sale, seen>>

\* The gateway confirms the payment: the sale and the door move on when the
\* money and the quotation it was paid for fit, or somebody has to look at it.
settleDoorPaymentIn(p) ==
    LET paid == doorPaid + payment[p].amount
        review == \/ door.status = "CANCELLED" \/ sale.status = "CANCELLED"
                  \/ paid > Quote.total \/ payment[p].quote # door.quote
        settled == ~review /\ paid >= Quote.total IN
    /\ p \in Pending /\ payment[p].authority
    /\ quotes[payment[p].quote].approved /\ Quote.approved
    /\ PaymentBecomes(p, [payment[p] EXCEPT !.status = "PAID", !.review = review])
    /\ sale' = [sale EXCEPT !.status = IF settled /\ @ = "PENDING_PAYMENT" THEN "PAID" ELSE @]
    /\ IF settled /\ door.status = "AWAITING_DEPOSIT" /\ door.accepted = door.quote
         THEN DoorBecomes([door EXCEPT !.status = "DEPOSIT_PAID"])
         ELSE UNCHANGED <<door, seen>>

\* Staff records a refund that was made in the gateway's panel.
Refund(p, amount) ==
    LET refunded == payment[p].refunded + amount IN
    /\ p \in AttemptsIn(Received) /\ amount <= Refundable(p)
    /\ PaymentBecomes(p, [payment[p] EXCEPT
            !.refunded = refunded,
            !.status = IF refunded = payment[p].amount THEN "REFUNDED" ELSE "PARTIALLY_REFUNDED"])
    /\ UNCHANGED <<door, sale, seen>>

-----------------------------------------------------------------------------
(* Invoices                                                                *)

\* Staff fixes the billing address; a draft needs one.
prepareInvoiceSource ==
    /\ door.status \notin {"NONE", "CANCELLED", "DRAFT"}
    /\ Agreed
    /\ Invoiced = {}
    /\ SaleBecomes([sale EXCEPT !.address = TRUE])
    /\ DoorBecomes(door)
    /\ UNCHANGED <<quotes, payment, part>>

fromOrder(d) ==
    /\ door.status \notin {"NONE", "DRAFT", "CANCELLED", "PENDING_QUOTE_APPROVAL"}
    /\ sale.status # "CANCELLED" /\ sale.address
    /\ Agreed
    /\ \A e \in Invoiced : draft[e].state # "DRAFT"
    /\ draft[d] = NoDraft /\ \A e \in Drafts : e < d => draft[e] # NoDraft
    /\ draft' = [draft EXCEPT ![d] = [state |-> "DRAFT", quote |-> door.quote, current |-> TRUE]]
    /\ UNCHANGED <<door, sale, quotes, payment, part, seen>>

DraftBecomes(d, state) ==
    /\ draft[d] # NoDraft /\ draft[d].state = "DRAFT"
    /\ draft' = [draft EXCEPT ![d].state = state]
    /\ UNCHANGED <<door, sale, quotes, payment, part, seen>>

cancelDraft(d) == DraftBecomes(d, "CANCELLED")

\* The draft becomes the order's one document, if it still says what was sold.
issue(d) ==
    /\ DraftBecomes(d, "ISSUED")
    /\ sale.status \in {"PENDING_PAYMENT", "PAID"}
    /\ draft[d].current
    /\ draft[d].quote = door.quote /\ Quote.approved /\ door.status # "CANCELLED"
    /\ \A e \in Invoiced : draft[e].state # "ISSUED"

-----------------------------------------------------------------------------
(* Specification                                                           *)

Blank == [status |-> "NONE", quote |-> NoQuote, accepted |-> NoQuote,
          technical |-> FALSE, delivery |-> FALSE]

\* No order yet, or an accepted one whose deposit an earlier release, which
\* asked for deposits, left open at the gateway.
Init ==
    /\ part = [v \in 1 .. MaxQuotes |-> [r \in Parts |-> "NONE"]]
    /\ draft = [d \in Drafts |-> NoDraft]
    /\ seen = [quote |-> NoQuote, fresh |-> FALSE]
    /\ \/ /\ door = Blank
          /\ sale = [status |-> "DRAFT", address |-> FALSE]
          /\ quotes = <<>>
          /\ payment = [p \in Attempts |-> NoPayment]
       \/ \E total \in Totals, deposit \in Deposits :
            /\ deposit < total
            /\ door = [Blank EXCEPT !.status = "AWAITING_DEPOSIT", !.quote = 1, !.accepted = 1]
            /\ sale = [status |-> "PENDING_PAYMENT", address |-> FALSE]
            /\ quotes = <<[approved |-> TRUE, total |-> total]>>
            /\ payment = [p \in Attempts |->
                 IF p = 1 THEN [status |-> "PENDING", amount |-> deposit, refunded |-> 0,
                                quote |-> 1, authority |-> TRUE, review |-> FALSE]
                 ELSE NoPayment]

Next ==
    \/ \E asDraft \in BOOLEAN, total \in Totals \cup {Manual} : Create(asDraft, total)
    \/ replaceDraft
    \/ \E total \in Totals \cup {Manual} : submitDraft(total)
    \/ \E total \in Totals : approveQuote(total)
    \/ View
    \/ accept
    \/ technical
    \/ \E to \in Statuses, delivery \in BOOLEAN : transition(to, delivery)
    \/ cancel
    \/ \E r \in Parts : reserve(r) \/ consume(r) \/ release(r) \/ Overdue(r)
    \/ \E p \in Attempts :
        \/ register(p) \/ persistAuthorization(p) \/ markFailed(p) \/ settleDoorPaymentIn(p)
        \/ \E amount \in Totals : Refund(p, amount)
    \/ prepareInvoiceSource
    \/ \E d \in Drafts : fromOrder(d) \/ cancelDraft(d) \/ issue(d)

Spec == Init /\ [][Next]_vars

-----------------------------------------------------------------------------
(* Properties                                                              *)

\* An attempt at the gateway and the quotation it pays for stay together: no
\* price changes, no order closes and no second attempt starts while the
\* gateway may still take the money, so no confirmed payment exceeds the price
\* or needs a reviewer, and a cancelled order keeps no money.
\* (settleDoorPaymentIn's review branch is a second line of defence.)
MoneyFitsQuote ==
    /\ \A p \in Pending :
         /\ payment[p].quote = door.quote /\ door.accepted = door.quote
         /\ door.status \notin {"CANCELLED", "COMPLETED"}
         /\ doorPaid + payment[p].amount <= Quote.total
    /\ \A p \in AttemptsIn(Received) : ~payment[p].review
    /\ door.status = "CANCELLED" => doorPaid = 0

\* Stock is held for the price that was agreed and for a door that is still
\* to be built; what was consumed went into this door as it was agreed.
MaterialsFollowOrder ==
    \A v \in 1 .. MaxQuotes, r \in Parts :
        /\ part[v][r] \in Held =>
             /\ v = door.quote /\ Agreed
             /\ door.status \in Open \cup {"IN_PRODUCTION"}
        /\ part[v][r] = "CONSUMED" =>
             /\ v = door.quote /\ Agreed
             /\ door.status \in Building \cup {"COMPLETED"}

\* An invoice draft that is open, or was issued, says what the customer
\* accepted, and there is one document at most.
InvoiceNamesQuote ==
    \A d, e \in Drafts :
        /\ draft[d] # NoDraft /\ draft[d].state # "CANCELLED" => draft[d].quote = door.quote /\ Agreed
        /\ (/\ draft[d] # NoDraft /\ draft[d].state = "ISSUED"
            /\ draft[e] # NoDraft /\ draft[e].state = "ISSUED") => d = e

\* The customer is never bound to a price that the screen did not show.
AcceptedAsSeen ==
    [][door'.accepted # door.accepted /\ door'.accepted # NoQuote
         => door'.accepted = seen.quote]_vars

=============================================================================
