# TLA+ models of Iraniyaragh

Iraniyaragh is a shop and warehouse platform: a NestJS modular monolith
(`src/apps/api`) over PostgreSQL (Prisma), Redis and BullMQ, with a web shop and
an admin panel as clients. This directory holds TLA+ specifications of the parts
that move money and stock, TLC configurations that check them on small
instances, and TLAPS proofs of their main invariants for every instance.

## 1. Inventory of the system

All paths are under `src/apps/api/src/modules/` unless they say otherwise.

| Component | State | Operations | What is hard |
|---|---|---|---|
| Inventory (`inventory/`) | `InventoryBalance` (onHand, reserved, available, version), `StockReservation`, `InventoryMovement` | receive/adjust/return, reserve, release, consume, expire, order and door variants, transfers | reads before the transaction, optimistic versions, batches over several balances |
| Checkout and staff orders (`orders/checkout`, `staff-order`) | `Order`, its items and reservations | create | last units, last redemption, reservation without the balance's lock |
| Order commands (`orders/order-command`, `order-expiry-runtime`) | `Order.status`, dispatch cursor and jobs | cancel, expire | races with payment; eventual expiry |
| Payments (`payments/`) | `Payment`, `Refund`, the gateway's session | initiate, callback, recheck, refund | the gateway is called outside transactions: lost answers, late and repeated callbacks |
| Promotions (`promotions/`) | `Promotion.usedCount`, `PromotionRedemption` | reserve, confirm, release, refund | counter at its limit, drift |
| Credit (`credit/`) | credit account, documents, receipts, returns | approve, receive, reverse, correct, return, pay out | any order of commands; races with online payment |
| Locks and retries (`common/`) | PostgreSQL advisory locks | acquire, abort, retry | lock order, bounded retries |
| Outbox (`outbox/`) | `OutboxEvent`, `OutboxEffect`, BullMQ jobs | relay, consume, record failure, replay | leases, crashes between queue and database, READ COMMITTED |
| Notifications (`notifications/`) | `OutboxEffect` claims, in-app rows | dispatch SMS, project | crash between claim and send |
| Fulfilment, shipments (`orders/fulfillment-*`, `shipment-*`) | `Fulfillment`, `Shipment` | pick, dispatch, deliver | refunds and cancellations between packing and dispatch |
| Carts, shipping quotes (`orders/cart`, `guest-cart`) | carts, quotes | merge, quote | merge races, quote expiry |
| Stocktake, purchasing, suppliers | documents, counted lines, receipts | count, approve, receive | writes balances next to inventory |
| Custom doors (`custom-door-orders/`) | door order, quotations, requirements, allocations | quote, accept, pay, produce, invoice, cancel | re-pricing against open payments, drafts and reservations; consent to a stale price |
| Invoices, reports | documents, leased jobs | issue, publish, render, export | leases and retries |
| Auth (`auth/`) | sessions, recovery records, OTP challenges, limits | sign in, refresh, revoke | token rotation, lost answers and replays |
| Catalog, media, content, blog, discovery, customers, audit | master data | CRUD | little protocol |

Components call each other inside one database transaction (checkout calls
promotions; cancellation and settlement call inventory and promotions; credit
approval consumes stock), and talk asynchronously through outbox rows written in
those transactions. The gateway (Zarinpal) and the SMS provider are outside.

What correctness means for the parts modelled so far: no unit is promised or
given back twice; columns, reservations and the movement ledger agree; an order
is paid for at most once; money that was taken is never written off; stock,
fulfilment and promotion capacity follow the order's fate; abandoned orders let
go of their stock; no set of transactions waits for itself; an event and its
message are handled at least and at most once; a login never branches or comes
back; a background job has one outcome; goods, debt and refunds reconcile; what a
customer pays, gets built and is invoiced is what the customer accepted.

## 2. Modules

| Module | Models |
|---|---|
| `Inventory` | `inventory.service.ts`: balances, reservations, ledger |
| `OrderPayment` | checkout, staff order, cancel, expire, credit approval, payment initiation, verification, refund, promotion capacity |
| `OrderExpiry` | `order-expiry-runtime.ts`: the worker that expires orders, on `OrderPayment` |
| `AdvisoryLocks` | lock order, deadlock detection and retries of the commands above, of receipts and of stocktakes |
| `Outbox` | `outbox/` and its worker in `media-worker.ts`: relay, queue, consumer, replay |
| `CustomerSms` | `notifications/customer-sms-delivery.service.ts`, on `Outbox` |
| `Fulfilment` | picking, dispatch and delivery with their financial proof |
| `CreditSale` | `credit/`: limit, debts, receipts, corrections, returns, payouts, on `Fulfilment` |
| `CustomDoor` | `custom-door-orders/` with the payments and invoices of a door order |
| `BoundedWork` | abstract: what a bounded queue of background work promises |
| `ReportExport` | `reports/report-export-*` and `pdf-render-worker.ts`; implements `BoundedWork` |
| `AuthSession` | `auth/` sessions, refresh rotation and recovery, and the browser's side of it |

`MC` modules give TLC its constants and symmetries; `XProofs` has the inductive
invariant and the theorems of module `X`.

### Inventory

A transaction of the code is SERIALIZABLE and takes the balance's advisory lock,
so it is one action. What is not atomic in the code is not atomic in the model:
`transitionReservation` reads the reservation before its transaction
(`StartTransition`, then `ReleaseReservation`, `ConsumeReservation` or
`RefuseTransition`), and `expireReservations` selects its candidates before it
has the locks (`StartExpiry`, `ExpireReservations`). `LoseCall` ends such a call
between its two halves.

`balance` is the row (version 0: no row yet); `reservation` the rows with their
link (an order, a door's production, or none); `ledger` the net quantity of the
movement rows, SALE rows apart; `applied` the idempotency keys on movements;
`snapshot` the balance a staff client read last, whose version it may send as
`expectedVersion`. Quantities are kept; names, audit rows and listings are not.
`Release(S, status)` and `Consume(S)` are the row-by-row loops over a set S of
reservations, with one version bump per row.

### OrderPayment

Every command takes the order's advisory lock in a SERIALIZABLE transaction: one
action each. Calls to the gateway happen outside transactions, so
`initiate()` is `Register`, `Authorize` (the gateway), then `PersistAuthorization`
or `MarkFailed`, with `LoseInitiation` in between; `verify()` is `BeginVerify`
(by `Callback` or `Recheck`), `GatewayAnswers`, then one of `ApplyVerified`,
`SettleAfterCancellation`, `MarkNotPaid`, `RecordUnconfirmed`, or `EndCall`.
`gateway[p]` is the truth at the gateway, which the code only learns through
answers; `VisitGateway` is the buyer. The gateway is assumed to say "verified"
only of a paid session and "failed" (code -51) only of a session that ended
unpaid. All of an order's reservation rows change together in these commands,
so they are one field `stock`; `Inventory` has the rows. The same holds for the
redemption. `events` is the set of outbox rows.

Left out: the amount comparison (an order's total cannot change once it can be
paid); the `FAILED` reasons that only earlier releases wrote
(`payment-initiation.service.ts` line 198); coupon and per-customer limits; the
inventory-only sweep, which `docs/OPERATIONS.md` forbids to schedule. Door orders
share the payment code and are in `CustomDoor`, credit limits in `CreditSale`.

### OrderExpiry

Extends `OrderPayment` with the BullMQ queue of the expiry worker: `SelectPage`
reads at most a page of expired orders after the cursor if the backlog leaves
room, `AddJobs` adds a job with a stable id for each, `MoveCursor` stores the
cursor (back to the start after a short page), `DispatchFails` stops between any
two of these. `RunJob` closes the order if it still may, `FailJob` counts an
attempt and retains the job after the last, `DropJob` is the queue's retention.
Every step of `OrderPayment` may come in between, a manual expiry too.

### AdvisoryLocks

A transaction is the sequence of advisory locks its command asks for. An order
command takes the order's lock, then the balances of its reservations by
reservation id; a receipt or a stocktake takes its document's lock, then the
balances by location and variant; the sweep sorts its keys; a stock command
takes one balance. `Acquire` waits for the holder, `Abort` is PostgreSQL's
deadlock detector, and `TriesAgain` says which commands retry after which error
code. Row locks are left out.

### Outbox

`event` and `effect` are the committed rows, `job` the queue's job of each event,
`claim` a row in the hands of a relay pass, `consumer` a job in the hands of the
worker, `replay` the operator's command. The relay's pass is `ClaimEvent` (the
one SQL statement with `SKIP LOCKED`), `Enqueue`, then `MarkPublished`, or
`PublishFails` and `RecordRelayFailure`; `BecomesAvailable` ends a lease or a
backoff. `consume` runs under READ COMMITTED, so its statements are steps of
their own: `ReadEvent`, `Project` (read the payment, close, insert: its writes
are invisible, so these statements can be one step), `Recheck`, `Commit`. A
failing statement is `Throw`, then `RecordFailure` and the queue's `FailJob`.
`replay` is `StartReplay`, `ClearTerminalJob`, `ResetEvent`.

BullMQ is external: a job id that exists is not added twice, an active job whose
lock has run out is started again a number of times (`Stall`), a result is taken
only from the lock's owner, finished jobs are dropped at some point. Deaths of
processes (`LoseClaim`, `WorkerDies`) and holders that outlive their lease or
lock count as faults, bounded by `MaxFaults`; failing statements, refused jobs
and lost answers are free. All events are about one payment, so the two looks at
its status and the closing of its reconciliation effects can race.

### CustomerSms

Extends `Outbox`, whose consumer inserts the effect row. A pass is `PickEffect`
(the query), `ClaimEffect` (the conditional update that marks the effect FAILED
before anything is sent, fenced by the attempt count that was read), `Send` (the
provider) and `Record`; `LoseCandidate` is the death of the process. Only a rate
limit makes an effect PENDING again.

### Fulfilment and CreditSale

`Fulfilment` has one action per command (`Start`, `Pick`, `Ready`, `Dispatch`,
`ConfirmDelivery`), each with the financial proof of
`fulfillment-financial-proof.ts`, next to `Settle` and `Refund`. `CreditSale`
adds one customer's account. A document is kept as the sums of its ledger
entries, which is how the code reads it: amount, adjustments, credit notes,
refunds due and paid out; `receipts` gives what each receipt allocates to each
document, nothing once it is reversed. Sums are written `Total(f)`, the number of
units of a function of naturals. `Compensate`
is what a cancellation and a partial return share: units go back to the
warehouse, their price reduces the debt first and becomes a refund for the rest.
The database's deferred triggers are left out on purpose: `CompensationReconciles`
is what they demand, so the run shows that no command relies on them.

### CustomDoor

One order. `door`, `sale` and `quotes` are the DoorOrder row, the Order row of the
same id and the immutable quotations; `payment` the attempts with the quotation
they are allocated to; `part` where the reservation of each stock-linked
requirement stands, per quotation; `draft` the invoice drafts made from the order.
Commands of `DoorOrdersService` carry the version of the row their sender saw.
Versions are only compared for equality, so the model keeps what the comparison
decides: `seen` is the quotation on the customer's screen and whether the row has
moved on since, `draft[d].current` whether the sale has moved on since the draft
was made. Payment steps are those of `OrderPayment` seen from the order: `register`,
`persistAuthorization`, `markFailed` (a refusal, or `markNotPaid` later),
`settleDoorPaymentIn`, `Refund`. Since deposits were abolished an attempt is always
for all that is owed; `Init` also has an order whose deposit an earlier release
left open, which `settleDoorPaymentIn` still has to book.

Facts the runs bring to light and no document contradicts: the review branch of
`settleDoorPaymentIn` is never taken, since re-pricing, cancelling and a second
attempt are all refused while one is open (a second line of defence); an attempt
whose authorization answer was lost therefore blocks re-pricing and cancelling
until somebody ends it; and a half-paid order of the earlier release that is
re-priced to exactly what was paid is accepted as DEPOSIT_PAID and can be built,
while its sale stays PENDING_PAYMENT.

### ReportExport and BoundedWork

`job`, `snapshot` and `artifact` are the rows, `pending` and `stored` the counters
of the capacity row, whose lock makes each transaction one step. `ClaimOldest`
takes the oldest job that is due (or times it out when its attempts are used up),
`PersistSnapshot` captures the table once, `CompleteRender` stores file, state and
counters together, `AttemptFailed` puts the job back or ends it. What the code
cannot exclude is a step: `LeaseExpires`, `GiveUp` (the timeout that leaves the
render running) with `LatePersist`, `CompleteStale` and lost answers, `Vanish` (the
worker dies). `KeepsPromise` states that under the mapping none / open / done /
failed of a job's row every step is a step of `BoundedWork` or a stutter.

### AuthSession

A login is a family of `Session` rows. `requests` are refreshes and logouts under
way, which may be delayed, duplicated by a reload, or lost together with their
answers; `RotateSession` is the whole transaction of a refresh (rotation, recovery
of a repeated attempt, or the revocation of a replayed family),
`RevokeByRefreshToken` a logout, the other commands come from other devices.
`browser` has the cookie and the attempt that `refresh-attempt.ts` keeps until an
answer arrives. The recovery record lives longer than the browser repeats an
attempt (`WindowMayEnd`).

A refusal before anything is done (429, a failed CSRF proof) is `RefuseRefresh`: it
is a definitive answer, so the page gives its attempt up, while an error of the
server or of the network (`LoseRequest`) leaves it pending. `Answer` has three
outcomes: the page gets the answer, nobody does, or the server fails after it has
set the new cookies, and the browser has them with its attempt still pending.

Where the code and its documents disagree:

* `docs/AUTH_CONTRACT.md` lines 125-129, and the comments at
  `auth-principal.service.ts` lines 59-63 and `auth-session.service.ts` line 761, say
  that a credential change leaves no live row and that access tokens signed before
  it stop working. The replacement row of a password change joins the same family,
  and a token of an earlier ROTATED row resolves to the family's live row: it works
  again (run `auth_session_credentials`). The repository's test changes the password
  without a refresh before it, which the code gets right.
* The comment at `auth-session.service.ts` lines 524-528 says that ending a device
  must "never report success while the login keeps working". `remove` of
  `session.controller.ts` resolves the live row and revokes it in two transactions:
  when a refresh rotates the row between them, `revokeUserSession` finds it already
  revoked, success is reported and the new head stays alive (`ResolveLiveSessionId`,
  `RotateSession`, `RevokeUserSession`). Listed as a hazard.

A logout with a CREDENTIAL_CHANGED cookie leaves the successor alone; on this the
documents are silent.

### How the modules meet

`OrderPayment` writes the events (its `events` set) and `Outbox` delivers them;
`Outbox!Emit` is what `MarkNotPaid`, `RecordUnconfirmed` and `ApplyVerified` do
to the payment's status and the event table in one transaction. `OrderExpiry`
extends `OrderPayment`, `CustomerSms` extends `Outbox` and `CreditSale` extends
`Fulfilment`: their specifications are the joint ones, and their runs check the
lower module inside the composition. What `Inventory` says about rows,
`OrderPayment`, `CreditSale` and `CustomDoor` use as one field per order, line or
part.

## 3. Runs

| Run | Question | Result | Distinct states |
|---|---|---|---|
| `inventory_races` | staff calls, order and door commands and the sweep, on one balance or two | all hold | 1,117,000 |
| `order_payment_races` | two checkouts and a staff order, two attempts, two verifications, one redemption left | all hold | 992,000 |
| `order_payment_expiry` | does an abandoned order close, through the worker's pages, backlog and retained jobs? (liveness) | holds | 371,000 |
| `advisory_locks_end` | do only order commands wait in circles, and does every call end? (safety, liveness) | both hold | 16,500 |
| `advisory_locks_order` | ADR-0018's "so no deadlock" with order commands | violated: order commands and receipts sort differently | |
| `outbox_delivery` | is an event handled at least once, given up only when its attempts are used up, never replayed once consumed, and its SMS sent at most once? (safety, liveness) | all hold | 444,000 |
| `outbox_reconciliation` | `docs/OPERATIONS.md`: a reconciliation effect never stays open for a settled payment | violated: two overlapping deliveries miss each other's writes | |
| `report_exports` | do exports implement the bounded queue, with exact counters, one reading of the data and an end? (safety, refinement, liveness) | all hold | 114,500 |
| `auth_sessions` | does a login ever branch, come back, survive its logout or get lost with an answer? | never | 878,000 |
| `auth_session_credentials` | `docs/AUTH_CONTRACT.md`: tokens stop working with a credential change | violated: a token from before the last refresh is accepted again | |
| `credit_sales` | do goods, debt and refunds reconcile in any order of sales, receipts, reversals, corrections, returns and payouts? | all hold | 427,000 |
| `custom_doors` | do money, stock and document belong to the price the customer saw and accepted? | all hold | 905,000 |

The violated statements are under "findings" in `PROJECT.json`, with the lines
they quote. A deadlock costs an aborted transaction, not data: inventory commands
retry it, verification, cancellation, receipts and stocktakes retry it only when
it surfaces as `P2034`.

Each property has a mutant in its module: a variant of one definition with a
plausible bug, with which TLC finds the property violated.

### Bounds

* Inventory: two reservations suffice for every pair of racing settlements, one
  caller for each read-then-act call against all atomic commands; quantities up
  to 2 tell a unit from a row; two balances tell a batch from a row; the clock
  has one instant before and one after a deadline; `MaxVersion`, the versions all
  balances go through together, only ends the run. `BatchSize` 1 makes the sweep
  take less than all that is due. The instance has no idempotency keys (a repeated
  key only refuses a command); the proofs cover any set of them.
* OrderPayment: two attempts (a retry after a failed or lost one), two
  verifications (conflicting answers), an amount of 2 (partial and full
  refunds), one redemption for two checkouts. An order is created only when the
  clock can still reach its deadline (`WithinClock`), so no deadline is out of
  reach.
* OrderExpiry: pages of one order and a backlog limit that leaves room for one
  job (the scheduler's two jobs count), so that a page ends before an order and
  a queue is full with two orders; two attempts of a job; one failing dispatch.
* AdvisoryLocks: 2 x 2 balances are the least on which two orders of locking
  differ; two attempts show a retry and its end.
* Outbox and CustomerSms: one event, since rows do not depend on each other; two
  relay passes, two deliveries and two sender passes (a stale one and its
  successor); two attempts of a job and of a message; one fault and one replay,
  at any moment. A row has one relay attempt before it is a dead letter, and a
  stalled job is not started again, so that the joint run stays small. Two events
  about one payment, two deliveries and no fault are enough for the
  violated statement.
* ReportExport: two requests for one place in the queue, two workers (one with a
  lost lease), two attempts (one retried, one last), two versions of the data.
* AuthSession: one browser; three rows (a rotation after a rotation, or two
  logins), two attempts, two requests under way at once; other devices act through
  their commands.
* CreditSale: two orders with a priced and a free line, the opening balance as a
  third document, one receipt at a time over any of them, two returns per order.
* CustomDoor: two quotations, two attempts, two drafts, two parts; prices 1 and 2
  and a deposit of 1 make payments partial, exact and too large.

Where `CHECK_DEADLOCK FALSE` is given, the instance ends when its finite ids are
used up.

### Fairness

`OrderExpiry!ExpirySpec`: time passes; the dispatch job, which a scheduler adds
every minute, runs and finishes or fails; and a waiting expire job runs again and
again, which is strong fairness because it only runs when no dispatch does and
the queue is served in order. A job that fails in its last attempt is retained:
`AbandonedOrderCloses` then asks for the dead letter operators can see. Nobody is
obliged to pay, cancel or ask.
`AdvisoryLocks!FairSpec`: PostgreSQL serves a lock's waiters in turn (strong
fairness of `Acquire`), detects deadlocks (weak fairness of some `Abort`), and a
transaction with all its locks ends.
`Outbox!Fairness`: the relay runs every five seconds and picks every due row,
leases and backoffs end, the worker takes waiting jobs and finishes or fails what
it takes, and the queue looks for stalled jobs. An operator need not replay
anything, and a replay may stop half way, so `EventHandled` also allows what
`docs/OPERATIONS.md` tells operators to watch: dead letters and events that are
published, not consumed and no longer in the queue.
`CustomerSms!SmsFairSpec` adds that a pass runs every five seconds and finishes
what it has in hand.
`ReportExport!FairSpec`: leases run out, every step of an attempt ends (in a
timeout if need be), and workers are woken for ever, because
`scheduleDatabaseRecovery` wakes one every five seconds whatever the queue holds.
`CustomDoor`, `CreditSale`, `AuthSession` and `Inventory` state safety only: their
commands come from people, who need not act.

## 4. Proofs

Every safety invariant and every action property that a passing run checks is a
theorem of its specification, for all constants that satisfy the named assumptions
of its module. The proof modules have one
inductive invariant `IInv` each, the theorems `InitIInv` (`Init => IInv`) and
`NextIInv` (`IInv /\ [Next]_vars => IInv'`, one step for each action) and one
theorem for each property. Under each heading: what is proved, and what the
invariant has to say beyond the properties.

| module | theorems | properties |
|---|---|---|
| `InventoryProofs` | `InventorySafe`, `BalancesNeverOversell`, `MovementsReconcile`, `VersionsNameContents`, `ReservationSettledOnce`, `DeadlinesWin` | `ReservedIsHeld`, `NoOversell`, `LedgerReconciles`, `VersionNamesContent`, `SettledOnce`, `OverdueOnlyExpires` |
| `OrderPaymentProofs` | `OrderPaymentSafe`, `StockNeverOutlivesOrder`, `SettlementsKept`, `SettlementsAnnounced`, `UnattemptedStayUnpaid`, `RefundsWithinPayment`, `PromotionsWithinLimit`, `PaymentOutcomesFinal` | `NoDoubleCharge`, `StockFollowsOrder`, `NoLostSettlement`, `SettlementAccounted`, `NeverAttempted`, `RefundsBounded`, `PromotionCapacity`, `OutcomesAreFinal` |
| `AuthSessionProofs` | `SessionsTyped`, `LoginNeverBranches`, `LostAnswersRecover`, `LoginsEndForGood`, `LogoutsEndLogins` | `TypeOK`, `OneHead`, `LostAnswerRecoverable`, `EndedStaysEnded`, `LogoutEndsLogin` |
| `CustomDoorProofs` | `DoorsTyped`, `DoorMoneyFits`, `DoorMaterialsFollow`, `DoorInvoicesAgree`, `DoorConsent` | `DoorTypeOK`, `MoneyFitsQuote`, `MaterialsFollowOrder`, `InvoiceNamesQuote`, `AcceptedAsSeen` |
| `ReportExportProofs` | `ExportsTyped`, `CountersNeverDrift`, `ExportsReadOnce`, `ExportsKeepPromise` | `TypeOK`, `CountersExact`, `OneReading`, `KeepsPromise` |
| `CustomerSmsProofs` | `MessagesTyped`, `DeadLettersAreEarned`, `CustomersToldOnce`, `ConsumedStaysConsumed` | `SmsTypeOK`, `DeadLettersEarned`, `OneMessage`, `ConsumedNotReplayed` |
| `CreditSaleProofs` | `AccountsTyped`, `SalesReconcile`, `GoodsBacked` | `TypeOK`, `CompensationReconciles`, `GoodsLeaveBacked` |
| `AdvisoryLocksProofs` | `OnlyOrdersDeadlock`, `NoDeadlockWithoutOrders` | `SortedCommandsNeverDeadlock` |

**Inventory.** The invariants are inductive together and not one by one: a
consumption keeps `0 <= reserved` only because the balance covers what ACTIVE rows
hold (`ReservedIsHeld`), and `ReservedIsHeld` is kept by a batch only because the
batch consists of ACTIVE rows. Their conjunction needs no strengthening: a call
under way carries only ids and versions, and its action checks again whatever it
relies on. The units of a set of rows are counted as the cardinality of a set of
pairs, so that adding and removing rows is set union and difference; the lemmas on
`QuantityOn` cite `FiniteSetTheorems`.

**OrderPayment.** The invariant relates the gateway to the database: a session
exists only for an attempt, an attempt is unique while PENDING or settled, an
answer held by a call agrees with the session it is about, a failed attempt has no
session that can still be paid. Without these, `ApplyVerified` could settle an
order that another attempt had paid for. The type invariants of these first two
modules are parts of the proved invariants and are therefore not listed in their
runs.

**AuthSession.** `OneHead` rests on the order in which rows are made: a live row is
the youngest of its family (`Rows`). `LostAnswerRecoverable` is about a browser and
needs to know whose the login is: one browser has it in its cookie or in a request
under way (`Owned`), no request carries a younger row than the cookie (`Behind`),
the record of a rotation is there while the browser repeats the attempt
(`Recorded`), and the successor is live unless the login ended or the password
changed (`Successor`).

**CustomDoor.** An accepted quotation is the current and newest one, a technical
approval is of what was accepted, at most one attempt is open and nothing of it was
refunded. The order's money is the number of units received and not given back
(`Units`); the lemmas `PaidGrows`, `PaidShrinks` and `PaidUntouched` say what a
settlement, a refund and every other step do to it.

**ReportExport.** The fence (`Fenced`): an attempt that some worker handles is
numbered no higher than its job's attempts and has no other worker. So a worker whose lease was lost
cannot write for the attempt that replaced it, and what the lease's holder has
rendered is the job's snapshot (`Rendered`). `ExportsKeepPromise` proves the whole
refinement of `BoundedWork`: initial states map to initial states, and each step
of the exports is a step of the promise or a stutter.

**CustomerSms** (with the outbox under it). `DeadLettersEarned` needs a budget: a
row that the relay has not finished with is held by a pass with its number, or has
an attempt left, one more for each fault (`Budget`); a queued job that may run has
an attempt left. That a late pass cannot bury the row of a later claim rests on the
count of attempts, which fences the passes: no pass is ahead of its row and no two
have the same number of it (`OnePass`). This holds until the first replay and not
longer, because a replay sets the count back to 0: a pass from before it may then
carry the number of a later claim and publish or bury the row in its place. And the
relay may bury a row that was consumed, when the queue took the job and its answer
was lost; only the worker's dead letters are never consumed. `OneMessage` needs that a claimed effect row has one sender, who
knows its number and has sent what its step says (`Passes`). The theorems are about
the composition `SmsSpec`; its outbox steps leave the messages alone and its sender
steps leave the outbox's rows alone.

**CreditSale** (with the fulfilment under it). That what is due to the customer was
received (`RefundBacked`) is not inductive: it needs that a sale's debt changes by
corrections or by returns, never by both, that a return reduces the debt first, and
that a sale with something due owes nothing and cannot get a receipt reversed
(`Balanced`). That a shipped or cancelled sale is not shipped again needs where
order, fulfilment, shipment and returns stand relative to each other (`Followed`,
`Undone`); that a debt grows only by documents needs that money is allocated to
issued documents only (`Allocated`) and overpays none (`Covered`). Stock stays
natural because it is the opening stock less what the orders have out
(`StockReconciles`), at most their quantities. Sums are cardinalities; the
lemmas `TotalChanges`, `TotalAdds`, `TotalMonotone` and `TotalBounded` say what
changing one term, adding two functions and bounding the terms do to a sum, and
every action's lemma cites them instead of the definition. `GoodsBacked` follows
from the invariant and `ApproveDebt`: an approval raises the debt of the account by
exactly the price of the order, so that the credit that was available covers it.

**AdvisoryLocks.** Every command that is not an order's asks for its locks in
ascending order (`Ordered`), hence a call that waits asks for a lock that comes
before the one its holder asks for. In a circle of such calls, consider the one
above whose lock the fewest calls of the circle ask: the one it waits for has fewer
still, a contradiction (`CirclesBreakTheOrder`; strict subsets of a finite set are
well-founded). `NoDeadlockWithoutOrders` is the other half of the finding of run
`advisory_locks_order`: nothing but the unsorted balances of an order's command can
close a circle.

Some definitions have a form the provers can work with: amounts and units are
counted as sets of pairs, `ClaimOldest` and the sorted lists of locks are described
by what they satisfy instead of computed, and null values are assumed to be no
rows. What is assumed of the constants is finiteness of the sets that are counted,
natural bounds, such disjointness and, for `CreditSale`, that typed amounts are
within MAX_CREDIT_IRR and an order is worth
something (`creditAmount` refuses the rest); all of it is evaluated by TLC.

Only model-checked: the liveness properties `EveryExportEnds`, `EveryCallEnds`,
`AbandonedOrderCloses` and `EventHandled`, because the prover does not do fairness.

## 5. What is not modelled, and the plan

Not modelled yet, and possible: stock transfers and the counting and receiving
workflows of stocktake and purchasing (their locks are in `AdvisoryLocks`, their
postings are `Inventory`'s stock changes); edits of a staff order's lines; guest
carts; the idempotency records of checkout; the payment path over the rows of
`Inventory`, with the inventory-only sweep.

Invoice PDFs use the lease protocol of the report exports without its recovery
scheduler; `docs/OPERATIONS.md` lines 483-487 leave exhausted jobs to operators,
so there is no end to check and a module would repeat `ReportExport`. Edits and
policies of invoices, and catalogue drafts, are single rows with expected versions.
Sign-in (OTP, password, MFA, rate limits) is a set of counters in front of
`CreateSession`. The price of a door is calculated from its catalogue and enters
as a number.

Not planned: the operational reports (queries), catalog, media, content, blog, discovery, customers and audit (single
rows and queries), the front ends, the wire formats of the gateway and of the SMS
provider, and the pricing engine.
