------------------------------ MODULE Inventory ------------------------------
(***************************************************************************)
(* The stock of a warehouse: apps/api/src/modules/inventory.               *)
(*                                                                         *)
(* A balance row holds, for one (warehouse, location, variant), the units  *)
(* on hand, the units reserved, the units available and an optimistic      *)
(* version.  Reservations hold units for an order, for the production of a *)
(* custom door or for nobody in particular, until a deadline.              *)
(*                                                                         *)
(* Every command runs in one SERIALIZABLE transaction, so a transaction is *)
(* one step here.  What is NOT one step is the read some commands make     *)
(* before their transaction: a staff release or consume looks the          *)
(* reservation up first, and the expiry sweep collects its candidates      *)
(* first.  Such a call is two steps, and everything may happen between.    *)
(*                                                                         *)
(* Left out: audit rows, the listings, names and codes.  A command that is *)
(* refused, or replayed by its idempotency key, changes nothing.           *)
(***************************************************************************)
EXTENDS Integers, FiniteSets

CONSTANTS
    StockKeys,        \* the (warehouse, location, variant) triples
    Locations,        \* warehouse locations
    LocationOf,       \* the location of a stock key
    ReservationIds,   \* ids that reservations may get
    Orders,           \* orders whose stock is reserved by checkout
    Callers,          \* concurrent calls of the commands that read first
    IdemKeys,         \* idempotency keys of stock commands
    MaxQuantity,      \* the largest quantity of one reservation
    MaxOnHand,        \* the largest value of the onHand column
    MaxVersion,       \* bound: versions the balances go through, together
    MaxTime,          \* bound: last instant of the clock
    BatchSize,        \* reservations one expiry sweep takes
    NoReservation,    \* an id that no reservation has yet
    NoCall,           \* a caller with nothing under way
    NoSnapshot,       \* the staff client has read no balance
    NoKey             \* a command without an idempotency key

ASSUME BoundsAssumption ==
    /\ MaxQuantity \in Nat /\ MaxOnHand \in Nat
    /\ MaxVersion \in Nat /\ MaxTime \in Nat
    /\ BatchSize \in Nat \ {0}

ASSUME KeysAssumption ==
    /\ IsFiniteSet(ReservationIds)
    /\ LocationOf \in [StockKeys -> Locations]

Unlinked == "unlinked"
Production == "production"

ASSUME LinksAssumption == Unlinked \notin Orders /\ Production \notin Orders

VARIABLES
    balance,         \* [StockKeys -> the balance row]; version 0: no row yet
    reservation,     \* [ReservationIds -> the reservation row or NoReservation]
    ledger,          \* [StockKeys -> net quantity of the movement rows, by kind]
    applied,         \* [IdemKeys -> BOOLEAN]: a movement carries this key
    locationActive,  \* [Locations -> BOOLEAN]
    call,            \* [Callers -> a call between its read and its transaction]
    snapshot,        \* the balance a staff client read last
    now              \* the clock

vars == <<balance, reservation, ledger, applied, locationActive, call,
          snapshot, now>>

-----------------------------------------------------------------------------
(* Types                                                                   *)

Statuses == {"ACTIVE", "RELEASED", "CONSUMED", "EXPIRED"}

Links == Orders \cup {Unlinked, Production}

Balance == [onHand : 0..MaxOnHand, reserved : Int, available : Int, version : Nat]

Reservation ==
    [key : StockKeys, quantity : 1..MaxQuantity, link : Links,
     expiresAt : Nat, status : Statuses, idem : IdemKeys \cup {NoKey}]

\* SALE rows and all the others: receipts, adjustments and returns.
MovementTotals == [stock : Int, sale : Int]

Snapshot == [key : StockKeys, onHand : Int, reserved : Int, version : Nat]

NoVersion == -1

\* A release or consume that has passed the checks made before its
\* transaction, and a sweep that has read its candidates.
TransitionCall ==
    [op : {"release", "consume"}, id : ReservationIds, expectedVersion : Int]
SweepCall == [op : {"expire"}, ids : SUBSET ReservationIds, at : Nat]

\* NoReservation, NoCall, NoSnapshot and NoKey stand for null.
ASSUME NullAssumption ==
    /\ NoReservation \notin Reservation
    /\ NoCall \notin TransitionCall \cup SweepCall
    /\ NoSnapshot \notin Snapshot
    /\ NoKey \notin IdemKeys

TypeOK ==
    /\ balance \in [StockKeys -> Balance]
    /\ reservation \in [ReservationIds -> Reservation \cup {NoReservation}]
    /\ ledger \in [StockKeys -> MovementTotals]
    /\ applied \in [IdemKeys -> BOOLEAN]
    /\ locationActive \in [Locations -> BOOLEAN]
    /\ call \in [Callers -> TransitionCall \cup SweepCall \cup {NoCall}]
    /\ snapshot \in Snapshot \cup {NoSnapshot}
    /\ now \in 0..MaxTime

-----------------------------------------------------------------------------
(* Helpers                                                                 *)

Exists(r) == reservation[r] # NoReservation

IsIn(r, status) == Exists(r) /\ reservation[r].status = status

\* The reservation's deadline has passed at instant t.
Overdue(r, t) == reservation[r].expiresAt <= t

\* The units that the reservations of S hold on key k, as a set; what the
\* code adds up row by row is the number of these units.
UnitsOn(S, k) ==
    {u \in S \X (1..MaxQuantity) :
        /\ reservation[u[1]].key = k
        /\ u[2] <= reservation[u[1]].quantity}

QuantityOn(S, k) == Cardinality(UnitsOn(S, k))

On(S, k) == {r \in S : reservation[r].key = k}

WithStatus(status) == {r \in ReservationIds : IsIn(r, status)}

\* assertStockIdentity: the location exists and is active.
StockIdentity(k) == locationActive[LocationOf[k]]

\* assertVersion: a command without an expected version skips the check.
VersionMatches(expected, k) ==
    expected = NoVersion \/ expected = balance[k].version

\* The versions a client can send for k: none, or the one it read last.
KnownVersions(k) ==
    IF snapshot # NoSnapshot /\ snapshot.key = k
    THEN {NoVersion, snapshot.version}
    ELSE {NoVersion}

WithinVersionBound(bumps) ==
    LET versions == {v \in StockKeys \X (1 .. MaxVersion) : v[2] <= balance[v[1]].version}
    IN  Cardinality(versions) + bumps <= MaxVersion

-----------------------------------------------------------------------------
(* Balance updates shared by the commands                                  *)

\* Mutant: a release that forgets to bump the version.
UnreservedSameVersion(b, q, bumps) ==
    [b EXCEPT !.reserved = @ - q, !.available = @ + q]

\* Units go back on sale: reserved - q, available + q, version + bumps.
Unreserved(b, q, bumps) ==
    [b EXCEPT !.reserved = @ - q, !.available = @ + q, !.version = @ + bumps]

\* Units leave the warehouse: the columns are recomputed from onHand.
Sold(b, q, bumps) ==
    [onHand |-> b.onHand - q,
     reserved |-> b.reserved - q,
     available |-> (b.onHand - q) - (b.reserved - q),
     version |-> b.version + bumps]

\* SALE movements of q units in all.
SaleBooked(totals, q) == [totals EXCEPT !.sale = @ - q]

\* The reservations of S become status; S comes in one step and the code
\* handles the rows one by one, bumping the balance's version for each.
SetStatus(S, status) ==
    reservation' = [r \in ReservationIds |->
                      IF r \in S THEN [reservation[r] EXCEPT !.status = status]
                                 ELSE reservation[r]]

\* A balance that does not cover what its reservations hold is refused
\* (RESERVATION_STATE_CONFLICT, "Reservation balance is inconsistent").
Covered(S) ==
    \A k \in StockKeys : balance[k].reserved >= QuantityOn(S, k)

VersionsLeft(S) == WithinVersionBound(Cardinality(S))

\* Mutants: a batch that is booked on the first of its balances only.
FirstOf(S) == CHOOSE k \in StockKeys : On(S, k) # {}

ReleaseFirstBalance(S, status) ==
    /\ Covered(S) /\ VersionsLeft(S)
    /\ balance' = [k \in StockKeys |->
                     IF S # {} /\ k = FirstOf(S)
                     THEN Unreserved(balance[k], QuantityOn(S, k), 1)
                     ELSE balance[k]]
    /\ SetStatus(S, status)
    /\ UNCHANGED ledger

ConsumeFirstBalance(S) ==
    /\ Covered(S) /\ VersionsLeft(S)
    /\ balance' = [balance EXCEPT ![FirstOf(S)] = Sold(@, QuantityOn(S, FirstOf(S)), 1)]
    /\ SetStatus(S, "CONSUMED")
    /\ ledger' = [ledger EXCEPT ![FirstOf(S)] = SaleBooked(@, QuantityOn(S, FirstOf(S)))]

Release(S, status) ==
    /\ Covered(S) /\ VersionsLeft(S)
    /\ balance' = [k \in StockKeys |->
                     Unreserved(balance[k], QuantityOn(S, k), Cardinality(On(S, k)))]
    /\ SetStatus(S, status)
    /\ UNCHANGED ledger

\* One SALE movement of -quantity per reservation.
Consume(S) ==
    /\ Covered(S) /\ VersionsLeft(S)
    /\ balance' = [k \in StockKeys |->
                     Sold(balance[k], QuantityOn(S, k), Cardinality(On(S, k)))]
    /\ SetStatus(S, "CONSUMED")
    /\ ledger' = [k \in StockKeys |-> SaleBooked(ledger[k], QuantityOn(S, k))]

-----------------------------------------------------------------------------
(* Stock and reservations: one transaction each                            *)

Init ==
    /\ balance = [k \in StockKeys |->
                    [onHand |-> 0, reserved |-> 0, available |-> 0, version |-> 0]]
    /\ reservation = [r \in ReservationIds |-> NoReservation]
    /\ ledger = [k \in StockKeys |-> [stock |-> 0, sale |-> 0]]
    /\ applied = [i \in IdemKeys |-> FALSE]
    /\ locationActive = [l \in Locations |-> TRUE]
    /\ call = [c \in Callers |-> NoCall]
    /\ snapshot = NoSnapshot
    /\ now = 0

\* Mutant: the shortage check forgets the reserved units.
EnoughOnHand(k, delta) ==
    balance[k].onHand + delta >= 0

\* INSUFFICIENT_STOCK: what stays on hand must cover what is reserved.
EnoughStock(k, delta) ==
    /\ balance[k].onHand + delta >= 0
    /\ balance[k].onHand + delta - balance[k].reserved >= 0

\* A receipt, a return or a manual adjustment.  A command whose key is
\* already on a movement row is a replay or a conflict: no change.
ChangeOnHand(k, delta, expected, i) ==
    /\ delta # 0
    /\ i # NoKey => ~applied[i]
    /\ StockIdentity(k)
    /\ VersionMatches(expected, k)
    /\ EnoughStock(k, delta)
    /\ balance[k].onHand + delta <= MaxOnHand
    /\ WithinVersionBound(1)
    /\ balance' = [balance EXCEPT
                     ![k].onHand = @ + delta,
                     ![k].available = balance[k].onHand + delta - balance[k].reserved,
                     ![k].version = @ + 1]
    /\ ledger' = [ledger EXCEPT ![k].stock = @ + delta]
    /\ applied' = [j \in IdemKeys |-> applied[j] \/ j = i]
    /\ UNCHANGED <<reservation, locationActive, call, snapshot, now>>

\* The staff endpoint takes any deadline, a past one too; the door workflow
\* links the new row to its requirement in the same transaction.
ReserveIn(r, k, q, link, deadline, expected, i) ==
    /\ ~Exists(r)
    /\ link \in {Unlinked, Production}
    /\ i # NoKey => \A s \in ReservationIds : Exists(s) => reservation[s].idem # i
    /\ StockIdentity(k)
    /\ VersionMatches(expected, k)
    /\ balance[k].version > 0 /\ balance[k].available >= q
    /\ WithinVersionBound(1)
    /\ balance' = [balance EXCEPT ![k].reserved = @ + q,
                                  ![k].available = @ - q,
                                  ![k].version = @ + 1]
    /\ reservation' = [reservation EXCEPT ![r] =
                         [key |-> k, quantity |-> q, link |-> link,
                          expiresAt |-> deadline, status |-> "ACTIVE", idem |-> i]]
    /\ UNCHANGED <<ledger, applied, locationActive, call, snapshot, now>>

\* Checkout draws on one balance for an order, in the order's transaction and
\* without the balance's advisory lock: the update is guarded by the version
\* and the availability it has read.
CheckoutReserve(r, k, q, order, deadline) ==
    /\ ~Exists(r)
    /\ deadline > now
    /\ locationActive[LocationOf[k]]
    /\ balance[k].available >= q
    /\ WithinVersionBound(1)
    /\ balance' = [balance EXCEPT ![k].reserved = @ + q,
                                  ![k].available = @ - q,
                                  ![k].version = @ + 1]
    /\ reservation' = [reservation EXCEPT ![r] =
                         [key |-> k, quantity |-> q, link |-> order,
                          expiresAt |-> deadline, status |-> "ACTIVE", idem |-> NoKey]]
    /\ UNCHANGED <<ledger, applied, locationActive, call, snapshot, now>>

ActiveOf(order) ==
    {r \in WithStatus("ACTIVE") : reservation[r].link = order}

\* Cancellation and order expiry release what the order still holds, and a
\* settled payment consumes it, whatever the deadline says.
ReleaseReservationsForOrder(order) ==
    /\ ActiveOf(order) # {}
    /\ Release(ActiveOf(order), "RELEASED")
    /\ UNCHANGED <<applied, locationActive, call, snapshot, now>>

ConsumeReservationsForOrder(order) ==
    /\ ActiveOf(order) # {}
    /\ Consume(ActiveOf(order))
    /\ UNCHANGED <<applied, locationActive, call, snapshot, now>>

\* The door workflow holds its order's lock; an overdue reservation can be
\* released but not consumed.
TransitionProductionReservationIn(r, op) ==
    /\ IsIn(r, "ACTIVE") /\ reservation[r].link = Production
    /\ \/ op = "release" /\ Release({r}, "RELEASED")
       \/ op = "consume" /\ ~Overdue(r, now) /\ Consume({r})
    /\ UNCHANGED <<applied, locationActive, call, snapshot, now>>

UpdateLocation(l) ==
    /\ locationActive' = [locationActive EXCEPT ![l] = ~@]
    /\ UNCHANGED <<balance, reservation, ledger, applied, call, snapshot, now>>

-----------------------------------------------------------------------------
(* Commands that read before their transaction                             *)

\* requireActiveReservation and the checks that follow it.
StartTransition(c, op, r, expected) ==
    /\ call[c] = NoCall
    /\ Exists(r) /\ ~IsIn(r, "EXPIRED")
    /\ reservation[r].link = Unlinked
    /\ ~(IsIn(r, "ACTIVE") /\ Overdue(r, now))
    /\ call' = [call EXCEPT ![c] = [op |-> op, id |-> r, expectedVersion |-> expected]]
    /\ UNCHANGED <<balance, reservation, ledger, applied, locationActive, snapshot, now>>

IsTransition(x) == x # NoCall /\ x.op \in {"release", "consume"}

\* Mutants: the status, or the deadline, is not read again.
PermittedAnyStatus(x) ==
    /\ VersionMatches(x.expectedVersion, reservation[x.id].key)
    /\ Covered({x.id})

PermittedLate(x) ==
    /\ IsIn(x.id, "ACTIVE")
    /\ VersionMatches(x.expectedVersion, reservation[x.id].key)
    /\ Covered({x.id})

\* What transitionReservation checks again under the balance lock.
Permitted(x) ==
    /\ IsIn(x.id, "ACTIVE")
    /\ reservation[x.id].link = Unlinked
    /\ ~Overdue(x.id, now)
    /\ VersionMatches(x.expectedVersion, reservation[x.id].key)
    /\ Covered({x.id})

ReleaseReservation(c) ==
    /\ IsTransition(call[c]) /\ call[c].op = "release"
    /\ Permitted(call[c])
    /\ Release({call[c].id}, "RELEASED")
    /\ call' = [call EXCEPT ![c] = NoCall]
    /\ UNCHANGED <<applied, locationActive, snapshot, now>>

ConsumeReservation(c) ==
    /\ IsTransition(call[c]) /\ call[c].op = "consume"
    /\ Permitted(call[c])
    /\ Consume({call[c].id})
    /\ call' = [call EXCEPT ![c] = NoCall]
    /\ UNCHANGED <<applied, locationActive, snapshot, now>>

\* The row has left ACTIVE and is returned as it is (reservationReplay), or
\* the call is refused.
RefuseTransition(c) ==
    /\ IsTransition(call[c]) /\ ~Permitted(call[c])
    /\ call' = [call EXCEPT ![c] = NoCall]
    /\ UNCHANGED <<balance, reservation, ledger, applied, locationActive, snapshot, now>>

OverdueActive == {r \in WithStatus("ACTIVE") : Overdue(r, now)}

\* The first BatchSize overdue rows by deadline, whoever they are linked to.
StartExpiry(c, S) ==
    /\ call[c] = NoCall
    /\ S # {} /\ S \subseteq OverdueActive
    /\ \/ S = OverdueActive /\ Cardinality(S) <= BatchSize
       \/ S # OverdueActive /\ Cardinality(S) = BatchSize
    /\ \A r \in S, s \in OverdueActive \ S :
          reservation[r].expiresAt <= reservation[s].expiresAt
    /\ call' = [call EXCEPT ![c] = [op |-> "expire", ids |-> S, at |-> now]]
    /\ UNCHANGED <<balance, reservation, ledger, applied, locationActive, snapshot, now>>

\* Mutant: the sweep trusts its candidates.
AllCandidates(x) == x.ids

\* The candidates are advisory: the rows are read again under the locks.
StillDue(x) == {r \in x.ids : IsIn(r, "ACTIVE") /\ Overdue(r, x.at)}

ExpireReservations(c) ==
    /\ call[c] # NoCall /\ call[c].op = "expire"
    /\ Release(StillDue(call[c]), "EXPIRED")
    /\ call' = [call EXCEPT ![c] = NoCall]
    /\ UNCHANGED <<applied, locationActive, snapshot, now>>

\* The process dies, or the request is dropped, before the transaction.
LoseCall(c) ==
    /\ call[c] # NoCall
    /\ call' = [call EXCEPT ![c] = NoCall]
    /\ UNCHANGED <<balance, reservation, ledger, applied, locationActive, snapshot, now>>

\* A staff client reads a balance row, and may send its version later.
GetSnapshots(k) ==
    /\ balance[k].version > 0
    /\ snapshot' = [key |-> k, onHand |-> balance[k].onHand,
                    reserved |-> balance[k].reserved, version |-> balance[k].version]
    /\ UNCHANGED <<balance, reservation, ledger, applied, locationActive, call, now>>

Tick ==
    /\ now < MaxTime
    /\ now' = now + 1
    /\ UNCHANGED <<balance, reservation, ledger, applied, locationActive, call, snapshot>>

Deltas == (-MaxOnHand)..MaxOnHand

Next ==
    \/ \E k \in StockKeys, delta \in Deltas, i \in IdemKeys \cup {NoKey} :
          \E v \in KnownVersions(k) : ChangeOnHand(k, delta, v, i)
    \/ \E r \in ReservationIds, k \in StockKeys, q \in 1..MaxQuantity,
          deadline \in 0..MaxTime :
          \/ \E link \in {Unlinked, Production}, i \in IdemKeys \cup {NoKey},
                v \in KnownVersions(k) : ReserveIn(r, k, q, link, deadline, v, i)
          \/ \E order \in Orders : CheckoutReserve(r, k, q, order, deadline)
    \/ \E order \in Orders :
          \/ ReleaseReservationsForOrder(order)
          \/ ConsumeReservationsForOrder(order)
    \/ \E r \in ReservationIds, op \in {"release", "consume"} :
          \/ TransitionProductionReservationIn(r, op)
          \/ \E c \in Callers, v \in UNION {KnownVersions(k) : k \in StockKeys} :
                StartTransition(c, op, r, v)
    \/ \E c \in Callers :
          \/ ReleaseReservation(c)
          \/ ConsumeReservation(c)
          \/ RefuseTransition(c)
          \/ \E S \in SUBSET ReservationIds : StartExpiry(c, S)
          \/ ExpireReservations(c)
          \/ LoseCall(c)
    \/ \E l \in Locations : UpdateLocation(l)
    \/ \E k \in StockKeys : GetSnapshots(k)
    \/ Tick

Spec == Init /\ [][Next]_vars

-----------------------------------------------------------------------------
(* Correctness                                                             *)

\* Overselling: the three columns of a balance agree after every command, and
\* no more units are promised than lie on the shelf.
NoOversell ==
    \A k \in StockKeys :
        /\ balance[k].available = balance[k].onHand - balance[k].reserved
        /\ 0 <= balance[k].reserved /\ balance[k].reserved <= balance[k].onHand

\* The reserved column is what the ACTIVE reservations hold, so no
\* interleaving of release, consume, order commands and the expiry sweep
\* gives a reservation's units back twice or forgets them.
ReservedIsHeld ==
    \A k \in StockKeys :
        balance[k].reserved = QuantityOn(WithStatus("ACTIVE"), k)

\* Each CONSUMED reservation has left the warehouse once: the SALE movements
\* amount to the consumed units, and all movements to the units on hand.
LedgerReconciles ==
    \A k \in StockKeys :
        /\ ledger[k].sale = -QuantityOn(WithStatus("CONSUMED"), k)
        /\ balance[k].onHand = ledger[k].stock + ledger[k].sale

\* A version names one state of the row: a client whose expected version is
\* accepted acts on exactly the numbers it has read.
VersionNamesContent ==
    snapshot # NoSnapshot =>
        LET b == balance[snapshot.key]
        IN  /\ snapshot.version <= b.version
            /\ snapshot.version = b.version =>
                 snapshot.onHand = b.onHand /\ snapshot.reserved = b.reserved

\* What one step may do to the rows: nothing, or move ACTIVE ones to another
\* status, leaving key, quantity, link and deadline alone.
SettleStep ==
    \A r \in ReservationIds :
        Exists(r) => \/ reservation'[r] = reservation[r]
                     \/ /\ IsIn(r, "ACTIVE")
                        /\ \E st \in Statuses \ {"ACTIVE"} :
                             reservation'[r] = [reservation[r] EXCEPT !.status = st]

\* A reservation is settled once: no interleaving of staff calls, order and
\* door commands and sweeps changes a row that has left ACTIVE.
SettledOnce == [][SettleStep]_vars

\* A deadline that passes between a staff call's read and its transaction
\* wins: an overdue row that belongs to nobody can only become EXPIRED.
OverdueOnlyExpires ==
    [][\A r \in ReservationIds :
         /\ IsIn(r, "ACTIVE") /\ reservation[r].link = Unlinked /\ Overdue(r, now)
         /\ reservation'[r] # reservation[r]
         => reservation'[r].status = "EXPIRED"]_vars

=============================================================================
