---------------------------- MODULE AdvisoryLocks ----------------------------
(***************************************************************************)
(* The advisory locks of PostgreSQL that the commands on orders and stock  *)
(* take inside their transactions (common/advisory-lock.ts), and what they *)
(* do when PostgreSQL aborts one of them to end a deadlock                 *)
(* (common/serializable-retry.ts).                                         *)
(*                                                                         *)
(* A lock is held until its transaction ends.  A transaction is the list   *)
(* of the locks it asks for, in its order, and the number it has.  What    *)
(* the transaction reads and writes between two locks is in modules        *)
(* Inventory and OrderPayment; row locks are left out, and so is the       *)
(* credit-account lock, which credit approval takes between the order's    *)
(* lock and the balances'.  One warehouse: its id is the same everywhere.  *)
(***************************************************************************)
EXTENDS Integers, Sequences, FiniteSets

CONSTANTS
    Orders,         \* orders that are being settled, cancelled or expired
    Documents,      \* purchase orders and stocktakes
    Locations,      \* location ids, numbers in the order of the ids
    Variants,       \* variant ids, numbers in the order of the ids
    ReservationsOf, \* the balances an order's reservations draw on, by row id
    Callers,        \* concurrent calls
    Commands,       \* the commands that run
    Attempts,       \* SERIALIZABLE_RETRIES: attempts of one call
    NoTxn           \* a caller with no transaction open

Balances == Locations \X Variants

AllCommands == {"order", "sweep", "document", "stock"}

ASSUME LocksAssumption ==
    /\ Locations \subseteq Nat /\ Variants \subseteq Nat
    /\ IsFiniteSet(Locations) /\ IsFiniteSet(Variants) /\ IsFiniteSet(Callers)
    /\ ReservationsOf \in [Orders -> Seq(Balances)]
    /\ Commands \subseteq AllCommands
    /\ Attempts \in Nat \ {0}

VARIABLES
    txn    \* [Callers -> the transaction it has open: its command, the locks it
           \* asks for in their order, how many it has and its attempt; or NoTxn]

vars == <<txn>>

OrderLock(o) == <<"order", o>>
DocumentLock(d) == <<"document", d>>
BalanceLock(k) == <<"balance", k>>

-----------------------------------------------------------------------------
(* In which order a command takes the locks of its balances                *)

\* By location, then by variant.
ByLocation(j, k) == j[1] < k[1] \/ (j[1] = k[1] /\ j[2] < k[2])

ByVariant(j, k) == j[2] < k[2] \/ (j[2] = k[2] /\ j[1] < k[1])

BalanceLocks(balances) == [i \in DOMAIN balances |-> BalanceLock(balances[i])]

\* The lists of the members of S by location and variant.
SortedByLocation(S) ==
    LET N == 1..Cardinality(S)
    IN  {list \in [N -> S] : \A i, j \in N : i < j => ByLocation(list[i], list[j])}

\* Mutant: the order in which the rows came, here by variant.
SweepOrderUnsorted(S) ==
    LET N == 1..Cardinality(S)
    IN  {BalanceLocks(list) :
            list \in {l \in [N -> S] : \A i, j \in N : i < j => ByVariant(l[i], l[j])}}

\* expireReservations sorts the keys (warehouse, location, variant).
SweepOrder(S) == {BalanceLocks(list) : list \in SortedByLocation(S)}

\* The lines of a receipt and of a stocktake are sorted in the same way.
DocumentOrder(S) == {BalanceLocks(list) : list \in SortedByLocation(S)}

\* The reservations of an order come by row id, the order of their creation:
\* for a checkout by variant and only then by location.
ReservationOrder(o) == BalanceLocks(ReservationsOf[o])

-----------------------------------------------------------------------------
(* Transactions                                                            *)

Init == txn = [c \in Callers |-> NoTxn]

Begin(c, command, locks) ==
    /\ command \in Commands
    /\ txn[c] = NoTxn
    /\ txn' = [txn EXCEPT ![c] = [command |-> command, locks |-> locks,
                                  taken |-> 0, attempt |-> 1]]

\* A payment's verification, a cancellation or an order's expiry.
OrderCommand(c, o) == Begin(c, "order", <<OrderLock(o)>> \o ReservationOrder(o))

ExpireReservations(c, S) == \E locks \in SweepOrder(S) : Begin(c, "sweep", locks)

\* The receipt of a purchase order or the approval of a stocktake.
DocumentCommand(c, d, S) ==
    \E locks \in DocumentOrder(S) : Begin(c, "document", <<DocumentLock(d)>> \o locks)

\* A reservation or a stock change of one balance.
StockCommand(c, k) == Begin(c, "stock", <<BalanceLock(k)>>)

Open(c) == txn[c] # NoTxn

Held(c) ==
    IF Open(c) THEN {txn[c].locks[i] : i \in 1..txn[c].taken} ELSE {}

Asks(c) == Open(c) /\ txn[c].taken < Len(txn[c].locks)

Wanted(c) == txn[c].locks[txn[c].taken + 1]

WaitsFor(c, d) == Asks(c) /\ d # c /\ Wanted(c) \in Held(d)

\* pg_advisory_xact_lock: waits while another transaction has the lock; a
\* lock the transaction has already is granted again.
Acquire(c) ==
    /\ Asks(c)
    /\ \A d \in Callers : ~WaitsFor(c, d)
    /\ txn' = [txn EXCEPT ![c].taken = @ + 1]

\* The transaction commits, or is rolled back by an error of its own.
End(c) ==
    /\ Open(c) /\ ~Asks(c)
    /\ txn' = [txn EXCEPT ![c] = NoTxn]

\* Callers that wait for each other: none of them can go on.
WaitCycle(S) == S # {} /\ \A c \in S : \E d \in S : WaitsFor(c, d)

\* Mutant: attempts are not counted.
NextAttemptSame(x) == x.attempt

NextAttempt(x) == x.attempt + 1

\* An abort inside a raw statement surfaces as P2010 and not always as P2034.
\* Every command tries again after P2034; after P2010 only the inventory's
\* own commands do, the others fail.
TriesAgain(x, code) ==
    /\ NextAttempt(x) <= Attempts
    /\ code = "P2034" \/ x.command \in {"sweep", "stock"}

\* PostgreSQL ends a deadlock by aborting one of the waiting transactions.
Abort(c, code) ==
    /\ \E S \in SUBSET Callers : c \in S /\ WaitCycle(S)
    /\ txn' = [txn EXCEPT ![c] =
                 IF TriesAgain(txn[c], code)
                 THEN [txn[c] EXCEPT !.taken = 0, !.attempt = NextAttempt(txn[c])]
                 ELSE NoTxn]

Next ==
    \E c \in Callers :
        \/ \E o \in Orders : OrderCommand(c, o)
        \/ \E S \in SUBSET Balances \ {{}} : ExpireReservations(c, S)
        \/ \E d \in Documents, S \in SUBSET Balances \ {{}} : DocumentCommand(c, d, S)
        \/ \E k \in Balances : StockCommand(c, k)
        \/ Acquire(c)
        \/ End(c)
        \/ \E code \in {"P2010", "P2034"} : Abort(c, code)

Spec == Init /\ [][Next]_vars

\* PostgreSQL serves the waiters of a lock in turn, so one that is granted
\* again and again is granted to each of them; it detects every deadlock; and
\* a transaction that has its locks ends.
FairSpec ==
    /\ Spec
    /\ \A c \in Callers :
         /\ SF_vars(Acquire(c))
         /\ WF_vars(End(c))
    /\ WF_vars(\E c \in Callers, code \in {"P2010", "P2034"} : Abort(c, code))

-----------------------------------------------------------------------------
(* Properties                                                              *)

\* No deadlock (ADR-0018: "Lock order is always order advisory lock first,
\* then per-balance locks, ... so no deadlock"): calls never wait for each
\* other in a circle.
NoDeadlock == \A S \in SUBSET Callers : ~WaitCycle(S)

\* Only the settlement of an order breaks the order of the locks: a circle
\* of waiting calls always has one in it, whatever sweeps, documents and
\* single-balance commands run beside each other.
SortedCommandsNeverDeadlock ==
    \A S \in SUBSET Callers :
        WaitCycle(S) => \E c \in S : txn[c].command = "order"

\* Every call ends, deadlocks and bounded retries included: no call is tried
\* for ever or waits for ever.
EveryCallEnds == \A c \in Callers : Open(c) ~> ~Open(c)

=============================================================================
