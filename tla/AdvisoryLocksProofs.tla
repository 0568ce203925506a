-------------------------- MODULE AdvisoryLocksProofs --------------------------
(***************************************************************************)
(* Commands that take their locks in one order never wait for each other   *)
(* in a circle: for any numbers of callers, balances, documents and orders.*)
(***************************************************************************)
EXTENDS AdvisoryLocks, FiniteSetTheorems, TLAPS

-----------------------------------------------------------------------------
(* The order of the locks                                                  *)

Lock ==
    {OrderLock(o) : o \in Orders} \cup {DocumentLock(d) : d \in Documents}
    \cup {BalanceLock(k) : k \in Balances}

\* A document comes before the balances, and they by location and variant.
Precedes(x, y) ==
    /\ y[1] = "balance"
    /\ \/ x[1] = "document"
       \/ x[1] = "balance" /\ ByLocation(x[2], y[2])

Ascending(locks) == \A i, j \in 1..Len(locks) : i < j => Precedes(locks[i], locks[j])

LEMMA PrecedesIsAnOrder ==
    ASSUME NEW x \in Lock, NEW y \in Lock, NEW z \in Lock
    PROVE  /\ ~Precedes(x, x)
           /\ Precedes(x, y) /\ Precedes(y, z) => Precedes(x, z)
<1>1. \A u \in Lock : u[1] = "balance" => u[2] \in Balances
  BY DEF Lock, OrderLock, DocumentLock, BalanceLock
<1>2. \A k \in Balances : k[1] \in Nat /\ k[2] \in Nat
  BY LocksAssumption DEF Balances
<1>3. ~Precedes(x, x)
  BY <1>1, <1>2 DEF Precedes, ByLocation
<1>4. ASSUME Precedes(x, y), Precedes(y, z) PROVE Precedes(x, z)
  BY <1>1, <1>2, <1>4 DEF Precedes, ByLocation
<1> QED
  BY <1>3, <1>4

-----------------------------------------------------------------------------
(* The inductive invariant                                                 *)

Transaction ==
    [command : Commands, locks : Seq(Lock), taken : Nat, attempt : Nat]

Types == txn \in [Callers -> Transaction \cup {NoTxn}]

\* An open transaction has some of the first of its locks.
Counted == \A c \in Callers : Open(c) => txn[c].taken <= Len(txn[c].locks)

\* All commands but those on orders ask for their locks in ascending order.
Ordered == \A c \in Callers : Open(c) /\ txn[c].command # "order" => Ascending(txn[c].locks)

IInv == Types /\ Counted /\ Ordered

-----------------------------------------------------------------------------
(* Why the order is enough                                                 *)

\* Who waits asks for a lock that precedes the one its holder asks for.
LEMMA WaitsAscend ==
    ASSUME IInv, NEW c \in Callers, NEW d \in Callers, WaitsFor(c, d), Asks(d),
           txn[d].command # "order"
    PROVE  Precedes(Wanted(c), Wanted(d))
<1>1. Open(d) /\ txn[d] \in Transaction
  BY DEF Asks, Open, IInv, Types
<1>2. PICK i \in 1..txn[d].taken : Wanted(c) = txn[d].locks[i]
  BY <1>1 DEF WaitsFor, Held
<1>3. /\ txn[d].taken \in Nat /\ Len(txn[d].locks) \in Nat
      /\ i < txn[d].taken + 1 /\ i \in 1..Len(txn[d].locks)
      /\ txn[d].taken + 1 \in 1..Len(txn[d].locks)
  BY <1>1 DEF Transaction, Asks
<1>4. Ascending(txn[d].locks)
  BY <1>1 DEF IInv, Ordered
<1> QED
  BY <1>2, <1>3, <1>4 DEF Ascending, Wanted

LEMMA WantedIsALock ==
    ASSUME IInv, NEW c \in Callers, Asks(c)
    PROVE  Wanted(c) \in Lock
<1>1. txn[c] \in Transaction
  BY DEF Asks, Open, IInv, Types
<1>2. txn[c].locks \in Seq(Lock) /\ txn[c].taken + 1 \in 1..Len(txn[c].locks)
  BY <1>1 DEF Transaction, Asks
<1> QED
  BY <1>2 DEF Wanted

\* A circle of callers has no one whose lock comes last; but a finite set
\* has: one above whom there are fewest.
LEMMA CirclesBreakTheOrder ==
    ASSUME IInv, NEW S \in SUBSET Callers, WaitCycle(S), \A c \in S : txn[c].command # "order"
    PROVE  FALSE
<1> DEFINE Above(c) == {d \in S : Precedes(Wanted(c), Wanted(d))}
           Family == {Above(c) : c \in S}
<1>1. IsFiniteSet(S)
  BY LocksAssumption, FS_Subset
<1>2. \A c \in S : Above(c) \in SUBSET S /\ IsFiniteSet(Above(c))
  BY <1>1, FS_Subset
<1>3. Family \subseteq FiniteSubsetsOf(S) /\ Family # {}
  BY <1>2 DEF FiniteSubsetsOf, WaitCycle
<1>4. \E T \in Family : \A U \in Family : ~(<<U, T>> \in StrictSubsetOrdering(S))
  <2> HIDE DEF Family
  <2>1. IsWellFoundedOn(StrictSubsetOrdering(S), FiniteSubsetsOf(S))
    BY FS_StrictSubsetOrderingWellFounded
  <2> QED
    BY <2>1, <1>3, WFMin
<1>5. PICK c \in S : \A d \in S : ~(<<Above(d), Above(c)>> \in StrictSubsetOrdering(S))
  BY <1>4
<1>6. PICK d \in S : WaitsFor(c, d)
  BY DEF WaitCycle
<1>7. \A e \in S : e \in Callers /\ Asks(e) /\ Wanted(e) \in Lock
  BY WantedIsALock DEF WaitCycle, WaitsFor
<1>8. Precedes(Wanted(c), Wanted(d))
  BY <1>6, <1>7, WaitsAscend
<1>9. Above(d) \subseteq Above(c)
  <2> SUFFICES ASSUME NEW e \in S, Precedes(Wanted(d), Wanted(e))
               PROVE  Precedes(Wanted(c), Wanted(e))
    OBVIOUS
  <2> QED
    BY <1>7, <1>8, PrecedesIsAnOrder
<1>10. d \in Above(c) /\ d \notin Above(d)
  BY <1>7, <1>8, PrecedesIsAnOrder
<1>11. <<Above(d), Above(c)>> \in StrictSubsetOrdering(S)
  BY <1>9, <1>10 DEF StrictSubsetOrdering
<1> QED
  BY <1>5, <1>11

-----------------------------------------------------------------------------
(* The lists of locks                                                      *)

\* A sorted list of balances is a sequence of locks in ascending order.
LEMMA SortedLocks ==
    ASSUME NEW S \in SUBSET Balances, NEW list \in SortedByLocation(S)
    PROVE  BalanceLocks(list) \in Seq(Lock) /\ Ascending(BalanceLocks(list))
           /\ \A i \in 1..Len(BalanceLocks(list)) : BalanceLocks(list)[i][1] = "balance"
<1> DEFINE n == Cardinality(S)
           locks == BalanceLocks(list)
<1>1. IsFiniteSet(Balances)
  BY LocksAssumption, FS_Product DEF Balances
<1>2. n \in Nat
  BY <1>1, FS_Subset, FS_CardinalityType
<1>3. list \in [1..n -> S] /\ \A i, j \in 1..n : i < j => ByLocation(list[i], list[j])
  BY DEF SortedByLocation
<1> HIDE DEF n
<1>4. locks = [i \in 1..n |-> BalanceLock(list[i])]
  BY <1>3 DEF BalanceLocks
<1>5. \A i \in 1..n : /\ locks[i] \in Lock /\ locks[i][1] = "balance" /\ locks[i][2] = list[i]
  BY <1>3, <1>4 DEF Lock, BalanceLock
<1> HIDE DEF locks
<1>6. locks \in [1..n -> Lock]
  BY <1>4, <1>5
<1>7. locks \in Seq(Lock) /\ Len(locks) = n
  BY <1>2, <1>6
<1>8. Ascending(locks)
  BY <1>3, <1>5, <1>7 DEF Ascending, Precedes
<1> QED
  BY <1>5, <1>7, <1>8 DEF locks

\* A document's lock goes before them.
LEMMA DocumentFirst ==
    ASSUME NEW d \in Documents, NEW locks \in Seq(Lock), Ascending(locks),
           \A i \in 1..Len(locks) : locks[i][1] = "balance"
    PROVE  <<DocumentLock(d)>> \o locks \in Seq(Lock) /\ Ascending(<<DocumentLock(d)>> \o locks)
<1> DEFINE all == <<DocumentLock(d)>> \o locks
<1>1. DocumentLock(d) \in Lock /\ DocumentLock(d)[1] = "document"
  BY DEF Lock, DocumentLock
<1>2. all \in Seq(Lock) /\ Len(all) = Len(locks) + 1 /\ all[1] = DocumentLock(d)
  BY <1>1
<1>3. \A i \in 2..Len(all) : i - 1 \in 1..Len(locks) /\ all[i] = locks[i - 1]
  BY <1>1
<1> HIDE DEF all
<1>4. ASSUME NEW i \in 1..Len(all), NEW j \in 1..Len(all), i < j
      PROVE  Precedes(all[i], all[j])
  <2>1. j \in 2..Len(all) /\ j - 1 \in 1..Len(locks) /\ all[j] = locks[j - 1]
    BY <1>2, <1>3, <1>4
  <2>2. CASE i = 1
    BY <2>1, <2>2, <1>1, <1>2 DEF Precedes
  <2>3. CASE i # 1
    <3>1. i \in 2..Len(all) /\ i - 1 \in 1..Len(locks) /\ all[i] = locks[i - 1] /\ i - 1 < j - 1
      BY <2>3, <1>2, <1>3, <1>4
    <3> QED
      BY <3>1, <2>1 DEF Ascending
  <2> QED
    BY <2>2, <2>3
<1>5. Ascending(all)
  BY <1>4 DEF Ascending
<1> QED
  BY <1>2, <1>5 DEF all

\* The list of an order's command.
LEMMA OrderLocks ==
    ASSUME NEW o \in Orders
    PROVE  <<OrderLock(o)>> \o ReservationOrder(o) \in Seq(Lock)
<1> DEFINE keys == ReservationsOf[o]
           locks == ReservationOrder(o)
<1>1. keys \in Seq(Balances)
  BY LocksAssumption
<1>2. Len(keys) \in Nat /\ keys \in [1..Len(keys) -> Balances]
  BY <1>1
<1> HIDE DEF keys
<1>3. ReservationOrder(o) = [i \in 1..Len(keys) |-> BalanceLock(keys[i])]
  BY <1>2 DEF ReservationOrder, BalanceLocks, keys
<1>4. \A i \in 1..Len(keys) : BalanceLock(keys[i]) \in Lock
  BY <1>2 DEF Lock
<1>5. locks \in Seq(Lock)
  BY <1>2, <1>3, <1>4
<1>6. OrderLock(o) \in Lock
  BY DEF Lock
<1> HIDE DEF locks
<1>7. <<OrderLock(o)>> \o locks \in Seq(Lock)
  BY <1>5, <1>6
<1> QED
  BY <1>7 DEF locks

-----------------------------------------------------------------------------
(* The steps                                                               *)

\* One transaction changes.
LEMMA OneTransaction ==
    ASSUME IInv, NEW c \in Callers, NEW x, txn' = [txn EXCEPT ![c] = x],
           x # NoTxn => /\ x \in Transaction /\ x.taken <= Len(x.locks)
                        /\ x.command # "order" => Ascending(x.locks)
    PROVE  IInv'
<1>1. /\ txn'[c] = x /\ txn' \in [Callers -> Transaction \cup {NoTxn}]
      /\ \A d \in Callers : d # c => txn'[d] = txn[d]
  BY DEF IInv, Types
<1>2. Counted'
  BY <1>1 DEF IInv, Counted, Open
<1>3. Ordered'
  BY <1>1 DEF IInv, Ordered, Open
<1> QED
  BY <1>1, <1>2, <1>3 DEF IInv, Types

LEMMA BeginKeeps ==
    ASSUME IInv, NEW c \in Callers, NEW command, NEW locks \in Seq(Lock),
           Begin(c, command, locks), command # "order" => Ascending(locks)
    PROVE  IInv'
<1> DEFINE x == [command |-> command, locks |-> locks, taken |-> 0, attempt |-> 1]
<1>1. txn' = [txn EXCEPT ![c] = x] /\ command \in Commands
  BY DEF Begin
<1>2. x \in Transaction /\ x.taken = 0 /\ x.locks = locks /\ x.command = command
  BY <1>1 DEF Transaction
<1> HIDE DEF x
<1>3. x.taken <= Len(x.locks)
  BY <1>2
<1> QED
  BY <1>1, <1>2, <1>3, OneTransaction

LEMMA AcquireKeeps ==
    ASSUME IInv, NEW c \in Callers, Acquire(c)
    PROVE  IInv'
<1> DEFINE x == [txn[c] EXCEPT !.taken = @ + 1]
<1>1. Open(c) /\ txn[c] \in Transaction /\ txn[c].taken < Len(txn[c].locks)
      /\ txn' = [txn EXCEPT ![c] = x]
  BY DEF Acquire, Asks, Open, IInv, Types
<1>2. /\ x \in Transaction /\ x.taken = txn[c].taken + 1 /\ x.locks = txn[c].locks
      /\ x.command = txn[c].command /\ txn[c].taken \in Nat /\ txn[c].locks \in Seq(Lock)
  BY <1>1 DEF Transaction
<1> HIDE DEF x
<1>3. x.taken <= Len(x.locks)
  BY <1>1, <1>2
<1>4. x.command # "order" => Ascending(x.locks)
  BY <1>1, <1>2 DEF IInv, Ordered
<1> QED
  BY <1>1, <1>2, <1>3, <1>4, OneTransaction

LEMMA EndKeeps ==
    ASSUME IInv, NEW c \in Callers, End(c)
    PROVE  IInv'
  BY OneTransaction DEF End

LEMMA AbortKeeps ==
    ASSUME IInv, NEW c \in Callers, NEW code, Abort(c, code)
    PROVE  IInv'
<1> DEFINE again == [txn[c] EXCEPT !.taken = 0, !.attempt = NextAttempt(txn[c])]
           x == IF TriesAgain(txn[c], code) THEN again ELSE NoTxn
<1>1. txn' = [txn EXCEPT ![c] = x]
  BY DEF Abort
<1>2. Open(c) /\ txn[c] \in Transaction
  BY DEF Abort, WaitCycle, WaitsFor, Asks, Open, IInv, Types
<1>3. txn[c].attempt + 1 \in Nat /\ txn[c].locks \in Seq(Lock) /\ 0 <= Len(txn[c].locks)
  BY <1>2 DEF Transaction
<1>4. /\ again \in Transaction /\ again.taken = 0 /\ again.locks = txn[c].locks
      /\ again.command = txn[c].command
  BY <1>2, <1>3 DEF Transaction, NextAttempt
<1>5. again.command # "order" => Ascending(again.locks)
  BY <1>2, <1>4 DEF IInv, Ordered
<1> HIDE DEF again
<1> QED
  BY <1>1, <1>3, <1>4, <1>5, OneTransaction

-----------------------------------------------------------------------------
(* The theorems                                                            *)

\* With no transaction open the invariant holds.
THEOREM InitIInv == Init => IInv
  BY DEF Init, IInv, Types, Counted, Ordered, Open

\* Every step keeps it, a retry after a deadlock too.
THEOREM NextIInv == IInv /\ [Next]_vars => IInv'
<1> SUFFICES ASSUME IInv, [Next]_vars PROVE IInv'
  OBVIOUS
<1>1. ASSUME NEW c \in Callers, NEW o \in Orders, OrderCommand(c, o) PROVE IInv'
  BY <1>1, OrderLocks, BeginKeeps DEF OrderCommand
<1>2. ASSUME NEW c \in Callers, NEW S \in SUBSET Balances, ExpireReservations(c, S) PROVE IInv'
  <2>1. PICK list \in SortedByLocation(S) : Begin(c, "sweep", BalanceLocks(list))
    BY <1>2 DEF ExpireReservations, SweepOrder
  <2> QED
    BY <2>1, SortedLocks, BeginKeeps
<1>3. ASSUME NEW c \in Callers, NEW d \in Documents, NEW S \in SUBSET Balances,
             DocumentCommand(c, d, S)
      PROVE  IInv'
  <2>1. PICK list \in SortedByLocation(S) :
           Begin(c, "document", <<DocumentLock(d)>> \o BalanceLocks(list))
    BY <1>3 DEF DocumentCommand, DocumentOrder
  <2>2. <<DocumentLock(d)>> \o BalanceLocks(list) \in Seq(Lock)
        /\ Ascending(<<DocumentLock(d)>> \o BalanceLocks(list))
    BY SortedLocks, DocumentFirst
  <2> QED
    BY <2>1, <2>2, BeginKeeps
<1>4. ASSUME NEW c \in Callers, NEW k \in Balances, StockCommand(c, k) PROVE IInv'
  <2>1. <<BalanceLock(k)>> \in Seq(Lock) /\ Ascending(<<BalanceLock(k)>>)
    <3>1. BalanceLock(k) \in Lock
      BY DEF Lock
    <3> QED
      BY <3>1 DEF Ascending
  <2> QED
    BY <1>4, <2>1, BeginKeeps DEF StockCommand
<1>5. CASE UNCHANGED vars
  BY <1>5 DEF vars, IInv, Types, Counted, Ordered, Open
<1> QED
  BY <1>1, <1>2, <1>3, <1>4, <1>5, AcquireKeeps, EndKeeps, AbortKeeps DEF Next

\* Whatever sweeps, documents and single-balance commands run beside each
\* other, a circle of waiting calls has the command of an order in it.
THEOREM OnlyOrdersDeadlock == Spec => []SortedCommandsNeverDeadlock
<1>1. IInv => SortedCommandsNeverDeadlock
  BY CirclesBreakTheOrder DEF SortedCommandsNeverDeadlock
<1> QED
  BY <1>1, InitIInv, NextIInv, PTL DEF Spec

\* What ADR-0018 promises holds of a system without the commands on orders.
THEOREM NoDeadlockWithoutOrders ==
    ASSUME "order" \notin Commands
    PROVE  Spec => []NoDeadlock
<1>1. IInv => NoDeadlock
  <2> SUFFICES ASSUME IInv, NEW S \in SUBSET Callers, WaitCycle(S) PROVE FALSE
    BY DEF NoDeadlock
  <2>1. \A c \in S : txn[c].command # "order"
    <3> SUFFICES ASSUME NEW c \in S PROVE txn[c].command # "order"
      OBVIOUS
    <3>1. txn[c] \in Transaction
      BY DEF WaitCycle, WaitsFor, Asks, Open, IInv, Types
    <3> QED
      BY <3>1 DEF Transaction
  <2> QED
    BY <2>1, CirclesBreakTheOrder
<1> QED
  BY <1>1, InitIInv, NextIInv, PTL DEF Spec

=============================================================================
