--------------------------- MODULE InventoryProofs ---------------------------
(***************************************************************************)
(* The safety properties of Inventory for every set of shelves,            *)
(* reservations, orders and callers and every bound.                       *)
(*                                                                         *)
(* The invariants support each other: releasing keeps reserved >= 0 only   *)
(* because reserved counts the ACTIVE units (ReservedIsHeld), and that     *)
(* count is preserved only because the rows being settled are still ACTIVE *)
(* in the settling transaction.  Their conjunction IInv is inductive.      *)
(***************************************************************************)
EXTENDS Inventory, FiniteSetTheorems, TLAPS

IInv ==
    /\ TypeOK
    /\ NoOversell
    /\ ReservedIsHeld
    /\ LedgerReconciles
    /\ VersionNamesContent

-----------------------------------------------------------------------------
(* Counting units                                                          *)

\* UnitsOn with the reservation table as a parameter, so that the counts of
\* two states can be compared.
UnitsIn(rs, S, k) ==
    {u \in S \X (1..MaxQuantity) :
        rs[u[1]].key = k /\ u[2] <= rs[u[1]].quantity}

\* The units on a key are finitely many, so their number is a natural.
LEMMA UnitsFinite ==
    ASSUME NEW rs, NEW S \in SUBSET ReservationIds, NEW k
    PROVE  /\ IsFiniteSet(UnitsIn(rs, S, k))
           /\ Cardinality(UnitsIn(rs, S, k)) \in Nat
<1>1. IsFiniteSet(S)
  BY KeysAssumption, FS_Subset
<1>2. IsFiniteSet(1..MaxQuantity)
  BY BoundsAssumption, FS_Interval
<1>3. IsFiniteSet(S \X (1..MaxQuantity))
  BY <1>1, <1>2, FS_Product
<1>4. UnitsIn(rs, S, k) \in SUBSET (S \X (1..MaxQuantity))
  BY DEF UnitsIn
<1>5. IsFiniteSet(UnitsIn(rs, S, k))
  BY <1>3, <1>4, FS_Subset
<1> QED
  BY <1>5, FS_CardinalityType

\* Taking the rows T out of S takes exactly their units out of the count.
LEMMA UnitsSplit ==
    ASSUME NEW rs, NEW S \in SUBSET ReservationIds, NEW T \in SUBSET S, NEW k
    PROVE  Cardinality(UnitsIn(rs, S \ T, k)) =
             Cardinality(UnitsIn(rs, S, k)) - Cardinality(UnitsIn(rs, T, k))
<1>1. UnitsIn(rs, S \ T, k) = UnitsIn(rs, S, k) \ UnitsIn(rs, T, k)
  BY DEF UnitsIn
<1>2. UnitsIn(rs, S, k) \cap UnitsIn(rs, T, k) = UnitsIn(rs, T, k)
  BY DEF UnitsIn
<1>3. IsFiniteSet(UnitsIn(rs, S, k))
  BY UnitsFinite
<1>4. Cardinality(UnitsIn(rs, S, k) \ UnitsIn(rs, T, k)) =
        Cardinality(UnitsIn(rs, S, k))
          - Cardinality(UnitsIn(rs, S, k) \cap UnitsIn(rs, T, k))
  BY <1>3, FS_Difference
<1> QED
  BY <1>1, <1>2, <1>4

\* Adding the rows T to S adds their units.
LEMMA UnitsJoin ==
    ASSUME NEW rs, NEW S \in SUBSET ReservationIds, NEW T \in SUBSET ReservationIds,
           S \cap T = {}, NEW k
    PROVE  Cardinality(UnitsIn(rs, S \cup T, k)) =
             Cardinality(UnitsIn(rs, S, k)) + Cardinality(UnitsIn(rs, T, k))
<1>1. (S \cup T) \ T = S /\ T \in SUBSET (S \cup T)
  OBVIOUS
<1>2. S \cup T \in SUBSET ReservationIds
  OBVIOUS
<1>3. Cardinality(UnitsIn(rs, S, k)) =
        Cardinality(UnitsIn(rs, S \cup T, k)) - Cardinality(UnitsIn(rs, T, k))
  BY <1>1, <1>2, UnitsSplit
<1> QED
  BY <1>2, <1>3, UnitsFinite

\* The count depends on nothing but the keys and quantities of its rows.
LEMMA UnitsStable ==
    ASSUME NEW rs, NEW rt, NEW S, NEW k,
           \A r \in S : rt[r].key = rs[r].key /\ rt[r].quantity = rs[r].quantity
    PROVE  UnitsIn(rt, S, k) = UnitsIn(rs, S, k)
  BY DEF UnitsIn

\* A column of q units numbers q.
LEMMA ColumnSize ==
    ASSUME NEW r, NEW q \in Nat
    PROVE  Cardinality({r} \X (1..q)) = q
<1>1. IsFiniteSet({r}) /\ Cardinality({r}) = 1
  BY FS_Singleton
<1>2. IsFiniteSet(1..q) /\ Cardinality(1..q) = IF 1 > q THEN 0 ELSE q - 1 + 1
  BY FS_Interval
<1>3. Cardinality(1..q) = q
  BY <1>2
<1>4. Cardinality({r} \X (1..q)) = Cardinality({r}) * Cardinality(1..q)
  BY <1>1, <1>2, FS_Product
<1>5. Cardinality({r} \X (1..q)) = 1 * q
  BY <1>1, <1>3, <1>4
<1> QED
  BY <1>5

\* One row counts as its quantity, on its own key only.
LEMMA UnitsOfOne ==
    ASSUME NEW rs, NEW r \in ReservationIds, NEW k,
           rs[r].quantity \in 1..MaxQuantity
    PROVE  /\ rs[r].key = k =>
                Cardinality(UnitsIn(rs, {r}, k)) = rs[r].quantity
           /\ rs[r].key # k => Cardinality(UnitsIn(rs, {r}, k)) = 0
<1>1. ASSUME rs[r].key = k
      PROVE  Cardinality(UnitsIn(rs, {r}, k)) = rs[r].quantity
  <2>1. UnitsIn(rs, {r}, k) = {r} \X (1..rs[r].quantity)
    BY <1>1, BoundsAssumption DEF UnitsIn
  <2>2. rs[r].quantity \in Nat
    BY BoundsAssumption
  <2>3. Cardinality({r} \X (1..rs[r].quantity)) = rs[r].quantity
    BY <2>2, ColumnSize
  <2> QED
    BY <2>1, <2>3
<1>2. ASSUME rs[r].key # k
      PROVE  Cardinality(UnitsIn(rs, {r}, k)) = 0
  <2>1. UnitsIn(rs, {r}, k) = {}
    BY <1>2 DEF UnitsIn
  <2> QED
    BY <2>1, FS_EmptySet
<1> QED
  BY <1>1, <1>2

\* No row on the key: no unit.
LEMMA NoRowsNoUnits ==
    ASSUME NEW S, NEW k, On(S, k) = {}
    PROVE  UnitsOn(S, k) = {}
  BY DEF On, UnitsOn

-----------------------------------------------------------------------------
(* Settling reservations                                                   *)

\* QuantityOn, in this state and in the next, counts the units of a table.
LEMMA QuantityIsUnits ==
    ASSUME NEW k
    PROVE  /\ \A S : QuantityOn(S, k) = Cardinality(UnitsIn(reservation, S, k))
           /\ QuantityOn(WithStatus("ACTIVE"), k)' =
                Cardinality(UnitsIn(reservation', WithStatus("ACTIVE")', k))
           /\ QuantityOn(WithStatus("CONSUMED"), k)' =
                Cardinality(UnitsIn(reservation', WithStatus("CONSUMED")', k))
  BY DEF QuantityOn, UnitsOn, UnitsIn

\* What one key holds is a natural number.
LEMMA QuantityNat ==
    ASSUME NEW S \in SUBSET ReservationIds, NEW k
    PROVE  QuantityOn(S, k) \in Nat
  BY UnitsFinite, QuantityIsUnits

\* Rows that are ACTIVE leave the ACTIVE count when they are settled, and
\* enter the CONSUMED count exactly when they are consumed.
LEMMA SettleCounts ==
    ASSUME TypeOK, NEW S \in SUBSET WithStatus("ACTIVE"),
           NEW st \in {"RELEASED", "EXPIRED", "CONSUMED"}, SetStatus(S, st),
           NEW k \in StockKeys
    PROVE  /\ reservation' \in [ReservationIds -> Reservation \cup {NoReservation}]
           /\ QuantityOn(WithStatus("ACTIVE"), k)' =
                QuantityOn(WithStatus("ACTIVE"), k) - QuantityOn(S, k)
           /\ st = "CONSUMED" =>
                QuantityOn(WithStatus("CONSUMED"), k)' =
                  QuantityOn(WithStatus("CONSUMED"), k) + QuantityOn(S, k)
           /\ st # "CONSUMED" =>
                QuantityOn(WithStatus("CONSUMED"), k)' =
                  QuantityOn(WithStatus("CONSUMED"), k)
<1> DEFINE A == WithStatus("ACTIVE")
           C == WithStatus("CONSUMED")
<1>1. A \in SUBSET ReservationIds /\ C \in SUBSET ReservationIds
      /\ S \in SUBSET ReservationIds /\ C \cap S = {}
  BY DEF WithStatus, IsIn
<1>2. \A r \in S : reservation[r] \in Reservation /\ reservation[r].status = "ACTIVE"
  BY DEF WithStatus, IsIn, Exists, TypeOK
<1>3. \A r \in S : /\ reservation'[r] = [reservation[r] EXCEPT !.status = st]
                   /\ reservation'[r] \in Reservation
                   /\ reservation'[r].status = st
                   /\ reservation'[r].key = reservation[r].key
                   /\ reservation'[r].quantity = reservation[r].quantity
  BY <1>1, <1>2 DEF SetStatus, Reservation, Statuses
<1>4. \A r \in ReservationIds \ S : reservation'[r] = reservation[r]
  BY DEF SetStatus
<1>5. reservation' \in [ReservationIds -> Reservation \cup {NoReservation}]
  BY <1>1, <1>3, <1>4 DEF SetStatus, TypeOK
<1>6a. \A r \in S : reservation'[r] # NoReservation
  BY <1>3, NullAssumption
<1>6b. \A r \in ReservationIds :
         /\ r \in A <=> reservation[r] # NoReservation /\ reservation[r].status = "ACTIVE"
         /\ r \in C <=> reservation[r] # NoReservation /\ reservation[r].status = "CONSUMED"
  BY DEF WithStatus, IsIn, Exists
<1>6c. /\ A' \in SUBSET ReservationIds /\ C' \in SUBSET ReservationIds
       /\ \A r \in ReservationIds :
         /\ r \in A' <=> reservation'[r] # NoReservation /\ reservation'[r].status = "ACTIVE"
         /\ r \in C' <=> reservation'[r] # NoReservation /\ reservation'[r].status = "CONSUMED"
  BY DEF WithStatus, IsIn, Exists
<1> HIDE DEF A, C
<1>6. A' = A \ S
  <2>1. \A r \in ReservationIds : r \in A' <=> r \in A \ S
    BY <1>1, <1>3, <1>4, <1>6b, <1>6c
  <2> QED
    BY <2>1, <1>1, <1>6c
<1>7. C' = IF st = "CONSUMED" THEN C \cup S ELSE C
  <2>1. \A r \in ReservationIds :
          r \in C' <=> r \in C \/ (st = "CONSUMED" /\ r \in S)
    BY <1>1, <1>2, <1>3, <1>4, <1>6a, <1>6b, <1>6c
  <2> QED
    BY <2>1, <1>1, <1>6c
<1>8. UnitsIn(reservation', A \ S, k) = UnitsIn(reservation, A \ S, k)
  BY <1>1, <1>4, UnitsStable
<1>9. UnitsIn(reservation', C, k) = UnitsIn(reservation, C, k)
  BY <1>1, <1>4, UnitsStable
<1>10. UnitsIn(reservation', C \cup S, k) = UnitsIn(reservation, C \cup S, k)
  <2>1. \A r \in C \cup S : /\ reservation'[r].key = reservation[r].key
                            /\ reservation'[r].quantity = reservation[r].quantity
    BY <1>1, <1>3, <1>4
  <2> QED
    BY <2>1, UnitsStable
<1>11. QuantityOn(A, k)' = QuantityOn(A, k) - QuantityOn(S, k)
  <2>1. Cardinality(UnitsIn(reservation, A \ S, k)) =
          Cardinality(UnitsIn(reservation, A, k)) - Cardinality(UnitsIn(reservation, S, k))
    <3>1. A \in SUBSET ReservationIds /\ S \in SUBSET A
      BY <1>1 DEF A
    <3> QED
      BY <3>1, UnitsSplit
  <2>2. QuantityOn(A, k)' = Cardinality(UnitsIn(reservation', A', k))
    BY QuantityIsUnits DEF A
  <2>3. UnitsIn(reservation', A', k) = UnitsIn(reservation', A \ S, k)
    BY <1>6
  <2>4. /\ QuantityOn(A, k) = Cardinality(UnitsIn(reservation, A, k))
        /\ QuantityOn(S, k) = Cardinality(UnitsIn(reservation, S, k))
    BY QuantityIsUnits
  <2> QED
    BY <2>1, <2>2, <2>3, <2>4, <1>8
<1>12. ASSUME st = "CONSUMED"
       PROVE  QuantityOn(C, k)' = QuantityOn(C, k) + QuantityOn(S, k)
  <2>1. Cardinality(UnitsIn(reservation, C \cup S, k)) =
          Cardinality(UnitsIn(reservation, C, k)) + Cardinality(UnitsIn(reservation, S, k))
    BY <1>1, UnitsJoin
  <2> QED
    BY <2>1, <1>7, <1>10, <1>12, QuantityIsUnits DEF C
<1>13. ASSUME st # "CONSUMED"
       PROVE  QuantityOn(C, k)' = QuantityOn(C, k)
  BY <1>7, <1>9, <1>13, QuantityIsUnits DEF C
<1> QED
  BY <1>5, <1>11, <1>12, <1>13 DEF A, C

\* The version of a balance moves by the number of its rows that settle, and
\* not at all only when none of its units do.
LEMMA BumpsCountRows ==
    ASSUME NEW S \in SUBSET ReservationIds, NEW k
    PROVE  /\ Cardinality(On(S, k)) \in Nat
           /\ Cardinality(On(S, k)) = 0 => QuantityOn(S, k) = 0
<1>1. IsFiniteSet(S)
  BY KeysAssumption, FS_Subset
<1>2. On(S, k) \in SUBSET S
  BY DEF On
<1>3. IsFiniteSet(On(S, k))
  BY <1>1, <1>2, FS_Subset
<1>4. Cardinality(On(S, k)) \in Nat
  BY <1>3, FS_CardinalityType
<1>5. ASSUME Cardinality(On(S, k)) = 0
      PROVE  QuantityOn(S, k) = 0
  <2>1. On(S, k) = {}
    BY <1>3, <1>5, FS_EmptySet
  <2>2. UnitsOn(S, k) = {}
    BY <2>1, NoRowsNoUnits
  <2> QED
    BY <2>2, FS_EmptySet DEF QuantityOn
<1> QED
  BY <1>4, <1>5

\* Everything that the balances, the reservations and the ledger promise.
StockInv ==
    /\ balance \in [StockKeys -> Balance]
    /\ reservation \in [ReservationIds -> Reservation \cup {NoReservation}]
    /\ ledger \in [StockKeys -> MovementTotals]
    /\ NoOversell
    /\ ReservedIsHeld
    /\ LedgerReconciles
    /\ VersionNamesContent

\* What the two row updates do to the columns.
LEMMA UnreservedColumns ==
    ASSUME NEW b \in Balance, NEW q \in Nat, NEW n \in Nat
    PROVE  /\ Unreserved(b, q, n) \in Balance
           /\ Unreserved(b, q, n).onHand = b.onHand
           /\ Unreserved(b, q, n).reserved = b.reserved - q
           /\ Unreserved(b, q, n).available = b.available + q
           /\ Unreserved(b, q, n).version = b.version + n
<1>1. b.version + n \in Nat /\ b.reserved - q \in Int /\ b.available + q \in Int
  BY DEF Balance
<1> QED
  BY <1>1 DEF Unreserved, Balance

LEMMA SoldColumns ==
    ASSUME NEW b \in Balance, NEW q \in Nat, NEW n \in Nat, b.onHand >= q
    PROVE  /\ Sold(b, q, n) \in Balance
           /\ Sold(b, q, n).onHand = b.onHand - q
           /\ Sold(b, q, n).reserved = b.reserved - q
           /\ Sold(b, q, n).available = (b.onHand - q) - (b.reserved - q)
           /\ Sold(b, q, n).version = b.version + n
  BY BoundsAssumption DEF Sold, Balance

LEMMA SaleTotals ==
    ASSUME NEW t \in MovementTotals, NEW q \in Nat
    PROVE  /\ SaleBooked(t, q) \in MovementTotals
           /\ SaleBooked(t, q).stock = t.stock
           /\ SaleBooked(t, q).sale = t.sale - q
  BY DEF SaleBooked, MovementTotals

\* Giving ACTIVE rows back keeps all of it.
LEMMA ReleasePreserves ==
    ASSUME IInv, NEW S \in SUBSET WithStatus("ACTIVE"),
           NEW st \in {"RELEASED", "EXPIRED"}, Release(S, st), snapshot' = snapshot
    PROVE  StockInv'
<1>1. S \in SUBSET ReservationIds
  BY DEF WithStatus
<1>2. SetStatus(S, st) /\ TypeOK
  BY DEF Release, IInv
<1>3. reservation' \in [ReservationIds -> Reservation \cup {NoReservation}]
  <2>1. CASE StockKeys = {}
    BY <2>1, <1>1, <1>2 DEF TypeOK, SetStatus, Reservation, Statuses, WithStatus, IsIn, Exists
  <2>2. CASE StockKeys # {}
    BY <2>2, <1>2, SettleCounts
  <2> QED
    BY <2>1, <2>2
<1>4. ASSUME NEW k \in StockKeys
      PROVE  /\ QuantityOn(WithStatus("ACTIVE"), k)' =
                  QuantityOn(WithStatus("ACTIVE"), k) - QuantityOn(S, k)
             /\ QuantityOn(WithStatus("CONSUMED"), k)' =
                  QuantityOn(WithStatus("CONSUMED"), k)
  BY <1>2, SettleCounts
<1>5. ASSUME NEW k \in StockKeys
      PROVE  /\ QuantityOn(S, k) \in Nat
             /\ Cardinality(On(S, k)) \in Nat
             /\ Cardinality(On(S, k)) = 0 => QuantityOn(S, k) = 0
  BY <1>1, QuantityNat, BumpsCountRows
<1>6. ASSUME NEW k \in StockKeys
      PROVE  /\ balance[k] \in Balance
             /\ balance[k].reserved >= QuantityOn(S, k)
             /\ balance'[k] =
                  Unreserved(balance[k], QuantityOn(S, k), Cardinality(On(S, k)))
  BY <1>2 DEF Release, Covered, TypeOK
<1>7. ASSUME NEW k \in StockKeys
      PROVE  /\ balance'[k] \in Balance
             /\ balance'[k].onHand = balance[k].onHand
             /\ balance'[k].reserved = balance[k].reserved - QuantityOn(S, k)
             /\ balance'[k].available = balance[k].available + QuantityOn(S, k)
             /\ balance'[k].version = balance[k].version + Cardinality(On(S, k))
  BY <1>5, <1>6, UnreservedColumns
<1>8. balance' \in [StockKeys -> Balance]
  BY <1>7 DEF Release
<1>9. ledger' = ledger /\ ledger \in [StockKeys -> MovementTotals]
  BY <1>2 DEF Release, TypeOK
<1>10. NoOversell'
  <2> SUFFICES ASSUME NEW k \in StockKeys
               PROVE  /\ balance'[k].available = balance'[k].onHand - balance'[k].reserved
                      /\ 0 <= balance'[k].reserved
                      /\ balance'[k].reserved <= balance'[k].onHand
    BY DEF NoOversell
  <2>1. /\ balance[k].available = balance[k].onHand - balance[k].reserved
        /\ balance[k].reserved <= balance[k].onHand
    BY DEF NoOversell, IInv
  <2>2. /\ balance[k].onHand \in Int /\ balance[k].reserved \in Int
        /\ QuantityOn(S, k) \in Nat /\ balance[k].reserved >= QuantityOn(S, k)
    BY <1>5, <1>6, BoundsAssumption DEF Balance
  <2> QED
    BY <2>1, <2>2, <1>7
<1>11. ReservedIsHeld'
  BY <1>4, <1>7 DEF ReservedIsHeld, IInv
<1>12. LedgerReconciles'
  BY <1>4, <1>7, <1>9 DEF LedgerReconciles, IInv
<1>13. VersionNamesContent'
  <2> SUFFICES ASSUME snapshot # NoSnapshot
               PROVE  LET b == balance'[snapshot.key]
                      IN  /\ snapshot.version <= b.version
                          /\ snapshot.version = b.version =>
                               snapshot.onHand = b.onHand /\ snapshot.reserved = b.reserved
    BY DEF VersionNamesContent
  <2> DEFINE k == snapshot.key
  <2>1. k \in StockKeys /\ snapshot.version \in Nat
    BY <1>2 DEF TypeOK, Snapshot
  <2>2. /\ snapshot.version <= balance[k].version
        /\ snapshot.version = balance[k].version =>
             snapshot.onHand = balance[k].onHand /\ snapshot.reserved = balance[k].reserved
    BY DEF VersionNamesContent, IInv
  <2>3. balance[k].version \in Nat /\ balance[k].reserved \in Int
    BY <2>1, <1>6 DEF Balance
  <2> QED
    BY <2>1, <2>2, <2>3, <1>5, <1>7
<1> QED
  BY <1>3, <1>8, <1>9, <1>10, <1>11, <1>12, <1>13 DEF StockInv

\* Selling ACTIVE rows keeps all of it.
LEMMA ConsumePreserves ==
    ASSUME IInv, NEW S \in SUBSET WithStatus("ACTIVE"),
           Consume(S), snapshot' = snapshot
    PROVE  StockInv'
<1>1. S \in SUBSET ReservationIds
  BY DEF WithStatus
<1>2. SetStatus(S, "CONSUMED") /\ TypeOK
  BY DEF Consume, IInv
<1>3. reservation' \in [ReservationIds -> Reservation \cup {NoReservation}]
  <2>1. CASE StockKeys = {}
    BY <2>1, <1>1, <1>2 DEF TypeOK, SetStatus, Reservation, Statuses, WithStatus, IsIn, Exists
  <2>2. CASE StockKeys # {}
    BY <2>2, <1>2, SettleCounts
  <2> QED
    BY <2>1, <2>2
<1>4. ASSUME NEW k \in StockKeys
      PROVE  /\ QuantityOn(WithStatus("ACTIVE"), k)' =
                  QuantityOn(WithStatus("ACTIVE"), k) - QuantityOn(S, k)
             /\ QuantityOn(WithStatus("CONSUMED"), k)' =
                  QuantityOn(WithStatus("CONSUMED"), k) + QuantityOn(S, k)
  BY <1>2, SettleCounts
<1>5. ASSUME NEW k \in StockKeys
      PROVE  /\ QuantityOn(S, k) \in Nat
             /\ QuantityOn(WithStatus("CONSUMED"), k) \in Nat
             /\ Cardinality(On(S, k)) \in Nat
             /\ Cardinality(On(S, k)) = 0 => QuantityOn(S, k) = 0
  <2>1. WithStatus("CONSUMED") \in SUBSET ReservationIds
    BY DEF WithStatus
  <2> QED
    BY <1>1, <2>1, QuantityNat, BumpsCountRows
<1>6. ASSUME NEW k \in StockKeys
      PROVE  /\ balance[k] \in Balance /\ ledger[k] \in MovementTotals
             /\ balance[k].reserved >= QuantityOn(S, k)
             /\ balance'[k] = Sold(balance[k], QuantityOn(S, k), Cardinality(On(S, k)))
             /\ ledger'[k] = SaleBooked(ledger[k], QuantityOn(S, k))
  BY <1>2 DEF Consume, Covered, TypeOK
<1>7. ASSUME NEW k \in StockKeys
      PROVE  /\ balance[k].reserved <= balance[k].onHand
             /\ balance[k].available = balance[k].onHand - balance[k].reserved
  BY DEF NoOversell, IInv
<1>8. ASSUME NEW k \in StockKeys
      PROVE  /\ balance'[k] \in Balance
             /\ balance'[k].onHand = balance[k].onHand - QuantityOn(S, k)
             /\ balance'[k].reserved = balance[k].reserved - QuantityOn(S, k)
             /\ balance'[k].available = balance'[k].onHand - balance'[k].reserved
             /\ balance'[k].version = balance[k].version + Cardinality(On(S, k))
  <2>1. balance[k].onHand >= QuantityOn(S, k)
    BY <1>5, <1>6, <1>7, BoundsAssumption DEF Balance
  <2> QED
    BY <2>1, <1>5, <1>6, SoldColumns
<1>9. ASSUME NEW k \in StockKeys
      PROVE  /\ ledger'[k] \in MovementTotals
             /\ ledger'[k].stock = ledger[k].stock
             /\ ledger'[k].sale = ledger[k].sale - QuantityOn(S, k)
  <2>1. QuantityOn(S, k) \in Nat /\ ledger[k] \in MovementTotals
    BY <1>5, <1>6
  <2>2. ledger'[k] = SaleBooked(ledger[k], QuantityOn(S, k))
    BY <1>6
  <2> QED
    BY <2>1, <2>2, SaleTotals
<1>10. balance' \in [StockKeys -> Balance] /\ ledger' \in [StockKeys -> MovementTotals]
  BY <1>8, <1>9 DEF Consume
<1>11. NoOversell'
  <2> SUFFICES ASSUME NEW k \in StockKeys
               PROVE  /\ balance'[k].available = balance'[k].onHand - balance'[k].reserved
                      /\ 0 <= balance'[k].reserved
                      /\ balance'[k].reserved <= balance'[k].onHand
    BY DEF NoOversell
  <2>1. /\ balance[k].onHand \in Int /\ balance[k].reserved \in Int
        /\ QuantityOn(S, k) \in Nat /\ balance[k].reserved >= QuantityOn(S, k)
    BY <1>5, <1>6, BoundsAssumption DEF Balance
  <2> QED
    BY <2>1, <1>7, <1>8
<1>12. ReservedIsHeld'
  BY <1>4, <1>8 DEF ReservedIsHeld, IInv
<1>13. LedgerReconciles'
  <2> SUFFICES ASSUME NEW k \in StockKeys
               PROVE  /\ ledger'[k].sale = -(QuantityOn(WithStatus("CONSUMED"), k)')
                      /\ balance'[k].onHand = ledger'[k].stock + ledger'[k].sale
    BY DEF LedgerReconciles
  <2>1. /\ ledger[k].sale = -QuantityOn(WithStatus("CONSUMED"), k)
        /\ balance[k].onHand = ledger[k].stock + ledger[k].sale
    BY DEF LedgerReconciles, IInv
  <2> QED
    BY <2>1, <1>4, <1>5, <1>6, <1>8, <1>9, BoundsAssumption DEF Balance, MovementTotals
<1>14. VersionNamesContent'
  <2> SUFFICES ASSUME snapshot # NoSnapshot
               PROVE  LET b == balance'[snapshot.key]
                      IN  /\ snapshot.version <= b.version
                          /\ snapshot.version = b.version =>
                               snapshot.onHand = b.onHand /\ snapshot.reserved = b.reserved
    BY DEF VersionNamesContent
  <2> DEFINE k == snapshot.key
  <2>1. k \in StockKeys /\ snapshot.version \in Nat
    BY <1>2 DEF TypeOK, Snapshot
  <2>2. /\ snapshot.version <= balance[k].version
        /\ snapshot.version = balance[k].version =>
             snapshot.onHand = balance[k].onHand /\ snapshot.reserved = balance[k].reserved
    BY DEF VersionNamesContent, IInv
  <2>3. /\ balance[k].version \in Nat /\ balance[k].reserved \in Int
        /\ balance[k].onHand \in Int
    BY <2>1, <1>6, BoundsAssumption DEF Balance
  <2> QED
    BY <2>1, <2>2, <2>3, <1>5, <1>8
<1> QED
  BY <1>3, <1>10, <1>11, <1>12, <1>13, <1>14 DEF StockInv

\* A new ACTIVE row adds its quantity to the held units of its key, and
\* nothing to the consumed ones.
LEMMA ReserveCounts ==
    ASSUME TypeOK, NEW r \in ReservationIds, ~Exists(r),
           NEW row \in Reservation, row.status = "ACTIVE",
           reservation' = [reservation EXCEPT ![r] = row],
           NEW k \in StockKeys
    PROVE  /\ row.key = k =>
                QuantityOn(WithStatus("ACTIVE"), k)' =
                  QuantityOn(WithStatus("ACTIVE"), k) + row.quantity
           /\ row.key # k =>
                QuantityOn(WithStatus("ACTIVE"), k)' = QuantityOn(WithStatus("ACTIVE"), k)
           /\ QuantityOn(WithStatus("CONSUMED"), k)' = QuantityOn(WithStatus("CONSUMED"), k)
<1> DEFINE A == WithStatus("ACTIVE")
           C == WithStatus("CONSUMED")
<1>1. A \in SUBSET ReservationIds /\ C \in SUBSET ReservationIds
  BY DEF WithStatus
<1>2. r \notin A /\ r \notin C
  BY DEF WithStatus, IsIn
<1>3. \A s \in ReservationIds \ {r} : reservation'[s] = reservation[s]
  BY DEF TypeOK
<1>4. reservation'[r] = row /\ row # NoReservation
  BY NullAssumption DEF TypeOK
<1>5. \A s \in ReservationIds :
        /\ s \in A <=> reservation[s] # NoReservation /\ reservation[s].status = "ACTIVE"
        /\ s \in C <=> reservation[s] # NoReservation /\ reservation[s].status = "CONSUMED"
  BY DEF WithStatus, IsIn, Exists
<1>6. /\ A' \in SUBSET ReservationIds /\ C' \in SUBSET ReservationIds
      /\ \A s \in ReservationIds :
        /\ s \in A' <=> reservation'[s] # NoReservation /\ reservation'[s].status = "ACTIVE"
        /\ s \in C' <=> reservation'[s] # NoReservation /\ reservation'[s].status = "CONSUMED"
  BY DEF WithStatus, IsIn, Exists
<1>7. /\ QuantityOn(A, k)' = Cardinality(UnitsIn(reservation', A', k))
      /\ QuantityOn(C, k)' = Cardinality(UnitsIn(reservation', C', k))
      /\ QuantityOn(A, k) = Cardinality(UnitsIn(reservation, A, k))
      /\ QuantityOn(C, k) = Cardinality(UnitsIn(reservation, C, k))
  BY QuantityIsUnits
<1> HIDE DEF A, C
<1>8. A' = A \cup {r}
  <2>1. \A s \in ReservationIds : s \in A' <=> s \in A \/ s = r
    BY <1>3, <1>4, <1>5, <1>6
  <2> QED
    BY <2>1, <1>1, <1>6
<1>9. C' = C
  <2>1. \A s \in ReservationIds : s \in C' <=> s \in C
    BY <1>2, <1>3, <1>4, <1>5, <1>6
  <2> QED
    BY <2>1, <1>1, <1>6
<1>10. UnitsIn(reservation', A, k) = UnitsIn(reservation, A, k)
  <2>1. \A s \in A : /\ reservation'[s].key = reservation[s].key
                     /\ reservation'[s].quantity = reservation[s].quantity
    BY <1>1, <1>2, <1>3
  <2> QED
    BY <2>1 DEF UnitsIn
<1>11. UnitsIn(reservation', C, k) = UnitsIn(reservation, C, k)
  <2>1. \A s \in C : /\ reservation'[s].key = reservation[s].key
                     /\ reservation'[s].quantity = reservation[s].quantity
    BY <1>1, <1>2, <1>3
  <2> QED
    BY <2>1 DEF UnitsIn
<1>12. Cardinality(UnitsIn(reservation', A \cup {r}, k)) =
         Cardinality(UnitsIn(reservation', A, k)) + Cardinality(UnitsIn(reservation', {r}, k))
  <2>1. {r} \in SUBSET ReservationIds /\ A \cap {r} = {}
    BY <1>2
  <2> QED
    BY <2>1, <1>1, UnitsJoin
<1>13. row.quantity \in 1..MaxQuantity
  BY DEF Reservation
<1>14. /\ row.key = k => Cardinality(UnitsIn(reservation', {r}, k)) = row.quantity
       /\ row.key # k => Cardinality(UnitsIn(reservation', {r}, k)) = 0
  <2>1. reservation'[r].quantity \in 1..MaxQuantity
    BY <1>4, <1>13
  <2>2. /\ reservation'[r].key = k =>
             Cardinality(UnitsIn(reservation', {r}, k)) = reservation'[r].quantity
        /\ reservation'[r].key # k => Cardinality(UnitsIn(reservation', {r}, k)) = 0
    BY <2>1, UnitsOfOne
  <2> QED
    BY <1>4, <2>2
<1>15. Cardinality(UnitsIn(reservation, A, k)) \in Nat
  BY <1>1, UnitsFinite
<1>16. QuantityOn(C, k)' = QuantityOn(C, k)
  BY <1>7, <1>9, <1>11
<1>17. /\ row.key = k => QuantityOn(A, k)' = QuantityOn(A, k) + row.quantity
       /\ row.key # k => QuantityOn(A, k)' = QuantityOn(A, k)
  BY <1>7, <1>8, <1>10, <1>12, <1>14, <1>15
<1> QED
  BY <1>16, <1>17 DEF A, C

\* Reserving, by staff, by a door or by checkout, is this step.
Reserving(r, k, q, row) ==
    /\ ~Exists(r)
    /\ balance[k].available >= q
    /\ balance' = [balance EXCEPT ![k].reserved = @ + q,
                                  ![k].available = @ - q,
                                  ![k].version = @ + 1]
    /\ reservation' = [reservation EXCEPT ![r] = row]
    /\ ledger' = ledger /\ snapshot' = snapshot

\* It keeps everything that StockInv says.
LEMMA ReservePreserves ==
    ASSUME IInv, NEW r \in ReservationIds, NEW k \in StockKeys, NEW q \in 1..MaxQuantity,
           NEW row \in Reservation,
           row.status = "ACTIVE", row.key = k, row.quantity = q,
           Reserving(r, k, q, row)
    PROVE  StockInv'
<1>0. TypeOK /\ q \in Nat /\ q >= 1
  BY BoundsAssumption DEF IInv
<1>1. reservation' \in [ReservationIds -> Reservation \cup {NoReservation}]
  BY <1>0 DEF Reserving, TypeOK
<1>2. ASSUME NEW j \in StockKeys
      PROVE  /\ balance[j] \in Balance
             /\ balance[j].onHand \in Nat /\ balance[j].reserved \in Int
             /\ balance[j].available \in Int /\ balance[j].version \in Nat
  BY <1>0, BoundsAssumption DEF TypeOK, Balance
<1>3. /\ balance' \in [StockKeys -> Balance]
      /\ balance'[k].onHand = balance[k].onHand
      /\ balance'[k].reserved = balance[k].reserved + q
      /\ balance'[k].available = balance[k].available - q
      /\ balance'[k].version = balance[k].version + 1
  BY <1>0, <1>2 DEF Reserving, TypeOK, Balance
<1>4. \A j \in StockKeys \ {k} : balance'[j] = balance[j]
  BY <1>0 DEF Reserving, TypeOK
<1>5. balance[k].available >= q
  BY DEF Reserving
<1>6. ledger' = ledger /\ ledger \in [StockKeys -> MovementTotals] /\ snapshot' = snapshot
  BY <1>0 DEF Reserving, TypeOK
<1>7. ASSUME NEW j \in StockKeys
      PROVE  /\ k = j =>
                  QuantityOn(WithStatus("ACTIVE"), j)' =
                    QuantityOn(WithStatus("ACTIVE"), j) + q
             /\ k # j =>
                  QuantityOn(WithStatus("ACTIVE"), j)' = QuantityOn(WithStatus("ACTIVE"), j)
             /\ QuantityOn(WithStatus("CONSUMED"), j)' = QuantityOn(WithStatus("CONSUMED"), j)
  BY <1>0, ReserveCounts DEF Reserving
<1>8. NoOversell'
  <2>1. \A j \in StockKeys :
          /\ balance[j].available = balance[j].onHand - balance[j].reserved
          /\ 0 <= balance[j].reserved /\ balance[j].reserved <= balance[j].onHand
    BY DEF IInv, NoOversell
  <2> QED
    BY <2>1, <1>0, <1>2, <1>3, <1>4, <1>5 DEF NoOversell
<1>9. ReservedIsHeld'
  BY <1>3, <1>4, <1>7 DEF IInv, ReservedIsHeld
<1>10. LedgerReconciles'
  BY <1>3, <1>4, <1>6, <1>7 DEF IInv, LedgerReconciles
<1>11. VersionNamesContent'
  BY <1>0, <1>2, <1>3, <1>4, <1>6 DEF IInv, TypeOK, VersionNamesContent, Snapshot
<1> QED
  BY <1>1, <1>3, <1>6, <1>8, <1>9, <1>10, <1>11 DEF StockInv

-----------------------------------------------------------------------------
(* Every step keeps IInv                                                   *)

\* A receipt or an adjustment.
LEMMA ChangePreserves ==
    ASSUME IInv, NEW k \in StockKeys, NEW delta \in Int, NEW v, NEW i,
           ChangeOnHand(k, delta, v, i)
    PROVE  StockInv'
<1>0. TypeOK
  BY DEF IInv
<1>1. reservation' = reservation /\ snapshot' = snapshot
  BY DEF ChangeOnHand
<1>2. ASSUME NEW j \in StockKeys
      PROVE  /\ balance[j] \in Balance /\ ledger[j] \in MovementTotals
             /\ balance[j].onHand \in Nat /\ balance[j].reserved \in Int
             /\ balance[j].available \in Int /\ balance[j].version \in Nat
             /\ ledger[j].stock \in Int /\ ledger[j].sale \in Int
  BY <1>0, BoundsAssumption DEF TypeOK, Balance, MovementTotals
<1>3. /\ balance[k].onHand + delta >= 0
      /\ balance[k].onHand + delta - balance[k].reserved >= 0
      /\ balance[k].onHand + delta <= MaxOnHand
  BY DEF ChangeOnHand, EnoughStock
<1>4. /\ balance' \in [StockKeys -> Balance]
      /\ balance'[k].onHand = balance[k].onHand + delta
      /\ balance'[k].reserved = balance[k].reserved
      /\ balance'[k].available = balance[k].onHand + delta - balance[k].reserved
      /\ balance'[k].version = balance[k].version + 1
  BY <1>0, <1>2, <1>3, BoundsAssumption DEF ChangeOnHand, TypeOK, Balance
<1>5. /\ ledger' \in [StockKeys -> MovementTotals]
      /\ ledger'[k].stock = ledger[k].stock + delta
      /\ ledger'[k].sale = ledger[k].sale
  BY <1>0, <1>2 DEF ChangeOnHand, TypeOK, MovementTotals
<1>6. \A j \in StockKeys \ {k} : balance'[j] = balance[j] /\ ledger'[j] = ledger[j]
  BY <1>0 DEF ChangeOnHand, TypeOK
<1>7. \A j : /\ QuantityOn(WithStatus("ACTIVE"), j)' = QuantityOn(WithStatus("ACTIVE"), j)
             /\ QuantityOn(WithStatus("CONSUMED"), j)' = QuantityOn(WithStatus("CONSUMED"), j)
  BY <1>1 DEF QuantityOn, UnitsOn, WithStatus, IsIn, Exists
<1>8. NoOversell'
  <2>1. \A j \in StockKeys :
          /\ balance[j].available = balance[j].onHand - balance[j].reserved
          /\ 0 <= balance[j].reserved /\ balance[j].reserved <= balance[j].onHand
    BY DEF IInv, NoOversell
  <2> QED
    BY <2>1, <1>2, <1>3, <1>4, <1>6 DEF NoOversell
<1>9. ReservedIsHeld'
  BY <1>4, <1>6, <1>7 DEF IInv, ReservedIsHeld
<1>10. LedgerReconciles'
  <2>1. \A j \in StockKeys :
          /\ ledger[j].sale = -QuantityOn(WithStatus("CONSUMED"), j)
          /\ balance[j].onHand = ledger[j].stock + ledger[j].sale
    BY DEF IInv, LedgerReconciles
  <2> SUFFICES ASSUME NEW j \in StockKeys
               PROVE  /\ ledger'[j].sale = -(QuantityOn(WithStatus("CONSUMED"), j)')
                      /\ balance'[j].onHand = ledger'[j].stock + ledger'[j].sale
    BY DEF LedgerReconciles
  <2>2. CASE j = k
    BY <2>1, <2>2, <1>2, <1>4, <1>5, <1>7
  <2>3. CASE j # k
    BY <2>1, <2>3, <1>6, <1>7
  <2> QED
    BY <2>2, <2>3
<1>11. VersionNamesContent'
  BY <1>0, <1>1, <1>2, <1>4, <1>6 DEF IInv, TypeOK, VersionNamesContent, Snapshot
<1> QED
  BY <1>0, <1>1, <1>4, <1>5, <1>8, <1>9, <1>10, <1>11 DEF StockInv, TypeOK

\* Steps that leave the stock alone: calls, snapshots, locations, the clock.
LEMMA QuietPreserves ==
    ASSUME IInv, balance' = balance, reservation' = reservation, ledger' = ledger,
           \/ snapshot' = snapshot
           \/ \E k \in StockKeys :
                snapshot' = [key |-> k, onHand |-> balance[k].onHand,
                             reserved |-> balance[k].reserved,
                             version |-> balance[k].version]
    PROVE  StockInv'
<1>1. /\ balance \in [StockKeys -> Balance]
      /\ reservation \in [ReservationIds -> Reservation \cup {NoReservation}]
      /\ ledger \in [StockKeys -> MovementTotals]
      /\ \A k \in StockKeys : balance[k].version \in Nat
  BY DEF IInv, TypeOK, Balance
<1>2. NoOversell'
  BY DEF IInv, NoOversell
<1>3. \A j : /\ QuantityOn(WithStatus("ACTIVE"), j)' = QuantityOn(WithStatus("ACTIVE"), j)
             /\ QuantityOn(WithStatus("CONSUMED"), j)' = QuantityOn(WithStatus("CONSUMED"), j)
  BY DEF QuantityOn, UnitsOn, WithStatus, IsIn, Exists
<1>4. ReservedIsHeld' /\ LedgerReconciles'
  BY <1>3 DEF IInv, ReservedIsHeld, LedgerReconciles
<1>5. VersionNamesContent'
  <2>1. CASE snapshot' = snapshot
    BY <2>1 DEF IInv, VersionNamesContent
  <2>2. ASSUME NEW k \in StockKeys,
               snapshot' = [key |-> k, onHand |-> balance[k].onHand,
                            reserved |-> balance[k].reserved,
                            version |-> balance[k].version]
        PROVE  VersionNamesContent'
    BY <2>2, <1>1 DEF VersionNamesContent
  <2> QED
    BY <2>1, <2>2
<1> QED
  BY <1>1, <1>2, <1>4, <1>5 DEF StockInv

\* The types of the other variables.
RestOK ==
    /\ applied \in [IdemKeys -> BOOLEAN]
    /\ locationActive \in [Locations -> BOOLEAN]
    /\ call \in [Callers -> TransitionCall \cup SweepCall \cup {NoCall}]
    /\ snapshot \in Snapshot \cup {NoSnapshot}
    /\ now \in 0..MaxTime

LEMMA Parts == StockInv /\ RestOK <=> IInv
  BY DEF StockInv, RestOK, IInv, TypeOK

LEMMA PartsNext == StockInv' /\ RestOK' => IInv'
  BY DEF StockInv, RestOK, IInv, TypeOK

\* The versions a client can send are integers.
LEMMA KnownVersionsInt ==
    ASSUME TypeOK, NEW k \in StockKeys
    PROVE  KnownVersions(k) \in SUBSET Int
  BY DEF KnownVersions, TypeOK, Snapshot, NoVersion

\* The initial state satisfies the invariant.
THEOREM InitIInv == Init => IInv
<1> SUFFICES ASSUME Init PROVE IInv
  OBVIOUS
<1>1. TypeOK
  BY BoundsAssumption DEF Init, TypeOK, Balance, MovementTotals
<1>2. WithStatus("ACTIVE") = {} /\ WithStatus("CONSUMED") = {}
  BY DEF Init, WithStatus, IsIn, Exists
<1>3. \A k : UnitsOn({}, k) = {}
  BY DEF UnitsOn
<1>4. \A k : /\ QuantityOn(WithStatus("ACTIVE"), k) = 0
             /\ QuantityOn(WithStatus("CONSUMED"), k) = 0
  BY <1>2, <1>3, FS_EmptySet DEF QuantityOn
<1>5. NoOversell /\ VersionNamesContent
  BY DEF Init, NoOversell, VersionNamesContent
<1>6. ReservedIsHeld /\ LedgerReconciles
  BY <1>4 DEF Init, ReservedIsHeld, LedgerReconciles
<1> QED
  BY <1>1, <1>5, <1>6 DEF IInv

\* Every command, call and tick of the clock keeps it.
THEOREM NextIInv == IInv /\ [Next]_vars => IInv'
<1> SUFFICES ASSUME IInv, [Next]_vars PROVE StockInv' /\ RestOK'
  BY PartsNext
<1>0. TypeOK /\ StockInv /\ RestOK
  BY Parts DEF IInv
<1>1. ASSUME NEW k \in StockKeys, NEW delta \in Deltas, NEW i \in IdemKeys \cup {NoKey},
             NEW v \in KnownVersions(k), ChangeOnHand(k, delta, v, i)
      PROVE  StockInv' /\ RestOK'
  <2>1. delta \in Int
    BY BoundsAssumption DEF Deltas
  <2>2. StockInv'
    BY <1>1, <2>1, ChangePreserves
  <2>3. RestOK'
    BY <1>0, <1>1 DEF ChangeOnHand, RestOK
  <2> QED
    BY <2>2, <2>3
<1>2. ASSUME NEW r \in ReservationIds, NEW k \in StockKeys, NEW q \in 1..MaxQuantity,
             NEW deadline \in 0..MaxTime, NEW link \in {Unlinked, Production},
             NEW i \in IdemKeys \cup {NoKey}, NEW v \in KnownVersions(k),
             ReserveIn(r, k, q, link, deadline, v, i)
      PROVE  StockInv' /\ RestOK'
  <2> DEFINE row == [key |-> k, quantity |-> q, link |-> link,
                     expiresAt |-> deadline, status |-> "ACTIVE", idem |-> i]
  <2>1. row \in Reservation
    BY BoundsAssumption DEF Reservation, Links, Statuses
  <2>2. Reserving(r, k, q, row)
    BY <1>2 DEF ReserveIn, Reserving
  <2>3. row.status = "ACTIVE" /\ row.key = k /\ row.quantity = q
    OBVIOUS
  <2> HIDE DEF row
  <2>4. StockInv'
    BY <2>1, <2>2, <2>3, ReservePreserves
  <2>5. RestOK'
    BY <1>0, <1>2 DEF ReserveIn, RestOK
  <2> QED
    BY <2>4, <2>5
<1>3. ASSUME NEW r \in ReservationIds, NEW k \in StockKeys, NEW q \in 1..MaxQuantity,
             NEW deadline \in 0..MaxTime, NEW order \in Orders,
             CheckoutReserve(r, k, q, order, deadline)
      PROVE  StockInv' /\ RestOK'
  <2> DEFINE row == [key |-> k, quantity |-> q, link |-> order,
                     expiresAt |-> deadline, status |-> "ACTIVE", idem |-> NoKey]
  <2>1. row \in Reservation
    BY BoundsAssumption DEF Reservation, Links, Statuses
  <2>2. Reserving(r, k, q, row)
    BY <1>3 DEF CheckoutReserve, Reserving
  <2>3. row.status = "ACTIVE" /\ row.key = k /\ row.quantity = q
    OBVIOUS
  <2> HIDE DEF row
  <2>4. StockInv'
    BY <2>1, <2>2, <2>3, ReservePreserves
  <2>5. RestOK'
    BY <1>0, <1>3 DEF CheckoutReserve, RestOK
  <2> QED
    BY <2>4, <2>5
<1>4. ASSUME NEW order \in Orders, ReleaseReservationsForOrder(order)
      PROVE  StockInv' /\ RestOK'
  <2>1. ActiveOf(order) \in SUBSET WithStatus("ACTIVE")
    BY DEF ActiveOf
  <2>2. Release(ActiveOf(order), "RELEASED") /\ snapshot' = snapshot
    BY <1>4 DEF ReleaseReservationsForOrder
  <2>3. StockInv'
    BY <2>1, <2>2, ReleasePreserves
  <2>4. RestOK'
    BY <1>0, <1>4 DEF ReleaseReservationsForOrder, RestOK
  <2> QED
    BY <2>3, <2>4
<1>5. ASSUME NEW order \in Orders, ConsumeReservationsForOrder(order)
      PROVE  StockInv' /\ RestOK'
  <2>1. ActiveOf(order) \in SUBSET WithStatus("ACTIVE")
    BY DEF ActiveOf
  <2>2. Consume(ActiveOf(order)) /\ snapshot' = snapshot
    BY <1>5 DEF ConsumeReservationsForOrder
  <2>3. StockInv'
    BY <2>1, <2>2, ConsumePreserves
  <2>4. RestOK'
    BY <1>0, <1>5 DEF ConsumeReservationsForOrder, RestOK
  <2> QED
    BY <2>3, <2>4
<1>6. ASSUME NEW r \in ReservationIds, NEW op \in {"release", "consume"},
             TransitionProductionReservationIn(r, op)
      PROVE  StockInv' /\ RestOK'
  <2>1. {r} \in SUBSET WithStatus("ACTIVE")
    BY <1>6 DEF TransitionProductionReservationIn, WithStatus
  <2>2. snapshot' = snapshot /\ (Release({r}, "RELEASED") \/ Consume({r}))
    BY <1>6 DEF TransitionProductionReservationIn
  <2>3. StockInv'
    BY <2>1, <2>2, ReleasePreserves, ConsumePreserves
  <2>4. RestOK'
    BY <1>0, <1>6 DEF TransitionProductionReservationIn, RestOK
  <2> QED
    BY <2>3, <2>4
<1>7. ASSUME NEW c \in Callers, NEW op \in {"release", "consume"},
             NEW r \in ReservationIds,
             NEW v \in UNION {KnownVersions(k) : k \in StockKeys},
             StartTransition(c, op, r, v)
      PROVE  StockInv' /\ RestOK'
  <2>1. StockInv'
    BY <1>7, QuietPreserves DEF StartTransition
  <2>2. v \in Int
    BY <1>0, KnownVersionsInt
  <2>3. RestOK'
    BY <1>0, <1>7, <2>2 DEF StartTransition, RestOK, TransitionCall
  <2> QED
    BY <2>1, <2>3
<1>8. ASSUME NEW c \in Callers, ReleaseReservation(c)
      PROVE  StockInv' /\ RestOK'
  <2>1. {call[c].id} \in SUBSET WithStatus("ACTIVE")
    BY <1>0, <1>8 DEF ReleaseReservation, Permitted, IsTransition, WithStatus, RestOK,
       TransitionCall, SweepCall
  <2>2. Release({call[c].id}, "RELEASED") /\ snapshot' = snapshot
    BY <1>8 DEF ReleaseReservation
  <2>3. StockInv'
    BY <2>1, <2>2, ReleasePreserves
  <2>4. RestOK'
    BY <1>0, <1>8 DEF ReleaseReservation, RestOK
  <2> QED
    BY <2>3, <2>4
<1>9. ASSUME NEW c \in Callers, ConsumeReservation(c)
      PROVE  StockInv' /\ RestOK'
  <2>1. {call[c].id} \in SUBSET WithStatus("ACTIVE")
    BY <1>0, <1>9 DEF ConsumeReservation, Permitted, IsTransition, WithStatus, RestOK,
       TransitionCall, SweepCall
  <2>2. Consume({call[c].id}) /\ snapshot' = snapshot
    BY <1>9 DEF ConsumeReservation
  <2>3. StockInv'
    BY <2>1, <2>2, ConsumePreserves
  <2>4. RestOK'
    BY <1>0, <1>9 DEF ConsumeReservation, RestOK
  <2> QED
    BY <2>3, <2>4
<1>10. ASSUME NEW c \in Callers, RefuseTransition(c) \/ LoseCall(c)
       PROVE  StockInv' /\ RestOK'
  <2>1. StockInv'
    BY <1>10, QuietPreserves DEF RefuseTransition, LoseCall
  <2>2. RestOK'
    BY <1>0, <1>10 DEF RefuseTransition, LoseCall, RestOK
  <2> QED
    BY <2>1, <2>2
<1>11. ASSUME NEW c \in Callers, NEW S \in SUBSET ReservationIds, StartExpiry(c, S)
       PROVE  StockInv' /\ RestOK'
  <2>1. StockInv'
    BY <1>11, QuietPreserves DEF StartExpiry
  <2>2. [op |-> "expire", ids |-> S, at |-> now] \in SweepCall
    BY <1>0, BoundsAssumption DEF SweepCall, RestOK
  <2>3. RestOK'
    BY <1>0, <1>11, <2>2 DEF StartExpiry, RestOK
  <2> QED
    BY <2>1, <2>3
<1>12. ASSUME NEW c \in Callers, ExpireReservations(c)
       PROVE  StockInv' /\ RestOK'
  <2>1. StillDue(call[c]) \in SUBSET WithStatus("ACTIVE")
    BY <1>0, <1>12 DEF ExpireReservations, StillDue, WithStatus, RestOK,
       TransitionCall, SweepCall
  <2>2. Release(StillDue(call[c]), "EXPIRED") /\ snapshot' = snapshot
    BY <1>12 DEF ExpireReservations
  <2>3. StockInv'
    BY <2>1, <2>2, ReleasePreserves
  <2>4. RestOK'
    BY <1>0, <1>12 DEF ExpireReservations, RestOK
  <2> QED
    BY <2>3, <2>4
<1>13. ASSUME NEW l \in Locations, UpdateLocation(l)
       PROVE  StockInv' /\ RestOK'
  BY <1>0, <1>13, QuietPreserves DEF UpdateLocation, RestOK
<1>14. ASSUME NEW k \in StockKeys, GetSnapshots(k)
       PROVE  StockInv' /\ RestOK'
  <2>1. StockInv'
    BY <1>14, QuietPreserves DEF GetSnapshots
  <2>2. balance[k] \in Balance
    BY <1>0 DEF StockInv
  <2>3. snapshot' \in Snapshot
    BY <1>14, <2>2, BoundsAssumption DEF GetSnapshots, Snapshot, Balance
  <2>4. RestOK'
    BY <1>0, <1>14, <2>3 DEF GetSnapshots, RestOK
  <2> QED
    BY <2>1, <2>4
<1>15. ASSUME Tick
       PROVE  StockInv' /\ RestOK'
  <2>1. StockInv'
    BY <1>15, QuietPreserves DEF Tick
  <2>2. RestOK'
    BY <1>0, <1>15, BoundsAssumption DEF Tick, RestOK
  <2> QED
    BY <2>1, <2>2
<1>16. ASSUME UNCHANGED vars
       PROVE  StockInv' /\ RestOK'
  BY <1>0, <1>16, QuietPreserves DEF vars, RestOK
<1> QED
  BY <1>1, <1>2, <1>3, <1>4, <1>5, <1>6, <1>7, <1>8, <1>9, <1>10, <1>11,
     <1>12, <1>13, <1>14, <1>15, <1>16 DEF Next

\* For every instance: the columns of every balance agree and nothing is
\* oversold, reserved counts the ACTIVE units, the movements reconcile with
\* the stock on hand, and a version names one content of its row.
THEOREM InventorySafe ==
    Spec => [](TypeOK /\ NoOversell /\ ReservedIsHeld /\ LedgerReconciles
               /\ VersionNamesContent)
<1>1. IInv => TypeOK /\ NoOversell /\ ReservedIsHeld /\ LedgerReconciles
              /\ VersionNamesContent
  BY DEF IInv
<1> QED
  BY <1>1, InitIInv, NextIInv, PTL DEF Spec

\* For every instance: reservations, sales and stock changes that race for a
\* balance never promise more than lies on the shelf.
COROLLARY BalancesNeverOversell == Spec => []NoOversell
  BY InventorySafe, PTL

\* For every instance: the movements of a balance add up to its stock on hand,
\* whoever wrote them and however the writers interleaved.
COROLLARY MovementsReconcile == Spec => []LedgerReconciles
  BY InventorySafe, PTL

\* For every instance: a version that a caller has read names one content of
\* the row, so that comparing versions detects every change in between.
COROLLARY VersionsNameContents == Spec => []VersionNamesContent
  BY InventorySafe, PTL

-----------------------------------------------------------------------------
(* What a step may do to a reservation                                     *)

\* The one update that settles rows touches ACTIVE rows and their status only.
LEMMA SettlingActive ==
    ASSUME NEW S \in SUBSET WithStatus("ACTIVE"),
           NEW st \in {"RELEASED", "EXPIRED", "CONSUMED"}, SetStatus(S, st)
    PROVE  SettleStep
  BY DEF SettleStep, SetStatus, WithStatus, IsIn, Statuses

\* Every step of the system settles ACTIVE rows only, and each by its status.
LEMMA NextSettles == TypeOK /\ [Next]_vars => SettleStep
<1> SUFFICES ASSUME TypeOK, [Next]_vars PROVE SettleStep
  OBVIOUS
<1>0. call \in [Callers -> TransitionCall \cup SweepCall \cup {NoCall}]
  BY DEF TypeOK
<1>1. ASSUME reservation' = reservation PROVE SettleStep
  BY <1>1 DEF SettleStep
<1>2. ASSUME NEW r \in ReservationIds, NEW row, ~Exists(r),
             reservation' = [reservation EXCEPT ![r] = row]
      PROVE  SettleStep
  BY <1>2 DEF SettleStep, TypeOK
<1>3. ASSUME NEW r \in ReservationIds, NEW k \in StockKeys, NEW q \in 1..MaxQuantity,
             NEW deadline \in 0..MaxTime
      PROVE  /\ \A link, i, v : ReserveIn(r, k, q, link, deadline, v, i) => SettleStep
             /\ \A order : CheckoutReserve(r, k, q, order, deadline) => SettleStep
  BY <1>2 DEF ReserveIn, CheckoutReserve
<1>4. ASSUME NEW order \in Orders,
             ReleaseReservationsForOrder(order) \/ ConsumeReservationsForOrder(order)
      PROVE  SettleStep
  <2>1. ActiveOf(order) \in SUBSET WithStatus("ACTIVE")
    BY DEF ActiveOf
  <2> QED
    BY <1>4, <2>1, SettlingActive
       DEF ReleaseReservationsForOrder, ConsumeReservationsForOrder, Release, Consume
<1>5. ASSUME NEW r \in ReservationIds, NEW op \in {"release", "consume"},
             TransitionProductionReservationIn(r, op)
      PROVE  SettleStep
  <2>1. {r} \in SUBSET WithStatus("ACTIVE")
    BY <1>5 DEF TransitionProductionReservationIn, WithStatus
  <2> QED
    BY <1>5, <2>1, SettlingActive DEF TransitionProductionReservationIn, Release, Consume
<1>6. ASSUME NEW c \in Callers, ReleaseReservation(c) \/ ConsumeReservation(c)
      PROVE  SettleStep
  <2>1. {call[c].id} \in SUBSET WithStatus("ACTIVE")
    BY <1>0, <1>6 DEF ReleaseReservation, ConsumeReservation, Permitted, IsTransition,
       WithStatus, TransitionCall, SweepCall
  <2> QED
    BY <1>6, <2>1, SettlingActive DEF ReleaseReservation, ConsumeReservation, Release, Consume
<1>7. ASSUME NEW c \in Callers, ExpireReservations(c)
      PROVE  SettleStep
  <2>1. StillDue(call[c]) \in SUBSET WithStatus("ACTIVE")
    BY <1>0, <1>7 DEF ExpireReservations, StillDue, WithStatus, TransitionCall, SweepCall
  <2> QED
    BY <1>7, <2>1, SettlingActive DEF ExpireReservations, Release
<1>8. ASSUME \/ \E k, delta, v, i : ChangeOnHand(k, delta, v, i)
             \/ \E c, op, r, v : StartTransition(c, op, r, v)
             \/ \E c : RefuseTransition(c) \/ LoseCall(c)
             \/ \E c, S : StartExpiry(c, S)
             \/ \E l : UpdateLocation(l)
             \/ \E k : GetSnapshots(k)
             \/ Tick
             \/ UNCHANGED vars
      PROVE  SettleStep
  <2>1. CASE \E k, delta, v, i : ChangeOnHand(k, delta, v, i)
    <3>1. PICK k, delta, v, i : ChangeOnHand(k, delta, v, i)
      BY <2>1
    <3>2. reservation' = reservation
      BY <3>1 DEF ChangeOnHand
    <3> QED
      BY <3>2, <1>1
  <2>2. CASE (\E k : GetSnapshots(k)) \/ (\E l : UpdateLocation(l))
    BY <2>2, <1>1 DEF GetSnapshots, UpdateLocation
  <2>3. CASE \/ \E c, op, r, v : StartTransition(c, op, r, v)
             \/ \E c : RefuseTransition(c) \/ LoseCall(c)
             \/ \E c, S : StartExpiry(c, S)
    BY <2>3, <1>1 DEF StartTransition, RefuseTransition, LoseCall, StartExpiry
  <2>4. CASE Tick \/ UNCHANGED vars
    BY <2>4, <1>1 DEF Tick, vars
  <2> QED
    BY <1>8, <2>1, <2>2, <2>3, <2>4
<1> QED
  BY <1>3, <1>4, <1>5, <1>6, <1>7, <1>8 DEF Next

\* For every instance: no interleaving of staff calls, order commands, door
\* commands and sweeps settles a reservation twice.
THEOREM ReservationSettledOnce == Spec => SettledOnce
<1>1. IInv /\ [Next]_vars => [SettleStep]_vars
  BY NextSettles DEF IInv
<1> QED
  BY <1>1, InitIInv, NextIInv, PTL DEF Spec, SettledOnce

-----------------------------------------------------------------------------
(* What a deadline does                                                    *)

\* An overdue reservation that belongs to nobody.
Lapsed(r) == IsIn(r, "ACTIVE") /\ reservation[r].link = Unlinked /\ Overdue(r, now)

LapseStep ==
    \A r \in ReservationIds :
        Lapsed(r) /\ reservation'[r] # reservation[r] => reservation'[r].status = "EXPIRED"

\* Of an update, only the rows that are Lapsed matter.
LEMMA SettlingOthers ==
    ASSUME NEW S, NEW st, SetStatus(S, st), \A r \in ReservationIds : r \in S => ~Lapsed(r)
    PROVE  LapseStep
  BY DEF LapseStep, SetStatus

\* Every step of the system expires lapsed rows or leaves them.
LEMMA NextLapses == TypeOK /\ [Next]_vars => LapseStep
<1> SUFFICES ASSUME TypeOK, [Next]_vars PROVE LapseStep
  OBVIOUS
<1>0. call \in [Callers -> TransitionCall \cup SweepCall \cup {NoCall}]
  BY DEF TypeOK
<1>1. ASSUME reservation' = reservation PROVE LapseStep
  BY <1>1 DEF LapseStep
<1>2. ASSUME NEW r \in ReservationIds, NEW row, ~Exists(r),
             reservation' = [reservation EXCEPT ![r] = row]
      PROVE  LapseStep
  BY <1>2 DEF LapseStep, Lapsed, IsIn, TypeOK
<1>3. ASSUME NEW r \in ReservationIds, NEW k \in StockKeys, NEW q \in 1..MaxQuantity,
             NEW deadline \in 0..MaxTime
      PROVE  /\ \A link, i, v : ReserveIn(r, k, q, link, deadline, v, i) => LapseStep
             /\ \A order : CheckoutReserve(r, k, q, order, deadline) => LapseStep
  BY <1>2 DEF ReserveIn, CheckoutReserve
<1>4. ASSUME NEW order \in Orders,
             ReleaseReservationsForOrder(order) \/ ConsumeReservationsForOrder(order)
      PROVE  LapseStep
  <2>1. \A r \in ReservationIds : r \in ActiveOf(order) => ~Lapsed(r)
    BY LinksAssumption DEF ActiveOf, Lapsed
  <2> QED
    BY <1>4, <2>1, SettlingOthers
       DEF ReleaseReservationsForOrder, ConsumeReservationsForOrder, Release, Consume
<1>5. ASSUME NEW r \in ReservationIds, NEW op \in {"release", "consume"},
             TransitionProductionReservationIn(r, op)
      PROVE  LapseStep
  <2>1. \A s \in ReservationIds : s \in {r} => ~Lapsed(s)
    BY <1>5 DEF TransitionProductionReservationIn, Lapsed, Unlinked, Production
  <2> QED
    BY <1>5, <2>1, SettlingOthers DEF TransitionProductionReservationIn, Release, Consume
<1>6. ASSUME NEW c \in Callers, ReleaseReservation(c) \/ ConsumeReservation(c)
      PROVE  LapseStep
  <2>1. \A s \in ReservationIds : s \in {call[c].id} => ~Lapsed(s)
    BY <1>6 DEF ReleaseReservation, ConsumeReservation, Permitted, Lapsed
  <2> QED
    BY <1>6, <2>1, SettlingOthers DEF ReleaseReservation, ConsumeReservation, Release, Consume
<1>7. ASSUME NEW c \in Callers, ExpireReservations(c)
      PROVE  LapseStep
  <2>1. ASSUME NEW r \in ReservationIds, Lapsed(r), reservation'[r] # reservation[r]
        PROVE  reservation'[r].status = "EXPIRED"
    <3>1. reservation[r] \in Reservation
      BY <2>1 DEF Lapsed, IsIn, Exists, TypeOK
    <3>2. reservation'[r] = [reservation[r] EXCEPT !.status = "EXPIRED"]
      BY <1>7, <2>1 DEF ExpireReservations, Release, SetStatus
    <3> QED
      BY <3>1, <3>2 DEF Reservation
  <2> QED
    BY <2>1 DEF LapseStep
<1>8. ASSUME \/ \E k, delta, v, i : ChangeOnHand(k, delta, v, i)
             \/ \E c, op, r, v : StartTransition(c, op, r, v)
             \/ \E c : RefuseTransition(c) \/ LoseCall(c)
             \/ \E c, S : StartExpiry(c, S)
             \/ \E l : UpdateLocation(l)
             \/ \E k : GetSnapshots(k)
             \/ Tick
             \/ UNCHANGED vars
      PROVE  LapseStep
  <2>1. CASE \E k, delta, v, i : ChangeOnHand(k, delta, v, i)
    <3>1. PICK k, delta, v, i : ChangeOnHand(k, delta, v, i)
      BY <2>1
    <3>2. reservation' = reservation
      BY <3>1 DEF ChangeOnHand
    <3> QED
      BY <3>2, <1>1
  <2>2. CASE (\E k : GetSnapshots(k)) \/ (\E l : UpdateLocation(l))
    BY <2>2, <1>1 DEF GetSnapshots, UpdateLocation
  <2>3. CASE \/ \E c, op, r, v : StartTransition(c, op, r, v)
             \/ \E c : RefuseTransition(c) \/ LoseCall(c)
             \/ \E c, S : StartExpiry(c, S)
    BY <2>3, <1>1 DEF StartTransition, RefuseTransition, LoseCall, StartExpiry
  <2>4. CASE Tick \/ UNCHANGED vars
    BY <2>4, <1>1 DEF Tick, vars
  <2> QED
    BY <1>8, <2>1, <2>2, <2>3, <2>4
<1> QED
  BY <1>3, <1>4, <1>5, <1>6, <1>7, <1>8 DEF Next

\* For every instance: a deadline that passes between a staff call's read and
\* its transaction wins.
THEOREM DeadlinesWin == Spec => OverdueOnlyExpires
<1> DEFINE Step ==
      \A r \in ReservationIds :
         /\ IsIn(r, "ACTIVE") /\ reservation[r].link = Unlinked /\ Overdue(r, now)
         /\ reservation'[r] # reservation[r]
         => reservation'[r].status = "EXPIRED"
<1>1. IInv /\ [Next]_vars => [Step]_vars
  BY NextLapses DEF IInv, LapseStep, Lapsed
<1> QED
  BY <1>1, InitIInv, NextIInv, PTL DEF Spec, OverdueOnlyExpires

=============================================================================
