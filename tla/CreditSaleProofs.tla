--------------------------- MODULE CreditSaleProofs ---------------------------
(***************************************************************************)
(* What CreditSale's run checks on a small instance, proved for any number *)
(* of orders, lines, receipts and returns and for all prices and limits.   *)
(***************************************************************************)
EXTENDS CreditSale, FiniteSetTheorems, TLAPS

-----------------------------------------------------------------------------
(* Sums                                                                    *)

Units(f) == UNION {{x} \X (1..f[x]) : x \in DOMAIN f}

LEMMA UnitsMembers ==
    ASSUME NEW S, NEW f \in [S -> Nat]
    PROVE  \A u : u \in Units(f) <=> \E x \in S : \E i \in 1..f[x] : u = <<x, i>>
<1>1. \A u : u \in Units(f) <=> \E x \in S : u \in {x} \X (1..f[x])
  BY DEF Units
<1> QED
  BY <1>1

LEMMA ColumnSize ==
    ASSUME NEW x, NEW n \in Nat
    PROVE  IsFiniteSet({x} \X (1..n)) /\ Cardinality({x} \X (1..n)) = n
<1>1. IsFiniteSet(1..n) /\ Cardinality(1..n) = n
  BY FS_Interval
<1>2. IsFiniteSet({x}) /\ Cardinality({x}) = 1
  BY FS_Singleton
<1> QED
  BY <1>1, <1>2, FS_Product

LEMMA UnitsFinite ==
    ASSUME NEW S, IsFiniteSet(S), NEW f \in [S -> Nat]
    PROVE  IsFiniteSet(Units(f)) /\ Total(f) = Cardinality(Units(f)) /\ Total(f) \in Nat
<1> DEFINE g == [x \in S |-> {x} \X (1..f[x])]
           T == {{x} \X (1..f[x]) : x \in DOMAIN f}
<1>1. g \in Surjection(S, T)
  BY DEF Surjection
<1>2. IsFiniteSet(T)
  BY <1>1, FS_Surjection
<1>3. \A x \in S : IsFiniteSet({x} \X (1..f[x]))
  BY ColumnSize
<1>4. IsFiniteSet(UNION T)
  BY <1>2, <1>3, FS_UNION
<1>5. IsFiniteSet(Units(f))
  BY <1>4 DEF Units
<1> QED
  BY <1>5, FS_CardinalityType DEF Total, Units

LEMMA TotalNat ==
    ASSUME NEW S, IsFiniteSet(S), NEW f \in [S -> Nat]
    PROVE  Total(f) \in Nat
  BY UnitsFinite

\* A sum is one of its terms and the sum of the others.
LEMMA TotalSplits ==
    ASSUME NEW S, IsFiniteSet(S), NEW f \in [S -> Nat], NEW x \in S
    PROVE  LET R == {u \in Units(f) : u[1] # x}
           IN  IsFiniteSet(R) /\ Total(f) = f[x] + Cardinality(R)
<1> DEFINE R == {u \in Units(f) : u[1] # x}
           C == {x} \X (1..f[x])
<1>1. IsFiniteSet(Units(f)) /\ Total(f) = Cardinality(Units(f))
  BY UnitsFinite
<1>2. IsFiniteSet(R)
  BY <1>1, FS_Subset
<1>3. IsFiniteSet(C) /\ Cardinality(C) = f[x]
  BY ColumnSize
<1>4. Units(f) = C \cup R /\ C \cap R = {}
  BY UnitsMembers
<1>5. Cardinality(C \cup R) = Cardinality(C) + Cardinality(R) - Cardinality(C \cap R)
  BY <1>2, <1>3, FS_Union
<1>6. Cardinality(R) \in Nat /\ Cardinality(C \cap R) = 0
  BY <1>2, <1>4, FS_CardinalityType, FS_EmptySet
<1> HIDE DEF R, C
<1>7. Total(f) = f[x] + Cardinality(R)
  BY <1>1, <1>3, <1>4, <1>5, <1>6
<1> QED
  BY <1>2, <1>7 DEF R

\* One term of a sum changes.
LEMMA TotalChanges ==
    ASSUME NEW S, IsFiniteSet(S), NEW f \in [S -> Nat], NEW g \in [S -> Nat],
           NEW x \in S, \A y \in S : y # x => f[y] = g[y]
    PROVE  Total(g) = Total(f) - f[x] + g[x] /\ f[x] <= Total(f)
<1> DEFINE F == {u \in Units(f) : u[1] # x}
           G == {u \in Units(g) : u[1] # x}
<1>1. F = G
  <2>1. \A u : u \in F <=> \E y \in S : \E i \in 1..f[y] : u = <<y, i>> /\ y # x
    BY UnitsMembers
  <2>2. \A u : u \in G <=> \E y \in S : \E i \in 1..g[y] : u = <<y, i>> /\ y # x
    BY UnitsMembers
  <2> HIDE DEF F, G
  <2> QED
    BY <2>1, <2>2
<1>2. IsFiniteSet(F) /\ Total(f) = f[x] + Cardinality(F)
  BY TotalSplits
<1>3. Total(g) = g[x] + Cardinality(G)
  BY TotalSplits
<1>4. Cardinality(F) \in Nat
  BY <1>2, FS_CardinalityType
<1> QED
  BY <1>1, <1>2, <1>3, <1>4

\* A smaller function has a smaller sum.
LEMMA TotalMonotone ==
    ASSUME NEW S, IsFiniteSet(S), NEW f \in [S -> Nat], NEW g \in [S -> Nat],
           \A x \in S : f[x] <= g[x]
    PROVE  Total(f) <= Total(g)
<1>1. Units(f) \subseteq Units(g)
  BY UnitsMembers
<1> QED
  BY <1>1, UnitsFinite, FS_Subset

LEMMA TotalZero ==
    ASSUME NEW S, IsFiniteSet(S), NEW f \in [S -> Nat], \A x \in S : f[x] = 0
    PROVE  Total(f) = 0
<1>1. Units(f) = {}
  BY UnitsMembers
<1> QED
  BY <1>1, UnitsFinite, FS_EmptySet

LEMMA TotalBounded ==
    ASSUME NEW S, IsFiniteSet(S), NEW n \in Nat, NEW f \in [S -> Nat], \A x \in S : f[x] <= n
    PROVE  Total(f) <= n * Cardinality(S)
<1>1. IsFiniteSet(1..n) /\ Cardinality(1..n) = n
  BY FS_Interval
<1>2. IsFiniteSet(S \X (1..n)) /\ Cardinality(S \X (1..n)) = Cardinality(S) * n
  BY <1>1, FS_Product
<1>3. Units(f) \in SUBSET (S \X (1..n))
  BY UnitsMembers
<1>4. Cardinality(S) \in Nat
  BY FS_CardinalityType
<1>5. Total(f) <= Cardinality(S) * n
  BY <1>2, <1>3, UnitsFinite, FS_Subset
<1> QED
  BY <1>4, <1>5

\* The sum of a sum: the units of g are put behind those of f.
LEMMA TotalAdds ==
    ASSUME NEW S, IsFiniteSet(S), NEW f \in [S -> Nat], NEW g \in [S -> Nat],
           NEW h \in [S -> Nat], \A x \in S : h[x] = f[x] + g[x]
    PROVE  Total(h) = Total(f) + Total(g)
<1> DEFINE B == {u \in S \X Nat : u[2] \in f[u[1]] + 1 .. h[u[1]]}
           shift == [u \in Units(g) |-> <<u[1], u[2] + f[u[1]]>>]
<1>1. \A u : u \in B <=> \E x \in S : \E i \in f[x] + 1 .. h[x] : u = <<x, i>>
  OBVIOUS
<1>2. shift \in Bijection(Units(g), B)
  <2>1. \A u \in Units(g) : shift[u] \in B
    BY <1>1, UnitsMembers
  <2>2. \A u, v \in Units(g) : shift[u] = shift[v] => u = v
    BY UnitsMembers
  <2>3. \A b \in B : \E u \in Units(g) : shift[u] = b
    <3> SUFFICES ASSUME NEW b \in B PROVE \E u \in Units(g) : shift[u] = b
      OBVIOUS
    <3>0. PICK x \in S : \E i \in f[x] + 1 .. h[x] : b = <<x, i>>
      BY <1>1
    <3>1. PICK i \in f[x] + 1 .. h[x] : b = <<x, i>>
      BY <3>0
    <3>2. i - f[x] \in 1..g[x] /\ (i - f[x]) + f[x] = i
      BY <3>1
    <3>3. <<x, i - f[x]>> \in Units(g)
      BY <3>2, UnitsMembers
    <3>4. shift[<<x, i - f[x]>>] = b
      BY <3>1, <3>2, <3>3
    <3> QED
      BY <3>3, <3>4
  <2> HIDE DEF B
  <2>4. shift \in [Units(g) -> B]
    BY <2>1
  <2> HIDE DEF shift
  <2> QED
    BY <2>2, <2>3, <2>4 DEF Bijection, Injection, IsInjective, Surjection
<1>3. IsFiniteSet(Units(g)) /\ Total(g) = Cardinality(Units(g))
  BY UnitsFinite
<1>4. IsFiniteSet(B) /\ Cardinality(B) = Total(g)
  BY <1>2, <1>3, FS_Bijection DEF ExistsBijection
<1>5. IsFiniteSet(Units(f)) /\ Total(f) = Cardinality(Units(f)) /\ Total(f) \in Nat
  BY UnitsFinite
<1>6. Units(h) = Units(f) \cup B
  BY <1>1, UnitsMembers
<1>7. Units(f) \cap B = {}
  BY <1>1, UnitsMembers
<1>8. Cardinality(Units(h)) = Total(f) + Total(g) - 0
  BY <1>4, <1>5, <1>6, <1>7, FS_Union, FS_EmptySet
<1>9. Total(g) \in Nat /\ Total(h) = Cardinality(Units(h))
  BY UnitsFinite
<1> QED
  BY <1>5, <1>8, <1>9

-----------------------------------------------------------------------------
(* The inductive invariant                                                 *)

\* The units of line l that order o has taken and not given back.
Kept(o, l) == IF order[o].consumed THEN Quantity[l] - returned[o][l] ELSE 0

Out(l) == Total([o \in Orders |-> Kept(o, l)])

\* What is not out is on the shelf.
StockReconciles == \A l \in Lines : onHand[l] + Out(l) = Quantity[l] * Cardinality(Orders)

\* Money is allocated to documents only.
Allocated == \A r \in ReceiptIds, d \in Documents : receipts[r][d] > 0 => d \in Issued

\* No document is overpaid.
Covered == \A d \in Issued : Outstanding(d) >= 0

\* An order that waits has taken nothing; any other order has taken its goods
\* and has a fulfilment, with a shipment from its dispatch on.
Followed(o) ==
    /\ order[o].status = "PENDING_PAYMENT" => ~order[o].consumed
    /\ order[o].status # "PENDING_PAYMENT" => order[o].consumed /\ fulfilment[o] # NoFulfilment
    /\ fulfilment[o] # NoFulfilment =>
         (fulfilment[o].shipment <=> fulfilment[o].status \in {"SHIPPED", "DELIVERED", "RETURNED"})
    /\ Sold(o) <=> order[o].status \in {"CREDIT_APPROVED", "CANCELLED", "RETURNED"}

\* Goods come back only of a sale, and once it was delivered or is cancelled.
Undone(o) ==
    /\ ~Sold(o) => \A l \in Lines : returned[o][l] = 0
    /\ Sold(o) =>
         /\ document[o].returns = 0 => \A l \in Lines : returned[o][l] = 0
         /\ document[o].returns > 0 =>
              \/ order[o].status = "CANCELLED"
              \/ fulfilment[o].status \in {"DELIVERED", "RETURNED"}
         /\ order[o].status # "CREDIT_APPROVED" <=> returned[o] = Quantity
         /\ order[o].status # "CREDIT_APPROVED" => fulfilment[o].status = order[o].status

\* The debt of a sale changes by corrections or by returns, not by both; what
\* came back was noted or is due, and what is due was received.
Balanced(o) ==
    Sold(o) =>
        /\ document[o].amount = GrandTotal
        /\ ~document[o].adjusted => document[o].adjustment = 0
        /\ document[o].returns > 0 => ~document[o].adjusted
        /\ document[o].noted + document[o].refundDue = Worth(returned[o])
        /\ document[o].refundDue > 0 => Outstanding(o) = 0 /\ document[o].returns > 0
        /\ document[o].paidOut <= document[o].refundDue

OrderInv(o) == Followed(o) /\ Undone(o) /\ Balanced(o)

IInv ==
    /\ TypeOK /\ StockReconciles /\ Allocated /\ Covered
    /\ \A o \in Orders : OrderInv(o)

-----------------------------------------------------------------------------
(* What is worth what                                                      *)

LEMMA Products ==
    ASSUME NEW p \in Nat, NEW a \in Nat, NEW b \in Nat
    PROVE  /\ p * a \in Nat /\ p * 0 = 0
           /\ p * (a + b) = p * a + p * b
           /\ a <= b => p * a <= p * b
  OBVIOUS

LEMMA Constants ==
    /\ IsFiniteSet(Orders) /\ IsFiniteSet(Lines) /\ IsFiniteSet(ReceiptIds)
    /\ IsFiniteSet(Documents) /\ Orders \subseteq Documents /\ Opening \in Documents
    /\ Price \in [Lines -> Nat] /\ Quantity \in [Lines -> Nat \ {0}] /\ Lines # {}
    /\ Cardinality(Orders) \in Nat
  BY CreditAssumption, FulfilmentAssumption, FS_AddElement, FS_CardinalityType DEF Documents

LEMMA WorthNat ==
    ASSUME NEW units \in [Lines -> Nat]
    PROVE  /\ Worth(units) \in Nat
           /\ (\A l \in Lines : units[l] = 0) => Worth(units) = 0
<1> DEFINE f == [l \in Lines |-> Price[l] * units[l]]
<1>1. f \in [Lines -> Nat]
  BY Constants, Products
<1>2. Worth(units) = Total(f)
  BY DEF Worth
<1>3. Total(f) \in Nat
  BY <1>1, Constants, TotalNat
<1>4. ASSUME \A l \in Lines : units[l] = 0 PROVE Total(f) = 0
  <2>1. \A l \in Lines : f[l] = 0
    BY <1>4, Constants, Products
  <2> QED
    BY <1>1, <2>1, Constants, TotalZero
<1> QED
  BY <1>2, <1>3, <1>4

LEMMA WorthMonotone ==
    ASSUME NEW units \in [Lines -> Nat], \A l \in Lines : units[l] <= Quantity[l]
    PROVE  Worth(units) <= GrandTotal
<1> DEFINE f == [l \in Lines |-> Price[l] * units[l]]
           g == [l \in Lines |-> Price[l] * Quantity[l]]
<1>1. f \in [Lines -> Nat] /\ g \in [Lines -> Nat]
  BY Constants, Products
<1>2. \A l \in Lines : f[l] <= g[l]
  BY Constants, Products
<1> HIDE DEF f, g
<1>3. Total(f) <= Total(g)
  BY <1>1, <1>2, Constants, TotalMonotone
<1> QED
  BY <1>3 DEF f, g, Worth, GrandTotal

LEMMA WorthAdds ==
    ASSUME NEW a \in [Lines -> Nat], NEW b \in [Lines -> Nat]
    PROVE  Worth([l \in Lines |-> a[l] + b[l]]) = Worth(a) + Worth(b)
<1> DEFINE c == [l \in Lines |-> a[l] + b[l]]
           f == [l \in Lines |-> Price[l] * a[l]]
           g == [l \in Lines |-> Price[l] * b[l]]
           h == [l \in Lines |-> Price[l] * c[l]]
<1>1. f \in [Lines -> Nat] /\ g \in [Lines -> Nat] /\ h \in [Lines -> Nat]
  BY Constants, Products
<1>2. \A l \in Lines : h[l] = f[l] + g[l]
  BY Constants, Products
<1> HIDE DEF f, g, h
<1>3. Total(h) = Total(f) + Total(g)
  BY <1>1, <1>2, Constants, TotalAdds
<1> QED
  BY <1>3 DEF f, g, h, Worth

-----------------------------------------------------------------------------
(* What was received                                                       *)

LEMMA ReceivedNat ==
    ASSUME TypeOK, NEW d \in Documents
    PROVE  /\ Received(d) \in Nat
           /\ \A r \in ReceiptIds : receipts[r][d] \in 0..Received(d)
<1> DEFINE f == [r \in ReceiptIds |-> receipts[r][d]]
<1>1. f \in [ReceiptIds -> Nat]
  BY DEF TypeOK, Receipt
<1>2. Received(d) = Total(f)
  BY DEF Received
<1> HIDE DEF f
<1>3. Total(f) \in Nat
  BY <1>1, Constants, TotalNat
<1>4. \A r \in ReceiptIds : f[r] <= Total(f)
  BY <1>1, Constants, TotalChanges
<1> QED
  BY <1>1, <1>2, <1>3, <1>4 DEF f

LEMMA ReceivedStays ==
    ASSUME UNCHANGED receipts, NEW d
    PROVE  Received(d)' = Received(d)
  BY DEF Received

LEMMA ReceivedChanges ==
    ASSUME TypeOK, NEW r \in ReceiptIds, NEW a \in Receipt,
           receipts' = [receipts EXCEPT ![r] = a], NEW d \in Documents
    PROVE  Received(d)' = Received(d) - receipts[r][d] + a[d]
<1> DEFINE f == [q \in ReceiptIds |-> receipts[q][d]]
           g == [q \in ReceiptIds |-> receipts'[q][d]]
<1>1. /\ f \in [ReceiptIds -> Nat] /\ g \in [ReceiptIds -> Nat]
      /\ \A q \in ReceiptIds : q # r => f[q] = g[q]
      /\ f[r] = receipts[r][d] /\ g[r] = a[d]
  BY DEF TypeOK, Receipt
<1>2. Received(d) = Total(f)
  BY DEF Received
<1>3. Received(d)' = Total(g)
  BY DEF Received
<1> HIDE DEF f, g
<1> QED
  BY <1>1, <1>2, <1>3, Constants, TotalChanges

-----------------------------------------------------------------------------
(* Where the goods are                                                     *)

LEMMA KeptBounded ==
    ASSUME TypeOK, NEW o \in Orders, NEW l \in Lines
    PROVE  Kept(o, l) \in 0..Quantity[l]
  BY Constants DEF TypeOK, Kept

LEMMA OutNat ==
    ASSUME TypeOK, NEW l \in Lines
    PROVE  Out(l) \in Nat /\ Out(l) <= Quantity[l] * Cardinality(Orders)
<1> DEFINE f == [o \in Orders |-> Kept(o, l)]
<1>1. f \in [Orders -> Nat] /\ \A o \in Orders : f[o] <= Quantity[l]
  BY Constants, KeptBounded
<1>2. Out(l) = Total(f)
  BY DEF Out
<1> HIDE DEF f
<1> QED
  BY <1>1, <1>2, Constants, TotalNat, TotalBounded

LEMMA OutStays ==
    ASSUME \A x \in Orders : order'[x].consumed = order[x].consumed, UNCHANGED returned,
           NEW l \in Lines
    PROVE  Out(l)' = Out(l)
<1>1. \A x \in Orders : Kept(x, l)' = Kept(x, l)
  BY DEF Kept
<1>2. Out(l)' = Total([x \in Orders |-> Kept(x, l)'])
  BY DEF Out
<1>3. Out(l) = Total([x \in Orders |-> Kept(x, l)])
  BY DEF Out
<1>4. [x \in Orders |-> Kept(x, l)'] = [x \in Orders |-> Kept(x, l)]
  BY <1>1
<1> QED
  BY <1>2, <1>3, <1>4

\* A step that takes goods for order o, or brings goods of order o back.
LEMMA OutChanges ==
    ASSUME TypeOK, NEW o \in Orders, NEW l \in Lines,
           Kept(o, l)' \in 0..Quantity[l],
           \A x \in Orders : x # o =>
               order'[x].consumed = order[x].consumed /\ returned'[x] = returned[x]
    PROVE  /\ Out(l)' = Out(l) - Kept(o, l) + Kept(o, l)'
           /\ Out(l)' <= Quantity[l] * Cardinality(Orders)
<1> DEFINE f == [x \in Orders |-> Kept(x, l)]
           g == [x \in Orders |-> Kept(x, l)']
<1>1. \A x \in Orders : x # o => Kept(x, l)' = Kept(x, l)
  BY DEF Kept
<1>2. \A x \in Orders : Kept(x, l) \in 0..Quantity[l] /\ Kept(x, l)' \in 0..Quantity[l]
  BY <1>1, KeptBounded
<1>3. /\ f \in [Orders -> Nat] /\ g \in [Orders -> Nat]
      /\ \A x \in Orders : (x # o => f[x] = g[x]) /\ g[x] <= Quantity[l]
      /\ f[o] = Kept(o, l) /\ g[o] = Kept(o, l)'
  BY <1>1, <1>2, Constants
<1>4. Out(l) = Total(f)
  BY DEF Out
<1>5. Out(l)' = Total(g)
  BY DEF Out
<1> HIDE DEF f, g
<1>6. Total(g) = Total(f) - f[o] + g[o]
  BY <1>3, Constants, TotalChanges
<1>7. Total(g) <= Quantity[l] * Cardinality(Orders)
  BY <1>3, Constants, TotalBounded
<1> QED
  BY <1>3, <1>4, <1>5, <1>6, <1>7

\* consumeReservationsForOrder finds the goods on the shelf.
LEMMA GoodsTaken ==
    ASSUME TypeOK, StockReconciles, NEW o \in Orders,
           ~order[o].consumed, order'[o].consumed, \A l \in Lines : returned[o][l] = 0,
           UNCHANGED returned, onHand' = Consume,
           \A x \in Orders : x # o => order'[x].consumed = order[x].consumed
    PROVE  StockReconciles' /\ onHand' \in [Lines -> Nat]
<1>1. ASSUME NEW l \in Lines
      PROVE  /\ onHand'[l] + Out(l)' = Quantity[l] * Cardinality(Orders)
             /\ onHand'[l] \in Nat
  <2>1. Kept(o, l) = 0 /\ Kept(o, l)' = Quantity[l]
    BY Constants DEF Kept
  <2>2. Out(l)' = Out(l) + Quantity[l] /\ Out(l)' <= Quantity[l] * Cardinality(Orders)
    BY <2>1, Constants, OutChanges, OutNat
  <2>3. onHand'[l] = onHand[l] - Quantity[l] /\ onHand[l] \in Nat
    BY DEF Consume, TypeOK, FulfilmentTypeOK
  <2>4. onHand[l] + Out(l) = Quantity[l] * Cardinality(Orders)
    BY DEF StockReconciles
  <2>5. Quantity[l] * Cardinality(Orders) \in Int /\ Quantity[l] \in Nat
    BY Constants, Products
  <2> QED
    BY <2>2, <2>3, <2>4, <2>5, OutNat
<1>2. StockReconciles'
  BY <1>1 DEF StockReconciles
<1> QED
  BY <1>1, <1>2 DEF Consume

LEMMA GoodsBack ==
    ASSUME TypeOK, StockReconciles, NEW o \in Orders, NEW units \in [Lines -> Nat],
           order[o].consumed, WithinSale(o, units),
           onHand' = [l \in Lines |-> onHand[l] + units[l]],
           returned' = [returned EXCEPT ![o] = [l \in Lines |-> returned[o][l] + units[l]]],
           \A x \in Orders : order'[x].consumed = order[x].consumed
    PROVE  StockReconciles' /\ onHand' \in [Lines -> Nat]
<1>1. ASSUME NEW l \in Lines
      PROVE  /\ onHand'[l] + Out(l)' = Quantity[l] * Cardinality(Orders)
             /\ onHand'[l] \in Nat
  <2>1. returned'[o][l] = returned[o][l] + units[l] /\ returned[o][l] \in Nat
        /\ returned'[o][l] <= Quantity[l] /\ Quantity[l] \in Nat
    BY Constants DEF TypeOK, WithinSale
  <2>2. Kept(o, l)' = Kept(o, l) - units[l] /\ Kept(o, l)' \in 0..Quantity[l]
        /\ Kept(o, l) \in Nat
    BY <2>1 DEF Kept
  <2>3. \A x \in Orders : x # o => returned'[x] = returned[x]
    BY DEF TypeOK
  <2>4. Out(l)' = Out(l) - Kept(o, l) + Kept(o, l)'
    BY <2>2, <2>3, OutChanges
  <2>5. onHand'[l] = onHand[l] + units[l] /\ onHand[l] \in Nat
    BY DEF TypeOK, FulfilmentTypeOK
  <2>6. onHand[l] + Out(l) = Quantity[l] * Cardinality(Orders) /\ Out(l) \in Nat
    BY OutNat DEF StockReconciles
  <2>7. onHand'[l] + Out(l)' = onHand[l] + Out(l)
    BY <2>2, <2>4, <2>5, <2>6
  <2> QED
    BY <2>5, <2>6, <2>7
<1>2. StockReconciles'
  BY <1>1 DEF StockReconciles
<1> QED
  BY <1>1, <1>2

-----------------------------------------------------------------------------
(* What a step leaves alone                                                *)

LEMMA OrderStays ==
    ASSUME NEW x \in Orders, OrderInv(x),
           order'[x].status = order[x].status, order'[x].consumed = order[x].consumed,
           fulfilment'[x] = fulfilment[x], document'[x] = document[x],
           returned'[x] = returned[x], Received(x)' = Received(x)
    PROVE  OrderInv(x)'
<1>1. Sold(x)' <=> Sold(x)
  BY DEF Sold
<1>2. Followed(x)'
  BY <1>1 DEF OrderInv, Followed
<1>3. Undone(x)'
  BY <1>1 DEF OrderInv, Undone
<1>4. Outstanding(x)' = Outstanding(x)
  BY DEF Outstanding, Principal
<1>5. Balanced(x)'
  BY <1>1, <1>4 DEF OrderInv, Balanced
<1> QED
  BY <1>2, <1>3, <1>5 DEF OrderInv

LEMMA DocumentRow ==
    ASSUME TypeOK, NEW d \in Documents, document[d] # NoDocument
    PROVE  /\ document[d] \in Document
           /\ Principal(d) \in Int /\ Outstanding(d) \in Int
           /\ Outstanding(d) = Principal(d) - Received(d) /\ Received(d) \in Nat
<1>1. document[d] \in Document
  BY DEF TypeOK
<1>2. document[d].amount \in Int /\ document[d].adjustment \in Int /\ document[d].noted \in Int
  BY <1>1, CreditAssumption DEF Document
<1> QED
  BY <1>1, <1>2, ReceivedNat DEF Principal, Outstanding

\* The ledger is not touched: nothing of the documents changes.
LEMMA LedgerStays ==
    ASSUME Allocated, Covered, UNCHANGED <<document, receipts>>
    PROVE  /\ Allocated' /\ Covered'
           /\ \A d \in Documents : Received(d)' = Received(d)
<1>1. \A d \in Documents : Received(d)' = Received(d)
  BY ReceivedStays
<1>2. \A d \in Documents : Outstanding(d)' = Outstanding(d)
  BY <1>1 DEF Outstanding, Principal
<1>3. Issued' = Issued /\ Issued \subseteq Documents
  BY DEF Issued
<1> QED
  BY <1>1, <1>2, <1>3 DEF Allocated, Covered

\* The goods are not touched.
LEMMA StockStays ==
    ASSUME StockReconciles, UNCHANGED <<onHand, returned>>,
           \A x \in Orders : order'[x].consumed = order[x].consumed
    PROVE  StockReconciles'
  BY OutStays DEF StockReconciles

-----------------------------------------------------------------------------
(* Packing and shipping                                                    *)

\* The fulfilment of an order with goods moves on, before its delivery.
LEMMA FulfilmentMoves ==
    ASSUME IInv, NEW o \in Orders, NEW row \in FulfilmentRow,
           fulfilment[o] # NoFulfilment, fulfilment' = [fulfilment EXCEPT ![o] = row],
           UNCHANGED <<order, onHand, creditVars>>,
           fulfilment[o].status \in {"PENDING", "PROCESSING", "READY_TO_SHIP", "SHIPPED"},
           row.status \in {"PROCESSING", "READY_TO_SHIP", "SHIPPED", "DELIVERED"},
           row.shipment <=> row.status \in {"SHIPPED", "DELIVERED"}
    PROVE  IInv'
<1> USE DEF creditVars
<1>1. TypeOK'
  BY DEF IInv, TypeOK, FulfilmentTypeOK
<1>2. StockReconciles'
  BY StockStays DEF IInv
<1>3. Allocated' /\ Covered' /\ \A d \in Documents : Received(d)' = Received(d)
  BY LedgerStays DEF IInv
<1>4. ASSUME NEW x \in Orders PROVE OrderInv(x)'
  <2>1. Received(x)' = Received(x) /\ OrderInv(x)
    BY <1>3, Constants DEF IInv
  <2>2. CASE x # o
    <3>1. fulfilment'[x] = fulfilment[x]
      BY <2>2 DEF IInv, TypeOK, FulfilmentTypeOK
    <3> QED
      BY <3>1, <2>1, OrderStays
  <2>3. CASE x = o
    <3>1. fulfilment'[o] = row /\ row # NoFulfilment
      BY CreditAssumption DEF IInv, TypeOK, FulfilmentTypeOK
    <3>2. Sold(o)' <=> Sold(o)
      BY DEF Sold
    <3>3. Followed(o) /\ Undone(o) /\ Balanced(o)
      BY <2>1, <2>3 DEF OrderInv
    <3>4. Followed(o)'
      BY <3>1, <3>2, <3>3 DEF Followed
    <3>5. Undone(o)'
      BY <3>1, <3>2, <3>3 DEF Undone, Followed
    <3>6. Outstanding(o)' = Outstanding(o)
      BY <2>1, <2>3 DEF Outstanding, Principal
    <3>7. Balanced(o)'
      BY <3>2, <3>3, <3>6 DEF Balanced
    <3> QED
      BY <2>3, <3>4, <3>5, <3>7 DEF OrderInv
  <2> QED
    BY <2>2, <2>3
<1> QED
  BY <1>1, <1>2, <1>3, <1>4 DEF IInv

LEMMA NewFulfilmentRow == NewFulfilment \in FulfilmentRow /\ NewFulfilment # NoFulfilment
<1>1. NewFulfilment \in FulfilmentRow
  BY DEF NewFulfilment, FulfilmentRow
<1> QED
  BY <1>1, CreditAssumption

LEMMA SettleKeeps ==
    ASSUME IInv, NEW o \in Orders, Settle(o), UNCHANGED creditVars
    PROVE  IInv'
<1> USE DEF creditVars
<1>1. /\ order[o].status = "PENDING_PAYMENT" /\ ~order[o].consumed
      /\ ~Sold(o) /\ \A l \in Lines : returned[o][l] = 0
  BY DEF IInv, OrderInv, Followed, Undone, Settle
<1>2. /\ order'[o].status = "PAID" /\ order'[o].consumed
      /\ fulfilment'[o] = NewFulfilment /\ onHand' = Consume
      /\ \A x \in Orders : x # o => order'[x] = order[x] /\ fulfilment'[x] = fulfilment[x]
  BY DEF IInv, TypeOK, FulfilmentTypeOK, Settle
<1>3. StockReconciles' /\ onHand' \in [Lines -> Nat]
  BY <1>1, <1>2, GoodsTaken DEF IInv
<1>4. NewFulfilment \in FulfilmentRow /\ NewFulfilment # NoFulfilment
  BY NewFulfilmentRow
<1>5. TypeOK'
  BY <1>3, <1>4 DEF IInv, TypeOK, FulfilmentTypeOK, Settle, OrderRow
<1>6. Allocated' /\ Covered' /\ \A d \in Documents : Received(d)' = Received(d)
  BY LedgerStays DEF IInv
<1>7. ASSUME NEW x \in Orders PROVE OrderInv(x)'
  <2>1. Received(x)' = Received(x) /\ OrderInv(x)
    BY <1>6, Constants DEF IInv
  <2>2. CASE x # o
    BY <2>1, <2>2, <1>2, OrderStays
  <2>3. CASE x = o
    <3>1. ~Sold(o)'
      BY <1>1 DEF Sold
    <3>2. Followed(o)'
      BY <3>1, <1>2, <1>4 DEF Followed, NewFulfilment
    <3> QED
      BY <2>3, <3>1, <3>2, <1>1 DEF OrderInv, Undone, Balanced
  <2> QED
    BY <2>2, <2>3
<1> QED
  BY <1>3, <1>5, <1>6, <1>7 DEF IInv

LEMMA RefundKeeps ==
    ASSUME IInv, NEW o \in Orders, NEW to \in {"PARTIALLY_REFUNDED", "REFUNDED"},
           Refund(o, to), UNCHANGED creditVars
    PROVE  IInv'
<1> USE DEF creditVars
<1>1. \A x \in Orders : order'[x].status = order[x].status /\ order'[x].consumed = order[x].consumed
  BY DEF IInv, TypeOK, FulfilmentTypeOK, OrderRow, Refund
<1>2. TypeOK'
  BY DEF IInv, TypeOK, FulfilmentTypeOK, OrderRow, Refund
<1>3. StockReconciles'
  BY <1>1, StockStays DEF IInv, Refund
<1>4. Allocated' /\ Covered' /\ \A d \in Documents : Received(d)' = Received(d)
  BY LedgerStays DEF IInv
<1>5. ASSUME NEW x \in Orders PROVE OrderInv(x)'
  BY <1>1, <1>4, OrderStays, Constants DEF IInv, Refund
<1> QED
  BY <1>2, <1>3, <1>4, <1>5 DEF IInv

LEMMA FulfilmentStepKeeps ==
    ASSUME IInv, NEW o \in Orders, FulfilmentStep(o, SoldOnCredit(o)), UNCHANGED creditVars
    PROVE  IInv'
<1>1. fulfilment[o] # NoFulfilment => fulfilment[o] \in FulfilmentRow /\
        (fulfilment[o].shipment <=> fulfilment[o].status \in {"SHIPPED", "DELIVERED", "RETURNED"})
  BY DEF IInv, TypeOK, FulfilmentTypeOK, OrderInv, Followed
<1>2. CASE Settle(o)
  BY <1>2, SettleKeeps
<1>3. CASE \E to \in {"PARTIALLY_REFUNDED", "REFUNDED"} : Refund(o, to)
  BY <1>3, RefundKeeps
<1>4. CASE Start(o, SoldOnCredit(o))
  <2> DEFINE row == [fulfilment[o] EXCEPT !.status = "PROCESSING"]
  <2>1. fulfilment' = [fulfilment EXCEPT ![o] = row] /\ Is(o, "PENDING")
        /\ UNCHANGED <<order, onHand>>
    BY <1>4 DEF Start
  <2>2. row \in FulfilmentRow /\ row.status = "PROCESSING" /\ row.shipment = fulfilment[o].shipment
    BY <1>1, <2>1 DEF Is, FulfilmentRow
  <2> HIDE DEF row
  <2> QED
    BY <1>1, <2>1, <2>2, FulfilmentMoves DEF Is
<1>5. CASE Ready(o, SoldOnCredit(o))
  <2> DEFINE row == [fulfilment[o] EXCEPT !.status = "READY_TO_SHIP"]
  <2>1. fulfilment' = [fulfilment EXCEPT ![o] = row] /\ Is(o, "PROCESSING")
        /\ UNCHANGED <<order, onHand>>
    BY <1>5 DEF Ready
  <2>2. row \in FulfilmentRow /\ row.status = "READY_TO_SHIP"
        /\ row.shipment = fulfilment[o].shipment
    BY <1>1, <2>1 DEF Is, FulfilmentRow
  <2> HIDE DEF row
  <2> QED
    BY <1>1, <2>1, <2>2, FulfilmentMoves DEF Is
<1>6. CASE Dispatch(o, SoldOnCredit(o))
  <2> DEFINE row == [fulfilment[o] EXCEPT !.status = "SHIPPED", !.shipment = TRUE]
  <2>1. fulfilment' = [fulfilment EXCEPT ![o] = row] /\ Is(o, "READY_TO_SHIP")
        /\ UNCHANGED <<order, onHand>>
    BY <1>1, <1>6 DEF Dispatch, Is, FulfilmentRow, IInv, TypeOK, FulfilmentTypeOK
  <2>2. row \in FulfilmentRow /\ row.status = "SHIPPED" /\ row.shipment = TRUE
    BY <1>1, <2>1 DEF Is, FulfilmentRow
  <2> HIDE DEF row
  <2> QED
    BY <1>1, <2>1, <2>2, FulfilmentMoves DEF Is
<1>7. ASSUME NEW l \in Lines, Pick(o, l, SoldOnCredit(o)) PROVE IInv'
  <2> DEFINE row == [fulfilment[o] EXCEPT !.picked = @ \cup {l}]
  <2>1. fulfilment' = [fulfilment EXCEPT ![o] = row] /\ Is(o, "PROCESSING")
        /\ UNCHANGED <<order, onHand>>
    BY <1>7 DEF Pick
  <2>2. row \in FulfilmentRow /\ row.status = fulfilment[o].status
        /\ row.shipment = fulfilment[o].shipment
    BY <1>1, <2>1 DEF Is, FulfilmentRow
  <2> HIDE DEF row
  <2> QED
    BY <1>1, <2>1, <2>2, FulfilmentMoves DEF Is
<1>8. CASE ConfirmDelivery(o)
  <2> DEFINE row == [fulfilment[o] EXCEPT !.status = "DELIVERED"]
  <2>1. fulfilment' = [fulfilment EXCEPT ![o] = row] /\ Is(o, "SHIPPED")
        /\ UNCHANGED <<order, onHand>>
    BY <1>8 DEF ConfirmDelivery
  <2>2. row \in FulfilmentRow /\ row.status = "DELIVERED" /\ row.shipment = fulfilment[o].shipment
    BY <1>1, <2>1 DEF Is, FulfilmentRow
  <2> HIDE DEF row
  <2> QED
    BY <1>1, <2>1, <2>2, FulfilmentMoves DEF Is
<1> QED
  BY <1>2, <1>3, <1>4, <1>5, <1>6, <1>7, <1>8 DEF FulfilmentStep

-----------------------------------------------------------------------------
(* The account                                                             *)

LEMMA PolicyKeeps ==
    ASSUME IInv, NEW status \in {"ACTIVE", "SUSPENDED"}, NEW limit \in Limits,
           Policy(status, limit)
    PROVE  IInv'
<1> USE DEF Policy, fulfilmentVars
<1>1. TypeOK'
  BY DEF IInv, TypeOK, FulfilmentTypeOK, Account
<1>2. StockReconciles'
  BY StockStays DEF IInv
<1>3. Allocated' /\ Covered' /\ \A d \in Documents : Received(d)' = Received(d)
  BY LedgerStays DEF IInv
<1>4. ASSUME NEW x \in Orders PROVE OrderInv(x)'
  BY <1>3, OrderStays, Constants DEF IInv
<1> QED
  BY <1>1, <1>2, <1>3, <1>4 DEF IInv

\* Only document d is written; it was issued before, or is now.
LEMMA DocumentWritten ==
    ASSUME IInv, NEW d \in Documents, NEW row \in Document,
           document' = [document EXCEPT ![d] = row],
           UNCHANGED receipts,
           row.amount + row.adjustment - row.noted - Received(d) >= 0
    PROVE  /\ document' \in [Documents -> Document \cup {NoDocument}]
           /\ document'[d] = row /\ row # NoDocument
           /\ \A x \in Documents : x # d => document'[x] = document[x]
           /\ Allocated' /\ Covered'
           /\ \A x \in Documents : Received(x)' = Received(x)
<1>1. /\ document' \in [Documents -> Document \cup {NoDocument}]
      /\ document'[d] = row
      /\ \A x \in Documents : x # d => document'[x] = document[x]
  BY DEF IInv, TypeOK
<1>2. row # NoDocument
  BY CreditAssumption
<1>3. \A x \in Documents : Received(x)' = Received(x)
  BY ReceivedStays
<1>4. Issued \subseteq Issued' /\ Issued' \subseteq Issued \cup {d} /\ Issued' \subseteq Documents
  BY <1>1, <1>2 DEF Issued
<1>5. Allocated'
  BY <1>4 DEF Allocated, IInv
<1>6. ASSUME NEW x \in Issued' PROVE Outstanding(x)' >= 0
  <2>1. x \in Documents /\ Received(x)' = Received(x)
    BY <1>3, <1>4
  <2>2. CASE x = d
    <3>1. row.amount \in Int /\ row.adjustment \in Int /\ row.noted \in Int /\ Received(x) \in Int
      BY <2>1, CreditAssumption, ReceivedNat DEF Document, IInv
    <3> QED
      BY <3>1, <1>1, <2>1, <2>2 DEF Outstanding, Principal
  <2>3. CASE x # d
    <3>1. x \in Issued /\ Outstanding(x) >= 0
      BY <1>4, <2>3 DEF IInv, Covered
    <3>2. document'[x] = document[x]
      BY <1>1, <2>1, <2>3
    <3>3. Outstanding(x)' = Outstanding(x)
      BY <2>1, <3>2 DEF Outstanding, Principal
    <3> QED
      BY <3>1, <3>3
  <2> QED
    BY <2>2, <2>3
<1>7. Covered'
  BY <1>6 DEF Covered
<1> QED
  BY <1>1, <1>2, <1>3, <1>5, <1>7

\* Nothing was received for a document that does not exist yet.
LEMMA NothingReceived ==
    ASSUME IInv, NEW d \in Documents, d \notin Issued
    PROVE  Received(d) = 0
<1> DEFINE f == [r \in ReceiptIds |-> receipts[r][d]]
<1>1. f \in [ReceiptIds -> Nat] /\ \A r \in ReceiptIds : f[r] = 0
  BY DEF IInv, TypeOK, Receipt, Allocated
<1>2. Received(d) = Total(f)
  BY DEF Received
<1> HIDE DEF f
<1> QED
  BY <1>1, <1>2, Constants, TotalZero

LEMMA NewDocumentRow ==
    ASSUME NEW amount \in 1..MaxDebt
    PROVE  NewDocument(amount) \in Document
  BY CreditAssumption DEF NewDocument, Document

LEMMA DebtNat ==
    ASSUME IInv
    PROVE  Debt \in Nat
<1> DEFINE f == [d \in Documents |-> IF d \in Issued THEN Outstanding(d) ELSE 0]
<1>1. \A d \in Issued : d \in Documents /\ document[d] # NoDocument /\ Outstanding(d) >= 0
  BY DEF IInv, Covered, Issued
<1>2. \A d \in Issued : Outstanding(d) \in Nat
  BY <1>1, DocumentRow DEF IInv
<1>3. f \in [Documents -> Nat]
  BY <1>2
<1>4. Debt = Total(f)
  BY DEF Debt
<1> QED
  BY <1>3, <1>4, Constants, TotalNat

LEMMA OpeningBalanceKeeps ==
    ASSUME IInv, NEW amount \in Amounts, OpeningBalance(amount)
    PROVE  IInv'
<1> USE DEF fulfilmentVars
<1> DEFINE row == NewDocument(amount)
<1>1. row \in Document
  BY NewDocumentRow, CreditAssumption
<1>2. Received(Opening) = 0
  BY NothingReceived, Constants DEF OpeningBalance, Issued
<1>3. row.amount + row.adjustment - row.noted - Received(Opening) >= 0
  BY <1>2, CreditAssumption DEF NewDocument
<1>4. document' = [document EXCEPT ![Opening] = row]
      /\ UNCHANGED <<order, fulfilment, onHand, account, receipts, returned>>
  BY DEF OpeningBalance
<1> HIDE DEF row
<1>5. /\ document' \in [Documents -> Document \cup {NoDocument}]
      /\ \A x \in Documents : x # Opening => document'[x] = document[x]
      /\ Allocated' /\ Covered'
      /\ \A x \in Documents : Received(x)' = Received(x)
  BY <1>1, <1>3, <1>4, Constants, DocumentWritten
<1>6. TypeOK'
  BY <1>4, <1>5 DEF IInv, TypeOK, FulfilmentTypeOK
<1>7. StockReconciles'
  BY <1>4, StockStays DEF IInv
<1>8. ASSUME NEW x \in Orders PROVE OrderInv(x)'
  <2>1. x \in Documents /\ x # Opening
    BY Constants, CreditAssumption
  <2> QED
    BY <2>1, <1>4, <1>5, OrderStays DEF IInv
<1> QED
  BY <1>5, <1>6, <1>7, <1>8 DEF IInv

\* A sale within the limit.
LEMMA ApproveFacts ==
    ASSUME IInv, NEW o \in Orders, Approve(o)
    PROVE  /\ GrandTotal \in 1..MaxDebt
           /\ account \in Account /\ account.status = "ACTIVE"
           /\ Debt + GrandTotal <= account.limit
           /\ ~Sold(o) /\ ~order[o].consumed /\ \A l \in Lines : returned[o][l] = 0
<1>1. account \in Account /\ account.status = "ACTIVE" /\ account.limit \in 0..MaxDebt
  BY CreditAssumption DEF Approve, IInv, TypeOK, Account
<1>2. Debt \in Nat /\ GrandTotal \in Nat /\ GrandTotal > 0
  BY DebtNat, WorthNat, CreditAssumption, Constants DEF GrandTotal
<1>3. GrandTotal <= AvailableCredit
  BY DEF Approve
<1>4. Debt + GrandTotal <= account.limit
  BY <1>1, <1>2, <1>3 DEF AvailableCredit
<1>5. ~Sold(o) /\ ~order[o].consumed /\ \A l \in Lines : returned[o][l] = 0
  BY DEF Approve, IInv, OrderInv, Followed, Undone
<1> QED
  BY <1>1, <1>2, <1>4, <1>5, CreditAssumption

LEMMA ApproveKeeps ==
    ASSUME IInv, NEW o \in Orders, Approve(o)
    PROVE  IInv'
<1> DEFINE row == NewDocument(GrandTotal)
<1>1. /\ GrandTotal \in 1..MaxDebt
      /\ ~Sold(o) /\ ~order[o].consumed /\ \A l \in Lines : returned[o][l] = 0
  BY ApproveFacts
<1>2. row \in Document
  BY <1>1, NewDocumentRow
<1>3. Received(o) = 0
  BY <1>1, NothingReceived, Constants DEF Issued, Sold
<1>4. /\ row.amount = GrandTotal /\ row.adjustment = 0 /\ row.noted = 0 /\ ~row.adjusted
      /\ row.refundDue = 0 /\ row.paidOut = 0 /\ row.returns = 0
  BY DEF NewDocument
<1>5. document' = [document EXCEPT ![o] = row] /\ onHand' = Consume
      /\ fulfilment' = [fulfilment EXCEPT ![o] = NewFulfilment]
      /\ UNCHANGED <<account, receipts, returned>>
  BY DEF Approve
<1> HIDE DEF row
<1>6. row.amount + row.adjustment - row.noted - Received(o) >= 0
  BY <1>1, <1>3, <1>4, CreditAssumption
<1>7. /\ document' \in [Documents -> Document \cup {NoDocument}]
      /\ document'[o] = row /\ row # NoDocument
      /\ \A x \in Documents : x # o => document'[x] = document[x]
      /\ Allocated' /\ Covered'
      /\ \A x \in Documents : Received(x)' = Received(x)
  BY <1>2, <1>5, <1>6, Constants, DocumentWritten
<1>8. /\ order' \in [Orders -> OrderRow]
      /\ order'[o].status = "CREDIT_APPROVED" /\ order'[o].consumed
      /\ \A x \in Orders : x # o => order'[x] = order[x]
  BY DEF Approve, IInv, TypeOK, FulfilmentTypeOK, OrderRow
<1>9. /\ fulfilment' \in [Orders -> FulfilmentRow \cup {NoFulfilment}]
      /\ fulfilment'[o] = NewFulfilment /\ NewFulfilment # NoFulfilment
      /\ \A x \in Orders : x # o => fulfilment'[x] = fulfilment[x]
  BY <1>5, NewFulfilmentRow DEF IInv, TypeOK, FulfilmentTypeOK
<1>10. StockReconciles' /\ onHand' \in [Lines -> Nat]
  BY <1>1, <1>5, <1>8, GoodsTaken DEF IInv
<1>11. TypeOK'
  BY <1>5, <1>7, <1>8, <1>9, <1>10 DEF IInv, TypeOK, FulfilmentTypeOK
<1>12. ASSUME NEW x \in Orders PROVE OrderInv(x)'
  <2>1. OrderInv(x) /\ x \in Documents
    BY Constants DEF IInv
  <2>2. CASE x # o
    BY <2>1, <2>2, <1>5, <1>7, <1>8, <1>9, OrderStays
  <2>3. CASE x = o
    <3>1. Sold(o)'
      BY <1>7 DEF Sold
    <3>2. Followed(o)'
      BY <3>1, <1>8, <1>9 DEF Followed, NewFulfilment
    <3>3. returned'[o] = returned[o] /\ returned[o] \in [Lines -> Nat] /\ returned[o] # Quantity
      BY <1>1, <1>5, Constants DEF IInv, TypeOK
    <3>4. Undone(o)'
      BY <3>1, <3>3, <1>1, <1>4, <1>7, <1>8 DEF Undone
    <3>5. Worth(returned[o]) = 0
      BY <3>3, <1>1, WorthNat
    <3>6. Balanced(o)'
      BY <3>1, <3>3, <3>5, <1>4, <1>7 DEF Balanced
    <3> QED
      BY <2>3, <3>2, <3>4, <3>6 DEF OrderInv
  <2> QED
    BY <2>2, <2>3
<1> QED
  BY <1>7, <1>10, <1>11, <1>12 DEF IInv

-----------------------------------------------------------------------------
(* Receipts                                                                *)

\* Receipts change, but not what backs a refund.
LEMMA MoneyMoves ==
    ASSUME IInv, UNCHANGED <<fulfilmentVars, account, document, returned>>,
           receipts' \in [ReceiptIds -> Receipt], Allocated',
           \A d \in Issued :
              /\ Outstanding(d)' >= 0
              /\ d \in Orders /\ document[d].refundDue > 0 => Outstanding(d)' = Outstanding(d)
    PROVE  IInv'
<1> USE DEF fulfilmentVars
<1>1. TypeOK'
  BY DEF IInv, TypeOK, FulfilmentTypeOK
<1>2. StockReconciles'
  BY StockStays DEF IInv
<1>3. Covered'
  BY DEF Covered, Issued
<1>4. ASSUME NEW x \in Orders PROVE OrderInv(x)'
  <2>1. Sold(x)' <=> Sold(x)
    BY DEF Sold
  <2>2. Followed(x) /\ Undone(x) /\ Balanced(x)
    BY DEF IInv, OrderInv
  <2>3. Followed(x)' /\ Undone(x)'
    BY <2>1, <2>2 DEF Followed, Undone
  <2>4. Sold(x) => x \in Issued
    BY Constants DEF Sold, Issued
  <2>5. Balanced(x)'
    BY <2>1, <2>2, <2>4 DEF Balanced
  <2> QED
    BY <2>3, <2>5 DEF OrderInv
<1> QED
  BY <1>1, <1>2, <1>3, <1>4 DEF IInv

LEMMA RecordReceiptKeeps ==
    ASSUME IInv, NEW r \in ReceiptIds, NEW a \in [Documents -> 0..GrandTotal], RecordReceipt(r, a)
    PROVE  IInv'
<1>1. a \in Receipt
  BY WorthNat, Constants DEF GrandTotal, Receipt
<1>2. receipts' = [receipts EXCEPT ![r] = a] /\ receipts[r] = NoReceipt
      /\ UNCHANGED <<fulfilmentVars, account, document, returned>>
  BY DEF RecordReceipt
<1>3. receipts' \in [ReceiptIds -> Receipt]
  BY <1>1, <1>2 DEF IInv, TypeOK
<1>4. \A d \in Documents : a[d] > 0 => d \in Issued /\ a[d] <= Outstanding(d)
  BY DEF RecordReceipt
<1>5. Allocated'
  BY <1>2, <1>4 DEF Allocated, Issued, IInv, TypeOK
<1>6. ASSUME NEW d \in Issued
      PROVE  /\ Outstanding(d)' >= 0
             /\ d \in Orders /\ document[d].refundDue > 0 => Outstanding(d)' = Outstanding(d)
  <2>1. d \in Documents /\ document[d] # NoDocument /\ Outstanding(d) >= 0
    BY DEF Issued, IInv, Covered
  <2>2. Received(d)' = Received(d) - receipts[r][d] + a[d]
    BY <1>1, <1>2, <2>1, ReceivedChanges DEF IInv
  <2>3. receipts[r][d] = 0 /\ a[d] \in Nat
    BY <1>1, <1>2, <2>1 DEF NoReceipt, Receipt
  <2>4. /\ Principal(d) \in Int /\ Outstanding(d) \in Int /\ Received(d) \in Nat
        /\ Outstanding(d) = Principal(d) - Received(d)
    BY <2>1, DocumentRow DEF IInv
  <2>5. Outstanding(d)' = Principal(d)' - Received(d)' /\ Principal(d)' = Principal(d)
    BY <1>2 DEF Outstanding, Principal
  <2>6. Outstanding(d)' = Outstanding(d) - a[d]
    BY <2>2, <2>3, <2>4, <2>5
  <2>7. d \in Orders /\ document[d].refundDue > 0 => Outstanding(d) = 0
    BY <2>1 DEF IInv, OrderInv, Balanced, Sold
  <2> QED
    BY <1>4, <2>1, <2>3, <2>4, <2>6, <2>7
<1> QED
  BY <1>2, <1>3, <1>5, <1>6, MoneyMoves

LEMMA ReverseReceiptKeeps ==
    ASSUME IInv, NEW r \in ReceiptIds, ReverseReceipt(r)
    PROVE  IInv'
<1>1. NoReceipt \in Receipt
  BY DEF NoReceipt, Receipt
<1>2. receipts' = [receipts EXCEPT ![r] = NoReceipt]
      /\ UNCHANGED <<fulfilmentVars, account, document, returned>>
  BY DEF ReverseReceipt
<1>3. receipts' \in [ReceiptIds -> Receipt]
  BY <1>1, <1>2 DEF IInv, TypeOK
<1>4. Allocated'
  BY <1>2 DEF Allocated, Issued, IInv, TypeOK, NoReceipt
<1>5. ASSUME NEW d \in Issued
      PROVE  /\ Outstanding(d)' >= 0
             /\ d \in Orders /\ document[d].refundDue > 0 => Outstanding(d)' = Outstanding(d)
  <2>1. d \in Documents /\ document[d] # NoDocument /\ Outstanding(d) >= 0
    BY DEF Issued, IInv, Covered
  <2>2. Received(d)' = Received(d) - receipts[r][d] + NoReceipt[d]
    BY <1>1, <1>2, <2>1, ReceivedChanges DEF IInv
  <2>3. NoReceipt[d] = 0 /\ receipts[r][d] \in Nat
    BY <2>1 DEF NoReceipt, Receipt, IInv, TypeOK
  <2>4. /\ Principal(d) \in Int /\ Outstanding(d) \in Int /\ Received(d) \in Nat
        /\ Outstanding(d) = Principal(d) - Received(d)
    BY <2>1, DocumentRow DEF IInv
  <2>5. Outstanding(d)' = Principal(d)' - Received(d)' /\ Principal(d)' = Principal(d)
    BY <1>2 DEF Outstanding, Principal
  <2>6. Outstanding(d)' = Outstanding(d) + receipts[r][d]
    BY <2>2, <2>3, <2>4, <2>5
  <2>7. document[d].refundDue > 0 => receipts[r][d] = 0
    BY <2>1, <2>3, DocumentRow DEF ReverseReceipt, Reversible, AllocatedTo, IInv, Document
  <2> QED
    BY <2>1, <2>3, <2>4, <2>6, <2>7
<1> QED
  BY <1>2, <1>3, <1>4, <1>5, MoneyMoves

-----------------------------------------------------------------------------
(* Corrections and payouts                                                 *)

\* A document is corrected or paid out; no goods come back.
LEMMA DocumentChanges ==
    ASSUME IInv, NEW d \in Documents, document[d] # NoDocument, NEW row \in Document,
           document' = [document EXCEPT ![d] = row],
           UNCHANGED <<fulfilmentVars, account, receipts, returned>>,
           row.returns = document[d].returns,
           row.amount + row.adjustment - row.noted - Received(d) >= 0,
           d \in Orders => Balanced(d)'
    PROVE  IInv'
<1> USE DEF fulfilmentVars
<1>1. /\ document' \in [Documents -> Document \cup {NoDocument}]
      /\ document'[d] = row /\ row # NoDocument
      /\ \A x \in Documents : x # d => document'[x] = document[x]
      /\ Allocated' /\ Covered'
      /\ \A x \in Documents : Received(x)' = Received(x)
  BY DocumentWritten
<1>2. TypeOK'
  BY <1>1 DEF IInv, TypeOK, FulfilmentTypeOK
<1>3. StockReconciles'
  BY StockStays DEF IInv
<1>4. ASSUME NEW x \in Orders PROVE OrderInv(x)'
  <2>1. OrderInv(x) /\ x \in Documents
    BY Constants DEF IInv
  <2>2. CASE x # d
    BY <2>1, <2>2, <1>1, OrderStays
  <2>3. CASE x = d
    <3>1. Sold(d) /\ Sold(d)'
      BY <1>1 DEF Sold
    <3>2. Followed(d) /\ Undone(d)
      BY <2>1, <2>3 DEF OrderInv
    <3>3. Followed(d)' /\ Undone(d)'
      BY <1>1, <3>1, <3>2 DEF Followed, Undone
    <3> QED
      BY <2>3, <3>3 DEF OrderInv
  <2> QED
    BY <2>2, <2>3
<1> QED
  BY <1>1, <1>2, <1>3, <1>4 DEF IInv

LEMMA AdjustKeeps ==
    ASSUME IInv, NEW d \in Documents, NEW amount \in Int, Adjust(d, amount)
    PROVE  IInv'
<1> DEFINE row == [document[d] EXCEPT !.adjustment = @ + amount, !.adjusted = TRUE]
<1>1. document[d] # NoDocument /\ document[d].returns = 0 /\ Outstanding(d) + amount >= 0
      /\ UNCHANGED <<fulfilmentVars, account, receipts, returned>>
  BY DEF Adjust, Issued
<1>2. document[d] \in Document /\ Received(d) \in Nat
  BY <1>1, DocumentRow DEF IInv
<1>3. document' = [document EXCEPT ![d] = row]
  BY <1>2 DEF Adjust, Document, IInv, TypeOK
<1>4. /\ row \in Document
      /\ row.amount = document[d].amount /\ row.noted = document[d].noted
      /\ row.adjustment = document[d].adjustment + amount /\ row.adjusted = TRUE
      /\ row.refundDue = document[d].refundDue /\ row.paidOut = document[d].paidOut
      /\ row.returns = document[d].returns
  <2>1. document[d].adjustment + amount \in Int
    BY <1>2 DEF Document
  <2>2. row \in Document
    BY <1>2, <2>1 DEF Document
  <2>3. /\ row.amount = document[d].amount /\ row.noted = document[d].noted
        /\ row.refundDue = document[d].refundDue /\ row.paidOut = document[d].paidOut
        /\ row.returns = document[d].returns
    BY <1>2 DEF Document
  <2>4. row.adjustment = document[d].adjustment + amount
    BY <1>2 DEF Document
  <2>5. row.adjusted = TRUE
    BY <1>2 DEF Document
  <2> QED
    BY <2>2, <2>3, <2>4, <2>5
<1>5. /\ document[d].amount \in Int /\ document[d].adjustment \in Int /\ document[d].noted \in Int
      /\ document[d].refundDue \in Nat
  BY <1>2, CreditAssumption DEF Document
<1> HIDE DEF row
<1>6. row.amount + row.adjustment - row.noted - Received(d) >= 0
  BY <1>1, <1>2, <1>4, <1>5 DEF Outstanding, Principal
<1>7. ASSUME d \in Orders PROVE Balanced(d)'
  <2>1. Sold(d) /\ Balanced(d)
    BY <1>1, <1>7 DEF Sold, IInv, OrderInv
  <2>2. document'[d] = row
    BY <1>3 DEF IInv, TypeOK
  <2>3. document[d].refundDue = 0
    BY <1>1, <1>5, <2>1 DEF Balanced
  <2> QED
    BY <1>1, <1>4, <2>1, <2>2, <2>3 DEF Balanced
<1> QED
  BY <1>1, <1>3, <1>4, <1>6, <1>7, DocumentChanges

LEMMA PayoutKeeps ==
    ASSUME IInv, NEW o \in Orders, NEW amount \in Amounts, Payout(o, amount)
    PROVE  IInv'
<1> DEFINE row == [document[o] EXCEPT !.paidOut = @ + amount]
<1>1. document[o] # NoDocument /\ o \in Documents
      /\ amount <= document[o].refundDue - document[o].paidOut
      /\ UNCHANGED <<fulfilmentVars, account, receipts, returned>>
  BY Constants DEF Payout
<1>2. document[o] \in Document /\ Received(o) \in Nat /\ amount \in Nat
  BY <1>1, DocumentRow, CreditAssumption DEF IInv
<1>3. document' = [document EXCEPT ![o] = row]
  BY DEF Payout
<1>4. /\ row \in Document
      /\ row.amount = document[o].amount /\ row.noted = document[o].noted
      /\ row.adjustment = document[o].adjustment /\ row.adjusted = document[o].adjusted
      /\ row.refundDue = document[o].refundDue /\ row.paidOut = document[o].paidOut + amount
      /\ row.returns = document[o].returns
  BY <1>2 DEF Document
<1>5. /\ document[o].amount \in Int /\ document[o].adjustment \in Int /\ document[o].noted \in Int
      /\ document[o].refundDue \in Nat /\ document[o].paidOut \in Nat
  BY <1>2, CreditAssumption DEF Document
<1> HIDE DEF row
<1>6. Outstanding(o) >= 0
  BY <1>1 DEF IInv, Covered, Issued
<1>7. row.amount + row.adjustment - row.noted - Received(o) >= 0
  BY <1>2, <1>4, <1>5, <1>6 DEF Outstanding, Principal
<1>8. Balanced(o)'
  <2>1. Sold(o) /\ Balanced(o)
    BY <1>1 DEF Sold, IInv, OrderInv
  <2>2. document'[o] = row
    BY <1>1, <1>3 DEF IInv, TypeOK
  <2>3. Outstanding(o)' = Outstanding(o)
    BY <1>1, <1>4, <2>2, ReceivedStays DEF Outstanding, Principal
  <2>4. row.paidOut <= row.refundDue
    BY <1>1, <1>2, <1>4, <1>5
  <2> QED
    BY <1>1, <1>4, <2>1, <2>2, <2>3, <2>4 DEF Balanced
<1> QED
  BY <1>1, <1>3, <1>4, <1>7, <1>8, DocumentChanges

-----------------------------------------------------------------------------
(* Goods that come back                                                    *)

\* The debt is reduced first: n was noted, f is due and R was received of the
\* price A; goods worth w come back and c of it reduces the debt.
LEMMA CreditFirst ==
    ASSUME NEW A \in Nat, NEW n \in Nat, NEW f \in Nat, NEW R \in Nat, NEW w \in Nat, NEW c,
           n + f + w <= A, A - n - R >= 0, f > 0 => A - n - R = 0,
           c = IF w < A - n - R THEN w ELSE A - n - R
    PROVE  /\ c \in Nat /\ f + (w - c) \in Nat /\ f <= f + (w - c)
           /\ A - (n + c) - R >= 0
           /\ (n + c) + (f + (w - c)) = (n + f) + w
           /\ f + (w - c) > 0 => A - (n + c) - R = 0
  OBVIOUS

\* A cancellation, or a return after the delivery.
Comes(o, units, closed) ==
    \/ /\ closed = "CANCELLED" /\ units = Quantity
       /\ document[o].returns = 0 /\ ~fulfilment[o].shipment
    \/ closed = "RETURNED" /\ fulfilment[o].status = "DELIVERED"

\* What compensate writes on the sale's document.
LEMMA CompensateMoney ==
    ASSUME IInv, NEW o \in Orders, NEW units \in [Lines -> Nat],
           NEW closed \in {"CANCELLED", "RETURNED"}, Compensate(o, units, closed)
    PROVE  \E row \in Document :
              /\ document' = [document EXCEPT ![o] = row]
              /\ row.returns = document[o].returns + 1 /\ row.returns > 0
              /\ row.amount = GrandTotal /\ row.adjustment = 0 /\ row.adjusted = FALSE
              /\ row.noted + row.refundDue = Worth([l \in Lines |-> returned[o][l] + units[l]])
              /\ row.amount + row.adjustment - row.noted - Received(o) >= 0
              /\ row.refundDue > 0 => row.amount + row.adjustment - row.noted - Received(o) = 0
              /\ row.paidOut <= row.refundDue
<1> DEFINE back == [l \in Lines |-> returned[o][l] + units[l]]
           w == Worth(units)
           c == DebtCredit(o, w)
           D == document[o]
           row == [D EXCEPT !.noted = D.noted + c, !.refundDue = D.refundDue + (w - c),
                            !.returns = D.returns + 1]
<1>1. /\ o \in Documents /\ D # NoDocument /\ D.returns < MaxReturns /\ ~D.adjusted
      /\ WithinSale(o, units)
  BY Constants DEF Compensate
<1>2. document' = [document EXCEPT ![o] = row]
  BY DEF Compensate
<1>3. D \in Document /\ Received(o) \in Nat /\ Outstanding(o) >= 0
  BY <1>1, DocumentRow DEF IInv, Covered, Issued
<1>4. /\ D.amount \in Nat /\ D.adjustment \in Int /\ D.noted \in Nat /\ D.refundDue \in Nat
      /\ D.paidOut \in Nat /\ D.returns \in Nat /\ D.adjusted \in BOOLEAN
  BY <1>3, CreditAssumption DEF Document
<1>5. /\ D.amount = GrandTotal /\ D.adjustment = 0
      /\ D.noted + D.refundDue = Worth(returned[o])
      /\ D.refundDue > 0 => Outstanding(o) = 0
      /\ D.paidOut <= D.refundDue
  BY <1>1 DEF IInv, OrderInv, Balanced, Sold
<1>6. returned[o] \in [Lines -> Nat] /\ back \in [Lines -> Nat]
      /\ \A l \in Lines : back[l] <= Quantity[l]
  BY <1>1 DEF IInv, TypeOK, WithinSale
<1>7. Worth(back) = Worth(returned[o]) + w /\ w \in Nat /\ Worth(back) <= GrandTotal
  BY <1>6, WorthAdds, WorthNat, WorthMonotone
<1> HIDE DEF back, w
<1>8. Outstanding(o) = GrandTotal - D.noted - Received(o) /\ GrandTotal \in Nat
  BY <1>3, <1>4, <1>5 DEF Outstanding, Principal
<1>9. c = IF w < GrandTotal - D.noted - Received(o) THEN w ELSE GrandTotal - D.noted - Received(o)
  BY <1>8 DEF DebtCredit
<1> HIDE DEF c
<1>10. D.noted + D.refundDue + w <= GrandTotal
  BY <1>4, <1>5, <1>7
<1>11. /\ c \in Nat /\ D.refundDue + (w - c) \in Nat /\ D.refundDue <= D.refundDue + (w - c)
       /\ GrandTotal - (D.noted + c) - Received(o) >= 0
       /\ (D.noted + c) + (D.refundDue + (w - c)) = (D.noted + D.refundDue) + w
       /\ D.refundDue + (w - c) > 0 => GrandTotal - (D.noted + c) - Received(o) = 0
  <2>1. GrandTotal - D.noted - Received(o) >= 0
        /\ (D.refundDue > 0 => GrandTotal - D.noted - Received(o) = 0)
    BY <1>3, <1>5, <1>8
  <2>2. PICK A \in Nat, n \in Nat, f \in Nat, R \in Nat, v \in Nat :
           A = GrandTotal /\ n = D.noted /\ f = D.refundDue /\ R = Received(o) /\ v = w
    BY <1>3, <1>4, <1>7, <1>8
  <2>3. /\ n + f + v <= A /\ A - n - R >= 0 /\ (f > 0 => A - n - R = 0)
        /\ c = IF v < A - n - R THEN v ELSE A - n - R
    BY <2>1, <2>2, <1>9, <1>10
  <2> HIDE DEF D
  <2>4. /\ c \in Nat /\ f + (v - c) \in Nat /\ f <= f + (v - c)
        /\ A - (n + c) - R >= 0
        /\ (n + c) + (f + (v - c)) = (n + f) + v
        /\ f + (v - c) > 0 => A - (n + c) - R = 0
    BY <2>3, CreditFirst
  <2> QED
    BY <2>2, <2>4
<1>12. D.noted + c \in Nat /\ D.returns + 1 \in 0..MaxReturns
  BY <1>1, <1>4, <1>11, CreditAssumption
<1>13. row \in Document
  BY <1>3, <1>11, <1>12 DEF Document
<1>14. row.noted = D.noted + c /\ row.refundDue = D.refundDue + (w - c) /\ row.returns = D.returns + 1
  BY <1>3 DEF Document
<1>15. row.amount = D.amount /\ row.adjustment = D.adjustment /\ row.adjusted = D.adjusted
       /\ row.paidOut = D.paidOut
  BY <1>3 DEF Document
<1> HIDE DEF row
<1>16. row.returns > 0 /\ row.adjusted = FALSE
  BY <1>1, <1>4, <1>14, <1>15
<1>17. row.noted + row.refundDue = Worth(back)
  BY <1>5, <1>7, <1>11, <1>14
<1>18. /\ row.amount + row.adjustment - row.noted - Received(o) >= 0
       /\ row.refundDue > 0 => row.amount + row.adjustment - row.noted - Received(o) = 0
       /\ row.paidOut <= row.refundDue
  <2>1. row.amount = GrandTotal /\ row.adjustment = 0 /\ row.paidOut = D.paidOut
    BY <1>5, <1>15
  <2>2. D.paidOut <= row.refundDue
    BY <1>4, <1>5, <1>11, <1>14
  <2> HIDE DEF D
  <2>3. row.amount + row.adjustment - row.noted - Received(o) = GrandTotal - (D.noted + c) - Received(o)
    BY <2>1, <1>3, <1>8, <1>12, <1>14
  <2> QED
    BY <2>1, <2>2, <2>3, <1>11, <1>14
<1> QED
  BY <1>2, <1>5, <1>13, <1>14, <1>15, <1>16, <1>17, <1>18 DEF back

LEMMA CompensateKeeps ==
    ASSUME IInv, NEW o \in Orders, NEW units \in [Lines -> Nat],
           NEW closed \in {"CANCELLED", "RETURNED"},
           Compensate(o, units, closed), Comes(o, units, closed)
    PROVE  IInv'
<1> DEFINE back == [l \in Lines |-> returned[o][l] + units[l]]
           complete == back = Quantity
<1>1. /\ order[o].status = "CREDIT_APPROVED" /\ document[o] # NoDocument
      /\ fulfilment[o] # NoFulfilment /\ WithinSale(o, units)
      /\ returned' = [returned EXCEPT ![o] = back]
      /\ onHand' = [l \in Lines |-> onHand[l] + units[l]]
      /\ order' = IF complete THEN [order EXCEPT ![o].status = closed] ELSE order
      /\ fulfilment' = IF complete THEN [fulfilment EXCEPT ![o].status = closed] ELSE fulfilment
      /\ UNCHANGED <<account, receipts>>
  BY DEF Compensate
<1>2. Followed(o) /\ Undone(o) /\ Balanced(o) /\ Sold(o) /\ o \in Documents
  BY <1>1, Constants DEF IInv, OrderInv, Sold
<1>3. returned[o] \in [Lines -> Nat] /\ back \in [Lines -> Nat]
      /\ \A l \in Lines : back[l] <= Quantity[l]
  BY <1>1 DEF IInv, TypeOK, WithinSale
<1>4. closed = "CANCELLED" => complete
  <2>1. ASSUME closed = "CANCELLED" PROVE \A l \in Lines : back[l] = Quantity[l]
    BY <1>2, <2>1, Constants DEF Comes, Undone
  <2> QED
    BY <1>3, <2>1, Constants
<1>5. order[o].consumed
  BY <1>1, <1>2 DEF Followed
<1>6. /\ order' \in [Orders -> OrderRow]
      /\ \A x \in Orders : order'[x].consumed = order[x].consumed
      /\ \A x \in Orders : x # o => order'[x] = order[x]
      /\ order'[o].status = IF complete THEN closed ELSE "CREDIT_APPROVED"
  BY <1>1 DEF IInv, TypeOK, FulfilmentTypeOK, OrderRow
<1>7. /\ fulfilment' \in [Orders -> FulfilmentRow \cup {NoFulfilment}]
      /\ \A x \in Orders : x # o => fulfilment'[x] = fulfilment[x]
      /\ fulfilment'[o] \in FulfilmentRow
      /\ fulfilment'[o].status = IF complete THEN closed ELSE fulfilment[o].status
      /\ fulfilment'[o].shipment = fulfilment[o].shipment
  BY <1>1 DEF IInv, TypeOK, FulfilmentTypeOK, FulfilmentRow
<1>8. StockReconciles' /\ onHand' \in [Lines -> Nat]
  BY <1>1, <1>5, <1>6, GoodsBack DEF IInv
<1>9. /\ returned' \in [Orders -> [Lines -> Nat]] /\ returned'[o] = back
      /\ \A x \in Orders : x # o => returned'[x] = returned[x]
  BY <1>1, <1>3 DEF IInv, TypeOK
<1>10. PICK row \in Document :
          /\ document' = [document EXCEPT ![o] = row]
          /\ row.returns = document[o].returns + 1 /\ row.returns > 0
          /\ row.amount = GrandTotal /\ row.adjustment = 0 /\ row.adjusted = FALSE
          /\ row.noted + row.refundDue = Worth(back)
          /\ row.amount + row.adjustment - row.noted - Received(o) >= 0
          /\ row.refundDue > 0 => row.amount + row.adjustment - row.noted - Received(o) = 0
          /\ row.paidOut <= row.refundDue
  BY CompensateMoney
<1>11. /\ document' \in [Documents -> Document \cup {NoDocument}]
       /\ document'[o] = row /\ row # NoDocument
       /\ \A x \in Documents : x # o => document'[x] = document[x]
       /\ Allocated' /\ Covered'
       /\ \A x \in Documents : Received(x)' = Received(x)
  BY <1>1, <1>2, <1>10, DocumentWritten
<1> HIDE DEF back
<1>12. TypeOK'
  BY <1>1, <1>3, <1>6, <1>7, <1>8, <1>9, <1>11 DEF IInv, TypeOK, FulfilmentTypeOK
<1>13. ASSUME NEW x \in Orders PROVE OrderInv(x)'
  <2>1. OrderInv(x) /\ x \in Documents
    BY Constants DEF IInv
  <2>2. CASE x # o
    BY <2>1, <2>2, <1>6, <1>7, <1>9, <1>11, OrderStays
  <2>3. CASE x = o
    <3>1. Sold(o)'
      BY <1>11 DEF Sold
    <3>2. fulfilment'[o] # NoFulfilment
      BY <1>7, CreditAssumption
    <3>3. fulfilment[o].shipment <=> fulfilment[o].status \in {"SHIPPED", "DELIVERED", "RETURNED"}
      BY <1>1, <1>2 DEF Followed
    <3>4. fulfilment'[o].shipment <=> fulfilment'[o].status \in {"SHIPPED", "DELIVERED", "RETURNED"}
      BY <3>3, <1>4, <1>7 DEF Comes
    <3>5. Followed(o)'
      BY <3>1, <3>2, <3>4, <1>5, <1>6 DEF Followed
    <3>6. Undone(o)'
      BY <3>1, <1>4, <1>6, <1>7, <1>9, <1>10, <1>11 DEF Undone, Comes
    <3>7. Outstanding(o)' = row.amount + row.adjustment - row.noted - Received(o)
      <4>1. row.amount \in Int /\ row.adjustment \in Int /\ row.noted \in Int /\ Received(o) \in Int
        BY <1>2, CreditAssumption, ReceivedNat DEF Document, IInv
      <4> QED
        BY <4>1, <1>2, <1>11 DEF Outstanding, Principal
    <3>8. Balanced(o)'
      BY <3>1, <3>7, <1>9, <1>10, <1>11 DEF Balanced
    <3> QED
      BY <2>3, <3>5, <3>6, <3>8 DEF OrderInv
  <2> QED
    BY <2>2, <2>3
<1> QED
  BY <1>8, <1>11, <1>12, <1>13 DEF IInv

LEMMA CancelKeeps ==
    ASSUME IInv, NEW o \in Orders, Cancel(o)
    PROVE  IInv'
<1>1. Quantity \in [Lines -> Nat]
  BY Constants
<1>2. Compensate(o, Quantity, "CANCELLED") /\ Comes(o, Quantity, "CANCELLED")
  BY DEF Cancel, Comes
<1> QED
  BY <1>1, <1>2, CompensateKeeps

LEMMA ReceiveKeeps ==
    ASSUME IInv, NEW o \in Orders, NEW units \in [Lines -> 0..MaxUnits], Receive(o, units)
    PROVE  IInv'
<1>1. units \in [Lines -> Nat]
  BY CreditAssumption
<1>2. Compensate(o, units, "RETURNED") /\ Comes(o, units, "RETURNED")
  BY DEF Receive, Comes, Is
<1> QED
  BY <1>1, <1>2, CompensateKeeps

-----------------------------------------------------------------------------
(* The theorems                                                            *)

\* The invariant holds when the shop opens with its stock.
THEOREM InitIInv == Init => IInv
<1> SUFFICES ASSUME Init PROVE IInv
  OBVIOUS
<1> USE DEF Init, FulfilmentInit
<1>1. TypeOK
  <2>1. onHand \in [Lines -> Nat]
    BY Constants, Products
  <2>2. order \in [Orders -> OrderRow]
    BY DEF OrderRow
  <2>3. receipts \in [ReceiptIds -> Receipt]
    BY DEF Receipt, NoReceipt
  <2>4. \A o \in Orders, l \in Lines : returned[o][l] <= Quantity[l]
    BY Constants
  <2> QED
    BY <2>1, <2>2, <2>3, <2>4 DEF TypeOK, FulfilmentTypeOK
<1>2. StockReconciles
  <2> SUFFICES ASSUME NEW l \in Lines
               PROVE  onHand[l] + Out(l) = Quantity[l] * Cardinality(Orders)
    BY DEF StockReconciles
  <2> DEFINE f == [o \in Orders |-> Kept(o, l)]
  <2>1. f \in [Orders -> Nat] /\ \A o \in Orders : f[o] = 0
    BY DEF Kept
  <2>2. Out(l) = Total(f)
    BY DEF Out
  <2> HIDE DEF f
  <2>3. Out(l) = 0
    BY <2>1, <2>2, Constants, TotalZero
  <2>4. onHand[l] = Quantity[l] * Cardinality(Orders) /\ onHand[l] \in Nat
    BY <1>1 DEF TypeOK, FulfilmentTypeOK
  <2> QED
    BY <2>3, <2>4
<1>3. Issued = {}
  BY DEF Issued
<1>4. Allocated
  BY DEF Allocated, NoReceipt
<1>5. Covered
  BY <1>3 DEF Covered
<1>6. ASSUME NEW o \in Orders PROVE OrderInv(o)
  <2>1. ~Sold(o)
    BY Constants DEF Sold
  <2> QED
    BY <2>1 DEF OrderInv, Followed, Undone, Balanced
<1> QED
  BY <1>1, <1>2, <1>4, <1>5, <1>6 DEF IInv

\* Every command of the account, of an order and of its fulfilment keeps the
\* invariant.
THEOREM NextIInv == IInv /\ [Next]_vars => IInv'
<1> SUFFICES ASSUME IInv, [Next]_vars PROVE IInv'
  OBVIOUS
<1>1. CASE \E o \in Orders : FulfilmentStep(o, SoldOnCredit(o)) /\ UNCHANGED creditVars
  BY <1>1, FulfilmentStepKeeps
<1>2. CASE \E status \in {"ACTIVE", "SUSPENDED"}, limit \in Limits : Policy(status, limit)
  BY <1>2, PolicyKeeps
<1>3. CASE \E amount \in Amounts : OpeningBalance(amount)
  BY <1>3, OpeningBalanceKeeps
<1>4. CASE \E o \in Orders : Approve(o) \/ Cancel(o)
  BY <1>4, ApproveKeeps, CancelKeeps
<1>5. CASE \E r \in ReceiptIds, allocations \in [Documents -> 0..GrandTotal] :
              RecordReceipt(r, allocations)
  BY <1>5, RecordReceiptKeeps
<1>6. CASE \E r \in ReceiptIds : ReverseReceipt(r)
  BY <1>6, ReverseReceiptKeeps
<1>7. CASE \E d \in Documents, amount \in Amounts : Adjust(d, amount) \/ Adjust(d, -amount)
  <2>1. PICK d \in Documents, amount \in Amounts : Adjust(d, amount) \/ Adjust(d, -amount)
    BY <1>7
  <2>2. amount \in Int /\ -amount \in Int
    BY CreditAssumption
  <2> QED
    BY <2>1, <2>2, AdjustKeeps
<1>8. CASE \E o \in Orders, units \in [Lines -> 0..MaxUnits] : Receive(o, units)
  BY <1>8, ReceiveKeeps
<1>9. CASE \E o \in Orders, amount \in Amounts : Payout(o, amount)
  BY <1>9, PayoutKeeps
<1>10. CASE UNCHANGED vars
  <2> USE <1>10 DEF vars, fulfilmentVars, creditVars
  <2>1. TypeOK'
    BY DEF IInv, TypeOK, FulfilmentTypeOK
  <2>2. StockReconciles'
    BY StockStays DEF IInv
  <2>3. Allocated' /\ Covered' /\ \A d \in Documents : Received(d)' = Received(d)
    BY LedgerStays DEF IInv
  <2>4. ASSUME NEW x \in Orders PROVE OrderInv(x)'
    BY <2>3, OrderStays, Constants DEF IInv
  <2> QED
    BY <2>1, <2>2, <2>3, <2>4 DEF IInv
<1> QED
  BY <1>1, <1>2, <1>3, <1>4, <1>5, <1>6, <1>7, <1>8, <1>9, <1>10 DEF Next

\* The invariant of every state of the account and its orders.
THEOREM AccountSafe == Spec => []IInv
<1>1. Init => IInv
  BY InitIInv
<1>2. IInv /\ [Next]_vars => IInv'
  BY NextIInv
<1> QED
  BY <1>1, <1>2, PTL DEF Spec

\* Accounts, documents, receipts, returns and stock keep their types: no stock
\* below zero, no more units back than were sold, no amount that is negative.
THEOREM AccountsTyped == Spec => []TypeOK
<1>1. IInv => TypeOK
  BY DEF IInv
<1> QED
  BY <1>1, AccountSafe, PTL

\* What the invariant says about the sale of an order.
LEMMA SaleFacts ==
    ASSUME IInv, NEW o \in Orders, Sold(o)
    PROVE  /\ document[o].refundDue \in Nat /\ document[o].noted \in Nat
           /\ document[o].refundDue <= Received(o)
           /\ returned[o] = Quantity => Outstanding(o) = 0
<1> DEFINE D == document[o]
<1>1. o \in Documents /\ D # NoDocument /\ o \in Issued
  BY Constants DEF Sold, Issued
<1>2. D \in Document /\ Received(o) \in Nat /\ Outstanding(o) >= 0
  BY <1>1, DocumentRow DEF IInv, Covered
<1>3. /\ D.amount \in Nat /\ D.adjustment \in Int /\ D.noted \in Nat /\ D.refundDue \in Nat
      /\ D.returns \in Nat
  BY <1>2, CreditAssumption DEF Document
<1>4. /\ D.amount = GrandTotal /\ (D.returns > 0 => D.adjustment = 0)
      /\ D.noted + D.refundDue = Worth(returned[o])
      /\ D.refundDue > 0 => Outstanding(o) = 0 /\ D.returns > 0
  BY <1>1 DEF IInv, OrderInv, Balanced
<1>5. Worth(returned[o]) <= GrandTotal /\ (returned[o] = Quantity => Worth(returned[o]) = GrandTotal)
  BY WorthMonotone DEF IInv, TypeOK, GrandTotal
<1>6. Outstanding(o) = D.amount + D.adjustment - D.noted - Received(o)
  BY <1>2, <1>3 DEF Outstanding, Principal
<1>7. returned[o] = Quantity => D.returns > 0
  BY <1>1, <1>3, Constants DEF IInv, OrderInv, Undone
<1> HIDE DEF D
<1>8. D.refundDue <= Received(o)
  BY <1>2, <1>3, <1>4, <1>5, <1>6
<1>9. returned[o] = Quantity => Outstanding(o) = 0
  BY <1>2, <1>3, <1>4, <1>5, <1>6, <1>7
<1> QED
  BY <1>3, <1>8, <1>9 DEF D

LEMMA Reconciles == IInv => CompensationReconciles
<1> SUFFICES ASSUME IInv PROVE CompensationReconciles
  OBVIOUS
<1>1. GoodsReconcile
  <2>1. ASSUME NEW l \in Lines
        PROVE  onHand[l] + Total([o \in Orders |-> IF order[o].consumed
                                                   THEN Quantity[l] - returned[o][l] ELSE 0])
                 = Quantity[l] * Cardinality(Orders)
    BY DEF IInv, StockReconciles, Out, Kept
  <2>2. ASSUME NEW o \in Orders, \E l \in Lines : returned[o][l] > 0
        PROVE  IF order[o].status = "CANCELLED" THEN ~fulfilment[o].shipment
               ELSE fulfilment[o].shipment /\ fulfilment[o].status \in {"DELIVERED", "RETURNED"}
    <3>1. Followed(o) /\ Undone(o)
      BY DEF IInv, OrderInv
    <3>2. Sold(o)
      BY <2>2, <3>1 DEF Undone
    <3>3. document[o].returns \in Nat
      BY <3>2, DocumentRow, Constants, CreditAssumption DEF Sold, IInv, Document
    <3>4. document[o].returns > 0
      BY <2>2, <3>1, <3>2, <3>3 DEF Undone
    <3>5. fulfilment[o] # NoFulfilment
      BY <3>1, <3>2 DEF Followed
    <3> QED
      BY <3>1, <3>2, <3>4, <3>5 DEF Followed, Undone
  <2> QED
    BY <2>1, <2>2 DEF GoodsReconcile
<1>2. DebtReconciles
  BY DEF IInv, Covered, OrderInv, Balanced, DebtReconciles
<1>3. RefundBacked
  BY SaleFacts DEF IInv, OrderInv, Balanced, RefundBacked
<1>4. ClosedIsSettled
  BY SaleFacts DEF IInv, OrderInv, Followed, Undone, ClosedIsSettled
<1> QED
  BY <1>1, <1>2, <1>3, <1>4 DEF CompensationReconciles

\* Goods, debt and refunds reconcile in whatever order sales, receipts,
\* reversals, corrections, shipments, returns and payouts come: the trigger
\* credit_return_reconcile never refuses what the commands write.
THEOREM SalesReconcile == Spec => []CompensationReconciles
  BY AccountSafe, Reconciles, PTL

-----------------------------------------------------------------------------
(* Goods that leave                                                        *)

Backed ==
    \A o \in Orders :
        /\ ~order[o].consumed /\ order'[o].consumed =>
             \/ order'[o].payment = "PAID"
             \/ account.status = "ACTIVE" /\ Debt' <= account.limit
        /\ fulfilment[o] # NoFulfilment /\ ~fulfilment[o].shipment
           /\ fulfilment'[o].shipment =>
             \/ order[o].status = "PAID" /\ order[o].payment # "REFUNDED"
             \/ order[o].status = "CREDIT_APPROVED" /\ Sold(o) /\ document[o].returns = 0

\* An approval adds the order's price to the debt.
LEMMA ApproveDebt ==
    ASSUME IInv, NEW o \in Orders, Approve(o)
    PROVE  Debt' = Debt + GrandTotal
<1> DEFINE f == [d \in Documents |-> IF d \in Issued THEN Outstanding(d) ELSE 0]
           g == [d \in Documents |-> IF d \in Issued' THEN Outstanding(d)' ELSE 0]
<1>1. /\ GrandTotal \in Nat /\ ~Sold(o) /\ o \in Documents
  BY ApproveFacts, Constants, CreditAssumption
<1>2. Received(o) = 0 /\ \A d \in Documents : Received(d)' = Received(d)
  BY <1>1, NothingReceived, ReceivedStays DEF Issued, Sold, Approve
<1>3. /\ document'[o] = NewDocument(GrandTotal)
      /\ \A d \in Documents : d # o => document'[d] = document[d]
  BY <1>1 DEF Approve, IInv, TypeOK
<1>4. NewDocument(GrandTotal) # NoDocument
  BY ApproveFacts, NewDocumentRow, CreditAssumption
<1>5. Outstanding(o)' = GrandTotal
  BY <1>1, <1>2, <1>3 DEF Outstanding, Principal, NewDocument
<1>6. \A d \in Documents : d # o => Outstanding(d)' = Outstanding(d)
  BY <1>2, <1>3 DEF Outstanding, Principal
<1>7. o \in Issued' /\ o \notin Issued
      /\ \A d \in Documents : d # o => (d \in Issued' <=> d \in Issued)
  BY <1>1, <1>3, <1>4 DEF Issued, Sold
<1>8. \A d \in Documents : d \in Issued => Outstanding(d) \in Nat
  BY DocumentRow DEF IInv, Covered, Issued
<1>9. /\ f \in [Documents -> Nat] /\ g \in [Documents -> Nat] /\ f[o] = 0 /\ g[o] = GrandTotal
      /\ \A d \in Documents : d # o => f[d] = g[d]
  BY <1>1, <1>5, <1>6, <1>7, <1>8
<1>10. Debt = Total(f)
  BY DEF Debt
<1>11. Debt' = Total(g)
  BY DEF Debt
<1> HIDE DEF f, g
<1>12. Total(g) = Total(f) - f[o] + g[o] /\ Total(f) \in Nat
  BY <1>1, <1>9, Constants, TotalChanges, TotalNat
<1> QED
  BY <1>1, <1>9, <1>10, <1>11, <1>12

\* Nothing is taken and nothing leaves.
Quiet(o) ==
    /\ order'[o].consumed = order[o].consumed
    /\ fulfilment[o] # NoFulfilment => fulfilment'[o].shipment = fulfilment[o].shipment

LEMMA QuietBacked ==
    ASSUME \A o \in Orders : Quiet(o)
    PROVE  Backed
  BY DEF Quiet, Backed

LEMMA Rows ==
    ASSUME IInv, NEW o \in Orders
    PROVE  /\ order \in [Orders -> OrderRow] /\ order[o] \in OrderRow
           /\ fulfilment \in [Orders -> FulfilmentRow \cup {NoFulfilment}]
           /\ fulfilment[o] # NoFulfilment => fulfilment[o] \in FulfilmentRow
  BY DEF IInv, TypeOK, FulfilmentTypeOK

\* A step of the fulfilment that neither takes goods nor ships them.
LEMMA PackingBacked ==
    ASSUME IInv, NEW o \in Orders,
           \/ \E to \in {"PARTIALLY_REFUNDED", "REFUNDED"} : Refund(o, to)
           \/ Start(o, SoldOnCredit(o)) \/ Ready(o, SoldOnCredit(o))
           \/ \E l \in Lines : Pick(o, l, SoldOnCredit(o))
           \/ ConfirmDelivery(o)
    PROVE  Backed
<1> SUFFICES ASSUME NEW x \in Orders PROVE Quiet(x)
  BY QuietBacked
<1>1. CASE \E to \in {"PARTIALLY_REFUNDED", "REFUNDED"} : Refund(o, to)
  <2>1. order'[x].consumed = order[x].consumed
    BY <1>1, Rows DEF Refund, OrderRow
  <2>2. fulfilment' = fulfilment
    BY <1>1 DEF Refund
  <2> QED
    BY <2>1, <2>2 DEF Quiet
<1>2. CASE Start(o, SoldOnCredit(o)) \/ Ready(o, SoldOnCredit(o))
           \/ (\E l \in Lines : Pick(o, l, SoldOnCredit(o))) \/ ConfirmDelivery(o)
  <2>1. order' = order
    BY <1>2 DEF Start, Ready, Pick, ConfirmDelivery
  <2>2. fulfilment[o] # NoFulfilment
    BY <1>2 DEF Start, Ready, Pick, ConfirmDelivery, Is
  <2>3. fulfilment'[x].shipment = fulfilment[x].shipment
    <3>1. CASE Start(o, SoldOnCredit(o))
      BY <3>1, <2>2, Rows DEF Start, FulfilmentRow
    <3>2. CASE Ready(o, SoldOnCredit(o))
      BY <3>2, <2>2, Rows DEF Ready, FulfilmentRow
    <3>3. CASE \E l \in Lines : Pick(o, l, SoldOnCredit(o))
      BY <3>3, <2>2, Rows DEF Pick, FulfilmentRow
    <3>4. CASE ConfirmDelivery(o)
      BY <3>4, <2>2, Rows DEF ConfirmDelivery, FulfilmentRow
    <3> QED
      BY <1>2, <3>1, <3>2, <3>3, <3>4
  <2> QED
    BY <2>1, <2>3 DEF Quiet
<1> QED
  BY <1>1, <1>2

\* A payment takes the goods it pays for.
LEMMA SettleBacked ==
    ASSUME IInv, NEW o \in Orders, Settle(o)
    PROVE  Backed
<1>1. ASSUME NEW x \in Orders, x # o PROVE Quiet(x)
  BY <1>1, Rows DEF Settle, Quiet
<1>2. order'[o].payment = "PAID" /\ fulfilment'[o].shipment = FALSE
  BY Rows DEF Settle, NewFulfilment
<1> QED
  BY <1>1, <1>2 DEF Quiet, Backed

\* An approval takes the goods within the limit.
LEMMA ApproveBacked ==
    ASSUME IInv, NEW o \in Orders, Approve(o)
    PROVE  Backed
<1>1. ASSUME NEW x \in Orders, x # o PROVE Quiet(x)
  BY <1>1, Rows DEF Approve, Quiet
<1>2. account.status = "ACTIVE" /\ Debt' <= account.limit
  BY ApproveFacts, ApproveDebt
<1>3. fulfilment'[o].shipment = FALSE
  BY Rows DEF Approve, NewFulfilment
<1> QED
  BY <1>1, <1>2, <1>3 DEF Quiet, Backed

\* A dispatch asks for the proof in its own transaction, and a sale of which
\* goods came back is past its dispatch.
LEMMA DispatchBacked ==
    ASSUME IInv, NEW o \in Orders, Dispatch(o, SoldOnCredit(o))
    PROVE  Backed
<1>1. order' = order
  BY DEF Dispatch
<1>2. ASSUME NEW x \in Orders, x # o PROVE Quiet(x)
  BY <1>1, <1>2, Rows DEF Dispatch, Quiet
<1>3. \/ order[o].status = "PAID" /\ order[o].payment # "REFUNDED"
      \/ order[o].status = "CREDIT_APPROVED" /\ Sold(o) /\ document[o].returns = 0
  <2>1. CASE order[o].status = "PAID" /\ SettledPayment(o)
    BY <2>1 DEF SettledPayment
  <2>2. CASE order[o].status = "CREDIT_APPROVED" /\ SoldOnCredit(o)
    <3>1. Sold(o)
      BY <2>2 DEF SoldOnCredit, Sold
    <3>2. document[o].returns \in Nat
      BY <3>1, DocumentRow, Constants, CreditAssumption DEF Sold, IInv, Document
    <3>3. fulfilment[o].status = "READY_TO_SHIP"
      BY DEF Dispatch, Is
    <3>4. ~(document[o].returns > 0)
      BY <2>2, <3>1, <3>3 DEF IInv, OrderInv, Undone
    <3> QED
      BY <2>2, <3>1, <3>2, <3>4
  <2> QED
    BY <2>1, <2>2 DEF Dispatch, FinancialProof
<1> QED
  BY <1>1, <1>2, <1>3 DEF Quiet, Backed

\* Goods that come back are not taken again and do not leave.
LEMMA CompensateBacked ==
    ASSUME IInv, NEW o \in Orders, NEW units, NEW closed, Compensate(o, units, closed)
    PROVE  Backed
<1> SUFFICES ASSUME NEW x \in Orders PROVE Quiet(x)
  BY QuietBacked
<1>1. order' = [order EXCEPT ![o].status = closed] \/ order' = order
  BY DEF Compensate
<1>2. fulfilment' = [fulfilment EXCEPT ![o].status = closed] \/ fulfilment' = fulfilment
  BY DEF Compensate
<1>3. fulfilment[o] # NoFulfilment
  BY DEF Compensate
<1>4. order'[x].consumed = order[x].consumed
  BY <1>1, Rows DEF OrderRow
<1>5. fulfilment'[x].shipment = fulfilment[x].shipment
  BY <1>2, <1>3, Rows DEF FulfilmentRow
<1> QED
  BY <1>4, <1>5 DEF Quiet

LEMMA NextBacked == IInv /\ [Next]_vars => Backed
<1> SUFFICES ASSUME IInv, [Next]_vars PROVE Backed
  OBVIOUS
<1>1. CASE \E o \in Orders : FulfilmentStep(o, SoldOnCredit(o)) /\ UNCHANGED creditVars
  BY <1>1, SettleBacked, DispatchBacked, PackingBacked DEF FulfilmentStep
<1>2. CASE \E o \in Orders : Approve(o) \/ Cancel(o)
  BY <1>2, ApproveBacked, CompensateBacked DEF Cancel
<1>3. CASE \E o \in Orders, units \in [Lines -> 0..MaxUnits] : Receive(o, units)
  BY <1>3, CompensateBacked DEF Receive
<1>4. CASE UNCHANGED fulfilmentVars
  BY <1>4, QuietBacked DEF fulfilmentVars, Quiet
<1>5. CASE \E status \in {"ACTIVE", "SUSPENDED"}, limit \in Limits : Policy(status, limit)
  BY <1>5, <1>4 DEF Policy, fulfilmentVars
<1>6. CASE \E amount \in Amounts : OpeningBalance(amount)
  BY <1>6, <1>4 DEF OpeningBalance, fulfilmentVars
<1>7. CASE \/ \E r \in ReceiptIds, allocations \in [Documents -> 0..GrandTotal] :
                 RecordReceipt(r, allocations)
           \/ \E r \in ReceiptIds : ReverseReceipt(r)
  BY <1>7, <1>4 DEF RecordReceipt, ReverseReceipt, fulfilmentVars
<1>8. CASE \/ \E d \in Documents, amount \in Amounts : Adjust(d, amount) \/ Adjust(d, -amount)
           \/ \E o \in Orders, amount \in Amounts : Payout(o, amount)
  BY <1>8, <1>4 DEF Adjust, Payout, fulfilmentVars
<1>9. CASE UNCHANGED vars
  BY <1>9, <1>4 DEF vars, fulfilmentVars
<1> QED
  BY <1>1, <1>2, <1>3, <1>5, <1>6, <1>7, <1>8, <1>9 DEF Next

\* Goods are taken only against a payment or within the limit of an active
\* account with the new debt counted, and are dispatched only while the
\* payment is not refunded in full or nothing of the sale has been undone.
THEOREM GoodsBacked == Spec => GoodsLeaveBacked
<1>1. IInv /\ [Next]_vars => [Backed]_vars
  BY NextBacked
<1> QED
  BY <1>1, AccountSafe, PTL DEF Spec, GoodsLeaveBacked, Backed

=============================================================================
