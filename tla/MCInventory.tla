---------------------------- MODULE MCInventory ----------------------------
(* Inventory on small instances; every shelf is at one location.             *)
EXTENDS Inventory, TLC

CONSTANT l1

MCLocationOf == [k \in StockKeys |-> l1]

Symmetry == Permutations(ReservationIds) \cup Permutations(StockKeys)

=============================================================================
