----------------------------- MODULE MCCreditSale -----------------------------
(* CreditSale on small instances.                                          *)
EXTENDS CreditSale, TLC

CONSTANTS good, gift

\* Two units that cost something and one that is free.
MCQuantity == good :> 2 @@ gift :> 1
MCPrice == good :> 1 @@ gift :> 0

Symmetry == Permutations(Orders)

=============================================================================
