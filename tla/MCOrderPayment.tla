---------------------------- MODULE MCOrderPayment ----------------------------
(* OrderPayment on small instances.                                        *)
EXTENDS OrderPayment, TLC

Symmetry ==
    Permutations(Payments) \cup Permutations(Callers) \cup Permutations(Orders \ StaffOrders)

=============================================================================
