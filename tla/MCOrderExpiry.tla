----------------------------- MODULE MCOrderExpiry -----------------------------
(* OrderExpiry on small instances.                                         *)
EXTENDS OrderExpiry
=============================================================================
