----------------------------- MODULE MCAuthSession -----------------------------
(* AuthSession on small instances.                                         *)
EXTENDS AuthSession

=============================================================================
