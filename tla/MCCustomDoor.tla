----------------------------- MODULE MCCustomDoor -----------------------------
(* CustomDoor on small instances.                                          *)
EXTENDS CustomDoor, TLC

Symmetry == Permutations(Parts)

=============================================================================
