--------------------------- MODULE MCAdvisoryLocks ---------------------------
(* One order of two lines: variant 1 lies at location 2, variant 2 at 1.   *)
EXTENDS AdvisoryLocks

MCReservationsOf == [o \in Orders |-> << <<2, 1>>, <<1, 2>> >>]

=============================================================================
