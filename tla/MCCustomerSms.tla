----------------------------- MODULE MCCustomerSms -----------------------------
(* CustomerSms on a small instance.                                        *)
EXTENDS CustomerSms, TLC

CONSTANT verified

MCTopicOf == [e \in Events |-> "VERIFIED"]

=============================================================================
