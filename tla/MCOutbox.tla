------------------------------- MODULE MCOutbox -------------------------------
(* Outbox on small instances.                                              *)
EXTENDS Outbox, TLC

CONSTANTS unconfirmed, verified, failed

\* An event of its own topic each.
MCTopicOf ==
    [e \in Events |-> CASE e = unconfirmed -> "UNCONFIRMED"
                       [] e = verified -> "VERIFIED"
                       [] e = failed -> "FAILED"]

=============================================================================
