----------------------------- MODULE BoundedWork -----------------------------
(***************************************************************************)
(* What a bounded queue of background work promises, whatever the workers, *)
(* leases and retries behind it do: work is accepted only while fewer than *)
(* Capacity pieces are open, and every piece that is accepted is settled   *)
(* at most once, for good.  The capacity rows "ReportExportStorageCapacity"*)
(* and "InvoicePdfStorageCapacity" exist to keep this promise.             *)
(***************************************************************************)
EXTENDS Integers, FiniteSets

CONSTANTS
    Work,      \* pieces of work
    Capacity   \* maxPendingJobs

VARIABLES
    outcome    \* [Work -> what has become of it]

Init == outcome = [w \in Work |-> "none"]

Open == {w \in Work : outcome[w] = "open"}

Accept(w) ==
    /\ outcome[w] = "none"
    /\ Cardinality(Open) < Capacity
    /\ outcome' = [outcome EXCEPT ![w] = "open"]

Settle(w, result) ==
    /\ outcome[w] = "open"
    /\ outcome' = [outcome EXCEPT ![w] = result]

Next ==
    \E w \in Work :
        \/ Accept(w)
        \/ \E result \in {"done", "failed"} : Settle(w, result)

Spec == Init /\ [][Next]_outcome

=============================================================================
