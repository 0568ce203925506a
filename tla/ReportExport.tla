----------------------------- MODULE ReportExport -----------------------------
(***************************************************************************)
(* Report exports: apps/api/src/modules/reports/report-export-job.service, *)
(* -render.processor and -artifact.store, run by pdf-render-worker.ts.     *)
(*                                                                         *)
(* A request opens a job while the pending capacity lasts.  A worker that  *)
(* is woken claims the oldest job under a lease, captures the report's     *)
(* table once as a snapshot, serialises it and stores the file and the     *)
(* outcome in one transaction.  Leases run out, renders are given up while *)
(* they still run, answers of the database are lost and processes die.     *)
(* Every database transaction takes the capacity row's lock first, so it   *)
(* is one step here.                                                       *)
(*                                                                         *)
(* A wake-up may come at any time: the queue's messages carry no state.    *)
(* The table of a report is the version of the data it was read from.      *)
(* Left out: payload checks, byte budgets (a refused file is a failed      *)
(* attempt), file formats, hashes of the stored bytes, audit rows.         *)
(***************************************************************************)
EXTENDS Integers, FiniteSets

CONSTANTS
    MaxJobs,       \* bound: requests with a key of their own
    Workers,       \* processes that may handle a wake-up at the same time
    MaxAttempts,   \* REPORT_EXPORT_MAX_ATTEMPTS
    MaxPending,    \* maxPendingJobs
    MaxArtifacts,  \* maxArtifacts
    Batch,         \* rows one cleanup deletes from a table
    MaxData,       \* bound: changes of the data the reports read
    NoJob,         \* a job that has not been requested
    NoWork,        \* a worker with no job
    None           \* no snapshot, no file

Jobs == 1..MaxJobs

Data == 0..MaxData

VARIABLES
    enabled,    \* isEnabled of the capacity row
    pending,    \* pendingJobCount
    stored,     \* artifactCount
    job,        \* [Jobs -> the ReportExportJob row or NoJob], by createdAt
    snapshot,   \* [Jobs -> the ReportExportSnapshot row or None]
    artifact,   \* [Jobs -> the ReportExportArtifact row or None]
    worker,     \* [Workers -> the claimed job a worker handles, or NoWork]
    data        \* the data the reports read

vars == <<enabled, pending, stored, job, snapshot, artifact, worker, data>>

capacity == <<enabled, pending, stored>>

-----------------------------------------------------------------------------
(* Types                                                                   *)

\* leaseVersion and attempts are only ever changed together, by one each.
JobRow ==
    [status : {"PENDING", "RUNNING", "READY", "FAILED"},
     attempts : 0..MaxAttempts, lease : {"none", "live", "expired"}]

Snapshot == [table : Data, expired : BOOLEAN]

\* The table in the bytes and the snapshot whose hash the row carries.
Artifact == [table : Data, of : Data, expired : BOOLEAN]

Claim ==
    [job : Jobs, version : 1..MaxAttempts, table : Data,
     step : {"claimed", "captured", "rendered", "overdue", "failed"}]

ASSUME ReportExportAssumption ==
    /\ MaxJobs \in Nat /\ MaxAttempts \in Nat \ {0} /\ MaxPending \in Nat
    /\ MaxArtifacts \in Nat /\ Batch \in Nat \ {0} /\ MaxData \in Nat
    /\ NoJob \notin JobRow /\ NoWork \notin Claim
    /\ None \notin Snapshot /\ None \notin Artifact

TypeOK ==
    /\ enabled \in BOOLEAN
    /\ pending \in 0..MaxPending
    /\ stored \in 0..MaxArtifacts
    /\ job \in [Jobs -> JobRow \cup {NoJob}]
    /\ snapshot \in [Jobs -> Snapshot \cup {None}]
    /\ artifact \in [Jobs -> Artifact \cup {None}]
    /\ worker \in [Workers -> Claim \cup {NoWork}]
    /\ data \in Data

-----------------------------------------------------------------------------
(* Helpers                                                                 *)

Requested(j) == job[j] # NoJob

Is(j, status) == Requested(j) /\ job[j].status = status

Active(j) == Is(j, "PENDING") \/ Is(j, "RUNNING")

At(w, step) == worker[w] # NoWork /\ worker[w].step = step

\* Mutant: a job that has ended may still be written.
HoldsLeaseEnded(id) == job[id.job].attempts = id.version

\* The guard of attemptFailed: an expired lease that nobody has taken over.
HoldsLease(id) == Is(id.job, "RUNNING") /\ job[id.job].attempts = id.version

\* Mutant: whoever held the job once may go on.
CurrentLeaseUnfenced(id) == Is(id.job, "RUNNING")

CurrentLease(id) == HoldsLease(id) /\ job[id.job].lease = "live"

Init ==
    /\ enabled = TRUE
    /\ pending = 0
    /\ stored = 0
    /\ job = [j \in Jobs |-> NoJob]
    /\ snapshot = [j \in Jobs |-> None]
    /\ artifact = [j \in Jobs |-> None]
    /\ worker = [w \in Workers |-> NoWork]
    /\ data = 0

-----------------------------------------------------------------------------
(* Requests                                                                *)

HasRoom == pending < MaxPending

\* A request with a key that was not used before.  A replay only reads the
\* job, and wakes a worker when it is not finished.
Request(j) ==
    /\ ~Requested(j) /\ \A i \in 1..(j - 1) : Requested(i)
    /\ enabled /\ HasRoom
    /\ job' = [job EXCEPT ![j] = [status |-> "PENDING", attempts |-> 0, lease |-> "none"]]
    /\ pending' = pending + 1
    /\ UNCHANGED <<enabled, stored, snapshot, artifact, worker, data>>

\* status: what a poll or a replay says of a job.
Status(j) ==
    CASE Active(j) -> "PENDING"
      [] Is(j, "READY") /\ artifact[j] # None /\ ~artifact[j].expired -> "READY"
      [] OTHER -> "refused"

\* download: the table in the file that the requester gets.
Download(j) == IF Status(j) = "READY" THEN {artifact[j].table} ELSE {}

\* snapshotStaff: the table that the report's page shows.
SnapshotView(j) ==
    IF Status(j) # "refused" /\ snapshot[j] # None /\ ~snapshot[j].expired
    THEN {snapshot[j].table} ELSE {}

-----------------------------------------------------------------------------
(* The worker                                                              *)

\* Mutant: a job whose worker has gone is never taken over.
ClaimablePending(j) == Is(j, "PENDING") /\ job[j].attempts < MaxAttempts

Claimable(j) ==
    \/ Is(j, "PENDING") /\ job[j].attempts < MaxAttempts
    \/ Is(j, "RUNNING") /\ job[j].lease = "expired"

\* Mutant: one attempt too many.
ExhaustedOffByOne(j) == job[j].attempts > MaxAttempts

Exhausted(j) == job[j].attempts >= MaxAttempts

\* The job ends, its lease and its place in the queue are given back.
Close(j, status) ==
    /\ job' = [job EXCEPT ![j].status = status, ![j].lease = "none"]
    /\ pending' = pending - 1

\* Mutant: the place of a job that ran out of attempts is not given back.
TimeOutKeepsSlot(j) ==
    /\ job' = [job EXCEPT ![j].status = "FAILED", ![j].lease = "none"]
    /\ UNCHANGED <<pending, worker>>

\* The recovery of a job that was lost in its last attempt.
TimeOut(j) == Close(j, "FAILED") /\ UNCHANGED worker

Lease(w, j) ==
    /\ job' = [job EXCEPT ![j].status = "RUNNING", ![j].lease = "live", ![j].attempts = @ + 1]
    /\ worker' = [worker EXCEPT ![w] = [job |-> j, version |-> job[j].attempts + 1,
                                        table |-> data, step |-> "claimed"]]
    /\ UNCHANGED pending

\* A wake-up: the oldest job that can be claimed, whatever job it was for.
ClaimOldest(w) ==
    /\ worker[w] = NoWork
    /\ enabled
    /\ \E j \in Jobs :
          /\ Claimable(j) /\ \A i \in 1..(j - 1) : ~Claimable(i)
          /\ IF Exhausted(j) THEN TimeOut(j) ELSE Lease(w, j)
    /\ UNCHANGED <<enabled, stored, snapshot, artifact, data>>

\* What was read is dropped with the attempt.
Fails(w) == worker' = [worker EXCEPT ![w].step = "failed", ![w].table = 0]

\* readSnapshot, and the report's query when there is no snapshot.
ReadSnapshot(w) ==
    /\ At(w, "claimed")
    /\ LET s == snapshot[worker[w].job]
       IN  \/ s = None /\ worker' = [worker EXCEPT ![w].step = "captured", ![w].table = data]
           \/ s # None /\ s.expired /\ Fails(w)
           \/ s # None /\ ~s.expired
                /\ worker' = [worker EXCEPT ![w].step = "rendered", ![w].table = s.table]
    /\ UNCHANGED <<capacity, job, snapshot, artifact, data>>

\* persistSnapshot, and the table that it returns: the first one is kept.
Persist(id, table) ==
    IF snapshot[id.job] = None
    THEN enabled /\ snapshot' = [snapshot EXCEPT ![id.job] = [table |-> table, expired |-> FALSE]]
    ELSE UNCHANGED snapshot

PersistSnapshot(w) ==
    LET id == worker[w]
    IN  /\ At(w, "captured")
        /\ CurrentLease(id)
        /\ Persist(id, id.table)
        /\ worker' = [worker EXCEPT ![w].step = "rendered", ![w].table = snapshot'[id.job].table]
        /\ UNCHANGED <<capacity, job, artifact, data>>

\* The render outlives its timeout: the attempt has failed, the promise runs on.
GiveUp(w) ==
    /\ At(w, "claimed") \/ At(w, "captured")
    /\ worker' = [worker EXCEPT ![w].step = "overdue"]
    /\ UNCHANGED <<capacity, job, snapshot, artifact, data>>

\* It has read the data at some time since it was claimed.  After the failure
\* is recorded it has no lease; when it cannot be recorded nobody reads the
\* job before the lease runs out, so that the snapshot may as well come first.
LatePersist(w) ==
    /\ At(w, "overdue")
    /\ CurrentLease(worker[w])
    /\ \E table \in worker[w].table..data : Persist(worker[w], table)
    /\ Fails(w)
    /\ UNCHANGED <<capacity, job, artifact, data>>

\* Any step of an attempt may throw: a lease that was lost before the
\* snapshot, a report or a file that is refused, a database that is away.
AttemptThrows(w) ==
    /\ At(w, "claimed") \/ At(w, "captured") \/ At(w, "rendered")
    /\ Fails(w)
    /\ UNCHANGED <<capacity, job, snapshot, artifact, data>>

\* completeRender: file, outcome and place in the queue in one transaction.
\* When its answer is lost the worker believes that the attempt has failed.
CompleteRender(w) ==
    LET id == worker[w]
        j == id.job
    IN  /\ At(w, "rendered")
        /\ CurrentLease(id)
        /\ enabled /\ stored < MaxArtifacts
        /\ snapshot[j] # None /\ ~snapshot[j].expired
        /\ artifact' = [artifact EXCEPT ![j] =
                          [table |-> id.table, of |-> snapshot[j].table, expired |-> FALSE]]
        /\ stored' = stored + 1
        /\ Close(j, "READY")
        /\ \/ worker' = [worker EXCEPT ![w] = NoWork]
           \/ Fails(w)
        /\ UNCHANGED <<enabled, snapshot, data>>

\* The answer STALE: another worker has the job, nothing is recorded.
CompleteStale(w) ==
    /\ At(w, "rendered")
    /\ ~CurrentLease(worker[w])
    /\ worker' = [worker EXCEPT ![w] = NoWork]
    /\ UNCHANGED <<capacity, job, snapshot, artifact, data>>

\* attemptFailed: the last attempt closes the job, others give it back.
AttemptFailed(w) ==
    LET id == worker[w]
        j == id.job
    IN  /\ At(w, "failed") \/ At(w, "overdue")
        /\ \/ HoldsLease(id) /\ Exhausted(j) /\ Close(j, "FAILED")
           \/ /\ HoldsLease(id) /\ ~Exhausted(j)
              /\ job' = [job EXCEPT ![j].status = "PENDING", ![j].lease = "none"]
              /\ UNCHANGED pending
           \/ ~HoldsLease(id) /\ UNCHANGED <<job, pending>>
        /\ worker' = [worker EXCEPT ![w] = NoWork]
        /\ UNCHANGED <<enabled, stored, snapshot, artifact, data>>

\* The failure cannot be recorded, or the process dies.
Vanish(w) ==
    /\ worker[w] # NoWork
    /\ worker' = [worker EXCEPT ![w] = NoWork]
    /\ UNCHANGED <<capacity, job, snapshot, artifact, data>>

-----------------------------------------------------------------------------
(* Time, retention and the operator                                        *)

LeaseExpires(j) ==
    /\ Is(j, "RUNNING") /\ job[j].lease = "live"
    /\ job' = [job EXCEPT ![j].lease = "expired"]
    /\ UNCHANGED <<capacity, snapshot, artifact, worker, data>>

\* A file is kept as long as its snapshot.
RetentionEnds(j) ==
    /\ snapshot[j] # None /\ ~snapshot[j].expired
    /\ snapshot' = [snapshot EXCEPT ![j].expired = TRUE]
    /\ artifact' = IF artifact[j] = None THEN artifact
                   ELSE [artifact EXCEPT ![j].expired = TRUE]
    /\ UNCHANGED <<capacity, job, worker, data>>

\* One batch of each table.
Picks(rows, S) ==
    LET expired == {j \in Jobs : rows[j] # None /\ rows[j].expired}
    IN  /\ S \subseteq expired
        /\ S = expired \/ Cardinality(S) = Batch

Deleted(rows, S) == [j \in Jobs |-> IF j \in S THEN None ELSE rows[j]]

CleanupExpired ==
    \E S, T \in SUBSET Jobs :
        /\ Picks(snapshot, S) /\ Picks(artifact, T)
        /\ S \cup T # {}
        /\ snapshot' = Deleted(snapshot, S)
        /\ artifact' = Deleted(artifact, T)
        /\ stored' = stored - Cardinality(T)
        /\ UNCHANGED <<enabled, pending, job, worker, data>>

\* The operator's switch, with the capacity row's next version.
Switch ==
    /\ enabled' = ~enabled
    /\ UNCHANGED <<pending, stored, job, snapshot, artifact, worker, data>>

DataChanges ==
    /\ data < MaxData
    /\ data' = data + 1
    /\ UNCHANGED <<capacity, job, snapshot, artifact, worker>>

-----------------------------------------------------------------------------
(* Specification                                                           *)

WorkerStep(w) ==
    \/ ReadSnapshot(w)
    \/ PersistSnapshot(w)
    \/ GiveUp(w)
    \/ LatePersist(w)
    \/ AttemptThrows(w)
    \/ CompleteRender(w)
    \/ CompleteStale(w)
    \/ AttemptFailed(w)
    \/ Vanish(w)

Next ==
    \/ \E j \in Jobs : Request(j) \/ LeaseExpires(j) \/ RetentionEnds(j)
    \/ \E w \in Workers : ClaimOldest(w) \/ WorkerStep(w)
    \/ CleanupExpired
    \/ Switch
    \/ DataChanges

Spec == Init /\ [][Next]_vars

\* Time passes; every step of an attempt ends, be it in a timeout or with its
\* process, which is restarted; and a worker is woken every few seconds for
\* ever (scheduleDatabaseRecovery), which finds the exports switched on again
\* and again or for good.
FairSpec ==
    /\ Spec
    /\ \A j \in Jobs : WF_vars(LeaseExpires(j))
    /\ \A w \in Workers : WF_vars(ClaimOldest(w)) /\ WF_vars(WorkerStep(w))

-----------------------------------------------------------------------------
(* Properties                                                              *)

\* The counters of the capacity row never drift from the rows they count,
\* whatever leases, lost answers and late workers do: no place in the queue
\* is leaked and none is given away twice.
CountersExact ==
    /\ pending = Cardinality({j \in Jobs : Active(j)})
    /\ stored = Cardinality({j \in Jobs : artifact[j] # None})

\* What the requester downloads is the table that the report's page shows,
\* and what the file says it was made of: retries and workers that lost their
\* lease never mix two readings of the data in one export.
\* A finished export can be downloaded for as long as it is retained.
OneReading ==
    \A j \in Jobs :
        /\ artifact[j] # None => artifact[j].table = artifact[j].of
        /\ \A t \in Download(j), u \in SnapshotView(j) : t = u
        /\ Is(j, "READY") /\ snapshot[j] # None /\ ~snapshot[j].expired => Download(j) # {}

\* The exports keep the promise of a bounded queue: a job is accepted only
\* when there is room and ends once, for good.
Promised == INSTANCE BoundedWork WITH
    Work <- Jobs,
    Capacity <- MaxPending,
    outcome <- [j \in Jobs |-> CASE ~Requested(j) -> "none"
                                 [] Active(j) -> "open"
                                 [] Is(j, "READY") -> "done"
                                 [] OTHER -> "failed"]

KeepsPromise == Promised!Spec

\* Once exports stay switched on no accepted job stays open for ever, without
\* anybody asking again: lost wake-ups, lost workers and exhausted attempts
\* included.
EveryExportEnds ==
    <>[]enabled => \A j \in Jobs : []<>~Active(j)

=============================================================================
