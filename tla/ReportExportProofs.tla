-------------------------- MODULE ReportExportProofs --------------------------
(***************************************************************************)
(* What ReportExport's run checks on a small instance, proved for any      *)
(* number of jobs, workers and attempts and any capacity: the counters are *)
(* exact, an export is one reading of the data, and the exports implement  *)
(* BoundedWork.                                                            *)
(***************************************************************************)
EXTENDS ReportExport, FiniteSetTheorems, TLAPS

-----------------------------------------------------------------------------
(* The inductive invariant                                                 *)

\* The n-th attempt at job j is the one whose lease runs.
Live(j, n) == Is(j, "RUNNING") /\ job[j].attempts = n /\ job[j].lease = "live"

\* Worker w handles the n-th attempt at job j.
Handles(w, j, n) == worker[w] # NoWork /\ worker[w].job = j /\ worker[w].version = n

\* The fence: attempts are numbered and each has one worker.
Fenced ==
    \A w \in Workers, j \in Jobs, n \in 1..MaxAttempts : Handles(w, j, n) =>
        /\ Requested(j) /\ n <= job[j].attempts
        /\ \A v \in Workers : Handles(v, j, n) => v = w

\* What the lease's holder has rendered is what the snapshot says.
Rendered ==
    \A w \in Workers, j \in Jobs, n \in 1..MaxAttempts :
        Handles(w, j, n) /\ worker[w].step = "rendered" /\ Live(j, n) /\ snapshot[j] # None
            => worker[w].table = snapshot[j].table

\* A file belongs to a job that is READY, was made of the job's snapshot and
\* lives as long as it.
Finished ==
    \A j \in Jobs :
        /\ artifact[j] # None => Is(j, "READY") /\ artifact[j].table = artifact[j].of
        /\ artifact[j] # None /\ snapshot[j] # None => artifact[j].table = snapshot[j].table
        /\ Is(j, "READY") /\ snapshot[j] # None /\ ~snapshot[j].expired
             => artifact[j] # None /\ ~artifact[j].expired

IInv == TypeOK /\ CountersExact /\ Fenced /\ Rendered /\ Finished

-----------------------------------------------------------------------------
(* The promise, step by step                                               *)

\* What a job looks like to BoundedWork.
Outcome(j) == CASE ~Requested(j) -> "none"
                [] Active(j) -> "open"
                [] Is(j, "READY") -> "done"
                [] OTHER -> "failed"

Outcomes == [j \in Jobs |-> Outcome(j)]

PromiseStep ==
    \/ Outcomes' = Outcomes
    \/ \E j \in Jobs :
         \/ /\ Outcomes[j] = "none" /\ pending < MaxPending
            /\ Outcomes' = [Outcomes EXCEPT ![j] = "open"]
         \/ /\ Outcomes[j] = "open"
            /\ \E result \in {"done", "failed"} : Outcomes' = [Outcomes EXCEPT ![j] = result]

ActiveJobs == {j \in Jobs : Active(j)}

Files == {j \in Jobs : artifact[j] # None}

LEMMA Counting ==
    /\ CountersExact <=> pending = Cardinality(ActiveJobs) /\ stored = Cardinality(Files)
    /\ CountersExact' <=> pending' = Cardinality(ActiveJobs') /\ stored' = Cardinality(Files')
  BY DEF CountersExact, ActiveJobs, Files

LEMMA SetsFinite ==
    /\ IsFiniteSet(Jobs)
    /\ \A S \in SUBSET Jobs : IsFiniteSet(S) /\ Cardinality(S) \in Nat
<1>1. IsFiniteSet(Jobs)
  BY ReportExportAssumption, FS_Interval DEF Jobs
<1> QED
  BY <1>1, FS_Subset, FS_CardinalityType

\* A set of jobs loses one member, or gains one.
LEMMA OneMore ==
    ASSUME NEW S \in SUBSET Jobs, NEW j \in Jobs, j \notin S
    PROVE  Cardinality(S \cup {j}) = Cardinality(S) + 1
  BY SetsFinite, FS_AddElement

LEMMA OneLess ==
    ASSUME NEW S \in SUBSET Jobs, NEW j \in S
    PROVE  Cardinality(S \ {j}) = Cardinality(S) - 1 /\ Cardinality(S) \in Nat /\ Cardinality(S) > 0
<1>1. IsFiniteSet(S) /\ Cardinality(S) \in Nat /\ Cardinality(S \ {j}) \in Nat
  BY SetsFinite
<1>2. Cardinality(S \ {j}) = Cardinality(S) - 1
  BY <1>1, FS_RemoveElement
<1> QED
  BY <1>1, <1>2

-----------------------------------------------------------------------------
(* What the parts of a step do                                             *)

\* The jobs stay.
LEMMA JobsStay ==
    ASSUME job' = job
    PROVE  /\ Outcomes' = Outcomes /\ ActiveJobs' = ActiveJobs
           /\ \A j \in Jobs : /\ Requested(j)' <=> Requested(j)
                              /\ Is(j, "READY")' <=> Is(j, "READY")
                              /\ \A n \in 1..MaxAttempts : Live(j, n)' <=> Live(j, n)
  BY DEF Outcomes, Outcome, ActiveJobs, Requested, Is, Active, Live

\* No attempt's lease begins, and rows keep their number of attempts.
LeasesEnd ==
    \A j \in Jobs :
        /\ Requested(j) => Requested(j)' /\ job[j].attempts <= job'[j].attempts
        /\ \A n \in 1..MaxAttempts : Live(j, n)' => Live(j, n)

LEMMA LeasesStay ==
    ASSUME TypeOK, job' = job
    PROVE  LeasesEnd
<1>1. ASSUME NEW j \in Jobs, Requested(j) PROVE job[j].attempts <= job[j].attempts
  BY <1>1 DEF TypeOK, JobRow, Requested
<1> QED
  BY <1>1, JobsStay DEF LeasesEnd

\* A worker goes on with its attempt, or drops it.
GoesOn(w, c) ==
    /\ worker[w] # NoWork /\ worker' = [worker EXCEPT ![w] = c]
    /\ \/ c = NoWork
       \/ c \in Claim /\ c.job = worker[w].job /\ c.version = worker[w].version

LEMMA WorkersAfter ==
    ASSUME IInv, NEW w \in Workers, NEW c, GoesOn(w, c)
    PROVE  /\ worker' \in [Workers -> Claim \cup {NoWork}]
           /\ worker'[w] = c /\ \A v \in Workers : v # w => worker'[v] = worker[v]
           /\ \A v \in Workers, j \in Jobs, n \in 1..MaxAttempts : Handles(v, j, n)' => Handles(v, j, n)
<1>1. /\ worker' \in [Workers -> Claim \cup {NoWork}]
      /\ worker'[w] = c /\ \A v \in Workers : v # w => worker'[v] = worker[v]
  BY DEF IInv, TypeOK, GoesOn
<1> QED
  BY <1>1 DEF Handles, GoesOn

LEMMA FencedAfter ==
    ASSUME IInv, TypeOK', LeasesEnd,
           \A v \in Workers, j \in Jobs, n \in 1..MaxAttempts : Handles(v, j, n)' => Handles(v, j, n)
    PROVE  Fenced'
<1> SUFFICES ASSUME NEW w \in Workers, NEW j \in Jobs, NEW n \in 1..MaxAttempts, Handles(w, j, n)'
             PROVE  /\ Requested(j)' /\ n <= job'[j].attempts
                    /\ \A v \in Workers : Handles(v, j, n)' => v = w
  BY DEF Fenced
<1>1. /\ Requested(j) /\ n <= job[j].attempts
      /\ \A v \in Workers : Handles(v, j, n) => v = w
  BY DEF IInv, Fenced
<1>2. Requested(j)' /\ job[j].attempts <= job'[j].attempts
  BY <1>1 DEF LeasesEnd
<1>3. job[j].attempts \in Int /\ job'[j].attempts \in Int
  BY <1>1, <1>2, ReportExportAssumption DEF IInv, TypeOK, Requested, JobRow
<1> QED
  BY <1>1, <1>2, <1>3

\* A snapshot keeps its table while it lasts, or is written by the holder of
\* the lease, worker w.
SnapshotsKept(w) ==
    \A j \in Jobs : snapshot'[j] # None =>
        \/ snapshot[j] # None /\ snapshot'[j].table = snapshot[j].table
        \/ \E n \in 1..MaxAttempts : Handles(w, j, n) /\ Live(j, n)

LEMMA RenderedAfter ==
    ASSUME IInv, NEW w \in Workers, NEW c, GoesOn(w, c), LeasesEnd, SnapshotsKept(w),
           c # NoWork /\ c.step = "rendered" /\ snapshot'[c.job] # None
              => c.table = snapshot'[c.job].table
    PROVE  Rendered'
<1> SUFFICES ASSUME NEW v \in Workers, NEW j \in Jobs, NEW n \in 1..MaxAttempts,
                    Handles(v, j, n)', worker'[v].step = "rendered", Live(j, n)', snapshot'[j] # None
             PROVE  worker'[v].table = snapshot'[j].table
  BY DEF Rendered
<1>1. Handles(v, j, n) /\ Live(j, n) /\ worker'[w] = c /\ (v # w => worker'[v] = worker[v])
  BY WorkersAfter DEF LeasesEnd
<1>2. CASE v = w
  BY <1>1, <1>2 DEF Handles
<1>3. CASE v # w /\ snapshot[j] # None /\ snapshot'[j].table = snapshot[j].table
  BY <1>1, <1>3 DEF IInv, Rendered
<1>4. CASE v # w /\ \E m \in 1..MaxAttempts : Handles(w, j, m) /\ Live(j, m)
  <2>1. Handles(w, j, n)
    BY <1>1, <1>4 DEF Live
  <2> QED
    BY <1>1, <1>4, <2>1 DEF IInv, Fenced
<1> QED
  BY <1>2, <1>3, <1>4 DEF SnapshotsKept

\* No worker moves.
LEMMA WorkersIdle ==
    ASSUME IInv, worker' = worker, LeasesEnd, TypeOK',
           \A j \in Jobs : snapshot'[j] # None =>
              snapshot[j] # None /\ snapshot'[j].table = snapshot[j].table
    PROVE  Fenced' /\ Rendered'
<1>1. \A v \in Workers, j \in Jobs, n \in 1..MaxAttempts : Handles(v, j, n)' <=> Handles(v, j, n)
  BY DEF Handles
<1>2. Fenced'
  BY <1>1, FencedAfter
<1>3. Rendered'
  BY <1>1 DEF IInv, Rendered, LeasesEnd
<1> QED
  BY <1>2, <1>3

\* The row of one job changes.
LEMMA RowAfter ==
    ASSUME IInv, NEW j \in Jobs, Requested(j), NEW row \in JobRow,
           job' = [job EXCEPT ![j] = row], row.attempts = job[j].attempts,
           row.status = "RUNNING" => job[j].status = "RUNNING" /\ row.lease # "live"
    PROVE  /\ job' \in [Jobs -> JobRow \cup {NoJob}] /\ job'[j] = row /\ row # NoJob
           /\ \A i \in Jobs : i # j => job'[i] = job[i]
           /\ LeasesEnd
<1>1. /\ job' \in [Jobs -> JobRow \cup {NoJob}] /\ job'[j] = row /\ row # NoJob
      /\ \A i \in Jobs : i # j => job'[i] = job[i]
  BY ReportExportAssumption DEF IInv, TypeOK
<1>2. ASSUME NEW i \in Jobs, Requested(i)
      PROVE  Requested(i)' /\ job[i].attempts <= job'[i].attempts
  <2>1. job[i] \in JobRow /\ job[i].attempts \in Int
    BY <1>2, ReportExportAssumption DEF IInv, TypeOK, Requested, JobRow
  <2> QED
    BY <1>1, <1>2, <2>1 DEF Requested
<1>3. ASSUME NEW i \in Jobs, NEW n \in 1..MaxAttempts, Live(i, n)' PROVE Live(i, n)
  <2>1. CASE i = j
    BY <2>1, <1>1, <1>3 DEF Live, Is, Requested
  <2>2. CASE i # j
    BY <2>2, <1>1, <1>3 DEF Live, Is, Requested
  <2> QED
    BY <2>1, <2>2
<1> QED
  BY <1>1, <1>2, <1>3 DEF LeasesEnd

\* A job that is open ends: its place in the queue is given back, once.
LEMMA Closing ==
    ASSUME IInv, NEW j \in Jobs, Active(j), NEW status \in {"READY", "FAILED"}, Close(j, status)
    PROVE  /\ job' \in [Jobs -> JobRow \cup {NoJob}] /\ LeasesEnd /\ PromiseStep
           /\ Requested(j)' /\ job'[j].status = status
           /\ \A i \in Jobs : i # j => job'[i] = job[i]
           /\ pending' = Cardinality(ActiveJobs') /\ pending' \in 0..MaxPending
<1> DEFINE row == [job[j] EXCEPT !.status = status, !.lease = "none"]
<1>1. Requested(j) /\ job[j] \in JobRow /\ job' = [job EXCEPT ![j] = row] /\ pending' = pending - 1
  BY DEF Active, Is, Close, Requested, IInv, TypeOK
<1>2. row \in JobRow /\ row.attempts = job[j].attempts /\ row.status = status
  BY <1>1 DEF JobRow
<1> HIDE DEF row
<1>3. /\ job' \in [Jobs -> JobRow \cup {NoJob}] /\ job'[j] = row /\ row # NoJob
      /\ \A i \in Jobs : i # j => job'[i] = job[i]
      /\ LeasesEnd
  BY <1>1, <1>2, RowAfter
<1>4. ActiveJobs' = ActiveJobs \ {j} /\ j \in ActiveJobs
  BY <1>2, <1>3 DEF ActiveJobs, Active, Is, Requested
<1>5. pending' = Cardinality(ActiveJobs') /\ pending' \in 0..MaxPending
  <2>1. ActiveJobs \in SUBSET Jobs /\ pending = Cardinality(ActiveJobs) /\ pending \in 0..MaxPending
    BY Counting DEF ActiveJobs, IInv, TypeOK
  <2>2. Cardinality(ActiveJobs \ {j}) = pending - 1 /\ pending > 0
    BY <2>1, <1>4, OneLess
  <2> QED
    BY <2>1, <2>2, <1>1, <1>4, ReportExportAssumption
<1>6. PromiseStep
  <2> DEFINE result == IF status = "READY" THEN "done" ELSE "failed"
  <2>1. Outcomes[j] = "open"
    <3>1. Outcome(j) = "open"
      BY <1>1 DEF Outcome, Active, Is, Requested
    <3> QED
      BY <3>1 DEF Outcomes
  <2>2. Outcome(j)' = result
    BY <1>2, <1>3 DEF Outcome, Requested, Active, Is
  <2>3. \A i \in Jobs : i # j => Outcome(i)' = Outcome(i)
    BY <1>3 DEF Outcome, Requested, Active, Is
  <2>4. Outcomes' = [Outcomes EXCEPT ![j] = result]
    BY <2>2, <2>3 DEF Outcomes
  <2> QED
    BY <2>1, <2>4 DEF PromiseStep
<1> QED
  BY <1>2, <1>3, <1>5, <1>6 DEF Requested

\* Jobs that keep their outcome.
LEMMA Quiet ==
    ASSUME \A i \in Jobs : /\ Requested(i)' <=> Requested(i)
                           /\ Active(i)' <=> Active(i)
                           /\ Is(i, "READY")' <=> Is(i, "READY")
    PROVE  PromiseStep /\ ActiveJobs' = ActiveJobs
<1>1. \A i \in Jobs : Outcome(i)' = Outcome(i)
  BY DEF Outcome
<1> QED
  BY <1>1 DEF PromiseStep, Outcomes, ActiveJobs

\* The files follow their jobs: a job that is READY stays so with its snapshot.
LEMMA FilesStay ==
    ASSUME IInv, artifact' = artifact,
           \A j \in Jobs : /\ Is(j, "READY") => Is(j, "READY")' /\ snapshot'[j] = snapshot[j]
                           /\ ~Is(j, "READY") => ~Is(j, "READY")'
    PROVE  Finished' /\ Files' = Files
<1>1. Files' = Files
  BY DEF Files
<1>2. Finished'
  BY DEF IInv, Finished
<1> QED
  BY <1>1, <1>2

-----------------------------------------------------------------------------
(* Requests and claims                                                     *)

LEMMA RequestKeeps ==
    ASSUME IInv, NEW j \in Jobs, Request(j)
    PROVE  IInv' /\ PromiseStep
<1> DEFINE row == [status |-> "PENDING", attempts |-> 0, lease |-> "none"]
<1>1. ~Requested(j) /\ pending < MaxPending /\ pending' = pending + 1 /\ job' = [job EXCEPT ![j] = row]
  BY DEF Request, HasRoom
<1>2. UNCHANGED <<enabled, stored, snapshot, artifact, worker, data>>
  BY DEF Request
<1>3. row \in JobRow /\ row.status = "PENDING"
  BY ReportExportAssumption DEF JobRow
<1> HIDE DEF row
<1>4. /\ job' \in [Jobs -> JobRow \cup {NoJob}] /\ job'[j] = row /\ row # NoJob
      /\ \A i \in Jobs : i # j => job'[i] = job[i]
  BY <1>1, <1>3, ReportExportAssumption DEF IInv, TypeOK
<1>5. LeasesEnd
  <2>1. ASSUME NEW i \in Jobs, Requested(i)
        PROVE  Requested(i)' /\ job[i].attempts <= job'[i].attempts
    <3>1. job[i].attempts \in Int /\ i # j
      BY <2>1, <1>1, ReportExportAssumption DEF IInv, TypeOK, Requested, JobRow
    <3> QED
      BY <2>1, <3>1, <1>4 DEF Requested
  <2>2. \A i \in Jobs, n \in 1..MaxAttempts : Live(i, n)' => Live(i, n)
    BY <1>3, <1>4 DEF Live, Is, Requested
  <2> QED
    BY <2>1, <2>2 DEF LeasesEnd
<1>6. TypeOK'
  BY <1>1, <1>2, <1>4, ReportExportAssumption DEF IInv, TypeOK
<1>7. CountersExact'
  <2>1. ActiveJobs' = ActiveJobs \cup {j} /\ j \notin ActiveJobs /\ ActiveJobs \in SUBSET Jobs
    BY <1>1, <1>3, <1>4 DEF ActiveJobs, Active, Is, Requested
  <2>2. pending = Cardinality(ActiveJobs) /\ stored = Cardinality(Files) /\ Files' = Files
    BY <1>2, Counting DEF IInv, Files
  <2> QED
    BY <2>1, <2>2, <1>1, <1>2, OneMore, Counting
<1>8. Fenced' /\ Rendered'
  BY <1>2, <1>5, <1>6, WorkersIdle
<1>9. Finished'
  BY <1>1, <1>2, <1>3, <1>4, FilesStay DEF Is, Requested
<1>10. PromiseStep
  <2>1. Outcomes[j] = "none"
    <3>1. Outcome(j) = "none"
      BY <1>1 DEF Outcome, Active, Is, Requested
    <3> QED
      BY <3>1 DEF Outcomes
  <2>2. Outcome(j)' = "open"
    BY <1>3, <1>4 DEF Outcome, Requested, Active, Is
  <2>3. \A i \in Jobs : i # j => Outcome(i)' = Outcome(i)
    BY <1>4 DEF Outcome, Requested, Active, Is
  <2>4. Outcomes' = [Outcomes EXCEPT ![j] = "open"]
    BY <2>2, <2>3 DEF Outcomes
  <2> QED
    BY <2>1, <2>4, <1>1 DEF PromiseStep
<1> QED
  BY <1>6, <1>7, <1>8, <1>9, <1>10 DEF IInv

\* A job that was lost in its last attempt is given up.
LEMMA TimeOutKeeps ==
    ASSUME IInv, NEW j \in Jobs, Active(j), TimeOut(j),
           UNCHANGED <<enabled, stored, snapshot, artifact, data>>
    PROVE  IInv' /\ PromiseStep
<1>1. Close(j, "FAILED") /\ worker' = worker
  BY DEF TimeOut
<1>2. /\ job' \in [Jobs -> JobRow \cup {NoJob}] /\ LeasesEnd /\ PromiseStep
      /\ Requested(j)' /\ job'[j].status = "FAILED"
      /\ \A i \in Jobs : i # j => job'[i] = job[i]
      /\ pending' = Cardinality(ActiveJobs') /\ pending' \in 0..MaxPending
  BY <1>1, Closing
<1>3. TypeOK'
  BY <1>1, <1>2 DEF IInv, TypeOK
<1>4. Fenced' /\ Rendered'
  BY <1>1, <1>2, <1>3, WorkersIdle
<1>5. Finished' /\ Files' = Files
  BY <1>2, FilesStay DEF Is, Requested, Active
<1>6. CountersExact'
  BY <1>2, <1>5, Counting DEF IInv
<1> QED
  BY <1>2, <1>3, <1>4, <1>5, <1>6 DEF IInv

\* A claim is the next attempt: no other worker has its number, and whoever
\* had the job has lost it.
LEMMA LeaseKeeps ==
    ASSUME IInv, NEW w \in Workers, NEW j \in Jobs, worker[w] = NoWork, Claimable(j), ~Exhausted(j),
           Lease(w, j), UNCHANGED <<enabled, stored, snapshot, artifact, data>>
    PROVE  IInv' /\ PromiseStep
<1> DEFINE n0 == job[j].attempts + 1
           row == [job[j] EXCEPT !.status = "RUNNING", !.lease = "live", !.attempts = n0]
           c == [job |-> j, version |-> n0, table |-> data, step |-> "claimed"]
<1>1. /\ Requested(j) /\ Active(j) /\ job[j] \in JobRow
      /\ job' = [job EXCEPT ![j] = row] /\ worker' = [worker EXCEPT ![w] = c] /\ pending' = pending
  BY DEF Claimable, Active, Is, Requested, IInv, TypeOK, Lease
<1>2. n0 \in 1..MaxAttempts /\ job[j].attempts \in Nat /\ job[j].attempts < n0
  BY <1>1, ReportExportAssumption DEF JobRow, Exhausted
<1> HIDE DEF n0
<1>3. row \in JobRow /\ row.status = "RUNNING" /\ row.attempts = n0 /\ row.lease = "live"
  <2>1. n0 \in 0..MaxAttempts
    BY <1>2, ReportExportAssumption
  <2> QED
    BY <1>1, <2>1 DEF JobRow
<1>4. c \in Claim /\ c.job = j /\ c.version = n0 /\ c.step = "claimed"
  BY <1>2 DEF Claim, IInv, TypeOK
<1> HIDE DEF row, c
<1>5. /\ job' \in [Jobs -> JobRow \cup {NoJob}] /\ job'[j] = row /\ row # NoJob
      /\ \A i \in Jobs : i # j => job'[i] = job[i]
  BY <1>1, <1>3, ReportExportAssumption DEF IInv, TypeOK
<1>6. /\ worker' \in [Workers -> Claim \cup {NoWork}] /\ worker'[w] = c /\ c # NoWork
      /\ \A v \in Workers : v # w => worker'[v] = worker[v]
  BY <1>1, <1>4, ReportExportAssumption DEF IInv, TypeOK
<1>7. TypeOK'
  BY <1>1, <1>5, <1>6 DEF IInv, TypeOK
<1>8. PromiseStep /\ ActiveJobs' = ActiveJobs
  <2>1. \A i \in Jobs : /\ Requested(i)' <=> Requested(i)
                        /\ Active(i)' <=> Active(i)
                        /\ Is(i, "READY")' <=> Is(i, "READY")
    BY <1>1, <1>3, <1>5 DEF Requested, Active, Is
  <2> QED
    BY <2>1, Quiet
<1>9. Finished' /\ Files' = Files
  BY <1>1, <1>3, <1>5, FilesStay DEF Is, Requested, Active
<1>10. CountersExact'
  BY <1>1, <1>8, <1>9, Counting DEF IInv
<1>11. ASSUME NEW v \in Workers, NEW i \in Jobs, NEW n \in 1..MaxAttempts, Handles(v, i, n)'
       PROVE  \/ v = w /\ i = j /\ n = n0
              \/ v # w /\ Handles(v, i, n) /\ (i = j => n < n0)
  <2>1. CASE v = w
    BY <2>1, <1>4, <1>6, <1>11 DEF Handles
  <2>2. CASE v # w
    <3>1. Handles(v, i, n)
      BY <2>2, <1>6, <1>11 DEF Handles
    <3>2. n <= job[i].attempts
      BY <3>1 DEF IInv, Fenced
    <3> QED
      BY <2>2, <3>1, <3>2, <1>2
  <2> QED
    BY <2>1, <2>2
<1>12. Fenced'
  <2> SUFFICES ASSUME NEW v \in Workers, NEW i \in Jobs, NEW n \in 1..MaxAttempts, Handles(v, i, n)'
               PROVE  /\ Requested(i)' /\ n <= job'[i].attempts
                      /\ \A u \in Workers : Handles(u, i, n)' => u = v
    BY DEF Fenced
  <2>1. CASE v = w
    BY <2>1, <1>2, <1>3, <1>5, <1>11 DEF Requested
  <2>2. CASE v # w
    <3>1. Handles(v, i, n) /\ (i = j => n < n0)
      BY <2>2, <1>11
    <3>2. /\ Requested(i) /\ n <= job[i].attempts
          /\ \A u \in Workers : Handles(u, i, n) => u = v
      BY <3>1 DEF IInv, Fenced
    <3>3. n <= job'[i].attempts /\ Requested(i)'
      BY <3>1, <3>2, <1>2, <1>3, <1>5 DEF Requested
    <3> QED
      BY <3>1, <3>2, <3>3, <1>2, <1>11
  <2> QED
    BY <2>1, <2>2
<1>13. Rendered'
  <2> SUFFICES ASSUME NEW v \in Workers, NEW i \in Jobs, NEW n \in 1..MaxAttempts,
                      Handles(v, i, n)', worker'[v].step = "rendered", Live(i, n)', snapshot[i] # None
               PROVE  worker'[v].table = snapshot[i].table
    BY DEF Rendered
  <2>1. v # w /\ Handles(v, i, n) /\ worker'[v] = worker[v]
    BY <1>4, <1>6, <1>11
  <2>2. i # j
    BY <2>1, <1>2, <1>3, <1>5, <1>11 DEF Live
  <2>3. Live(i, n)
    BY <2>2, <1>5 DEF Live, Is, Requested
  <2> QED
    BY <2>1, <2>3 DEF IInv, Rendered
<1> QED
  BY <1>7, <1>8, <1>9, <1>10, <1>12, <1>13 DEF IInv

LEMMA ClaimOldestKeeps ==
    ASSUME IInv, NEW w \in Workers, ClaimOldest(w)
    PROVE  IInv' /\ PromiseStep
<1>1. PICK j \in Jobs : Claimable(j) /\ IF Exhausted(j) THEN TimeOut(j) ELSE Lease(w, j)
  BY DEF ClaimOldest
<1>2. worker[w] = NoWork /\ UNCHANGED <<enabled, stored, snapshot, artifact, data>>
  BY DEF ClaimOldest
<1>3. Active(j)
  BY <1>1 DEF Claimable, Active
<1>4. CASE Exhausted(j)
  BY <1>1, <1>2, <1>3, <1>4, TimeOutKeeps
<1>5. CASE ~Exhausted(j)
  BY <1>1, <1>2, <1>5, LeaseKeeps
<1> QED
  BY <1>4, <1>5

-----------------------------------------------------------------------------
(* The steps of an attempt                                                 *)

Steps == {"claimed", "captured", "rendered", "overdue", "failed"}

Onward(row, step, table) == [row EXCEPT !.step = step, !.table = table]

\* Worker w goes on with its attempt at a step, with a table.
MovesTo(w, step, table) == worker' = [worker EXCEPT ![w] = Onward(worker[w], step, table)]

LEMMA NextStep ==
    ASSUME IInv, NEW w \in Workers, worker[w] # NoWork, NEW step \in Steps, NEW table \in Data,
           MovesTo(w, step, table)
    PROVE  \E c \in Claim : /\ GoesOn(w, c) /\ c.job = worker[w].job
                            /\ c.step = step /\ c.table = table
<1> DEFINE c == Onward(worker[w], step, table)
<1>1. worker[w] \in Claim
  BY DEF IInv, TypeOK
<1>2. /\ c \in Claim /\ c.job = worker[w].job /\ c.version = worker[w].version
      /\ c.step = step /\ c.table = table
  BY <1>1 DEF Claim, Steps, Onward
<1>3. GoesOn(w, c)
  BY <1>2 DEF GoesOn, MovesTo
<1> QED
  BY <1>2, <1>3

LEMMA FailsStep ==
    ASSUME IInv, NEW w \in Workers, worker[w] # NoWork, Fails(w)
    PROVE  \E c \in Claim : GoesOn(w, c) /\ c.step = "failed"
<1>1. 0 \in Data /\ "failed" \in Steps
  BY ReportExportAssumption DEF Data, Steps
<1>2. MovesTo(w, "failed", 0)
  BY DEF Fails, Onward, MovesTo
<1> QED
  BY <1>1, <1>2, NextStep

LEMMA DropsWork ==
    ASSUME NEW w \in Workers, worker[w] # NoWork, worker' = [worker EXCEPT ![w] = NoWork]
    PROVE  GoesOn(w, NoWork)
  BY DEF GoesOn

\* Only the worker moves.
LEMMA WorkerOnlyKeeps ==
    ASSUME IInv, NEW w \in Workers, NEW c, GoesOn(w, c),
           UNCHANGED <<capacity, job, snapshot, artifact, data>>,
           c # NoWork /\ c.step = "rendered" /\ snapshot[c.job] # None => c.table = snapshot[c.job].table
    PROVE  IInv' /\ PromiseStep
<1>1. UNCHANGED <<enabled, pending, stored, job, snapshot, artifact, data>>
  BY DEF capacity
<1>2. TypeOK'
  BY <1>1, WorkersAfter DEF IInv, TypeOK
<1>3. LeasesEnd
  BY <1>1, LeasesStay DEF IInv
<1>4. Fenced'
  BY <1>2, <1>3, FencedAfter, WorkersAfter
<1>5. Rendered'
  BY <1>1, <1>3, RenderedAfter DEF SnapshotsKept
<1>6. Finished' /\ Files' = Files
  BY <1>1, FilesStay, JobsStay
<1>7. CountersExact' /\ PromiseStep
  BY <1>1, <1>6, JobsStay, Counting DEF IInv, PromiseStep
<1> QED
  BY <1>2, <1>4, <1>5, <1>6, <1>7 DEF IInv

LEMMA ReadSnapshotKeeps ==
    ASSUME IInv, NEW w \in Workers, ReadSnapshot(w)
    PROVE  IInv' /\ PromiseStep
<1> DEFINE s == snapshot[worker[w].job]
<1>1. worker[w] # NoWork /\ worker[w] \in Claim /\ worker[w].job \in Jobs
  BY DEF ReadSnapshot, At, IInv, TypeOK, Claim
<1>2. UNCHANGED <<capacity, job, snapshot, artifact, data>>
  BY DEF ReadSnapshot
<1>3. CASE s = None /\ worker' = [worker EXCEPT ![w].step = "captured", ![w].table = data]
  <2>1. data \in Data /\ "captured" \in Steps
    BY DEF IInv, TypeOK, Steps
  <2>2. MovesTo(w, "captured", data)
    BY <1>3 DEF Onward, MovesTo
  <2>3. PICK c \in Claim : GoesOn(w, c) /\ c.step = "captured"
    BY <2>1, <2>2, <1>1, NextStep
  <2> QED
    BY <2>3, <1>2, WorkerOnlyKeeps
<1>4. CASE Fails(w)
  <2>1. PICK c \in Claim : GoesOn(w, c) /\ c.step = "failed"
    BY <1>1, <1>4, FailsStep
  <2> QED
    BY <2>1, <1>2, WorkerOnlyKeeps
<1>5. CASE s # None /\ worker' = [worker EXCEPT ![w].step = "rendered", ![w].table = s.table]
  <2>1. s \in Snapshot
    BY <1>1, <1>5 DEF IInv, TypeOK
  <2>2. s.table \in Data /\ "rendered" \in Steps
    BY <2>1 DEF Snapshot, Steps
  <2>3. MovesTo(w, "rendered", s.table)
    BY <1>5 DEF Onward, MovesTo
  <2>4. PICK c \in Claim : /\ GoesOn(w, c) /\ c.job = worker[w].job
                           /\ c.step = "rendered" /\ c.table = s.table
    BY <2>2, <2>3, <1>1, NextStep
  <2> QED
    BY <2>4, <1>2, WorkerOnlyKeeps
<1> QED
  BY <1>3, <1>4, <1>5 DEF ReadSnapshot

LEMMA GiveUpKeeps ==
    ASSUME IInv, NEW w \in Workers, GiveUp(w)
    PROVE  IInv' /\ PromiseStep
<1> DEFINE c == [worker[w] EXCEPT !.step = "overdue"]
<1>1. worker[w] # NoWork /\ worker[w] \in Claim
  BY DEF GiveUp, At, IInv, TypeOK
<1>2. worker' = [worker EXCEPT ![w] = c] /\ UNCHANGED <<capacity, job, snapshot, artifact, data>>
  BY DEF GiveUp
<1>3. c \in Claim /\ c.job = worker[w].job /\ c.version = worker[w].version /\ c.step = "overdue"
  BY <1>1 DEF Claim
<1> HIDE DEF c
<1>4. GoesOn(w, c)
  BY <1>1, <1>2, <1>3 DEF GoesOn
<1> QED
  BY <1>2, <1>3, <1>4, WorkerOnlyKeeps

LEMMA AttemptThrowsKeeps ==
    ASSUME IInv, NEW w \in Workers, AttemptThrows(w)
    PROVE  IInv' /\ PromiseStep
<1>1. /\ worker[w] # NoWork /\ Fails(w)
      /\ UNCHANGED <<capacity, job, snapshot, artifact, data>>
  BY DEF AttemptThrows, At
<1>2. PICK c \in Claim : GoesOn(w, c) /\ c.step = "failed"
  BY <1>1, FailsStep
<1> QED
  BY <1>1, <1>2, WorkerOnlyKeeps

LEMMA DropKeeps ==
    ASSUME IInv, NEW w \in Workers, CompleteStale(w) \/ Vanish(w)
    PROVE  IInv' /\ PromiseStep
<1>1. /\ worker[w] # NoWork /\ worker' = [worker EXCEPT ![w] = NoWork]
      /\ UNCHANGED <<capacity, job, snapshot, artifact, data>>
  BY DEF CompleteStale, Vanish, At
<1>2. GoesOn(w, NoWork)
  BY <1>1, DropsWork
<1> QED
  BY <1>1, <1>2, WorkerOnlyKeeps

\* The holder of the lease keeps the first table that was read for the job.
LEMMA PersistKeeps ==
    ASSUME IInv, NEW w \in Workers, worker[w] # NoWork, CurrentLease(worker[w]),
           NEW table \in Data, Persist(worker[w], table), NEW c \in Claim, GoesOn(w, c),
           c.step = "rendered" => c.job = worker[w].job /\ c.table = snapshot'[c.job].table,
           UNCHANGED <<capacity, job, artifact, data>>
    PROVE  IInv' /\ PromiseStep
<1> DEFINE j == worker[w].job
           n == worker[w].version
           new == [table |-> table, expired |-> FALSE]
<1>1. worker[w] \in Claim /\ j \in Jobs /\ n \in 1..MaxAttempts
  BY DEF IInv, TypeOK, Claim
<1>2. UNCHANGED <<enabled, pending, stored, job, artifact, data>>
  BY DEF capacity
<1>3. new \in Snapshot
  BY DEF Snapshot
<1>4. Handles(w, j, n) /\ Live(j, n)
  BY DEF Handles, Live, CurrentLease, HoldsLease
<1>5. \/ snapshot' = snapshot
      \/ snapshot[j] = None /\ snapshot' = [snapshot EXCEPT ![j] = new]
  BY DEF Persist
<1> HIDE DEF j, n, new
<1>6. /\ snapshot' \in [Jobs -> Snapshot \cup {None}]
      /\ \A i \in Jobs : i # j => snapshot'[i] = snapshot[i]
      /\ snapshot[j] # None => snapshot'[j] = snapshot[j]
  BY <1>1, <1>3, <1>5 DEF IInv, TypeOK
<1>7. TypeOK'
  BY <1>2, <1>6, WorkersAfter DEF IInv, TypeOK
<1>8. LeasesEnd
  BY <1>2, LeasesStay DEF IInv
<1>9. Fenced'
  BY <1>7, <1>8, FencedAfter, WorkersAfter
<1>10. SnapshotsKept(w)
  BY <1>1, <1>4, <1>6 DEF SnapshotsKept
<1>11. Rendered'
  BY <1>8, <1>10, RenderedAfter
<1>12. ~Is(j, "READY")
  BY <1>4 DEF Live, Is
<1>13. Finished' /\ Files' = Files
  BY <1>2, <1>6, <1>12, FilesStay, JobsStay
<1>14. CountersExact' /\ PromiseStep
  BY <1>2, <1>13, JobsStay, Counting DEF IInv, PromiseStep
<1> QED
  BY <1>7, <1>9, <1>11, <1>13, <1>14 DEF IInv

LEMMA PersistSnapshotKeeps ==
    ASSUME IInv, NEW w \in Workers, PersistSnapshot(w)
    PROVE  IInv' /\ PromiseStep
<1> DEFINE j == worker[w].job
<1>1. /\ worker[w] # NoWork /\ CurrentLease(worker[w]) /\ Persist(worker[w], worker[w].table)
      /\ worker' = [worker EXCEPT ![w].step = "rendered", ![w].table = snapshot'[j].table]
      /\ UNCHANGED <<capacity, job, artifact, data>>
  BY DEF PersistSnapshot, At
<1>2. worker[w] \in Claim /\ j \in Jobs /\ worker[w].table \in Data
  BY <1>1 DEF IInv, TypeOK, Claim
<1>3. snapshot'[j].table \in Data
  <2>1. CASE snapshot[j] = None
    BY <2>1, <1>1, <1>2 DEF Persist, IInv, TypeOK
  <2>2. CASE snapshot[j] # None
    BY <2>2, <1>1, <1>2 DEF Persist, IInv, TypeOK, Snapshot
  <2> QED
    BY <2>1, <2>2
<1>4. PICK c \in Claim : /\ GoesOn(w, c) /\ c.job = j
                         /\ c.step = "rendered" /\ c.table = snapshot'[j].table
  <2>1. PICK t \in Data : t = snapshot'[j].table
    BY <1>3
  <2>2. MovesTo(w, "rendered", t)
    BY <1>1, <2>1 DEF Onward, MovesTo
  <2>3. "rendered" \in Steps
    BY DEF Steps
  <2> QED
    BY <1>1, <2>1, <2>2, <2>3, NextStep
<1> QED
  BY <1>1, <1>2, <1>4, PersistKeeps

LEMMA LatePersistKeeps ==
    ASSUME IInv, NEW w \in Workers, LatePersist(w)
    PROVE  IInv' /\ PromiseStep
<1>1. /\ worker[w] # NoWork /\ CurrentLease(worker[w]) /\ Fails(w)
      /\ UNCHANGED <<capacity, job, artifact, data>>
  BY DEF LatePersist, At
<1>2. PICK table \in worker[w].table..data : Persist(worker[w], table)
  BY DEF LatePersist
<1>3. table \in Data
  <2>1. worker[w].table \in Data /\ data \in Data
    BY <1>1 DEF IInv, TypeOK, Claim
  <2> QED
    BY <2>1, <1>2, ReportExportAssumption DEF Data
<1>4. PICK c \in Claim : GoesOn(w, c) /\ c.step = "failed"
  BY <1>1, FailsStep
<1> QED
  BY <1>1, <1>2, <1>3, <1>4, PersistKeeps

\* The file is made of the snapshot, and the job had none before.
LEMMA CompleteRenderKeeps ==
    ASSUME IInv, NEW w \in Workers, CompleteRender(w)
    PROVE  IInv' /\ PromiseStep
<1>0. worker[w] # NoWork /\ worker[w] \in Claim
  BY DEF CompleteRender, At, IInv, TypeOK
<1> PICK j \in Jobs : j = worker[w].job
  BY <1>0 DEF Claim
<1> PICK n \in 1..MaxAttempts : n = worker[w].version
  BY <1>0 DEF Claim
<1> DEFINE file == [table |-> worker[w].table, of |-> snapshot[j].table, expired |-> FALSE]
<1>1. /\ worker[w] # NoWork /\ worker[w].step = "rendered" /\ CurrentLease(worker[w])
      /\ stored < MaxArtifacts /\ snapshot[j] # None /\ ~snapshot[j].expired
      /\ artifact' = [artifact EXCEPT ![j] = file] /\ stored' = stored + 1
      /\ Close(j, "READY") /\ UNCHANGED <<enabled, snapshot, data>>
  BY DEF CompleteRender, At
<1>2. worker[w].table \in Data
  BY <1>0 DEF Claim
<1>3. Handles(w, j, n) /\ Live(j, n) /\ Active(j) /\ ~Is(j, "READY")
  BY <1>1 DEF Handles, Live, CurrentLease, HoldsLease, Active, Is
<1>4. worker[w].table = snapshot[j].table
  BY <1>1, <1>2, <1>3 DEF IInv, Rendered
<1>5. file \in Artifact /\ file.table = snapshot[j].table /\ file.of = snapshot[j].table /\ ~file.expired
  BY <1>2, <1>4 DEF Artifact
<1> HIDE DEF file
<1>6. artifact[j] = None
  BY <1>2, <1>3 DEF IInv, Finished
<1>7. /\ artifact' \in [Jobs -> Artifact \cup {None}] /\ artifact'[j] = file /\ file # None
      /\ \A i \in Jobs : i # j => artifact'[i] = artifact[i]
  BY <1>1, <1>2, <1>5, ReportExportAssumption DEF IInv, TypeOK
<1>8. /\ job' \in [Jobs -> JobRow \cup {NoJob}] /\ LeasesEnd /\ PromiseStep
      /\ Requested(j)' /\ job'[j].status = "READY"
      /\ \A i \in Jobs : i # j => job'[i] = job[i]
      /\ pending' = Cardinality(ActiveJobs') /\ pending' \in 0..MaxPending
  BY <1>1, <1>2, <1>3, Closing
<1>9. PICK c \in Claim \cup {NoWork} : GoesOn(w, c) /\ (c # NoWork => c.step # "rendered")
  <2>1. CASE worker' = [worker EXCEPT ![w] = NoWork]
    BY <2>1, <1>1, DropsWork
  <2>2. CASE Fails(w)
    BY <2>2, <1>1, FailsStep
  <2> QED
    BY <2>1, <2>2 DEF CompleteRender
<1>10. stored' \in 0..MaxArtifacts
  BY <1>1, ReportExportAssumption DEF IInv, TypeOK
<1>11. TypeOK'
  BY <1>1, <1>7, <1>8, <1>9, <1>10, WorkersAfter DEF IInv, TypeOK
<1>12. Fenced'
  BY <1>8, <1>9, <1>11, FencedAfter, WorkersAfter
<1>13. Rendered'
  BY <1>1, <1>8, <1>9, RenderedAfter DEF SnapshotsKept
<1>14. Finished'
  <2> SUFFICES ASSUME NEW i \in Jobs
               PROVE  /\ artifact'[i] # None => Is(i, "READY")' /\ artifact'[i].table = artifact'[i].of
                      /\ artifact'[i] # None /\ snapshot[i] # None => artifact'[i].table = snapshot[i].table
                      /\ Is(i, "READY")' /\ snapshot[i] # None /\ ~snapshot[i].expired
                           => artifact'[i] # None /\ ~artifact'[i].expired
    BY <1>1 DEF Finished
  <2>1. CASE i = j
    BY <2>1, <1>5, <1>7, <1>8 DEF Is
  <2>2. CASE i # j
    BY <2>2, <1>7, <1>8 DEF IInv, Finished, Is, Requested
  <2> QED
    BY <2>1, <2>2
<1>15. CountersExact'
  <2>1. Files' = Files \cup {j} /\ j \notin Files /\ Files \in SUBSET Jobs
    BY <1>2, <1>6, <1>7 DEF Files
  <2>2. Cardinality(Files') = Cardinality(Files) + 1
    BY <2>1, <1>2, OneMore
  <2> QED
    BY <2>2, <1>1, <1>8, Counting DEF IInv
<1> QED
  BY <1>8, <1>11, <1>12, <1>13, <1>14, <1>15 DEF IInv

LEMMA AttemptFailedKeeps ==
    ASSUME IInv, NEW w \in Workers, AttemptFailed(w)
    PROVE  IInv' /\ PromiseStep
<1>0. worker[w] # NoWork /\ worker[w] \in Claim
  BY DEF AttemptFailed, At, IInv, TypeOK
<1> PICK j \in Jobs : j = worker[w].job
  BY <1>0 DEF Claim
<1>1. /\ worker[w] # NoWork /\ worker' = [worker EXCEPT ![w] = NoWork]
      /\ UNCHANGED <<enabled, stored, snapshot, artifact, data>>
  BY DEF AttemptFailed, At
<1>3. GoesOn(w, NoWork)
  BY <1>1, DropsWork
<1>4. /\ job' \in [Jobs -> JobRow \cup {NoJob}] /\ LeasesEnd /\ PromiseStep
      /\ pending' = Cardinality(ActiveJobs') /\ pending' \in 0..MaxPending
      /\ \A i \in Jobs : Is(i, "READY")' <=> Is(i, "READY")
  <2>1. CASE HoldsLease(worker[w]) /\ Close(j, "FAILED")
    <3>1. Active(j) /\ ~Is(j, "READY")
      BY <2>1 DEF HoldsLease, Active, Is
    <3>2. /\ job' \in [Jobs -> JobRow \cup {NoJob}] /\ LeasesEnd /\ PromiseStep
          /\ Requested(j)' /\ job'[j].status = "FAILED"
          /\ \A i \in Jobs : i # j => job'[i] = job[i]
          /\ pending' = Cardinality(ActiveJobs') /\ pending' \in 0..MaxPending
      BY <2>1, <3>1, Closing
    <3>3. \A i \in Jobs : Is(i, "READY")' <=> Is(i, "READY")
      BY <3>1, <3>2 DEF Is, Requested
    <3> QED
      BY <3>2, <3>3
  <2>2. CASE /\ HoldsLease(worker[w])
             /\ job' = [job EXCEPT ![j].status = "PENDING", ![j].lease = "none"]
             /\ UNCHANGED pending
    <3> DEFINE row == [job[j] EXCEPT !.status = "PENDING", !.lease = "none"]
    <3>1. Requested(j) /\ job[j].status = "RUNNING" /\ job[j] \in JobRow /\ job' = [job EXCEPT ![j] = row]
      BY <2>2 DEF HoldsLease, Is, Requested, IInv, TypeOK
    <3>2. row \in JobRow /\ row.attempts = job[j].attempts /\ row.status = "PENDING"
      BY <3>1 DEF JobRow
    <3> HIDE DEF row
    <3>3. /\ job' \in [Jobs -> JobRow \cup {NoJob}] /\ job'[j] = row /\ row # NoJob
          /\ \A i \in Jobs : i # j => job'[i] = job[i]
          /\ LeasesEnd
      BY <3>1, <3>2, RowAfter
    <3>4. \A i \in Jobs : /\ Requested(i)' <=> Requested(i)
                          /\ Active(i)' <=> Active(i)
                          /\ Is(i, "READY")' <=> Is(i, "READY")
      BY <3>1, <3>2, <3>3 DEF Requested, Active, Is
    <3>5. PromiseStep /\ ActiveJobs' = ActiveJobs
      BY <3>4, Quiet
    <3>6. pending' = Cardinality(ActiveJobs') /\ pending' \in 0..MaxPending
      BY <2>2, <3>5, Counting DEF IInv, TypeOK
    <3> QED
      BY <3>3, <3>4, <3>5, <3>6
  <2>3. CASE UNCHANGED <<job, pending>>
    BY <2>3, JobsStay, LeasesStay, Counting DEF IInv, TypeOK, PromiseStep
  <2> QED
    BY <2>1, <2>2, <2>3 DEF AttemptFailed
<1>5. TypeOK'
  BY <1>1, <1>3, <1>4, WorkersAfter DEF IInv, TypeOK
<1>6. Fenced'
  BY <1>3, <1>4, <1>5, FencedAfter, WorkersAfter
<1>7. Rendered'
  BY <1>1, <1>3, <1>4, RenderedAfter DEF SnapshotsKept
<1>8. Finished' /\ Files' = Files
  BY <1>1, <1>4, FilesStay
<1>9. CountersExact'
  BY <1>1, <1>4, <1>8, Counting DEF IInv
<1> QED
  BY <1>4, <1>5, <1>6, <1>7, <1>8, <1>9 DEF IInv

-----------------------------------------------------------------------------
(* Time, retention and the operator                                        *)

LEMMA LeaseExpiresKeeps ==
    ASSUME IInv, NEW j \in Jobs, LeaseExpires(j)
    PROVE  IInv' /\ PromiseStep
<1> DEFINE row == [job[j] EXCEPT !.lease = "expired"]
<1>1. Requested(j) /\ job[j].status = "RUNNING" /\ job[j] \in JobRow /\ job' = [job EXCEPT ![j] = row]
  BY DEF LeaseExpires, Is, Requested, IInv, TypeOK
<1>2. UNCHANGED <<enabled, pending, stored, snapshot, artifact, worker, data>>
  BY DEF LeaseExpires, capacity
<1>3. /\ row \in JobRow /\ row.attempts = job[j].attempts /\ row.status = "RUNNING"
      /\ row.lease = "expired"
  BY <1>1 DEF JobRow
<1> HIDE DEF row
<1>4. /\ job' \in [Jobs -> JobRow \cup {NoJob}] /\ job'[j] = row /\ row # NoJob
      /\ \A i \in Jobs : i # j => job'[i] = job[i]
      /\ LeasesEnd
  BY <1>1, <1>3, RowAfter
<1>5. \A i \in Jobs : /\ Requested(i)' <=> Requested(i)
                      /\ Active(i)' <=> Active(i)
                      /\ Is(i, "READY")' <=> Is(i, "READY")
  BY <1>1, <1>3, <1>4 DEF Requested, Active, Is
<1>6. PromiseStep /\ ActiveJobs' = ActiveJobs
  BY <1>5, Quiet
<1>7. TypeOK'
  BY <1>2, <1>4 DEF IInv, TypeOK
<1>8. Fenced' /\ Rendered'
  BY <1>2, <1>4, <1>7, WorkersIdle
<1>9. Finished' /\ Files' = Files
  BY <1>2, <1>5, FilesStay
<1>10. CountersExact'
  BY <1>2, <1>6, <1>9, Counting DEF IInv
<1> QED
  BY <1>6, <1>7, <1>8, <1>9, <1>10 DEF IInv

\* A row that has expired keeps its contents.
ExpiredSnapshot(row) == [row EXCEPT !.expired = TRUE]

LEMMA ExpiredRows ==
    /\ \A row \in Snapshot : /\ ExpiredSnapshot(row) \in Snapshot /\ ExpiredSnapshot(row).expired
                             /\ ExpiredSnapshot(row).table = row.table
    /\ \A row \in Artifact : /\ ExpiredSnapshot(row) \in Artifact /\ ExpiredSnapshot(row).expired
                             /\ ExpiredSnapshot(row).table = row.table
                             /\ ExpiredSnapshot(row).of = row.of
<1>1. ASSUME NEW row \in Snapshot
      PROVE  /\ ExpiredSnapshot(row) \in Snapshot /\ ExpiredSnapshot(row).expired
             /\ ExpiredSnapshot(row).table = row.table
  BY DEF Snapshot, ExpiredSnapshot
<1>2. ASSUME NEW row \in Artifact
      PROVE  /\ ExpiredSnapshot(row) \in Artifact /\ ExpiredSnapshot(row).expired
             /\ ExpiredSnapshot(row).table = row.table
             /\ ExpiredSnapshot(row).of = row.of
  BY DEF Artifact, ExpiredSnapshot
<1> QED
  BY <1>1, <1>2

LEMMA RetentionEndsKeeps ==
    ASSUME IInv, NEW j \in Jobs, RetentionEnds(j)
    PROVE  IInv' /\ PromiseStep
<1>1. /\ snapshot[j] # None /\ snapshot[j] \in Snapshot
      /\ snapshot' = [snapshot EXCEPT ![j] = ExpiredSnapshot(snapshot[j])]
  BY DEF RetentionEnds, IInv, TypeOK, ExpiredSnapshot
<1>2. \/ artifact[j] = None /\ artifact' = artifact
      \/ /\ artifact[j] # None /\ artifact[j] \in Artifact
         /\ artifact' = [artifact EXCEPT ![j] = ExpiredSnapshot(artifact[j])]
  BY DEF RetentionEnds, IInv, TypeOK, ExpiredSnapshot
<1>3. UNCHANGED <<enabled, pending, stored, job, worker, data>>
  BY DEF RetentionEnds, capacity
<1>4. /\ snapshot' \in [Jobs -> Snapshot \cup {None}] /\ snapshot'[j] # None
      /\ snapshot'[j].expired /\ snapshot'[j].table = snapshot[j].table
      /\ \A i \in Jobs : i # j => snapshot'[i] = snapshot[i]
  BY <1>1, ExpiredRows, ReportExportAssumption DEF IInv, TypeOK
<1>5. /\ artifact' \in [Jobs -> Artifact \cup {None}] /\ (artifact'[j] # None <=> artifact[j] # None)
      /\ artifact[j] # None => artifact'[j].table = artifact[j].table /\ artifact'[j].of = artifact[j].of
      /\ \A i \in Jobs : i # j => artifact'[i] = artifact[i]
  BY <1>2, ExpiredRows, ReportExportAssumption DEF IInv, TypeOK
<1>6. TypeOK'
  BY <1>3, <1>4, <1>5 DEF IInv, TypeOK
<1>7. LeasesEnd
  BY <1>3, LeasesStay DEF IInv
<1>8. Fenced' /\ Rendered'
  BY <1>1, <1>3, <1>4, <1>6, <1>7, WorkersIdle
<1>9. Finished'
  <2> SUFFICES ASSUME NEW i \in Jobs
               PROVE  /\ artifact'[i] # None => Is(i, "READY") /\ artifact'[i].table = artifact'[i].of
                      /\ artifact'[i] # None /\ snapshot'[i] # None => artifact'[i].table = snapshot'[i].table
                      /\ Is(i, "READY") /\ snapshot'[i] # None /\ ~snapshot'[i].expired
                           => artifact'[i] # None /\ ~artifact'[i].expired
    BY <1>3, JobsStay DEF Finished
  <2>1. CASE i = j
    BY <2>1, <1>1, <1>4, <1>5 DEF IInv, Finished
  <2>2. CASE i # j
    BY <2>2, <1>4, <1>5 DEF IInv, Finished
  <2> QED
    BY <2>1, <2>2
<1>10. Files' = Files
  BY <1>5 DEF Files
<1>11. CountersExact' /\ PromiseStep
  BY <1>3, <1>10, JobsStay, Counting DEF IInv, PromiseStep
<1> QED
  BY <1>6, <1>8, <1>9, <1>11 DEF IInv

\* Only rows that have expired are deleted, and every file is counted down.
LEMMA CleanupExpiredKeeps ==
    ASSUME IInv, CleanupExpired
    PROVE  IInv' /\ PromiseStep
<1>1. PICK S \in SUBSET Jobs, T \in SUBSET Jobs :
         /\ Picks(snapshot, S) /\ Picks(artifact, T)
         /\ snapshot' = Deleted(snapshot, S) /\ artifact' = Deleted(artifact, T)
         /\ stored' = stored - Cardinality(T)
         /\ UNCHANGED <<enabled, pending, job, worker, data>>
  BY DEF CleanupExpired
<1>2. /\ \A j \in S : snapshot[j] # None /\ snapshot[j].expired
      /\ \A j \in T : artifact[j] # None /\ artifact[j].expired
  BY <1>1 DEF Picks
<1>3. /\ snapshot' \in [Jobs -> Snapshot \cup {None}] /\ artifact' \in [Jobs -> Artifact \cup {None}]
      /\ \A j \in Jobs : /\ snapshot'[j] = IF j \in S THEN None ELSE snapshot[j]
                         /\ artifact'[j] = IF j \in T THEN None ELSE artifact[j]
  BY <1>1 DEF Deleted, IInv, TypeOK
<1>4. Files' = Files \ T /\ Files \cap T = T
  BY <1>2, <1>3 DEF Files
<1>5. stored' = Cardinality(Files') /\ stored' \in 0..MaxArtifacts
  <2>1. /\ IsFiniteSet(Files) /\ Cardinality(Files) \in Nat /\ Cardinality(Files \ T) \in Nat
        /\ Cardinality(T) \in Nat
    <3>1. Files \in SUBSET Jobs /\ Files \ T \in SUBSET Jobs
      BY DEF Files
    <3> QED
      BY <3>1, <1>1, SetsFinite
  <2>2. Cardinality(Files \ T) = Cardinality(Files) - Cardinality(T)
    BY <2>1, <1>4, FS_Difference
  <2>3. stored = Cardinality(Files) /\ stored \in 0..MaxArtifacts
    BY Counting DEF IInv, TypeOK
  <2> QED
    BY <2>1, <2>2, <2>3, <1>1, <1>4, ReportExportAssumption
<1>6. TypeOK'
  BY <1>1, <1>3, <1>5 DEF IInv, TypeOK
<1>7. LeasesEnd
  BY <1>1, LeasesStay DEF IInv
<1>8. Fenced' /\ Rendered'
  BY <1>1, <1>3, <1>6, <1>7, WorkersIdle
<1>9. Finished'
  <2> SUFFICES ASSUME NEW i \in Jobs
               PROVE  /\ artifact'[i] # None => Is(i, "READY") /\ artifact'[i].table = artifact'[i].of
                      /\ artifact'[i] # None /\ snapshot'[i] # None => artifact'[i].table = snapshot'[i].table
                      /\ Is(i, "READY") /\ snapshot'[i] # None /\ ~snapshot'[i].expired
                           => artifact'[i] # None /\ ~artifact'[i].expired
    BY <1>1, JobsStay DEF Finished
  <2> QED
    BY <1>2, <1>3 DEF IInv, Finished
<1>10. CountersExact' /\ PromiseStep
  BY <1>1, <1>5, JobsStay, Counting DEF IInv, PromiseStep
<1> QED
  BY <1>6, <1>8, <1>9, <1>10 DEF IInv

\* The switch and the data the reports read.
LEMMA IdleKeeps ==
    ASSUME IInv, UNCHANGED <<pending, stored, job, snapshot, artifact, worker>>,
           enabled' \in BOOLEAN, data' \in Data
    PROVE  IInv' /\ PromiseStep
<1>1. TypeOK'
  BY DEF IInv, TypeOK
<1>2. LeasesEnd
  BY LeasesStay DEF IInv
<1>3. Fenced' /\ Rendered'
  BY <1>1, <1>2, WorkersIdle
<1>4. Finished' /\ Files' = Files
  BY FilesStay, JobsStay
<1>5. CountersExact' /\ PromiseStep
  BY <1>4, JobsStay, Counting DEF IInv, PromiseStep
<1> QED
  BY <1>1, <1>3, <1>4, <1>5 DEF IInv

LEMMA OthersKeep ==
    ASSUME IInv, Switch \/ DataChanges \/ UNCHANGED vars
    PROVE  IInv' /\ PromiseStep
<1>1. UNCHANGED <<pending, stored, job, snapshot, artifact, worker>>
  BY DEF Switch, DataChanges, vars, capacity
<1>2. enabled' \in BOOLEAN
  BY DEF Switch, DataChanges, vars, capacity, IInv, TypeOK
<1>3. data' \in Data
  BY ReportExportAssumption DEF Switch, DataChanges, vars, capacity, IInv, TypeOK, Data
<1> QED
  BY <1>1, <1>2, <1>3, IdleKeeps

-----------------------------------------------------------------------------
(* The theorems                                                            *)

\* Without jobs the invariant holds.
THEOREM InitIInv == Init => IInv
<1> SUFFICES ASSUME Init PROVE IInv
  OBVIOUS
<1>1. TypeOK
  BY ReportExportAssumption DEF Init, TypeOK, Data
<1>2. ActiveJobs = {} /\ Files = {}
  BY DEF Init, ActiveJobs, Files, Active, Is, Requested
<1>3. CountersExact
  BY <1>2, Counting, FS_EmptySet DEF Init
<1>4. Fenced /\ Rendered
  BY DEF Init, Fenced, Rendered, Handles
<1>5. Finished
  BY DEF Init, Finished, Is, Requested
<1> QED
  BY <1>1, <1>3, <1>4, <1>5 DEF IInv

LEMMA NextPreserves ==
    ASSUME IInv, [Next]_vars
    PROVE  IInv' /\ PromiseStep
<1>1. CASE \E w \in Workers : WorkerStep(w)
  BY <1>1, ReadSnapshotKeeps, PersistSnapshotKeeps, GiveUpKeeps, LatePersistKeeps,
     AttemptThrowsKeeps, CompleteRenderKeeps, DropKeeps, AttemptFailedKeeps DEF WorkerStep
<1> QED
  BY <1>1, RequestKeeps, LeaseExpiresKeeps, RetentionEndsKeeps, ClaimOldestKeeps,
     CleanupExpiredKeeps, OthersKeep DEF Next

\* Every step of a request, a worker, time and the operator keeps the
\* invariant.
THEOREM NextIInv == IInv /\ [Next]_vars => IInv'
  BY NextPreserves

\* The counters stay within the capacity row's bounds, and the rows have
\* their types.
THEOREM ExportsTyped == Spec => []TypeOK
<1>1. IInv => TypeOK
  BY DEF IInv
<1> QED
  BY InitIInv, NextIInv, <1>1, PTL DEF Spec

\* No place in the queue or the store is leaked or given away twice.
THEOREM CountersNeverDrift == Spec => []CountersExact
<1>1. IInv => CountersExact
  BY DEF IInv
<1> QED
  BY InitIInv, NextIInv, <1>1, PTL DEF Spec

\* What is downloaded is what the page shows and what the file says it was
\* made of, and a finished export can be downloaded while it is retained.
THEOREM ExportsReadOnce == Spec => []OneReading
<1>1. ASSUME IInv PROVE OneReading
  <2> SUFFICES ASSUME NEW j \in Jobs
               PROVE  /\ artifact[j] # None => artifact[j].table = artifact[j].of
                      /\ \A t \in Download(j), u \in SnapshotView(j) : t = u
                      /\ Is(j, "READY") /\ snapshot[j] # None /\ ~snapshot[j].expired => Download(j) # {}
    BY DEF OneReading
  <2>1. /\ artifact[j] # None => Is(j, "READY") /\ artifact[j].table = artifact[j].of
        /\ artifact[j] # None /\ snapshot[j] # None => artifact[j].table = snapshot[j].table
        /\ Is(j, "READY") /\ snapshot[j] # None /\ ~snapshot[j].expired
             => artifact[j] # None /\ ~artifact[j].expired
    BY <1>1 DEF IInv, Finished
  <2>2. Is(j, "READY") => ~Active(j)
    BY DEF Active, Is
  <2>3. Status(j) = "READY" => Is(j, "READY") /\ artifact[j] # None
    BY DEF Status
  <2>4. Is(j, "READY") /\ artifact[j] # None /\ ~artifact[j].expired => Status(j) = "READY"
    BY <2>2 DEF Status
  <2> QED
    BY <2>1, <2>3, <2>4 DEF Download, SnapshotView
<1> QED
  BY InitIInv, NextIInv, <1>1, PTL DEF Spec

\* The exports implement the bounded queue: every step accepts a job while
\* there is room, ends one that is open, or changes no outcome.
THEOREM ExportsKeepPromise == Spec => KeepsPromise
<1>1. Init => Promised!Init
  <2> SUFFICES ASSUME Init PROVE Promised!Init
    OBVIOUS
  <2>1. \A j \in Jobs : ~Requested(j) /\ ~Active(j) /\ ~Is(j, "READY")
    BY DEF Init, Requested, Active, Is
  <2> QED
    BY <2>1 DEF Promised!Init
<1>2. IInv /\ PromiseStep => [Promised!Next]_Outcomes
  <2> SUFFICES ASSUME IInv, PromiseStep, Outcomes' # Outcomes
               PROVE  Promised!Next
    OBVIOUS
  <2>1. pending = Cardinality(Promised!Open)
    <3>1. Promised!Open = ActiveJobs
      BY DEF Promised!Open, ActiveJobs, Active, Is, Requested
    <3> QED
      BY <3>1, Counting DEF IInv
  <2>2. \A S : Promised!Cardinality(S) = Cardinality(S)
    BY Zenon DEF Promised!Cardinality, Cardinality
  <2>3. pending = Promised!Cardinality(Promised!Open)
    BY <2>1, <2>2
  <2>4. ASSUME NEW j \in Jobs, Outcomes[j] = "none", pending < MaxPending,
               Outcomes' = [Outcomes EXCEPT ![j] = "open"]
        PROVE  Promised!Accept(j)
    BY <2>3, <2>4, Zenon DEF Outcomes, Outcome, Promised!Accept
  <2>5. ASSUME NEW j \in Jobs, NEW result \in {"done", "failed"}, Outcomes[j] = "open",
               Outcomes' = [Outcomes EXCEPT ![j] = result]
        PROVE  Promised!Settle(j, result)
    BY <2>5, Zenon DEF Outcomes, Outcome, Promised!Settle
  <2> QED
    BY <2>4, <2>5 DEF PromiseStep, Promised!Next
<1>3. [Promised!Next]_Outcomes => [Promised!Next]_[j \in Jobs |->
                              CASE ~Requested(j) -> "none"
                                [] Active(j) -> "open"
                                [] Is(j, "READY") -> "done"
                                [] OTHER -> "failed"]
  BY DEF Outcomes, Outcome
<1>4. IInv /\ [Next]_vars => PromiseStep
  BY NextPreserves
<1> QED
  BY InitIInv, NextIInv, <1>1, <1>2, <1>3, <1>4, PTL DEF Spec, KeepsPromise, Promised!Spec

=============================================================================
