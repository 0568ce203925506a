-------------------------------- MODULE Outbox --------------------------------
(***************************************************************************)
(* The transactional outbox: apps/api/src/modules/outbox and its worker in *)
(* apps/api/src/media-worker.ts.                                           *)
(*                                                                         *)
(* A business transaction writes an event row.  A relay pass claims rows   *)
(* under a lease, puts a job with the event's id on the queue and marks    *)
(* the row published; a queue worker consumes the job: it projects the     *)
(* event to one effect row and acknowledges it, in one READ COMMITTED      *)
(* transaction whose statements see what others have committed meanwhile.  *)
(* An operator may replay a dead or stranded event.  Database, queue and   *)
(* processes fail independently between any two steps.                     *)
(*                                                                         *)
(* All events here are about one payment.  A row in the hands of a relay   *)
(* pass is one member of Relays: a pass handles its rows one by one, and a *)
(* row that waits for its turn is a slow holder.  Left out: in-app         *)
(* notifications, error codes, audit rows, malformed topics.               *)
(***************************************************************************)
EXTENDS Integers

CONSTANTS
    Events,        \* the events that may be written
    TopicOf,       \* their topics
    Relays,        \* rows that relay passes handle at the same time
    Workers,       \* concurrent jobs of the queue worker
    MaxAttempts,   \* MAX_ATTEMPTS of the relay
    JobAttempts,   \* attempts of a job
    MaxStalls,     \* how often the queue restarts a job whose worker is gone
    MaxFaults,     \* bound: deaths of processes and outrun leases and locks
    MaxReplays,    \* bound: replays by the operator
    NoEvent,       \* an event that has not been written
    NoClaim,       \* a relay with no row
    NoTxn,         \* a worker with no job
    NoReplay       \* no replay under way

Topics == {"UNCONFIRMED", "VERIFIED", "FAILED"}

VARIABLES
    payment,   \* the status of the payment
    event,     \* [Events -> the OutboxEvent row or NoEvent]
    effect,    \* [Events -> the committed OutboxEffect row's status, or "none";
               \* FAILED is written by the delivery of messages, CustomerSms]
    claim,     \* [Relays -> the row a relay pass handles, or NoClaim]
    job,       \* [Events -> the queue's job with the event's id]
    consumer,  \* [Workers -> the job a worker processes, or NoTxn]
    replay,    \* the replay under way, or NoReplay
    replays,   \* replays so far
    faults     \* faults so far

vars == <<payment, event, effect, claim, job, consumer, replay, replays, faults>>

-----------------------------------------------------------------------------
(* Types                                                                   *)

EventRow ==
    [attempts : 0..(MaxAttempts + MaxFaults), available : BOOLEAN,
     published : BOOLEAN, deadLettered : BOOLEAN,
     consumed : BOOLEAN, processingDead : BOOLEAN]

Claim ==
    [event : Events, attempts : 1..(MaxAttempts + MaxFaults),
     step : {"claimed", "queued", "refused"}]

Job ==
    [state : {"none", "waiting", "active", "completed", "failed"},
     made : 0..JobAttempts, stalls : 0..MaxStalls, owner : Workers \cup {NoTxn}]

Consumer ==
    [event : Events, made : 0..JobAttempts,
     step : {"reading", "project", "projected", "rechecked", "acked", "thrown", "recorded"},
     status : {"PENDING", "COMPLETED"}, closes : SUBSET Events]

Replay == [event : Events, step : {"read", "cleared"}]

ASSUME OutboxAssumption ==
    /\ TopicOf \in [Events -> Topics]
    /\ MaxAttempts \in Nat \ {0} /\ JobAttempts \in Nat \ {0}
    /\ MaxStalls \in Nat /\ MaxFaults \in Nat /\ MaxReplays \in Nat
    /\ NoEvent \notin EventRow /\ NoClaim \notin Claim
    /\ NoTxn \notin Consumer /\ NoReplay \notin Replay

TypeOK ==
    /\ payment \in {"PENDING", "PAID", "FAILED"}
    /\ event \in [Events -> EventRow \cup {NoEvent}]
    /\ effect \in [Events -> {"none", "PENDING", "COMPLETED", "FAILED"}]
    /\ claim \in [Relays -> Claim \cup {NoClaim}]
    /\ job \in [Events -> Job]
    /\ consumer \in [Workers -> Consumer \cup {NoTxn}]
    /\ replay \in Replay \cup {NoReplay}
    /\ replays \in 0..MaxReplays
    /\ faults \in 0..MaxFaults

-----------------------------------------------------------------------------
(* Helpers                                                                 *)

Written(e) == event[e] # NoEvent

\* The effects that ask operations to find out what became of a payment.
IsReconciliation(e) == TopicOf[e] \in {"UNCONFIRMED", "FAILED"}

\* SETTLED_PAYMENT_TOPICS
IsSettled(e) == TopicOf[e] \in {"VERIFIED", "FAILED"}

NoJob == [state |-> "none", made |-> 0, stalls |-> 0, owner |-> NoTxn]

Fault == faults < MaxFaults /\ faults' = faults + 1

Init ==
    /\ payment = "PENDING"
    /\ event = [e \in Events |-> NoEvent]
    /\ effect = [e \in Events |-> "none"]
    /\ claim = [w \in Relays |-> NoClaim]
    /\ job = [e \in Events |-> NoJob]
    /\ consumer = [c \in Workers |-> NoTxn]
    /\ replay = NoReplay
    /\ replays = 0
    /\ faults = 0

\* An unconfirmed verification, or a settlement, writes its event in its own
\* transaction; a payment is settled once.
Emit(e) ==
    /\ ~Written(e)
    /\ payment = "PENDING"
    /\ payment' = CASE TopicOf[e] = "UNCONFIRMED" -> "PENDING"
                    [] TopicOf[e] = "VERIFIED" -> "PAID"
                    [] TopicOf[e] = "FAILED" -> "FAILED"
    /\ event' = [event EXCEPT ![e] =
                   [attempts |-> 0, available |-> TRUE, published |-> FALSE,
                    deadLettered |-> FALSE, consumed |-> FALSE, processingDead |-> FALSE]]
    /\ UNCHANGED <<effect, claim, job, consumer, replay, replays, faults>>

-----------------------------------------------------------------------------
(* The relay                                                               *)

\* Mutant: only rows that were never tried are picked.
DueFirstTime(e) ==
    /\ Written(e) /\ event[e].available /\ event[e].attempts = 0
    /\ ~event[e].published /\ ~event[e].deadLettered

\* The rows that FOR UPDATE SKIP LOCKED picks.
Due(e) ==
    /\ Written(e) /\ event[e].available
    /\ ~event[e].published /\ ~event[e].deadLettered

\* The claim counts the attempt and takes a lease of 60 seconds.
ClaimEvent(w, e) ==
    /\ claim[w] = NoClaim
    /\ Due(e)
    /\ event' = [event EXCEPT ![e].attempts = @ + 1, ![e].available = FALSE]
    /\ claim' = [claim EXCEPT ![w] = [event |-> e, attempts |-> event[e].attempts + 1,
                                      step |-> "claimed"]]
    /\ UNCHANGED <<payment, effect, job, consumer, replay, replays, faults>>

At(w, step) == claim[w] # NoClaim /\ claim[w].step = step

\* queue.add: a job id that exists already, a finished one too, is not added
\* again.  The queue may have taken a job whose answer is lost.
Enqueue(w) ==
    /\ At(w, "claimed")
    /\ \E added \in BOOLEAN, step \in {"queued", "refused"} :
          /\ step = "queued" => added
          /\ job' = [job EXCEPT ![claim[w].event] =
                       IF added /\ @.state = "none"
                       THEN [NoJob EXCEPT !.state = "waiting"] ELSE @]
          /\ claim' = [claim EXCEPT ![w].step = step]
    /\ UNCHANGED <<payment, event, effect, consumer, replay, replays, faults>>

\* Mutant: the pass does not check that the row is still its own.
OwnedAlways(w) == claim[w] # NoClaim

\* The update is fenced by the attempt that the pass has claimed.
Owned(w) ==
    LET e == claim[w].event
    IN  /\ event[e].attempts = claim[w].attempts
        /\ ~event[e].published /\ ~event[e].deadLettered

MarkPublished(w) ==
    /\ At(w, "queued")
    /\ event' = IF Owned(w)
                THEN [event EXCEPT ![claim[w].event].published = TRUE] ELSE event
    /\ claim' = [claim EXCEPT ![w] = NoClaim]
    /\ UNCHANGED <<payment, effect, job, consumer, replay, replays, faults>>

\* The update throws, in the same try block as the queue's answer.
PublishFails(w) ==
    /\ At(w, "queued")
    /\ claim' = [claim EXCEPT ![w].step = "refused"]
    /\ UNCHANGED <<payment, event, effect, job, consumer, replay, replays, faults>>

\* Mutant: one attempt too many.
TerminalOffByOne(attempts) == attempts > MaxAttempts

Terminal(attempts) == attempts >= MaxAttempts

\* The row waits for its backoff, or is given up.
RecordRelayFailure(w) ==
    LET e == claim[w].event
    IN  /\ At(w, "refused")
        /\ event' = IF Owned(w)
                    THEN [event EXCEPT ![e].available = FALSE,
                                       ![e].deadLettered = Terminal(claim[w].attempts)]
                    ELSE event
        /\ claim' = [claim EXCEPT ![w] = NoClaim]
        /\ UNCHANGED <<payment, effect, job, consumer, replay, replays, faults>>

\* The process dies, or the pass fails, with a row in hand.
LoseClaim(w) ==
    /\ claim[w] # NoClaim
    /\ Fault
    /\ claim' = [claim EXCEPT ![w] = NoClaim]
    /\ UNCHANGED <<payment, event, effect, job, consumer, replay, replays>>

Held(e) ==
    \E w \in Relays : claim[w] # NoClaim /\ claim[w].event = e
                      /\ claim[w].attempts = event[e].attempts

\* The lease or the backoff is over; a holder slower than its lease is a fault.
BecomesAvailable(e) ==
    /\ Written(e) /\ ~event[e].available
    /\ ~event[e].published /\ ~event[e].deadLettered
    /\ IF Held(e) THEN Fault ELSE UNCHANGED faults
    /\ event' = [event EXCEPT ![e].available = TRUE]
    /\ UNCHANGED <<payment, effect, claim, job, consumer, replay, replays>>

-----------------------------------------------------------------------------
(* The queue and its worker                                                *)

TakeJob(c, e) ==
    /\ consumer[c] = NoTxn
    /\ job[e].state = "waiting"
    /\ job' = [job EXCEPT ![e].state = "active", ![e].owner = c]
    /\ consumer' = [consumer EXCEPT ![c] =
                      [event |-> e, made |-> job[e].made, step |-> "reading",
                       status |-> "PENDING", closes |-> {}]]
    /\ UNCHANGED <<payment, event, effect, claim, replay, replays, faults>>

Does(c, step) == consumer[c] # NoTxn /\ consumer[c].step = step

\* A consumed event is acknowledged again and nothing else.
ReadEvent(c) ==
    /\ Does(c, "reading")
    /\ consumer' = [consumer EXCEPT ![c].step =
                      IF event[consumer[c].event].consumed THEN "acked" ELSE "project"]
    /\ UNCHANGED <<payment, event, effect, claim, job, replay, replays, faults>>

\* closeReconciliation sees the effects that are committed.
OpenReconciliations == {e \in Events : IsReconciliation(e) /\ effect[e] = "PENDING"}

\* Another transaction has inserted this event's effect: the insert waits.
InsertWaits(c) ==
    \E d \in Workers \ {c} :
        /\ consumer[d] # NoTxn /\ consumer[d].event = consumer[c].event
        /\ consumer[d].step \in {"projected", "rechecked"}

\* The payment is read, the open reconciliations of a settled one are closed
\* and the event's own effect is inserted, all invisible until the commit.
Project(c) ==
    LET e == consumer[c].event
    IN  /\ Does(c, "project")
        /\ ~InsertWaits(c)
        /\ consumer' = [consumer EXCEPT
              ![c].step = "projected",
              ![c].status = IF IsReconciliation(e) /\ payment # "PENDING"
                            THEN "COMPLETED" ELSE "PENDING",
              ![c].closes = IF IsSettled(e) THEN OpenReconciliations ELSE {}]
        /\ UNCHANGED <<payment, event, effect, claim, job, replay, replays, faults>>

\* The payment may have been settled since it was read.
Recheck(c) ==
    LET e == consumer[c].event
        settled == /\ IsReconciliation(e) /\ consumer[c].status = "PENDING"
                   /\ payment # "PENDING"
    IN  /\ Does(c, "projected")
        /\ consumer' = [consumer EXCEPT
              ![c].step = "rechecked",
              ![c].status = IF settled THEN "COMPLETED" ELSE @,
              ![c].closes = IF settled THEN @ \cup {e} ELSE @]
        /\ UNCHANGED <<payment, event, effect, claim, job, replay, replays, faults>>

\* The effect and the acknowledgement become visible together; an effect row
\* that another delivery of the event has left is kept.
Commit(c) ==
    LET e == consumer[c].event
    IN  /\ Does(c, "rechecked")
        /\ effect' = [x \in Events |->
                        IF x = e /\ effect[x] = "none" THEN consumer[c].status
                        ELSE IF x \in consumer[c].closes /\ effect[x] = "PENDING"
                        THEN "COMPLETED" ELSE effect[x]]
        /\ event' = IF event[e].consumed THEN event
                    ELSE [event EXCEPT ![e].consumed = TRUE, ![e].processingDead = FALSE]
        /\ consumer' = [consumer EXCEPT ![c].step = "acked"]
        /\ UNCHANGED <<payment, claim, job, replay, replays, faults>>

\* The queue takes a result only from the worker that has the job's lock.
Owns(c) == job[consumer[c].event].state = "active" /\ job[consumer[c].event].owner = c

Finish(c) ==
    /\ Does(c, "acked")
    /\ job' = IF Owns(c)
              THEN [job EXCEPT ![consumer[c].event].state = "completed",
                               ![consumer[c].event].owner = NoTxn]
              ELSE job
    /\ consumer' = [consumer EXCEPT ![c] = NoTxn]
    /\ UNCHANGED <<payment, event, effect, claim, replay, replays, faults>>

\* A statement fails and the transaction is rolled back.
Throw(c) ==
    /\ consumer[c] # NoTxn
    /\ consumer[c].step \in {"reading", "project", "projected", "rechecked"}
    /\ consumer' = [consumer EXCEPT ![c].step = "thrown"]
    /\ UNCHANGED <<payment, event, effect, claim, job, replay, replays, faults>>

\* Mutant: a failure is recorded on a row that has been consumed, too.
RecordsFailureAlways(e) == Written(e)

\* recordFailure updates the row only while it is not consumed.
RecordsFailure(e) == Written(e) /\ ~event[e].consumed

FinalAttempt(made) == made + 1 >= JobAttempts

\* recordFailure, a statement of its own, which may fail as well.
RecordFailure(c) ==
    LET e == consumer[c].event
    IN  /\ Does(c, "thrown")
        /\ \/ event' = IF RecordsFailure(e)
                       THEN [event EXCEPT ![e].processingDead = FinalAttempt(consumer[c].made)]
                       ELSE event
           \/ UNCHANGED event
        /\ consumer' = [consumer EXCEPT ![c].step = "recorded"]
        /\ UNCHANGED <<payment, effect, claim, job, replay, replays, faults>>

FailJob(c) ==
    LET e == consumer[c].event
    IN  /\ Does(c, "recorded")
        /\ job' = IF Owns(c)
                  THEN [job EXCEPT ![e].state = IF FinalAttempt(job[e].made) THEN "failed"
                                                ELSE "waiting",
                                   ![e].made = @ + 1, ![e].owner = NoTxn]
                  ELSE job
        /\ consumer' = [consumer EXCEPT ![c] = NoTxn]
        /\ UNCHANGED <<payment, event, effect, claim, replay, replays, faults>>

\* The worker's process dies: its transaction is rolled back.
WorkerDies(c) ==
    /\ consumer[c] # NoTxn
    /\ Fault
    /\ consumer' = [consumer EXCEPT ![c] = NoTxn]
    /\ UNCHANGED <<payment, event, effect, claim, job, replay, replays>>

Orphaned(e) ==
    /\ job[e].state = "active"
    /\ ~\E c \in Workers : consumer[c] # NoTxn /\ consumer[c].event = e /\ Owns(c)

\* The queue finds a job whose lock has run out: it starts it again, or gives
\* it up.  That the worker is merely slow is a fault.
Stall(e) ==
    /\ job[e].state = "active"
    /\ IF Orphaned(e) THEN UNCHANGED faults ELSE Fault
    /\ job' = [job EXCEPT ![e] =
                 IF job[e].stalls < MaxStalls
                 THEN [job[e] EXCEPT !.state = "waiting", !.stalls = @ + 1, !.owner = NoTxn]
                 ELSE [job[e] EXCEPT !.state = "failed", !.owner = NoTxn]]
    /\ UNCHANGED <<payment, event, effect, claim, consumer, replay, replays>>

Ended(e) == job[e].state \in {"completed", "failed"}

\* Finished jobs are retained up to a number.
DropJob(e) ==
    /\ Ended(e)
    /\ job' = [job EXCEPT ![e] = NoJob]
    /\ UNCHANGED <<payment, event, effect, claim, consumer, replay, replays, faults>>

-----------------------------------------------------------------------------
(* Replay by an operator                                                   *)

Replayable(e) ==
    /\ Written(e) /\ ~event[e].consumed
    /\ event[e].deadLettered \/ event[e].processingDead \/ event[e].published

\* The event is read, and refused unless it is a dead letter or stranded.
StartReplay(e) ==
    /\ replay = NoReplay /\ replays < MaxReplays
    /\ Replayable(e)
    /\ replay' = [event |-> e, step |-> "read"]
    /\ replays' = replays + 1
    /\ UNCHANGED <<payment, event, effect, claim, job, consumer, faults>>

\* A finished job is removed; one that is queued or active stops the replay.
ClearTerminalJob ==
    LET e == replay.event
        cleared == Ended(e) \/ job[e].state = "none"
    IN  /\ replay # NoReplay /\ replay.step = "read"
        /\ job' = IF cleared THEN [job EXCEPT ![e] = NoJob] ELSE job
        /\ replay' = IF cleared THEN [replay EXCEPT !.step = "cleared"] ELSE NoReplay
        /\ UNCHANGED <<payment, event, effect, claim, consumer, replays, faults>>

\* Mutant: the reset does not look again.
StillReplayableAlways(e) == Written(e)

StillReplayable(e) == Replayable(e)

Reset(row) ==
    [row EXCEPT !.attempts = 0, !.available = TRUE, !.published = FALSE,
                !.deadLettered = FALSE, !.processingDead = FALSE]

\* The row goes back to the relay, unless it has changed meanwhile.
ResetEvent ==
    LET e == replay.event
    IN  /\ replay # NoReplay /\ replay.step = "cleared"
        /\ event' = IF StillReplayable(e) THEN [event EXCEPT ![e] = Reset(@)] ELSE event
        /\ replay' = NoReplay
        /\ UNCHANGED <<payment, effect, claim, job, consumer, replays, faults>>

-----------------------------------------------------------------------------
(* Specification                                                           *)

RelayStep(w) ==
    Enqueue(w) \/ MarkPublished(w) \/ PublishFails(w) \/ RecordRelayFailure(w)

WorkerStep(c) ==
    \/ ReadEvent(c) \/ Project(c) \/ Recheck(c) \/ Commit(c) \/ Finish(c)
    \/ Throw(c) \/ RecordFailure(c) \/ FailJob(c)

Next ==
    \/ \E e \in Events :
          \/ Emit(e)
          \/ \E w \in Relays : ClaimEvent(w, e)
          \/ BecomesAvailable(e)
          \/ \E c \in Workers : TakeJob(c, e)
          \/ Stall(e)
          \/ DropJob(e)
          \/ StartReplay(e)
    \/ \E w \in Relays : RelayStep(w) \/ LoseClaim(w)
    \/ \E c \in Workers : WorkerStep(c) \/ WorkerDies(c)
    \/ ClearTerminalJob \/ ResetEvent

Spec == Init /\ [][Next]_vars

\* The relay runs every five seconds, leases end, the worker takes the jobs
\* and finishes what it takes, and the queue looks for stalled jobs; nobody
\* has to replay an event, or to finish a replay.
Fairness ==
    /\ \A e \in Events :
         /\ WF_vars(\E w \in Relays : ClaimEvent(w, e))
         /\ WF_vars(BecomesAvailable(e))
         /\ WF_vars(\E c \in Workers : TakeJob(c, e))
         /\ WF_vars(Orphaned(e) /\ Stall(e))
    /\ \A w \in Relays : WF_vars(RelayStep(w))
    /\ \A c \in Workers : WF_vars(WorkerStep(c))

-----------------------------------------------------------------------------
(* Properties                                                              *)

\* Every dead letter is one.  The dead letters of processing are events nobody
\* has handled: a delivery that fails after another has consumed the event
\* does not bury it.  The relay gives up only rows whose attempts are used up
\* and that are not published, and, until an operator replays, only rows that
\* no pass has in hand: a pass that comes back after its lease cannot bury the
\* row of a later claim.  (A replay counts from 0 again, so an older pass may
\* then carry the number of a later claim and settle the row in its place; and
\* a job whose answer was lost may have consumed a row that the relay gives
\* up.)  Only faults make the relay claim a row more often than MaxAttempts.
DeadLettersEarned ==
    \A e \in Events : Written(e) =>
        /\ event[e].processingDead => ~event[e].consumed
        /\ event[e].deadLettered => event[e].attempts >= MaxAttempts /\ ~event[e].published
        /\ event[e].deadLettered /\ replays = 0 => ~Held(e)
        /\ event[e].attempts <= MaxAttempts + faults

\* No replay sends a consumed event back to the relay, although a delivery that
\* was thought dead may consume it between the replay's check and its reset: it
\* stays consumed and, once published, published.
ConsumedNotReplayed ==
    [][\A e \in Events :
         Written(e) /\ event[e].consumed =>
            /\ event'[e].consumed
            /\ event[e].published => event'[e].published]_vars

\* docs/OPERATIONS.md: "a PAYMENT_RECONCILIATION effect can never stay open
\* for a payment that is no longer pending".  So once all events about a
\* settled payment are consumed, no such effect is open.
ReconciliationClosed ==
    payment # "PENDING" /\ (\A e \in Events : Written(e) => event[e].consumed)
        => OpenReconciliations = {}

=============================================================================
