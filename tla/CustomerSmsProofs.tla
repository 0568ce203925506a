--------------------------- MODULE CustomerSmsProofs ---------------------------
(***************************************************************************)
(* The safety properties of the outbox and of the messages sent from it,   *)
(* for any number of events, relay passes, workers and senders and any     *)
(* bounds on attempts, stalls, faults and replays.                         *)
(***************************************************************************)
EXTENDS CustomerSms, TLAPS

-----------------------------------------------------------------------------
(* The inductive invariant of the outbox                                   *)

\* Whoever names an event names one that was written.
ClaimsWritten == \A w \in Relays : claim[w] # NoClaim => Written(claim[w].event)

JobsWritten == \A e \in Events : job[e].state # "none" => Written(e)

ConsumersWritten == \A c \in Workers : consumer[c] # NoTxn => Written(consumer[c].event)

ReplayWritten == replay # NoReplay => Written(replay.event)

\* A job that may still run has an attempt left.
JobsCounted == \A e \in Events : job[e].state \in {"waiting", "active"} => job[e].made < JobAttempts

\* A row that the relay has not finished with is held by a pass with its
\* number, or there is an attempt left for it: each fault allows one more.
Budget ==
    \A e \in Events : Written(e) /\ ~event[e].published /\ ~event[e].deadLettered =>
        \/ ~event[e].available /\ Held(e)
        \/ event[e].attempts < MaxAttempts + faults

\* A consumer closes nothing but reconciliations.
Projections ==
    \A c \in Workers : consumer[c] # NoTxn =>
        /\ \A e \in consumer[c].closes : IsReconciliation(e)
        /\ consumer[c].status = "COMPLETED" => IsReconciliation(consumer[c].event)

\* What the relay and the workers give up, row by row.
GivenUp ==
    \A e \in Events : Written(e) =>
        /\ event[e].processingDead => ~event[e].consumed
        /\ event[e].deadLettered => event[e].attempts >= MaxAttempts
        /\ event[e].attempts <= MaxAttempts + faults

OutboxInv ==
    /\ TypeOK
    /\ ClaimsWritten /\ JobsWritten /\ ConsumersWritten /\ ReplayWritten
    /\ JobsCounted /\ Budget /\ Projections /\ GivenUp

\* Until a replay begins to count a row's attempts again, no pass is ahead of
\* its row, two passes never have the same number of one row in hand, and
\* nobody has the number of a row that was given up.
OnePass ==
    /\ replay = NoReplay
    /\ \A w \in Relays, e \in Events :
          claim[w] # NoClaim /\ claim[w].event = e => claim[w].attempts <= event[e].attempts
    /\ \A v, w \in Relays :
          (/\ claim[v] # NoClaim /\ claim[w] # NoClaim
           /\ claim[v].event = claim[w].event /\ claim[v].attempts = claim[w].attempts)
          => v = w
    /\ \A e \in Events : Written(e) /\ event[e].deadLettered => ~Held(e)

\* The relay settles a row in one way, and the attempts fence its passes.
Fenced ==
    /\ \A e \in Events : Written(e) /\ event[e].deadLettered => ~event[e].published
    /\ replays = 0 => OnePass

-----------------------------------------------------------------------------
(* The inductive invariant of the messages                                 *)

SmsTypes ==
    /\ attemptCount \in [Events -> 0..MaxSmsAttempts]
    /\ sender \in [Senders -> Candidate \cup {NoPass}]
    /\ accepted \in [Events -> Nat]

\* Sender s has claimed event e.
HasClaimed(s, e) == sender[s] # NoPass /\ sender[s].event = e /\ sender[s].step # "picked"

\* A claim is alone, is on the effect row with its number and has sent what
\* its step says.
Passes ==
    \A s \in Senders, e \in Events : HasClaimed(s, e) =>
        /\ effect[e] = "FAILED" /\ attemptCount[e] = sender[s].attempt
        /\ sender[s].step \in {"claimed", "rate_limited"} => accepted[e] = 0
        /\ sender[s].step = "accepted" => accepted[e] = 1
        /\ \A t \in Senders : HasClaimed(t, e) => t = s

\* An effect that may be picked has an attempt left.
Counted ==
    \A e \in Events :
        /\ effect[e] = "none" => accepted[e] = 0 /\ attemptCount[e] = 0
        /\ effect[e] = "PENDING" => attemptCount[e] < MaxSmsAttempts

SmsInv == SmsTypes /\ Passes /\ Counted /\ OneMessage

IInv == OutboxInv /\ SmsInv /\ Fenced

-----------------------------------------------------------------------------
(* What the parts of a step do to the outbox                               *)

\* Events are not unwritten.
Grown == \A e \in Events : Written(e) => Written(e)'

\* What a step may never do to an event that was consumed.
ConsumedStep ==
    \A e \in Events : Written(e) /\ event[e].consumed =>
        /\ event'[e].consumed
        /\ event[e].published => event'[e].published

\* The rows and the claims on them are in order.
RowsKept == Grown /\ ConsumedStep /\ GivenUp' /\ Budget'

LEMMA RowFacts ==
    ASSUME TypeOK, NEW e \in Events, Written(e)
    PROVE  /\ event[e] \in EventRow /\ event[e].attempts \in Nat /\ faults \in Nat
           /\ MaxAttempts \in Nat /\ MaxFaults \in Nat
  BY OutboxAssumption DEF TypeOK, Written, EventRow

\* The rows stay, and the passes that hold them; or there was a fault.
LEMMA RowsStay ==
    ASSUME OutboxInv, event' = event,
           \/ /\ faults' = faults
              /\ \A e \in Events :
                    Written(e) /\ ~event[e].published /\ ~event[e].deadLettered /\ Held(e) => Held(e)'
           \/ Fault
    PROVE  RowsKept
<1>1. \A e \in Events : Written(e)' <=> Written(e)
  BY DEF Written
<1>2. ASSUME NEW e \in Events, Written(e)
      PROVE  event[e].attempts <= MaxAttempts + faults'
  <2>1. event[e].attempts <= MaxAttempts + faults
    BY <1>2 DEF OutboxInv, GivenUp
  <2> QED
    BY <2>1, <1>2, RowFacts DEF OutboxInv, Fault
<1>3. GivenUp'
  BY <1>1, <1>2 DEF OutboxInv, GivenUp
<1>4. Budget'
  <2> SUFFICES ASSUME NEW e \in Events, Written(e), ~event[e].published, ~event[e].deadLettered
               PROVE  \/ ~event[e].available /\ Held(e)'
                      \/ event[e].attempts < MaxAttempts + faults'
    BY <1>1 DEF Budget
  <2>1. \/ ~event[e].available /\ Held(e)
        \/ event[e].attempts < MaxAttempts + faults
    BY DEF OutboxInv, Budget
  <2>2. CASE faults' = faults /\ (Held(e) => Held(e)')
    BY <2>1, <2>2
  <2>3. CASE Fault
    <3>1. event[e].attempts <= MaxAttempts + faults
      BY DEF OutboxInv, GivenUp
    <3> QED
      BY <2>3, <3>1, RowFacts DEF OutboxInv, Fault
  <2> QED
    BY <2>2, <2>3
<1> QED
  BY <1>1, <1>3, <1>4 DEF RowsKept, Grown, ConsumedStep

LEMMA HeldStays ==
    ASSUME claim' = claim, event' = event
    PROVE  \A e \in Events : Held(e) => Held(e)'
  BY DEF Held

\* One row changes.
LEMMA RowChanges ==
    ASSUME OutboxInv, NEW e \in Events, NEW row \in EventRow, event' = [event EXCEPT ![e] = row],
           faults' \in Nat, faults' >= faults,
           row.processingDead => ~row.consumed,
           row.deadLettered => row.attempts >= MaxAttempts,
           row.attempts <= MaxAttempts + faults',
           ~row.published /\ ~row.deadLettered =>
              (~row.available /\ Held(e)') \/ row.attempts < MaxAttempts + faults',
           \A d \in Events : d # e /\ Held(d) => Held(d)',
           Written(e) /\ event[e].consumed => row.consumed /\ (event[e].published => row.published)
    PROVE  RowsKept /\ event' \in [Events -> EventRow \cup {NoEvent}] /\ Written(e)'
<1>1. /\ event' \in [Events -> EventRow \cup {NoEvent}] /\ event'[e] = row /\ row # NoEvent
      /\ \A d \in Events : d # e => event'[d] = event[d]
  BY OutboxAssumption DEF OutboxInv, TypeOK
<1>2. Grown /\ Written(e)' /\ \A d \in Events : d # e => (Written(d)' <=> Written(d))
  BY <1>1 DEF Grown, Written
<1>3. ConsumedStep
  BY <1>1 DEF ConsumedStep
<1>4. ASSUME NEW d \in Events, Written(d), d # e
      PROVE  /\ event[d].attempts <= MaxAttempts + faults'
             /\ event[d].attempts < MaxAttempts + faults => event[d].attempts < MaxAttempts + faults'
  <2>1. event[d].attempts <= MaxAttempts + faults
    BY <1>4 DEF OutboxInv, GivenUp
  <2> QED
    BY <2>1, <1>4, RowFacts DEF OutboxInv
<1>5. GivenUp'
  <2> SUFFICES ASSUME NEW d \in Events, Written(d)'
               PROVE  /\ event'[d].processingDead => ~event'[d].consumed
                      /\ event'[d].deadLettered => event'[d].attempts >= MaxAttempts
                      /\ event'[d].attempts <= MaxAttempts + faults'
    BY DEF GivenUp
  <2>1. CASE d = e
    BY <2>1, <1>1
  <2>2. CASE d # e
    BY <2>2, <1>1, <1>2, <1>4 DEF OutboxInv, GivenUp
  <2> QED
    BY <2>1, <2>2
<1>6. Budget'
  <2> SUFFICES ASSUME NEW d \in Events, Written(d)', ~event'[d].published, ~event'[d].deadLettered
               PROVE  \/ ~event'[d].available /\ Held(d)'
                      \/ event'[d].attempts < MaxAttempts + faults'
    BY DEF Budget
  <2>1. CASE d = e
    BY <2>1, <1>1
  <2>2. CASE d # e
    BY <2>2, <1>1, <1>2, <1>4 DEF OutboxInv, Budget
  <2> QED
    BY <2>1, <2>2
<1> QED
  BY <1>1, <1>2, <1>3, <1>5, <1>6 DEF RowsKept

LEMMA HeldOthers ==
    ASSUME OutboxInv, NEW e \in Events, NEW row, event' = [event EXCEPT ![e] = row], claim' = claim
    PROVE  /\ \A d \in Events : d # e /\ Held(d) => Held(d)'
           /\ Held(e) /\ row.attempts = event[e].attempts => Held(e)'
<1>1. event'[e] = row /\ \A d \in Events : d # e => event'[d] = event[d]
  BY DEF OutboxInv, TypeOK
<1> QED
  BY <1>1 DEF Held

LEMMA ClaimsStay ==
    ASSUME OutboxInv, Grown, claim' = claim
    PROVE  ClaimsWritten'
  BY DEF OutboxInv, TypeOK, ClaimsWritten, Grown, Claim

LEMMA JobsStay ==
    ASSUME OutboxInv, Grown, job' = job
    PROVE  JobsWritten' /\ JobsCounted'
  BY DEF OutboxInv, JobsWritten, JobsCounted, Grown

LEMMA ConsumersStay ==
    ASSUME OutboxInv, Grown, consumer' = consumer
    PROVE  ConsumersWritten' /\ Projections'
<1>1. ConsumersWritten'
  BY DEF OutboxInv, TypeOK, ConsumersWritten, Grown, Consumer
<1>2. Projections'
  BY DEF OutboxInv, Projections, IsReconciliation
<1> QED
  BY <1>1, <1>2

LEMMA ReplayStays ==
    ASSUME OutboxInv, Grown, replay' = replay
    PROVE  ReplayWritten'
  BY DEF OutboxInv, TypeOK, ReplayWritten, Grown, Replay

\* The claim of one pass changes.
LEMMA ClaimAfter ==
    ASSUME OutboxInv, Grown, NEW w \in Relays, NEW c \in Claim \cup {NoClaim},
           claim' = [claim EXCEPT ![w] = c],
           c # NoClaim => \A e \in Events : e = c.event => Written(e)'
    PROVE  ClaimsWritten' /\ claim' \in [Relays -> Claim \cup {NoClaim}]
<1>1. /\ claim' \in [Relays -> Claim \cup {NoClaim}] /\ claim'[w] = c
      /\ \A v \in Relays : v # w => claim'[v] = claim[v]
  BY DEF OutboxInv, TypeOK
<1>2. ASSUME NEW v \in Relays, claim'[v] # NoClaim PROVE event'[claim'[v].event] # NoEvent
  <2>1. claim'[v] \in Claim
    BY <1>1, <1>2
  <2>2. PICK e \in Events : e = claim'[v].event
    BY <2>1 DEF Claim
  <2>3. Written(e)'
    <3>1. CASE v = w
      BY <3>1, <2>2, <1>1, <1>2
    <3>2. CASE v # w
      BY <3>2, <2>2, <1>1, <1>2 DEF OutboxInv, ClaimsWritten, Grown
    <3> QED
      BY <3>1, <3>2
  <2> QED
    BY <2>2, <2>3 DEF Written
<1>3. ClaimsWritten'
  BY <1>2 DEF ClaimsWritten, Written
<1> QED
  BY <1>1, <1>3

\* The job of one event changes.
LEMMA JobAfter ==
    ASSUME OutboxInv, Grown, NEW e \in Events, NEW j \in Job, job' = [job EXCEPT ![e] = j],
           j.state # "none" => Written(e),
           j.state \in {"waiting", "active"} => j.made < JobAttempts
    PROVE  JobsWritten' /\ JobsCounted' /\ job' \in [Events -> Job]
<1>1. /\ job' \in [Events -> Job] /\ job'[e] = j
      /\ \A d \in Events : d # e => job'[d] = job[d]
  BY DEF OutboxInv, TypeOK
<1> QED
  BY <1>1 DEF OutboxInv, JobsWritten, JobsCounted, Grown

\* The job in a worker's hands changes.
LEMMA ConsumerAfter ==
    ASSUME OutboxInv, Grown, NEW c \in Workers, NEW x \in Consumer \cup {NoTxn},
           consumer' = [consumer EXCEPT ![c] = x],
           x # NoTxn => /\ \A e \in Events : e = x.event => Written(e)
                        /\ \A e \in x.closes : IsReconciliation(e)
                        /\ x.status = "COMPLETED" => IsReconciliation(x.event)
    PROVE  ConsumersWritten' /\ Projections' /\ consumer' \in [Workers -> Consumer \cup {NoTxn}]
<1>1. /\ consumer' \in [Workers -> Consumer \cup {NoTxn}] /\ consumer'[c] = x
      /\ \A d \in Workers : d # c => consumer'[d] = consumer[d]
  BY DEF OutboxInv, TypeOK
<1>2. ASSUME NEW d \in Workers, consumer'[d] # NoTxn PROVE event'[consumer'[d].event] # NoEvent
  <2>1. consumer'[d] \in Consumer
    BY <1>1, <1>2
  <2>2. PICK e \in Events : e = consumer'[d].event
    BY <2>1 DEF Consumer
  <2>3. Written(e)'
    <3>1. CASE d = c
      BY <3>1, <2>2, <1>1, <1>2 DEF Grown
    <3>2. CASE d # c
      BY <3>2, <2>2, <1>1, <1>2 DEF OutboxInv, ConsumersWritten, Grown
    <3> QED
      BY <3>1, <3>2
  <2> QED
    BY <2>2, <2>3 DEF Written
<1>3. ConsumersWritten'
  BY <1>2 DEF ConsumersWritten, Written
<1>4. Projections'
  <2> SUFFICES ASSUME NEW d \in Workers, consumer'[d] # NoTxn
               PROVE  /\ \A e \in consumer'[d].closes : IsReconciliation(e)
                      /\ consumer'[d].status = "COMPLETED" => IsReconciliation(consumer'[d].event)
    BY DEF Projections, IsReconciliation
  <2>1. CASE d = c
    BY <2>1, <1>1
  <2>2. CASE d # c
    BY <2>2, <1>1 DEF OutboxInv, Projections
  <2> QED
    BY <2>1, <2>2
<1> QED
  BY <1>1, <1>3, <1>4

LEMMA FaultsBounded ==
    ASSUME TypeOK, faults' = faults \/ Fault
    PROVE  faults' \in 0..MaxFaults /\ faults' \in Nat /\ faults' >= faults /\ faults \in Nat
  BY OutboxAssumption DEF TypeOK, Fault

\* A step of a worker or of the queue leaves the rows and the relay alone.
LEMMA QuietRows ==
    ASSUME OutboxInv, event' = event, claim' = claim, faults' = faults \/ Fault
    PROVE  RowsKept
<1>1. \A e \in Events : Held(e) => Held(e)'
  BY HeldStays
<1>2. CASE faults' = faults
  BY <1>1, <1>2, RowsStay
<1>3. CASE Fault
  BY <1>3, RowsStay
<1> QED
  BY <1>2, <1>3

LEMMA WorkerAlone ==
    ASSUME OutboxInv, NEW c \in Workers, NEW x \in Consumer \cup {NoTxn},
           consumer' = [consumer EXCEPT ![c] = x],
           x # NoTxn => /\ \A e \in Events : e = x.event => Written(e)
                        /\ \A e \in x.closes : IsReconciliation(e)
                        /\ x.status = "COMPLETED" => IsReconciliation(x.event),
           UNCHANGED <<payment, event, effect, claim, job, replay, replays>>,
           faults' = faults \/ Fault
    PROVE  OutboxInv' /\ ConsumedStep
<1>1. RowsKept /\ Grown
  BY QuietRows DEF RowsKept
<1>2. ConsumersWritten' /\ Projections' /\ consumer' \in [Workers -> Consumer \cup {NoTxn}]
  BY <1>1, ConsumerAfter
<1>3. ClaimsWritten' /\ JobsWritten' /\ JobsCounted' /\ ReplayWritten'
  BY <1>1, ClaimsStay, JobsStay, ReplayStays
<1>4. TypeOK'
  BY <1>2, FaultsBounded DEF OutboxInv, TypeOK
<1> QED
  BY <1>1, <1>2, <1>3, <1>4 DEF OutboxInv, RowsKept

LEMMA QueueAlone ==
    ASSUME OutboxInv, NEW e \in Events, NEW j \in Job, job' = [job EXCEPT ![e] = j],
           j.state # "none" => Written(e),
           j.state \in {"waiting", "active"} => j.made < JobAttempts,
           UNCHANGED <<payment, event, effect, claim, consumer, replay, replays>>,
           faults' = faults \/ Fault
    PROVE  OutboxInv' /\ ConsumedStep
<1>1. RowsKept /\ Grown
  BY QuietRows DEF RowsKept
<1>2. JobsWritten' /\ JobsCounted' /\ job' \in [Events -> Job]
  BY <1>1, JobAfter
<1>3. ClaimsWritten' /\ ConsumersWritten' /\ Projections' /\ ReplayWritten'
  BY <1>1, ClaimsStay, ConsumersStay, ReplayStays
<1>4. TypeOK'
  BY <1>2, FaultsBounded DEF OutboxInv, TypeOK
<1> QED
  BY <1>1, <1>2, <1>3, <1>4 DEF OutboxInv, RowsKept

\* The row of one event changes, and nothing else.
LEMMA RowAlone ==
    ASSUME OutboxInv, RowsKept, event' \in [Events -> EventRow \cup {NoEvent}],
           payment' \in {"PENDING", "PAID", "FAILED"},
           UNCHANGED <<effect, claim, job, consumer, replay, replays>>,
           faults' = faults \/ Fault
    PROVE  OutboxInv' /\ ConsumedStep
<1>1. Grown
  BY DEF RowsKept
<1>2. ClaimsWritten' /\ ConsumersWritten' /\ Projections' /\ JobsWritten' /\ JobsCounted'
      /\ ReplayWritten'
  BY <1>1, ClaimsStay, JobsStay, ConsumersStay, ReplayStays
<1>3. TypeOK'
  BY FaultsBounded DEF OutboxInv, TypeOK
<1> QED
  BY <1>2, <1>3 DEF OutboxInv, RowsKept

-----------------------------------------------------------------------------
(* The relay                                                               *)

LEMMA EmitKeeps ==
    ASSUME OutboxInv, NEW e \in Events, Emit(e)
    PROVE  OutboxInv' /\ ConsumedStep
<1> DEFINE row == [attempts |-> 0, available |-> TRUE, published |-> FALSE,
                   deadLettered |-> FALSE, consumed |-> FALSE, processingDead |-> FALSE]
<1>1. /\ event' = [event EXCEPT ![e] = row] /\ claim' = claim /\ faults' = faults /\ ~Written(e)
      /\ UNCHANGED <<effect, claim, job, consumer, replay, replays>>
  BY DEF Emit
<1>2. 0 \in 0..(MaxAttempts + MaxFaults) /\ faults \in Nat /\ 0 < MaxAttempts + faults
  BY OutboxAssumption DEF OutboxInv, TypeOK
<1>3. row \in EventRow
  BY <1>2 DEF EventRow
<1>4. /\ ~row.processingDead /\ ~row.deadLettered /\ row.attempts = 0
  OBVIOUS
<1> HIDE DEF row
<1>5. \A d \in Events : d # e /\ Held(d) => Held(d)'
  BY <1>1, HeldOthers
<1>6. RowsKept /\ event' \in [Events -> EventRow \cup {NoEvent}]
  <2>1. faults' \in Nat /\ faults' >= faults /\ row.attempts < MaxAttempts + faults'
        /\ row.attempts <= MaxAttempts + faults'
    BY <1>1, <1>2, <1>4, OutboxAssumption
  <2> QED
    BY <2>1, <1>1, <1>3, <1>4, <1>5, RowChanges
<1>7. payment' \in {"PENDING", "PAID", "FAILED"}
  BY OutboxAssumption DEF Emit, Topics
<1> QED
  BY <1>1, <1>6, <1>7, RowAlone

\* A step of the relay leaves the workers and the replay alone.
LEMMA RelayAlone ==
    ASSUME OutboxInv, RowsKept, event' \in [Events -> EventRow \cup {NoEvent}],
           ClaimsWritten', claim' \in [Relays -> Claim \cup {NoClaim}],
           JobsWritten', JobsCounted', job' \in [Events -> Job],
           UNCHANGED <<payment, effect, consumer, replay, replays>>,
           faults' = faults \/ Fault
    PROVE  OutboxInv' /\ ConsumedStep
<1>1. Grown
  BY DEF RowsKept
<1>2. ConsumersWritten' /\ Projections' /\ ReplayWritten'
  BY <1>1, ConsumersStay, ReplayStays
<1>3. TypeOK'
  BY FaultsBounded DEF OutboxInv, TypeOK
<1> QED
  BY <1>2, <1>3 DEF OutboxInv, RowsKept

LEMMA ClaimEventKeeps ==
    ASSUME OutboxInv, NEW e \in Events, NEW w \in Relays, ClaimEvent(w, e)
    PROVE  OutboxInv' /\ ConsumedStep
<1> DEFINE row == [event[e] EXCEPT !.attempts = @ + 1, !.available = FALSE]
           c == [event |-> e, attempts |-> event[e].attempts + 1, step |-> "claimed"]
<1>1. /\ event' = [event EXCEPT ![e] = row] /\ claim' = [claim EXCEPT ![w] = c]
      /\ faults' = faults /\ job' = job /\ UNCHANGED <<payment, effect, consumer, replay, replays>>
      /\ claim[w] = NoClaim
  BY DEF ClaimEvent, OutboxInv, TypeOK
<1>2. /\ Written(e) /\ event[e].available /\ ~event[e].published /\ ~event[e].deadLettered
      /\ event[e] \in EventRow /\ event[e].attempts \in Nat /\ faults \in Nat /\ faults <= MaxFaults
      /\ MaxAttempts \in Nat /\ MaxFaults \in Nat
  BY RowFacts DEF ClaimEvent, Due, OutboxInv, TypeOK
<1>3. event[e].attempts < MaxAttempts + faults
  BY <1>2 DEF OutboxInv, Budget
<1>4. /\ event[e].attempts + 1 \in 0..(MaxAttempts + MaxFaults)
      /\ event[e].attempts + 1 \in 1..(MaxAttempts + MaxFaults)
      /\ event[e].attempts + 1 <= MaxAttempts + faults
  BY <1>2, <1>3
<1>5. row \in EventRow /\ c \in Claim
  BY <1>2, <1>4 DEF EventRow, Claim
<1>6. /\ row.attempts = event[e].attempts + 1 /\ ~row.available /\ ~row.published
      /\ ~row.deadLettered /\ row.consumed = event[e].consumed
      /\ row.processingDead = event[e].processingDead
      /\ c.event = e /\ c.attempts = event[e].attempts + 1
  BY <1>2 DEF EventRow
<1> HIDE DEF row, c
<1>7. /\ event'[e] = row /\ claim'[w] = c /\ c # NoClaim
      /\ \A d \in Events : d # e => event'[d] = event[d]
      /\ \A v \in Relays : v # w => claim'[v] = claim[v]
  BY <1>1, <1>5, OutboxAssumption DEF OutboxInv, TypeOK
<1>8. Held(e)'
  BY <1>6, <1>7 DEF Held
<1>9. \A d \in Events : d # e /\ Held(d) => Held(d)'
  BY <1>1, <1>7 DEF Held
<1>10. RowsKept /\ event' \in [Events -> EventRow \cup {NoEvent}] /\ Written(e)'
  <2>1. row.processingDead => ~row.consumed
    BY <1>2, <1>6 DEF OutboxInv, GivenUp
  <2>2. faults' \in Nat /\ faults' >= faults /\ row.attempts <= MaxAttempts + faults'
    BY <1>1, <1>2, <1>4, <1>6
  <2> QED
    BY <2>1, <2>2, <1>1, <1>2, <1>5, <1>6, <1>8, <1>9, RowChanges
<1>11. Grown
  BY <1>10 DEF RowsKept
<1>12. ClaimsWritten' /\ claim' \in [Relays -> Claim \cup {NoClaim}]
  BY <1>1, <1>5, <1>6, <1>10, <1>11, ClaimAfter
<1>13. JobsWritten' /\ JobsCounted' /\ job' \in [Events -> Job]
  BY <1>1, <1>11, JobsStay DEF OutboxInv, TypeOK
<1> QED
  BY <1>1, <1>10, <1>12, <1>13, RelayAlone

\* A claim in hand: its event, as a constant.
LEMMA ClaimFacts ==
    ASSUME OutboxInv, NEW w \in Relays, claim[w] # NoClaim
    PROVE  /\ claim[w] \in Claim /\ claim[w].event \in Events
           /\ claim[w].attempts \in 1..(MaxAttempts + MaxFaults)
           /\ Written(claim[w].event)
<1>1. claim[w] \in Claim
  BY DEF OutboxInv, TypeOK
<1> QED
  BY <1>1 DEF Claim, OutboxInv, ClaimsWritten

\* A pass goes on with its claim.
LEMMA StepOfClaim ==
    ASSUME OutboxInv, NEW w \in Relays, claim[w] # NoClaim, NEW step \in {"claimed", "queued", "refused"},
           claim' = [claim EXCEPT ![w].step = step], event' = event, faults' = faults
    PROVE  RowsKept /\ ClaimsWritten' /\ claim' \in [Relays -> Claim \cup {NoClaim}]
<1> DEFINE c == [claim[w] EXCEPT !.step = step]
<1>1. claim[w] \in Claim /\ claim[w].event \in Events /\ Written(claim[w].event)
  BY ClaimFacts
<1>2. claim' = [claim EXCEPT ![w] = c]
  BY DEF OutboxInv, TypeOK
<1>3. c \in Claim /\ c.event = claim[w].event /\ c.attempts = claim[w].attempts
  BY <1>1 DEF Claim
<1> HIDE DEF c
<1>4. c # NoClaim /\ claim'[w] = c /\ \A v \in Relays : v # w => claim'[v] = claim[v]
  BY <1>2, <1>3, OutboxAssumption DEF OutboxInv, TypeOK
<1>5. \A e \in Events : Held(e) => Held(e)'
  BY <1>3, <1>4 DEF Held
<1>6. RowsKept /\ Grown
  BY <1>5, RowsStay DEF RowsKept
<1>7. c # NoClaim => \A e \in Events : e = c.event => Written(e)'
  BY <1>1, <1>3 DEF Written
<1> QED
  BY <1>2, <1>3, <1>6, <1>7, ClaimAfter

LEMMA EnqueueKeeps ==
    ASSUME OutboxInv, NEW w \in Relays, Enqueue(w)
    PROVE  OutboxInv' /\ ConsumedStep
<1>1. /\ claim[w] # NoClaim /\ event' = event /\ faults' = faults
      /\ UNCHANGED <<payment, effect, consumer, replay, replays>>
  BY DEF Enqueue, At
<1>2. PICK e \in Events : e = claim[w].event /\ Written(e)
  BY <1>1, ClaimFacts
<1>3. PICK added \in BOOLEAN, step \in {"queued", "refused"} :
          /\ job' = [job EXCEPT ![e] = IF added /\ job[e].state = "none"
                                       THEN [NoJob EXCEPT !.state = "waiting"] ELSE job[e]]
          /\ claim' = [claim EXCEPT ![w].step = step]
  BY <1>2 DEF Enqueue
<1>4. RowsKept /\ ClaimsWritten' /\ claim' \in [Relays -> Claim \cup {NoClaim}] /\ Grown
  BY <1>1, <1>3, StepOfClaim DEF RowsKept
<1>5. job[e] \in Job /\ [NoJob EXCEPT !.state = "waiting"] \in Job
      /\ 0 < JobAttempts /\ [NoJob EXCEPT !.state = "waiting"].made = 0
  <2>1. 0 \in 0..JobAttempts /\ 0 \in 0..MaxStalls /\ 0 < JobAttempts
    BY OutboxAssumption
  <2>2. [NoJob EXCEPT !.state = "waiting"] = [state |-> "waiting", made |-> 0, stalls |-> 0, owner |-> NoTxn]
    BY DEF NoJob
  <2> QED
    BY <2>1, <2>2 DEF Job, OutboxInv, TypeOK
<1> DEFINE j == IF added /\ job[e].state = "none"
                THEN [NoJob EXCEPT !.state = "waiting"] ELSE job[e]
<1>6. j \in Job /\ job' = [job EXCEPT ![e] = j]
  BY <1>3, <1>5
<1>7. j.state \in {"waiting", "active"} => j.made < JobAttempts
  BY <1>5 DEF OutboxInv, JobsCounted
<1> HIDE DEF j
<1>8. JobsWritten' /\ JobsCounted' /\ job' \in [Events -> Job]
  BY <1>2, <1>4, <1>6, <1>7, JobAfter
<1>9. event' \in [Events -> EventRow \cup {NoEvent}]
  BY <1>1 DEF OutboxInv, TypeOK
<1> QED
  BY <1>1, <1>4, <1>8, <1>9, RelayAlone

LEMMA PublishFailsKeeps ==
    ASSUME OutboxInv, NEW w \in Relays, PublishFails(w)
    PROVE  OutboxInv' /\ ConsumedStep
<1>1. /\ claim[w] # NoClaim /\ event' = event /\ faults' = faults /\ job' = job
      /\ UNCHANGED <<payment, effect, consumer, replay, replays>>
      /\ claim' = [claim EXCEPT ![w].step = "refused"]
  BY DEF PublishFails, At
<1>2. RowsKept /\ ClaimsWritten' /\ claim' \in [Relays -> Claim \cup {NoClaim}] /\ Grown
  BY <1>1, StepOfClaim DEF RowsKept
<1>3. JobsWritten' /\ JobsCounted' /\ job' \in [Events -> Job]
  BY <1>1, <1>2, JobsStay DEF OutboxInv, TypeOK
<1>4. event' \in [Events -> EventRow \cup {NoEvent}]
  BY <1>1 DEF OutboxInv, TypeOK
<1> QED
  BY <1>1, <1>2, <1>3, <1>4, RelayAlone

\* A pass lets its claim go.
LEMMA ReleasedClaim ==
    ASSUME OutboxInv, NEW w \in Relays, claim[w] # NoClaim, claim' = [claim EXCEPT ![w] = NoClaim]
    PROVE  /\ claim' \in [Relays -> Claim \cup {NoClaim}] /\ claim'[w] = NoClaim
           /\ \A v \in Relays : v # w => claim'[v] = claim[v]
           /\ Grown => ClaimsWritten'
<1>1. /\ claim' \in [Relays -> Claim \cup {NoClaim}] /\ claim'[w] = NoClaim
      /\ \A v \in Relays : v # w => claim'[v] = claim[v]
  BY DEF OutboxInv, TypeOK
<1>2. Grown => ClaimsWritten'
  BY ClaimAfter
<1> QED
  BY <1>1, <1>2

\* What a pass that no longer owns its row leaves behind.
LEMMA ReleasedUnowned ==
    ASSUME OutboxInv, NEW w \in Relays, claim[w] # NoClaim, ~Owned(w),
           claim' = [claim EXCEPT ![w] = NoClaim], event' = event, faults' = faults
    PROVE  RowsKept
<1>1. claim'[w] = NoClaim /\ \A v \in Relays : v # w => claim'[v] = claim[v]
  BY ReleasedClaim
<1>2. ASSUME NEW e \in Events, Written(e), ~event[e].published, ~event[e].deadLettered, Held(e)
      PROVE  Held(e)'
  <2>1. PICK v \in Relays : claim[v] # NoClaim /\ claim[v].event = e
                            /\ claim[v].attempts = event[e].attempts
    BY <1>2 DEF Held
  <2>2. v # w
    BY <2>1, <1>2 DEF Owned
  <2>3. claim'[v] # NoClaim /\ claim'[v].event = e /\ claim'[v].attempts = event'[e].attempts
    BY <2>1, <2>2, <1>1
  <2> QED
    BY <2>3 DEF Held
<1> QED
  BY <1>2, RowsStay

\* What a pass that owns its row does to the others.
LEMMA ReleasedOwned ==
    ASSUME OutboxInv, NEW w \in Relays, claim[w] # NoClaim, NEW e \in Events, e = claim[w].event,
           NEW row, claim' = [claim EXCEPT ![w] = NoClaim], event' = [event EXCEPT ![e] = row]
    PROVE  \A d \in Events : d # e /\ Held(d) => Held(d)'
<1>1. claim'[w] = NoClaim /\ \A v \in Relays : v # w => claim'[v] = claim[v]
  BY ReleasedClaim
<1>2. \A d \in Events : d # e => event'[d] = event[d]
  BY DEF OutboxInv, TypeOK
<1>3. ASSUME NEW d \in Events, d # e, Held(d) PROVE Held(d)'
  <2>1. PICK v \in Relays : claim[v] # NoClaim /\ claim[v].event = d
                            /\ claim[v].attempts = event[d].attempts
    BY <1>3 DEF Held
  <2>2. v # w
    BY <2>1, <1>3
  <2>3. claim'[v] # NoClaim /\ claim'[v].event = d /\ claim'[v].attempts = event'[d].attempts
    BY <2>1, <2>2, <1>1, <1>2, <1>3
  <2> QED
    BY <2>3 DEF Held
<1> QED
  BY <1>3

\* A pass ends: its row was finished with, or given up, or was not its own.
LEMMA ReleaseKeeps ==
    ASSUME OutboxInv, NEW w \in Relays, claim[w] # NoClaim, RowsKept,
           event' \in [Events -> EventRow \cup {NoEvent}],
           claim' = [claim EXCEPT ![w] = NoClaim],
           UNCHANGED <<payment, effect, job, consumer, replay, replays>>, faults' = faults \/ Fault
    PROVE  OutboxInv' /\ ConsumedStep
<1>1. Grown
  BY DEF RowsKept
<1>2. ClaimsWritten' /\ claim' \in [Relays -> Claim \cup {NoClaim}]
  BY <1>1, ReleasedClaim
<1>3. JobsWritten' /\ JobsCounted' /\ job' \in [Events -> Job]
  BY <1>1, JobsStay DEF OutboxInv, TypeOK
<1> QED
  BY <1>2, <1>3, RelayAlone

LEMMA MarkPublishedKeeps ==
    ASSUME OutboxInv, NEW w \in Relays, MarkPublished(w)
    PROVE  OutboxInv' /\ ConsumedStep
<1>1. /\ claim[w] # NoClaim /\ claim' = [claim EXCEPT ![w] = NoClaim] /\ faults' = faults
      /\ UNCHANGED <<payment, effect, job, consumer, replay, replays>>
  BY DEF MarkPublished, At
<1>2. PICK e \in Events : e = claim[w].event /\ Written(e)
  BY <1>1, ClaimFacts
<1>3. RowsKept /\ event' \in [Events -> EventRow \cup {NoEvent}]
  <2>1. CASE ~Owned(w)
    <3>1. event' = event
      BY <2>1 DEF MarkPublished
    <3> QED
      BY <3>1, <2>1, <1>1, ReleasedUnowned DEF OutboxInv, TypeOK
  <2>2. CASE Owned(w)
    <3> DEFINE row == [event[e] EXCEPT !.published = TRUE]
    <3>1. event' = [event EXCEPT ![e] = row]
      BY <2>2, <1>2 DEF MarkPublished, OutboxInv, TypeOK
    <3>2. event[e] \in EventRow /\ event[e].attempts \in Nat /\ faults \in Nat
      BY <1>2, RowFacts DEF OutboxInv
    <3>3. /\ row \in EventRow /\ row.published /\ row.attempts = event[e].attempts
          /\ row.deadLettered = event[e].deadLettered /\ row.consumed = event[e].consumed
          /\ row.processingDead = event[e].processingDead
      BY <3>2 DEF EventRow
    <3> HIDE DEF row
    <3>4. /\ row.processingDead => ~row.consumed
          /\ row.deadLettered => row.attempts >= MaxAttempts
          /\ row.attempts <= MaxAttempts + faults'
      BY <3>3, <1>1, <1>2 DEF OutboxInv, GivenUp
    <3>5. \A d \in Events : d # e /\ Held(d) => Held(d)'
      BY <3>1, <1>1, <1>2, ReleasedOwned
    <3>6. faults' \in Nat /\ faults' >= faults
      BY <3>2, <1>1
    <3> QED
      BY <3>1, <3>3, <3>4, <3>5, <3>6, RowChanges
  <2> QED
    BY <2>1, <2>2
<1> QED
  BY <1>1, <1>3, ReleaseKeeps

LEMMA RecordRelayFailureKeeps ==
    ASSUME OutboxInv, NEW w \in Relays, RecordRelayFailure(w)
    PROVE  OutboxInv' /\ ConsumedStep
<1>1. /\ claim[w] # NoClaim /\ claim' = [claim EXCEPT ![w] = NoClaim] /\ faults' = faults
      /\ UNCHANGED <<payment, effect, job, consumer, replay, replays>>
  BY DEF RecordRelayFailure, At
<1>2. PICK e \in Events : e = claim[w].event /\ Written(e)
  BY <1>1, ClaimFacts
<1>3. RowsKept /\ event' \in [Events -> EventRow \cup {NoEvent}]
  <2>1. CASE ~Owned(w)
    <3>1. event' = event
      BY <2>1 DEF RecordRelayFailure
    <3> QED
      BY <3>1, <2>1, <1>1, ReleasedUnowned DEF OutboxInv, TypeOK
  <2>2. CASE Owned(w)
    <3> DEFINE row == [event[e] EXCEPT !.available = FALSE,
                                       !.deadLettered = Terminal(claim[w].attempts)]
    <3>1. event' = [event EXCEPT ![e] = row]
      BY <2>2, <1>2 DEF RecordRelayFailure, OutboxInv, TypeOK
    <3>2. /\ event[e] \in EventRow /\ event[e].attempts \in Nat /\ faults \in Nat
          /\ MaxAttempts \in Nat /\ event[e].attempts = claim[w].attempts
          /\ ~event[e].published
      BY <2>2, <1>2, RowFacts DEF OutboxInv, Owned
    <3>3. Terminal(claim[w].attempts) \in BOOLEAN
      BY DEF Terminal
    <3>4. /\ row \in EventRow /\ row.attempts = event[e].attempts /\ ~row.published
          /\ row.deadLettered = Terminal(claim[w].attempts) /\ row.consumed = event[e].consumed
          /\ row.processingDead = event[e].processingDead
      BY <3>2, <3>3 DEF EventRow
    <3> HIDE DEF row
    <3>5. /\ row.processingDead => ~row.consumed
          /\ row.attempts <= MaxAttempts + faults'
      BY <3>4, <1>1, <1>2 DEF OutboxInv, GivenUp
    <3>6. /\ row.deadLettered => row.attempts >= MaxAttempts
          /\ ~row.deadLettered => row.attempts < MaxAttempts + faults'
          /\ faults' \in Nat /\ faults' >= faults
      <4>1. row.deadLettered <=> event[e].attempts >= MaxAttempts
        BY <3>2, <3>4, Zenon DEF Terminal
      <4>2. event[e].attempts < MaxAttempts + faults' \/ event[e].attempts >= MaxAttempts
        BY <3>2, <1>1
      <4> QED
        BY <4>1, <4>2, <3>2, <3>4, <1>1
    <3>7. \A d \in Events : d # e /\ Held(d) => Held(d)'
      BY <3>1, <1>1, <1>2, ReleasedOwned
    <3> QED
      BY <3>1, <3>2, <3>4, <3>5, <3>6, <3>7, RowChanges
  <2> QED
    BY <2>1, <2>2
<1> QED
  BY <1>1, <1>3, ReleaseKeeps

LEMMA LoseClaimKeeps ==
    ASSUME OutboxInv, NEW w \in Relays, LoseClaim(w)
    PROVE  OutboxInv' /\ ConsumedStep
<1>1. /\ claim[w] # NoClaim /\ claim' = [claim EXCEPT ![w] = NoClaim] /\ Fault /\ event' = event
      /\ UNCHANGED <<payment, effect, job, consumer, replay, replays>>
  BY DEF LoseClaim
<1>2. RowsKept
  BY <1>1, RowsStay
<1>3. event' \in [Events -> EventRow \cup {NoEvent}]
  BY <1>1 DEF OutboxInv, TypeOK
<1> QED
  BY <1>1, <1>2, <1>3, ReleaseKeeps

LEMMA BecomesAvailableKeeps ==
    ASSUME OutboxInv, NEW e \in Events, BecomesAvailable(e)
    PROVE  OutboxInv' /\ ConsumedStep
<1> DEFINE row == [event[e] EXCEPT !.available = TRUE]
<1>1. /\ event' = [event EXCEPT ![e] = row] /\ claim' = claim /\ Written(e)
      /\ ~event[e].published /\ ~event[e].deadLettered
      /\ IF Held(e) THEN Fault ELSE faults' = faults
      /\ UNCHANGED <<payment, effect, claim, job, consumer, replay, replays>>
  BY DEF BecomesAvailable, OutboxInv, TypeOK
<1>2. /\ event[e] \in EventRow /\ event[e].attempts \in Nat /\ faults \in Nat /\ MaxAttempts \in Nat
  BY <1>1, RowFacts DEF OutboxInv
<1>3. /\ row \in EventRow /\ row.attempts = event[e].attempts /\ ~row.deadLettered
      /\ ~row.published /\ row.consumed = event[e].consumed
      /\ row.processingDead = event[e].processingDead
  BY <1>1, <1>2 DEF EventRow
<1> HIDE DEF row
<1>4. /\ (faults' = faults \/ Fault) /\ faults' \in Nat /\ faults' >= faults
      /\ row.attempts < MaxAttempts + faults' /\ row.attempts <= MaxAttempts + faults'
  <2>1. CASE Held(e)
    <3>1. event[e].attempts <= MaxAttempts + faults /\ faults' = faults + 1 /\ Fault
      BY <2>1, <1>1 DEF OutboxInv, GivenUp, Fault
    <3> QED
      BY <3>1, <1>2, <1>3
  <2>2. CASE ~Held(e)
    <3>1. event[e].attempts < MaxAttempts + faults /\ faults' = faults
      BY <2>2, <1>1 DEF OutboxInv, Budget
    <3> QED
      BY <3>1, <1>2, <1>3
  <2> QED
    BY <2>1, <2>2
<1>5. row.processingDead => ~row.consumed
  BY <1>1, <1>3 DEF OutboxInv, GivenUp
<1>6. \A d \in Events : d # e /\ Held(d) => Held(d)'
  BY <1>1, HeldOthers
<1>7. RowsKept /\ event' \in [Events -> EventRow \cup {NoEvent}]
  BY <1>1, <1>3, <1>4, <1>5, <1>6, RowChanges
<1>8. payment' \in {"PENDING", "PAID", "FAILED"}
  BY <1>1 DEF OutboxInv, TypeOK
<1> QED
  BY <1>1, <1>4, <1>7, <1>8, RowAlone

-----------------------------------------------------------------------------
(* The queue and its worker                                                *)

\* A job in a worker's hands: its event, as a constant.
LEMMA ConsumerFacts ==
    ASSUME OutboxInv, NEW c \in Workers, consumer[c] # NoTxn
    PROVE  /\ consumer[c] \in Consumer /\ consumer[c].event \in Events
           /\ consumer[c].closes \subseteq Events /\ consumer[c].status \in {"PENDING", "COMPLETED"}
           /\ Written(consumer[c].event)
           /\ \A e \in consumer[c].closes : IsReconciliation(e)
           /\ consumer[c].status = "COMPLETED" => IsReconciliation(consumer[c].event)
<1>1. consumer[c] \in Consumer
  BY DEF OutboxInv, TypeOK
<1>2. /\ consumer[c].event \in Events
      /\ consumer[c].closes \subseteq Events /\ consumer[c].status \in {"PENDING", "COMPLETED"}
  BY <1>1 DEF Consumer
<1> QED
  BY <1>1, <1>2 DEF OutboxInv, ConsumersWritten, Projections

LEMMA TakeJobKeeps ==
    ASSUME OutboxInv, NEW e \in Events, NEW c \in Workers, TakeJob(c, e)
    PROVE  OutboxInv' /\ ConsumedStep
<1> DEFINE j == [job[e] EXCEPT !.state = "active", !.owner = c]
           x == [event |-> e, made |-> job[e].made, step |-> "reading",
                 status |-> "PENDING", closes |-> {}]
<1>1. /\ job' = [job EXCEPT ![e] = j] /\ consumer' = [consumer EXCEPT ![c] = x]
      /\ UNCHANGED <<payment, event, effect, claim, replay, replays>> /\ faults' = faults
      /\ job[e].state = "waiting" /\ job[e] \in Job
  BY DEF TakeJob, OutboxInv, TypeOK
<1>2. Written(e) /\ job[e].made < JobAttempts
  BY <1>1 DEF OutboxInv, JobsWritten, JobsCounted
<1>3. j \in Job /\ x \in Consumer
  BY <1>1 DEF Job, Consumer
<1>4. /\ j.made = job[e].made /\ x.event = e /\ x.closes = {} /\ x.status = "PENDING"
  BY <1>1 DEF Job
<1> HIDE DEF j, x
<1>5. RowsKept /\ Grown
  BY <1>1, QuietRows DEF RowsKept
<1>6. JobsWritten' /\ JobsCounted' /\ job' \in [Events -> Job]
  BY <1>1, <1>2, <1>3, <1>4, <1>5, JobAfter
<1>7. ConsumersWritten' /\ Projections' /\ consumer' \in [Workers -> Consumer \cup {NoTxn}]
  BY <1>1, <1>2, <1>3, <1>4, <1>5, ConsumerAfter
<1>8. ClaimsWritten' /\ ReplayWritten'
  BY <1>1, <1>5, ClaimsStay, ReplayStays
<1>9. TypeOK'
  BY <1>1, <1>6, <1>7 DEF OutboxInv, TypeOK
<1> QED
  BY <1>5, <1>6, <1>7, <1>8, <1>9 DEF OutboxInv, RowsKept

\* A worker goes on with its job.
LEMMA StepOfConsumer ==
    ASSUME OutboxInv, NEW c \in Workers, consumer[c] # NoTxn,
           NEW step \in {"reading", "project", "projected", "rechecked", "acked", "thrown", "recorded"}
    PROVE  LET x == [consumer[c] EXCEPT !.step = step]
           IN  /\ x \in Consumer /\ x # NoTxn
               /\ \A e \in Events : e = x.event => Written(e)
               /\ \A e \in x.closes : IsReconciliation(e)
               /\ x.status = "COMPLETED" => IsReconciliation(x.event)
               /\ [consumer EXCEPT ![c].step = step] = [consumer EXCEPT ![c] = x]
<1> DEFINE x == [consumer[c] EXCEPT !.step = step]
<1>1. consumer[c] \in Consumer
  BY ConsumerFacts
<1>2. x \in Consumer /\ x.event = consumer[c].event /\ x.closes = consumer[c].closes
      /\ x.status = consumer[c].status
  BY <1>1 DEF Consumer
<1>3. [consumer EXCEPT ![c].step = step] = [consumer EXCEPT ![c] = x]
  BY DEF OutboxInv, TypeOK
<1> HIDE DEF x
<1>4. x # NoTxn
  BY <1>2, OutboxAssumption
<1>5. /\ \A e \in Events : e = x.event => Written(e)
      /\ \A e \in x.closes : IsReconciliation(e)
      /\ x.status = "COMPLETED" => IsReconciliation(x.event)
  BY <1>2, ConsumerFacts
<1> QED
  BY <1>2, <1>3, <1>4, <1>5 DEF x

LEMMA ReadEventKeeps ==
    ASSUME OutboxInv, NEW c \in Workers, ReadEvent(c)
    PROVE  OutboxInv' /\ ConsumedStep
<1> DEFINE step == IF event[consumer[c].event].consumed THEN "acked" ELSE "project"
           x == [consumer[c] EXCEPT !.step = step]
<1>1. /\ consumer[c] # NoTxn /\ consumer' = [consumer EXCEPT ![c].step = step]
      /\ UNCHANGED <<payment, event, effect, claim, job, replay, replays>> /\ faults' = faults
  BY DEF ReadEvent, Does
<1>2. step \in {"reading", "project", "projected", "rechecked", "acked", "thrown", "recorded"}
  OBVIOUS
<1> HIDE DEF step
<1>3. /\ x \in Consumer /\ \A e \in Events : e = x.event => Written(e)
      /\ \A e \in x.closes : IsReconciliation(e)
      /\ x.status = "COMPLETED" => IsReconciliation(x.event)
      /\ consumer' = [consumer EXCEPT ![c] = x]
  BY <1>1, <1>2, StepOfConsumer
<1> HIDE DEF x
<1> QED
  BY <1>1, <1>3, WorkerAlone

LEMMA ProjectKeeps ==
    ASSUME OutboxInv, NEW c \in Workers, Project(c)
    PROVE  OutboxInv' /\ ConsumedStep
<1>1. PICK e \in Events : e = consumer[c].event /\ Written(e)
  BY ConsumerFacts DEF Project, Does
<1> DEFINE status == IF IsReconciliation(e) /\ payment # "PENDING" THEN "COMPLETED" ELSE "PENDING"
           closes == IF IsSettled(e) THEN OpenReconciliations ELSE {}
           x == [consumer[c] EXCEPT !.step = "projected", !.status = status, !.closes = closes]
<1>2. /\ consumer[c] \in Consumer /\ consumer' = [consumer EXCEPT ![c] = x]
      /\ UNCHANGED <<payment, event, effect, claim, job, replay, replays>> /\ faults' = faults
  BY <1>1, ConsumerFacts DEF Project, Does, OutboxInv, TypeOK
<1>3. /\ status \in {"PENDING", "COMPLETED"} /\ (status = "COMPLETED" => IsReconciliation(e))
      /\ closes \subseteq Events /\ \A d \in closes : IsReconciliation(d)
  BY DEF OpenReconciliations
<1> HIDE DEF status, closes
<1>4. x \in Consumer /\ x.event = e /\ x.status = status /\ x.closes = closes
  BY <1>1, <1>2, <1>3 DEF Consumer
<1> HIDE DEF x
<1> QED
  BY <1>1, <1>2, <1>3, <1>4, WorkerAlone

LEMMA RecheckKeeps ==
    ASSUME OutboxInv, NEW c \in Workers, Recheck(c)
    PROVE  OutboxInv' /\ ConsumedStep
<1>1. PICK e \in Events : e = consumer[c].event /\ Written(e)
  BY ConsumerFacts DEF Recheck, Does
<1> DEFINE settled == /\ IsReconciliation(e) /\ consumer[c].status = "PENDING"
                      /\ payment # "PENDING"
           status == IF settled THEN "COMPLETED" ELSE consumer[c].status
           closes == IF settled THEN consumer[c].closes \cup {e} ELSE consumer[c].closes
           x == [consumer[c] EXCEPT !.step = "rechecked", !.status = status, !.closes = closes]
<1>2. /\ consumer[c] \in Consumer /\ consumer[c] # NoTxn /\ consumer' = [consumer EXCEPT ![c] = x]
      /\ UNCHANGED <<payment, event, effect, claim, job, replay, replays>> /\ faults' = faults
  BY <1>1, ConsumerFacts DEF Recheck, Does, OutboxInv, TypeOK
<1>3. /\ status \in {"PENDING", "COMPLETED"} /\ (status = "COMPLETED" => IsReconciliation(e))
      /\ closes \subseteq Events /\ \A d \in closes : IsReconciliation(d)
  BY <1>1, <1>2, ConsumerFacts
<1> HIDE DEF status, closes
<1>4. x \in Consumer /\ x.event = e /\ x.status = status /\ x.closes = closes
  BY <1>1, <1>2, <1>3 DEF Consumer
<1> HIDE DEF x
<1> QED
  BY <1>1, <1>2, <1>3, <1>4, WorkerAlone

LEMMA ThrowKeeps ==
    ASSUME OutboxInv, NEW c \in Workers, Throw(c)
    PROVE  OutboxInv' /\ ConsumedStep
<1> DEFINE x == [consumer[c] EXCEPT !.step = "thrown"]
<1>1. /\ consumer[c] # NoTxn /\ consumer' = [consumer EXCEPT ![c].step = "thrown"]
      /\ UNCHANGED <<payment, event, effect, claim, job, replay, replays>> /\ faults' = faults
  BY DEF Throw
<1>2. /\ x \in Consumer /\ \A e \in Events : e = x.event => Written(e)
      /\ \A e \in x.closes : IsReconciliation(e)
      /\ x.status = "COMPLETED" => IsReconciliation(x.event)
      /\ consumer' = [consumer EXCEPT ![c] = x]
  BY <1>1, StepOfConsumer
<1> HIDE DEF x
<1> QED
  BY <1>1, <1>2, WorkerAlone

LEMMA WorkerDiesKeeps ==
    ASSUME OutboxInv, NEW c \in Workers, WorkerDies(c)
    PROVE  OutboxInv' /\ ConsumedStep
  BY WorkerAlone DEF WorkerDies

\* A worker ends with its job, and takes its result to the queue.
LEMMA ReleasedJob ==
    ASSUME OutboxInv, NEW c \in Workers, NEW e \in Events, NEW j \in Job, Written(e),
           job' = [job EXCEPT ![e] = j],
           j.state \in {"waiting", "active"} => j.made < JobAttempts,
           consumer' = [consumer EXCEPT ![c] = NoTxn],
           UNCHANGED <<payment, event, effect, claim, replay, replays, faults>>
    PROVE  OutboxInv' /\ ConsumedStep
<1>1. RowsKept /\ Grown
  BY QuietRows DEF RowsKept
<1>2. JobsWritten' /\ JobsCounted' /\ job' \in [Events -> Job]
  BY <1>1, JobAfter
<1>3. ConsumersWritten' /\ Projections' /\ consumer' \in [Workers -> Consumer \cup {NoTxn}]
  BY <1>1, ConsumerAfter
<1>4. ClaimsWritten' /\ ReplayWritten'
  BY <1>1, ClaimsStay, ReplayStays
<1>5. TypeOK'
  BY <1>2, <1>3 DEF OutboxInv, TypeOK
<1> QED
  BY <1>1, <1>2, <1>3, <1>4, <1>5 DEF OutboxInv, RowsKept

LEMMA FinishKeeps ==
    ASSUME OutboxInv, NEW c \in Workers, Finish(c)
    PROVE  OutboxInv' /\ ConsumedStep
<1>1. /\ consumer[c] # NoTxn /\ consumer' = [consumer EXCEPT ![c] = NoTxn]
      /\ UNCHANGED <<payment, event, effect, claim, replay, replays, faults>>
  BY DEF Finish, Does
<1>2. PICK e \in Events : e = consumer[c].event /\ Written(e)
  BY <1>1, ConsumerFacts
<1>3. job[e] \in Job
  BY DEF OutboxInv, TypeOK
<1> DEFINE j == IF Owns(c) THEN [job[e] EXCEPT !.state = "completed", !.owner = NoTxn] ELSE job[e]
<1>4. job' = [job EXCEPT ![e] = j]
  BY <1>2 DEF Finish, OutboxInv, TypeOK
<1>5. j \in Job /\ (j.state \in {"waiting", "active"} => j.made < JobAttempts)
  <2>1. [job[e] EXCEPT !.state = "completed", !.owner = NoTxn] \in Job
    BY <1>3 DEF Job
  <2>2. [job[e] EXCEPT !.state = "completed", !.owner = NoTxn].state = "completed"
    BY <1>3 DEF Job
  <2> QED
    BY <2>1, <2>2, <1>3 DEF OutboxInv, JobsCounted
<1> HIDE DEF j
<1> QED
  BY <1>1, <1>2, <1>4, <1>5, ReleasedJob

LEMMA FailJobKeeps ==
    ASSUME OutboxInv, NEW c \in Workers, FailJob(c)
    PROVE  OutboxInv' /\ ConsumedStep
<1>1. /\ consumer[c] # NoTxn /\ consumer' = [consumer EXCEPT ![c] = NoTxn]
      /\ UNCHANGED <<payment, event, effect, claim, replay, replays, faults>>
  BY DEF FailJob, Does
<1>2. PICK e \in Events : e = consumer[c].event /\ Written(e)
  BY <1>1, ConsumerFacts
<1>3. job[e] \in Job
  BY DEF OutboxInv, TypeOK
<1> DEFINE state == IF FinalAttempt(job[e].made) THEN "failed" ELSE "waiting"
           failed == [job[e] EXCEPT !.state = state, !.made = @ + 1, !.owner = NoTxn]
           j == IF Owns(c) THEN failed ELSE job[e]
<1>4. job' = [job EXCEPT ![e] = j]
  BY <1>2 DEF FailJob, OutboxInv, TypeOK
<1>5. j \in Job /\ (j.state \in {"waiting", "active"} => j.made < JobAttempts)
  <2>1. CASE Owns(c)
    <3>1. job[e].made < JobAttempts /\ job[e].made \in Nat /\ JobAttempts \in Nat
      BY <2>1, <1>2, <1>3, OutboxAssumption DEF Owns, OutboxInv, JobsCounted, Job
    <3>2. job[e].made + 1 \in 0..JobAttempts /\ state \in {"waiting", "failed"}
          /\ (state = "waiting" => job[e].made + 1 < JobAttempts)
      BY <3>1 DEF FinalAttempt
    <3> HIDE DEF state
    <3>3. failed \in Job /\ failed.state = state /\ failed.made = job[e].made + 1
      BY <3>2, <1>3 DEF Job
    <3> QED
      BY <3>2, <3>3, <2>1
  <2>2. CASE ~Owns(c)
    BY <2>2, <1>3 DEF OutboxInv, JobsCounted
  <2> QED
    BY <2>1, <2>2
<1> HIDE DEF j
<1> QED
  BY <1>1, <1>2, <1>4, <1>5, ReleasedJob

LEMMA CommitKeeps ==
    ASSUME OutboxInv, NEW c \in Workers, Commit(c)
    PROVE  OutboxInv' /\ ConsumedStep
<1>1. /\ consumer[c] # NoTxn /\ consumer' = [consumer EXCEPT ![c].step = "acked"]
      /\ UNCHANGED <<payment, claim, job, replay, replays>> /\ faults' = faults
  BY DEF Commit, Does
<1>2. PICK e \in Events : e = consumer[c].event /\ Written(e)
  BY <1>1, ConsumerFacts
<1>3. /\ event[e] \in EventRow /\ event[e].attempts \in Nat /\ faults \in Nat /\ MaxAttempts \in Nat
  BY <1>2, RowFacts DEF OutboxInv
<1>4. RowsKept /\ event' \in [Events -> EventRow \cup {NoEvent}]
  <2>1. CASE event[e].consumed
    <3>1. event' = event
      BY <2>1, <1>2 DEF Commit
    <3> QED
      BY <3>1, <1>1, QuietRows DEF OutboxInv, TypeOK
  <2>2. CASE ~event[e].consumed
    <3> DEFINE row == [event[e] EXCEPT !.consumed = TRUE, !.processingDead = FALSE]
    <3>1. event' = [event EXCEPT ![e] = row]
      BY <2>2, <1>2 DEF Commit, OutboxInv, TypeOK
    <3>2. /\ row \in EventRow /\ row.attempts = event[e].attempts /\ row.published = event[e].published
          /\ row.deadLettered = event[e].deadLettered /\ row.available = event[e].available
          /\ ~row.processingDead
      BY <1>3 DEF EventRow
    <3> HIDE DEF row
    <3>3. /\ row.deadLettered => row.attempts >= MaxAttempts
          /\ row.attempts <= MaxAttempts + faults'
      BY <3>2, <1>1, <1>2 DEF OutboxInv, GivenUp
    <3>4. /\ \A d \in Events : d # e /\ Held(d) => Held(d)'
          /\ Held(e) => Held(e)'
      BY <3>1, <3>2, <1>1, HeldOthers
    <3>5. ~row.published /\ ~row.deadLettered =>
              (~row.available /\ Held(e)') \/ row.attempts < MaxAttempts + faults'
      BY <3>2, <3>4, <1>1, <1>2 DEF OutboxInv, Budget
    <3>6. faults' \in Nat /\ faults' >= faults
      BY <1>1, <1>3
    <3> QED
      BY <2>2, <3>1, <3>2, <3>3, <3>4, <3>5, <3>6, RowChanges
  <2> QED
    BY <2>1, <2>2
<1>5. Grown
  BY <1>4 DEF RowsKept
<1> DEFINE x == [consumer[c] EXCEPT !.step = "acked"]
<1>6. /\ x \in Consumer /\ \A d \in Events : d = x.event => Written(d)
      /\ \A d \in x.closes : IsReconciliation(d)
      /\ x.status = "COMPLETED" => IsReconciliation(x.event)
      /\ consumer' = [consumer EXCEPT ![c] = x]
  BY <1>1, StepOfConsumer
<1> HIDE DEF x
<1>7. ConsumersWritten' /\ Projections' /\ consumer' \in [Workers -> Consumer \cup {NoTxn}]
  BY <1>5, <1>6, ConsumerAfter
<1>8. ClaimsWritten' /\ JobsWritten' /\ JobsCounted' /\ ReplayWritten'
  BY <1>1, <1>5, ClaimsStay, JobsStay, ReplayStays
<1>9. effect' \in [Events -> {"none", "PENDING", "COMPLETED", "FAILED"}]
  <2>1. consumer[c].status \in {"PENDING", "COMPLETED"}
    BY <1>1, ConsumerFacts
  <2> QED
    BY <2>1 DEF Commit, OutboxInv, TypeOK
<1>10. TypeOK'
  BY <1>1, <1>4, <1>7, <1>9 DEF OutboxInv, TypeOK
<1> QED
  BY <1>4, <1>7, <1>8, <1>10 DEF OutboxInv, RowsKept

LEMMA RecordFailureKeeps ==
    ASSUME OutboxInv, NEW c \in Workers, RecordFailure(c)
    PROVE  OutboxInv' /\ ConsumedStep
<1>1. /\ consumer[c] # NoTxn /\ consumer' = [consumer EXCEPT ![c].step = "recorded"]
      /\ UNCHANGED <<payment, effect, claim, job, replay, replays>> /\ faults' = faults
  BY DEF RecordFailure, Does
<1>2. PICK e \in Events : e = consumer[c].event /\ Written(e)
  BY <1>1, ConsumerFacts
<1>3. /\ event[e] \in EventRow /\ event[e].attempts \in Nat /\ faults \in Nat /\ MaxAttempts \in Nat
  BY <1>2, RowFacts DEF OutboxInv
<1> DEFINE dead == FinalAttempt(consumer[c].made)
           row == [event[e] EXCEPT !.processingDead = dead]
<1>4. RowsKept /\ event' \in [Events -> EventRow \cup {NoEvent}]
  <2>1. CASE event' = event
    BY <2>1, <1>1, QuietRows DEF OutboxInv, TypeOK
  <2>2. CASE event' # event
    <3>1. event' = [event EXCEPT ![e] = row] /\ ~event[e].consumed
      BY <2>2, <1>2 DEF RecordFailure, RecordsFailure, OutboxInv, TypeOK
    <3>2. dead \in BOOLEAN
      BY DEF FinalAttempt
    <3> HIDE DEF dead
    <3>3. /\ row \in EventRow /\ row.attempts = event[e].attempts /\ row.published = event[e].published
          /\ row.deadLettered = event[e].deadLettered /\ row.available = event[e].available
          /\ row.consumed = event[e].consumed
      BY <3>2, <1>3 DEF EventRow
    <3> HIDE DEF row
    <3>4. /\ row.deadLettered => row.attempts >= MaxAttempts
          /\ row.attempts <= MaxAttempts + faults'
      BY <3>3, <1>1, <1>2 DEF OutboxInv, GivenUp
    <3>5. /\ \A d \in Events : d # e /\ Held(d) => Held(d)'
          /\ Held(e) => Held(e)'
      BY <3>1, <3>3, <1>1, HeldOthers
    <3>6. ~row.published /\ ~row.deadLettered =>
              (~row.available /\ Held(e)') \/ row.attempts < MaxAttempts + faults'
      BY <3>3, <3>5, <1>1, <1>2 DEF OutboxInv, Budget
    <3>7. faults' \in Nat /\ faults' >= faults
      BY <1>1, <1>3
    <3> QED
      BY <3>1, <3>3, <3>4, <3>5, <3>6, <3>7, RowChanges
  <2> QED
    BY <2>1, <2>2
<1>5. Grown
  BY <1>4 DEF RowsKept
<1> DEFINE x == [consumer[c] EXCEPT !.step = "recorded"]
<1>6. /\ x \in Consumer /\ \A d \in Events : d = x.event => Written(d)
      /\ \A d \in x.closes : IsReconciliation(d)
      /\ x.status = "COMPLETED" => IsReconciliation(x.event)
      /\ consumer' = [consumer EXCEPT ![c] = x]
  BY <1>1, StepOfConsumer
<1> HIDE DEF x
<1>7. ConsumersWritten' /\ Projections' /\ consumer' \in [Workers -> Consumer \cup {NoTxn}]
  BY <1>5, <1>6, ConsumerAfter
<1>8. ClaimsWritten' /\ JobsWritten' /\ JobsCounted' /\ ReplayWritten'
  BY <1>1, <1>5, ClaimsStay, JobsStay, ReplayStays
<1>9. TypeOK'
  BY <1>1, <1>4, <1>7 DEF OutboxInv, TypeOK
<1> QED
  BY <1>4, <1>7, <1>8, <1>9 DEF OutboxInv, RowsKept

LEMMA StallKeeps ==
    ASSUME OutboxInv, NEW e \in Events, Stall(e)
    PROVE  OutboxInv' /\ ConsumedStep
<1> DEFINE again == [job[e] EXCEPT !.state = "waiting", !.stalls = @ + 1, !.owner = NoTxn]
           failed == [job[e] EXCEPT !.state = "failed", !.owner = NoTxn]
           j == IF job[e].stalls < MaxStalls THEN again ELSE failed
<1>1. /\ job' = [job EXCEPT ![e] = j] /\ job[e].state = "active" /\ job[e] \in Job
      /\ UNCHANGED <<payment, event, effect, claim, consumer, replay, replays>>
      /\ (faults' = faults \/ Fault)
  <2>1. job' = [job EXCEPT ![e] = j]
    BY DEF Stall
  <2> QED
    BY <2>1 DEF Stall, OutboxInv, TypeOK
<1>2. job[e].made < JobAttempts /\ Written(e)
  BY <1>1 DEF OutboxInv, JobsCounted, JobsWritten
<1>3. j \in Job /\ (j.state \in {"waiting", "active"} => j.made < JobAttempts)
  <2>1. CASE job[e].stalls < MaxStalls
    <3>1. job[e].stalls + 1 \in 0..MaxStalls
      BY <2>1, <1>1, OutboxAssumption DEF Job
    <3>2. again \in Job /\ again.made = job[e].made
      BY <3>1, <1>1 DEF Job
    <3> QED
      BY <3>2, <2>1, <1>2
  <2>2. CASE ~(job[e].stalls < MaxStalls)
    <3>1. failed \in Job /\ failed.state = "failed"
      BY <1>1 DEF Job
    <3> QED
      BY <3>1, <2>2
  <2> QED
    BY <2>1, <2>2
<1> HIDE DEF j
<1> QED
  BY <1>1, <1>2, <1>3, QueueAlone

LEMMA NoJobIsJob == NoJob \in Job /\ NoJob.state = "none"
  BY OutboxAssumption DEF NoJob, Job

LEMMA DropJobKeeps ==
    ASSUME OutboxInv, NEW e \in Events, DropJob(e)
    PROVE  OutboxInv' /\ ConsumedStep
  BY NoJobIsJob, QueueAlone DEF DropJob

-----------------------------------------------------------------------------
(* Replay                                                                  *)

LEMMA StartReplayKeeps ==
    ASSUME OutboxInv, NEW e \in Events, StartReplay(e)
    PROVE  OutboxInv' /\ ConsumedStep
<1>1. /\ UNCHANGED <<payment, event, effect, claim, job, consumer, faults>>
      /\ Written(e) /\ replay' = [event |-> e, step |-> "read"]
      /\ replays < MaxReplays /\ replays' = replays + 1
  BY DEF StartReplay, Replayable
<1>2. RowsKept /\ Grown
  BY <1>1, QuietRows DEF RowsKept
<1>3. ClaimsWritten' /\ JobsWritten' /\ JobsCounted' /\ ConsumersWritten' /\ Projections'
  BY <1>1, <1>2, ClaimsStay, JobsStay, ConsumersStay
<1>4. replay' \in Replay /\ ReplayWritten'
  BY <1>1 DEF Replay, ReplayWritten, Written
<1>5. replays' \in 0..MaxReplays
  BY <1>1, OutboxAssumption DEF OutboxInv, TypeOK
<1>6. TypeOK'
  BY <1>1, <1>4, <1>5 DEF OutboxInv, TypeOK
<1> QED
  BY <1>2, <1>3, <1>4, <1>6 DEF OutboxInv, RowsKept

LEMMA ReplayFacts ==
    ASSUME OutboxInv, replay # NoReplay
    PROVE  replay \in Replay /\ replay.event \in Events /\ Written(replay.event)
<1>1. replay \in Replay
  BY DEF OutboxInv, TypeOK
<1> QED
  BY <1>1 DEF Replay, OutboxInv, ReplayWritten

LEMMA ClearTerminalJobKeeps ==
    ASSUME OutboxInv, ClearTerminalJob
    PROVE  OutboxInv' /\ ConsumedStep
<1>1. replay # NoReplay /\ UNCHANGED <<payment, event, effect, claim, consumer, replays, faults>>
  BY DEF ClearTerminalJob
<1>2. PICK e \in Events : e = replay.event /\ Written(e)
  BY <1>1, ReplayFacts
<1> DEFINE cleared == Ended(e) \/ job[e].state = "none"
           j == IF cleared THEN NoJob ELSE job[e]
           r == [replay EXCEPT !.step = "cleared"]
<1>3. /\ job' = [job EXCEPT ![e] = j] /\ replay' = IF cleared THEN r ELSE NoReplay
  BY <1>2 DEF ClearTerminalJob, OutboxInv, TypeOK
<1>4. j \in Job /\ (j.state \in {"waiting", "active"} => j.made < JobAttempts)
  BY NoJobIsJob DEF OutboxInv, TypeOK, JobsCounted
<1>5. r \in Replay /\ r.event = e
  BY <1>1, <1>2, ReplayFacts DEF Replay
<1> HIDE DEF j, r, cleared
<1>6. RowsKept /\ Grown
  BY <1>1, QuietRows DEF RowsKept
<1>7. JobsWritten' /\ JobsCounted' /\ job' \in [Events -> Job]
  BY <1>2, <1>3, <1>4, <1>6, JobAfter
<1>8. ClaimsWritten' /\ ConsumersWritten' /\ Projections'
  BY <1>1, <1>6, ClaimsStay, ConsumersStay
<1>9. replay' \in Replay \cup {NoReplay} /\ (replay' # NoReplay => replay'.event = e)
  BY <1>3, <1>5
<1>10. ReplayWritten'
  BY <1>1, <1>2, <1>9 DEF ReplayWritten, Written
<1>11. TypeOK'
  BY <1>1, <1>7, <1>9 DEF OutboxInv, TypeOK
<1> QED
  BY <1>6, <1>7, <1>8, <1>10, <1>11 DEF OutboxInv, RowsKept

LEMMA ResetEventKeeps ==
    ASSUME OutboxInv, ResetEvent
    PROVE  OutboxInv' /\ ConsumedStep
<1>1. /\ replay # NoReplay /\ replay' = NoReplay /\ claim' = claim /\ faults' = faults
      /\ UNCHANGED <<payment, effect, claim, job, consumer, replays>>
  BY DEF ResetEvent
<1>2. PICK e \in Events : e = replay.event /\ Written(e)
  BY <1>1, ReplayFacts
<1>3. /\ event[e] \in EventRow /\ faults \in Nat /\ MaxAttempts \in Nat \ {0} /\ MaxFaults \in Nat
  BY <1>2, RowFacts, OutboxAssumption DEF OutboxInv
<1>4. RowsKept /\ event' \in [Events -> EventRow \cup {NoEvent}]
  <2>1. CASE ~StillReplayable(e)
    <3>1. event' = event
      BY <2>1, <1>2 DEF ResetEvent
    <3> QED
      BY <3>1, <1>1, QuietRows DEF OutboxInv, TypeOK
  <2>2. CASE StillReplayable(e)
    <3> DEFINE row == Reset(event[e])
    <3>1. event' = [event EXCEPT ![e] = row] /\ ~event[e].consumed
      BY <2>2, <1>2 DEF ResetEvent, StillReplayable, Replayable, OutboxInv, TypeOK
    <3>2. 0 \in 0..(MaxAttempts + MaxFaults)
      BY <1>3
    <3>3. /\ row \in EventRow /\ row.attempts = 0 /\ ~row.processingDead /\ ~row.deadLettered
      BY <3>2, <1>3 DEF EventRow, Reset
    <3> HIDE DEF row
    <3>4. /\ row.attempts < MaxAttempts + faults' /\ row.attempts <= MaxAttempts + faults'
          /\ faults' \in Nat /\ faults' >= faults
      BY <3>3, <1>1, <1>3
    <3>5. \A d \in Events : d # e /\ Held(d) => Held(d)'
      BY <3>1, <1>1, HeldOthers
    <3> QED
      BY <3>1, <3>3, <3>4, <3>5, RowChanges
  <2> QED
    BY <2>1, <2>2
<1>5. Grown
  BY <1>4 DEF RowsKept
<1>6. ClaimsWritten' /\ JobsWritten' /\ JobsCounted' /\ ConsumersWritten' /\ Projections'
  BY <1>1, <1>5, ClaimsStay, JobsStay, ConsumersStay
<1>7. ReplayWritten' /\ TypeOK'
  BY <1>1, <1>4 DEF OutboxInv, TypeOK, ReplayWritten
<1> QED
  BY <1>4, <1>6, <1>7 DEF OutboxInv, RowsKept

-----------------------------------------------------------------------------
(* Every step of the outbox                                                *)

LEMMA OutboxNext ==
    ASSUME OutboxInv, Next
    PROVE  OutboxInv' /\ ConsumedStep
<1>1. ASSUME NEW e \in Events,
             \/ Emit(e) \/ (\E w \in Relays : ClaimEvent(w, e)) \/ BecomesAvailable(e)
             \/ (\E c \in Workers : TakeJob(c, e)) \/ Stall(e) \/ DropJob(e) \/ StartReplay(e)
      PROVE  OutboxInv' /\ ConsumedStep
  BY <1>1, EmitKeeps, ClaimEventKeeps, BecomesAvailableKeeps, TakeJobKeeps, StallKeeps,
     DropJobKeeps, StartReplayKeeps
<1>2. ASSUME NEW w \in Relays, RelayStep(w) \/ LoseClaim(w)
      PROVE  OutboxInv' /\ ConsumedStep
  BY <1>2, EnqueueKeeps, MarkPublishedKeeps, PublishFailsKeeps, RecordRelayFailureKeeps,
     LoseClaimKeeps DEF RelayStep
<1>3. ASSUME NEW c \in Workers, WorkerStep(c) \/ WorkerDies(c)
      PROVE  OutboxInv' /\ ConsumedStep
  BY <1>3, ReadEventKeeps, ProjectKeeps, RecheckKeeps, CommitKeeps, FinishKeeps, ThrowKeeps,
     RecordFailureKeeps, FailJobKeeps, WorkerDiesKeeps DEF WorkerStep
<1> QED
  BY <1>1, <1>2, <1>3, ClearTerminalJobKeeps, ResetEventKeeps DEF Next

-----------------------------------------------------------------------------
(* The fence of the relay                                                  *)

\* A step that settles no row and counts no attempt.
RowsNumbered ==
    \A e \in Events : Written(e)' =>
        /\ Written(e) /\ event'[e].attempts = event[e].attempts
        /\ event'[e].deadLettered = event[e].deadLettered
        /\ event'[e].published = event[e].published

\* A step in which passes go on or let go.
ClaimsNumbered ==
    \A w \in Relays : claim'[w] # NoClaim =>
        /\ claim[w] # NoClaim /\ claim'[w].event = claim[w].event
        /\ claim'[w].attempts = claim[w].attempts

\* A replay is counted when it begins.
ReplaysCounted == replays' = 0 => replays = 0 /\ (replay' = NoReplay \/ replay' = replay)

LEMMA FencedStays ==
    ASSUME OutboxInv', Fenced, RowsNumbered, ClaimsNumbered, ReplaysCounted
    PROVE  Fenced'
<1>1. \A e \in Events : Written(e)' /\ event'[e].deadLettered => ~event'[e].published
  BY DEF Fenced, RowsNumbered
<1>2. ASSUME replays' = 0 PROVE OnePass'
  <2>1. OnePass /\ replay' = NoReplay
    BY <1>2 DEF Fenced, ReplaysCounted, OnePass
  <2>2. ASSUME NEW w \in Relays, NEW e \in Events, claim'[w] # NoClaim, claim'[w].event = e
        PROVE  claim'[w].attempts <= event'[e].attempts
    <3>1. Written(e)'
      BY <2>2 DEF OutboxInv, ClaimsWritten, Written
    <3>2. claim[w] # NoClaim /\ claim[w].event = e /\ claim'[w].attempts = claim[w].attempts
      BY <2>2 DEF ClaimsNumbered
    <3>3. event'[e].attempts = event[e].attempts
      BY <3>1 DEF RowsNumbered
    <3>4. claim[w].attempts <= event[e].attempts
      BY <3>2, <2>1 DEF OnePass
    <3> QED
      BY <3>2, <3>3, <3>4
  <2>3. ASSUME NEW v \in Relays, NEW w \in Relays, claim'[v] # NoClaim, claim'[w] # NoClaim,
               claim'[v].event = claim'[w].event, claim'[v].attempts = claim'[w].attempts
        PROVE  v = w
    BY <2>1, <2>3 DEF ClaimsNumbered, OnePass
  <2>4. ASSUME NEW e \in Events, Written(e)', event'[e].deadLettered PROVE ~Held(e)'
    <3>1. ~Held(e) /\ event'[e].attempts = event[e].attempts
      BY <2>1, <2>4 DEF RowsNumbered, OnePass
    <3> QED
      BY <3>1 DEF ClaimsNumbered, Held
  <2> QED
    BY <2>1, <2>2, <2>3, <2>4 DEF OnePass
<1> QED
  BY <1>1, <1>2 DEF Fenced

LEMMA FencedQuiet ==
    ASSUME OutboxInv', Fenced, event' = event, claim' = claim, ReplaysCounted
    PROVE  Fenced'
<1>1. RowsNumbered /\ ClaimsNumbered
  BY DEF RowsNumbered, ClaimsNumbered, Written
<1> QED
  BY <1>1, FencedStays

\* One row changes, and its number and its settlement do not.
LEMMA RowNumbered ==
    ASSUME OutboxInv, NEW e \in Events, Written(e), NEW row, event' = [event EXCEPT ![e] = row],
           row.attempts = event[e].attempts, row.deadLettered = event[e].deadLettered,
           row.published = event[e].published
    PROVE  RowsNumbered
<1>1. event'[e] = row /\ \A d \in Events : d # e => event'[d] = event[d]
  BY DEF OutboxInv, TypeOK
<1> QED
  BY <1>1 DEF RowsNumbered, Written

\* A pass lets its claim go or goes on with it.
LEMMA ClaimNumbered ==
    ASSUME OutboxInv, NEW w \in Relays, claim[w] # NoClaim,
           \/ claim' = [claim EXCEPT ![w] = NoClaim]
           \/ \E step \in {"queued", "refused"} : claim' = [claim EXCEPT ![w].step = step]
    PROVE  ClaimsNumbered /\ \A v \in Relays : v # w => claim'[v] = claim[v]
<1>1. CASE claim' = [claim EXCEPT ![w] = NoClaim]
  BY <1>1 DEF ClaimsNumbered, OutboxInv, TypeOK
<1>2. CASE \E step \in {"queued", "refused"} : claim' = [claim EXCEPT ![w].step = step]
  <2>1. PICK step \in {"queued", "refused"} : claim' = [claim EXCEPT ![w].step = step]
    BY <1>2
  <2> DEFINE c == [claim[w] EXCEPT !.step = step]
  <2>2. claim[w] \in Claim
    BY ClaimFacts
  <2>3. c.event = claim[w].event /\ c.attempts = claim[w].attempts
    BY <2>2 DEF Claim
  <2>4. claim'[w] = c /\ \A v \in Relays : v # w => claim'[v] = claim[v]
    BY <2>1 DEF OutboxInv, TypeOK
  <2> HIDE DEF c
  <2> QED
    BY <2>3, <2>4 DEF ClaimsNumbered
<1> QED
  BY <1>1, <1>2

LEMMA EmitFenced ==
    ASSUME OutboxInv, OutboxInv', Fenced, NEW e \in Events, Emit(e)
    PROVE  Fenced'
<1>1. /\ ~Written(e) /\ claim' = claim /\ replay' = replay /\ replays' = replays
      /\ event'[e].deadLettered = FALSE /\ \A d \in Events : d # e => event'[d] = event[d]
  BY DEF Emit, OutboxInv, TypeOK
<1>2. \A w \in Relays : claim[w] # NoClaim => claim[w].event # e
  BY <1>1 DEF OutboxInv, ClaimsWritten
<1>3. \A d \in Events : Written(d)' /\ event'[d].deadLettered =>
          d # e /\ Written(d) /\ event[d].deadLettered /\ event'[d] = event[d]
  BY <1>1 DEF Written
<1>4. \A d \in Events : Written(d)' /\ event'[d].deadLettered => ~event'[d].published
  BY <1>3 DEF Fenced
<1>5. ASSUME replays' = 0 PROVE OnePass'
  <2>1. OnePass
    BY <1>1, <1>5 DEF Fenced
  <2>2. \A w \in Relays, d \in Events :
          claim'[w] # NoClaim /\ claim'[w].event = d => claim'[w].attempts <= event'[d].attempts
    BY <2>1, <1>1, <1>2 DEF OnePass
  <2>3. \A d \in Events : Written(d)' /\ event'[d].deadLettered => ~Held(d)'
    BY <2>1, <1>1, <1>3 DEF OnePass, Held
  <2> QED
    BY <2>1, <2>2, <2>3, <1>1 DEF OnePass
<1> QED
  BY <1>4, <1>5 DEF Fenced

LEMMA ClaimEventFenced ==
    ASSUME OutboxInv, OutboxInv', Fenced, NEW w \in Relays, NEW e \in Events, ClaimEvent(w, e)
    PROVE  Fenced'
<1> DEFINE row == [event[e] EXCEPT !.attempts = event[e].attempts + 1, !.available = FALSE]
           c == [event |-> e, attempts |-> event[e].attempts + 1, step |-> "claimed"]
<1>1. /\ claim[w] = NoClaim /\ replay' = replay /\ replays' = replays
      /\ event' = [event EXCEPT ![e] = row] /\ claim' = [claim EXCEPT ![w] = c]
  BY DEF ClaimEvent, OutboxInv, TypeOK
<1>2. /\ Written(e) /\ ~event[e].published /\ ~event[e].deadLettered
      /\ event[e] \in EventRow /\ event[e].attempts \in Nat
  BY RowFacts DEF ClaimEvent, Due, OutboxInv
<1>3. row.attempts = event[e].attempts + 1 /\ ~row.deadLettered
  BY <1>2 DEF EventRow
<1>4. c.event = e /\ c.attempts = event[e].attempts + 1
  OBVIOUS
<1> HIDE DEF row, c
<1>5. /\ event'[e] = row /\ claim'[w] = c
      /\ \A d \in Events : d # e => event'[d] = event[d]
      /\ \A v \in Relays : v # w => claim'[v] = claim[v]
  BY <1>1 DEF OutboxInv, TypeOK
<1>6. \A d \in Events : Written(d)' /\ event'[d].deadLettered =>
          d # e /\ Written(d) /\ event[d].deadLettered /\ event'[d] = event[d]
  BY <1>3, <1>5 DEF Written
<1>7. \A d \in Events : Written(d)' /\ event'[d].deadLettered => ~event'[d].published
  BY <1>6 DEF Fenced
<1>8. ASSUME replays' = 0 PROVE OnePass'
  <2>1. OnePass
    BY <1>1, <1>8 DEF Fenced
  <2>2. ASSUME NEW v \in Relays, v # w, claim'[v] # NoClaim, claim'[v].event = e
        PROVE  claim'[v].attempts \in Nat /\ claim'[v].attempts < event[e].attempts + 1
    <3>1. claim'[v] = claim[v]
      BY <2>2, <1>5
    <3>2. claim[v].attempts <= event[e].attempts
      BY <3>1, <2>2, <2>1 DEF OnePass
    <3>3. claim[v].attempts \in 1..(MaxAttempts + MaxFaults)
      BY <3>1, <2>2, ClaimFacts
    <3> QED
      BY <3>1, <3>2, <3>3, <1>2, OutboxAssumption
  <2>3. ASSUME NEW v \in Relays, NEW d \in Events, claim'[v] # NoClaim, claim'[v].event = d
        PROVE  claim'[v].attempts <= event'[d].attempts
    <3>1. CASE v = w
      BY <3>1, <2>3, <1>2, <1>3, <1>4, <1>5
    <3>2. CASE v # w /\ d = e
      BY <3>2, <2>2, <2>3, <1>2, <1>3, <1>5
    <3>3. CASE v # w /\ d # e
      BY <3>3, <2>1, <2>3, <1>5 DEF OnePass
    <3> QED
      BY <3>1, <3>2, <3>3
  <2>4. ASSUME NEW u \in Relays, NEW v \in Relays, claim'[u] # NoClaim, claim'[v] # NoClaim,
               claim'[u].event = claim'[v].event, claim'[u].attempts = claim'[v].attempts, u # v
        PROVE  FALSE
    <3>1. CASE u = w
      BY <3>1, <2>2, <2>4, <1>2, <1>4, <1>5
    <3>2. CASE v = w
      BY <3>2, <2>2, <2>4, <1>2, <1>4, <1>5
    <3>3. CASE u # w /\ v # w
      BY <3>3, <2>1, <2>4, <1>5 DEF OnePass
    <3> QED
      BY <3>1, <3>2, <3>3
  <2>5. ASSUME NEW d \in Events, Written(d)', event'[d].deadLettered PROVE ~Held(d)'
    <3>1. d # e /\ event'[d] = event[d] /\ ~Held(d)
      BY <2>1, <2>5, <1>6 DEF OnePass
    <3> QED
      BY <3>1, <1>4, <1>5 DEF Held
  <2> QED
    BY <2>1, <2>3, <2>4, <2>5, <1>1 DEF OnePass
<1> QED
  BY <1>7, <1>8 DEF Fenced

\* A pass settles the row it owns: nobody else has its number.
LEMMA SettledFenced ==
    ASSUME OutboxInv, OutboxInv', Fenced, NEW w \in Relays, claim[w] # NoClaim,
           NEW e \in Events, e = claim[w].event, Owned(w), NEW row,
           event' = [event EXCEPT ![e] = row], claim' = [claim EXCEPT ![w] = NoClaim],
           row.attempts = event[e].attempts, row.deadLettered => ~row.published,
           replay' = replay, replays' = replays
    PROVE  Fenced'
<1>1. /\ event'[e] = row /\ claim'[w] = NoClaim
      /\ \A d \in Events : d # e => event'[d] = event[d]
      /\ \A v \in Relays : v # w => claim'[v] = claim[v]
  BY DEF OutboxInv, TypeOK
<1>2. \A d \in Events : d # e => (Written(d)' <=> Written(d))
  BY <1>1 DEF Written
<1>3. \A d \in Events : Written(d)' /\ event'[d].deadLettered => ~event'[d].published
  BY <1>1, <1>2 DEF Fenced
<1>4. ASSUME replays' = 0 PROVE OnePass'
  <2>1. OnePass
    BY <1>4 DEF Fenced
  <2>2. \A v \in Relays, d \in Events :
          claim'[v] # NoClaim /\ claim'[v].event = d => claim'[v].attempts <= event'[d].attempts
    BY <2>1, <1>1 DEF OnePass
  <2>3. \A u, v \in Relays :
          (/\ claim'[u] # NoClaim /\ claim'[v] # NoClaim
           /\ claim'[u].event = claim'[v].event /\ claim'[u].attempts = claim'[v].attempts)
          => u = v
    BY <2>1, <1>1 DEF OnePass
  <2>4. ~Held(e)'
    <3>1. event[e].attempts = claim[w].attempts
      BY DEF Owned
    <3>2. ASSUME NEW v \in Relays, claim'[v] # NoClaim, claim'[v].event = e,
                 claim'[v].attempts = event'[e].attempts
          PROVE  FALSE
      <4>1. v # w /\ claim'[v] = claim[v]
        BY <3>2, <1>1
      <4> QED
        BY <4>1, <3>1, <3>2, <2>1, <1>1 DEF OnePass
    <3> QED
      BY <3>2 DEF Held
  <2>5. \A d \in Events : Written(d)' /\ event'[d].deadLettered => ~Held(d)'
    <3> SUFFICES ASSUME NEW d \in Events, Written(d)', event'[d].deadLettered, d # e
                 PROVE  ~Held(d)'
      BY <2>4
    <3>1. ~Held(d) /\ event'[d] = event[d]
      BY <2>1, <1>1, <1>2 DEF OnePass
    <3> QED
      BY <3>1, <1>1 DEF Held
  <2> QED
    BY <2>1, <2>2, <2>3, <2>5 DEF OnePass
<1> QED
  BY <1>3, <1>4 DEF Fenced

LEMMA ReleaseFenced ==
    ASSUME OutboxInv, OutboxInv', Fenced, NEW w \in Relays,
           MarkPublished(w) \/ RecordRelayFailure(w)
    PROVE  Fenced'
<1>1. /\ claim[w] # NoClaim /\ claim' = [claim EXCEPT ![w] = NoClaim]
      /\ replay' = replay /\ replays' = replays
  BY DEF MarkPublished, RecordRelayFailure, At
<1>2. PICK e \in Events : e = claim[w].event /\ Written(e)
  BY <1>1, ClaimFacts
<1>3. event[e] \in EventRow
  BY <1>2, RowFacts DEF OutboxInv
<1>4. CASE ~Owned(w)
  <2>1. event' = event
    BY <1>4 DEF MarkPublished, RecordRelayFailure
  <2>2. RowsNumbered /\ ReplaysCounted
    BY <2>1, <1>1 DEF RowsNumbered, ReplaysCounted, Written
  <2>3. ClaimsNumbered
    BY <1>1, ClaimNumbered
  <2> QED
    BY <2>2, <2>3, FencedStays
<1>5. CASE Owned(w) /\ MarkPublished(w)
  <2> DEFINE row == [event[e] EXCEPT !.published = TRUE]
  <2>1. event' = [event EXCEPT ![e] = row]
    BY <1>2, <1>5 DEF MarkPublished, OutboxInv, TypeOK
  <2>2. ~event[e].deadLettered
    BY <1>2, <1>5 DEF Owned
  <2>3. row.attempts = event[e].attempts /\ row.deadLettered = event[e].deadLettered
    BY <1>3 DEF EventRow
  <2> HIDE DEF row
  <2> QED
    BY <2>1, <2>2, <2>3, <1>1, <1>2, <1>5, SettledFenced
<1>6. CASE Owned(w) /\ RecordRelayFailure(w)
  <2> DEFINE row == [event[e] EXCEPT !.available = FALSE,
                                     !.deadLettered = Terminal(claim[w].attempts)]
  <2>1. event' = [event EXCEPT ![e] = row]
    BY <1>2, <1>6 DEF RecordRelayFailure, OutboxInv, TypeOK
  <2>2. ~event[e].published
    BY <1>2, <1>6 DEF Owned
  <2>3. row.attempts = event[e].attempts /\ row.published = event[e].published
    BY <1>3 DEF EventRow
  <2> HIDE DEF row
  <2> QED
    BY <2>1, <2>2, <2>3, <1>1, <1>2, <1>6, SettledFenced
<1> QED
  BY <1>4, <1>5, <1>6

LEMMA PassFenced ==
    ASSUME OutboxInv, OutboxInv', Fenced, NEW w \in Relays,
           Enqueue(w) \/ PublishFails(w) \/ LoseClaim(w)
    PROVE  Fenced'
<1>1. /\ claim[w] # NoClaim /\ event' = event /\ replay' = replay /\ replays' = replays
      /\ \/ claim' = [claim EXCEPT ![w] = NoClaim]
         \/ \E step \in {"queued", "refused"} : claim' = [claim EXCEPT ![w].step = step]
  BY DEF Enqueue, PublishFails, LoseClaim, At
<1>2. ClaimsNumbered
  BY <1>1, ClaimNumbered
<1>3. RowsNumbered /\ ReplaysCounted
  BY <1>1 DEF RowsNumbered, ReplaysCounted, Written
<1> QED
  BY <1>2, <1>3, FencedStays

LEMMA BecomesAvailableFenced ==
    ASSUME OutboxInv, OutboxInv', Fenced, NEW e \in Events, BecomesAvailable(e)
    PROVE  Fenced'
<1> DEFINE row == [event[e] EXCEPT !.available = TRUE]
<1>1. /\ event' = [event EXCEPT ![e] = row] /\ claim' = claim /\ replay' = replay
      /\ replays' = replays /\ Written(e)
  BY DEF BecomesAvailable, OutboxInv, TypeOK
<1>2. event[e] \in EventRow
  BY <1>1, RowFacts DEF OutboxInv
<1>3. /\ row.attempts = event[e].attempts /\ row.deadLettered = event[e].deadLettered
      /\ row.published = event[e].published
  BY <1>2 DEF EventRow
<1> HIDE DEF row
<1>4. RowsNumbered
  BY <1>1, <1>3, RowNumbered
<1> QED
  BY <1>1, <1>4, FencedStays DEF ClaimsNumbered, ReplaysCounted

\* What the worker writes to the row is no concern of the relay.
LEMMA WorkerFenced ==
    ASSUME OutboxInv, OutboxInv', Fenced, NEW c \in Workers, Commit(c) \/ RecordFailure(c)
    PROVE  Fenced'
<1>1. consumer[c] # NoTxn /\ claim' = claim /\ replay' = replay /\ replays' = replays
  BY DEF Commit, RecordFailure, Does
<1>2. PICK e \in Events : e = consumer[c].event /\ Written(e)
  BY <1>1, ConsumerFacts
<1>3. event[e] \in EventRow
  BY <1>2, RowFacts DEF OutboxInv
<1> DEFINE done == [event[e] EXCEPT !.consumed = TRUE, !.processingDead = FALSE]
           failed == [event[e] EXCEPT !.processingDead = FinalAttempt(consumer[c].made)]
<1>4. \/ event' = event \/ event' = [event EXCEPT ![e] = done]
      \/ event' = [event EXCEPT ![e] = failed]
  <2>1. CASE Commit(c)
    BY <2>1, <1>2 DEF Commit, OutboxInv, TypeOK
  <2>2. CASE RecordFailure(c)
    BY <2>2, <1>2 DEF RecordFailure, OutboxInv, TypeOK
  <2> QED
    BY <2>1, <2>2
<1>5. /\ done.attempts = event[e].attempts /\ done.deadLettered = event[e].deadLettered
      /\ done.published = event[e].published
  BY <1>3 DEF EventRow
<1>6. /\ failed.attempts = event[e].attempts /\ failed.deadLettered = event[e].deadLettered
      /\ failed.published = event[e].published
  BY <1>3 DEF EventRow
<1> HIDE DEF done, failed
<1>7. RowsNumbered
  <2>1. CASE event' = event
    BY <2>1 DEF RowsNumbered, Written
  <2>2. CASE event' = [event EXCEPT ![e] = done]
    BY <2>2, <1>2, <1>5, RowNumbered
  <2>3. CASE event' = [event EXCEPT ![e] = failed]
    BY <2>3, <1>2, <1>6, RowNumbered
  <2> QED
    BY <2>1, <2>2, <2>3, <1>4
<1> QED
  BY <1>1, <1>7, FencedStays DEF ClaimsNumbered, ReplaysCounted

\* A row that is sent back is not settled; from the first replay on the numbers
\* of the passes say nothing.
LEMMA ReplayFenced ==
    ASSUME OutboxInv, OutboxInv', Fenced, ResetEvent
    PROVE  Fenced'
<1>1. replay # NoReplay /\ replays' = replays
  BY DEF ResetEvent
<1>2. replays' # 0
  BY <1>1 DEF Fenced, OnePass
<1>3. PICK e \in Events : e = replay.event /\ Written(e)
  BY <1>1, ReplayFacts
<1>4. event[e] \in EventRow
  BY <1>3, RowFacts DEF OutboxInv
<1> DEFINE row == Reset(event[e])
<1>5. event' = event \/ event' = [event EXCEPT ![e] = row]
  BY <1>3 DEF ResetEvent, OutboxInv, TypeOK
<1>6. row.deadLettered = FALSE
  BY <1>4 DEF Reset, EventRow
<1> HIDE DEF row
<1>7. \A d \in Events : Written(d)' /\ event'[d].deadLettered => ~event'[d].published
  <2>1. CASE event' = event
    BY <2>1 DEF Fenced, Written
  <2>2. CASE event' = [event EXCEPT ![e] = row]
    <3>1. event'[e] = row /\ \A d \in Events : d # e => event'[d] = event[d]
      BY <2>2 DEF OutboxInv, TypeOK
    <3> QED
      BY <3>1, <1>6 DEF Fenced, Written
  <2> QED
    BY <2>1, <2>2, <1>5
<1> QED
  BY <1>2, <1>7 DEF Fenced

LEMMA StartReplayFenced ==
    ASSUME OutboxInv, OutboxInv', Fenced, NEW e \in Events, StartReplay(e)
    PROVE  Fenced'
<1>1. event' = event /\ claim' = claim /\ replays' = replays + 1 /\ replays \in Nat
  BY OutboxAssumption DEF StartReplay, OutboxInv, TypeOK
<1>2. ReplaysCounted
  BY <1>1 DEF ReplaysCounted
<1> QED
  BY <1>1, <1>2, FencedQuiet

LEMMA FencedNext ==
    ASSUME OutboxInv, OutboxInv', Fenced, Next
    PROVE  Fenced'
<1>1. ASSUME event' = event, claim' = claim, replays' = replays,
             replay' = replay \/ replay' = NoReplay
      PROVE  Fenced'
  BY <1>1, FencedQuiet DEF ReplaysCounted
<1>2. ASSUME NEW e \in Events, (\E c \in Workers : TakeJob(c, e)) \/ Stall(e) \/ DropJob(e)
      PROVE  Fenced'
  BY <1>1, <1>2 DEF TakeJob, Stall, DropJob
<1>3. ASSUME NEW c \in Workers, \/ ReadEvent(c) \/ Project(c) \/ Recheck(c) \/ Finish(c)
                                \/ Throw(c) \/ FailJob(c) \/ WorkerDies(c)
      PROVE  Fenced'
  BY <1>1, <1>3 DEF ReadEvent, Project, Recheck, Finish, Throw, FailJob, WorkerDies
<1>4. CASE ClearTerminalJob
  <2>1. event' = event /\ claim' = claim /\ replays' = replays /\ replay # NoReplay
    BY <1>4 DEF ClearTerminalJob
  <2>2. replays' # 0
    BY <2>1 DEF Fenced, OnePass
  <2> QED
    BY <2>1, <2>2, FencedQuiet DEF ReplaysCounted
<1>5. ASSUME NEW e \in Events,
             \/ Emit(e) \/ (\E w \in Relays : ClaimEvent(w, e)) \/ BecomesAvailable(e)
             \/ (\E c \in Workers : TakeJob(c, e)) \/ Stall(e) \/ DropJob(e) \/ StartReplay(e)
      PROVE  Fenced'
  BY <1>2, <1>5, EmitFenced, ClaimEventFenced, BecomesAvailableFenced, StartReplayFenced
<1>6. ASSUME NEW w \in Relays, RelayStep(w) \/ LoseClaim(w) PROVE Fenced'
  BY <1>6, ReleaseFenced, PassFenced DEF RelayStep
<1>7. ASSUME NEW c \in Workers, WorkerStep(c) \/ WorkerDies(c) PROVE Fenced'
  BY <1>3, <1>7, WorkerFenced DEF WorkerStep
<1> QED
  BY <1>4, <1>5, <1>6, <1>7, ReplayFenced DEF Next

\* What the outbox may do to the effect of an event: insert it, or close a
\* reconciliation.
EffectMoves(e) ==
    \/ effect'[e] = effect[e]
    \/ effect[e] = "none" /\ effect'[e] = "PENDING"
    \/ IsReconciliation(e) /\ effect[e] \in {"none", "PENDING"} /\ effect'[e] = "COMPLETED"

LEMMA EffectStep ==
    ASSUME OutboxInv, Next, NEW e \in Events
    PROVE  EffectMoves(e)
<1>1. CASE effect' = effect
  BY <1>1 DEF EffectMoves
<1>2. ASSUME NEW c \in Workers, Commit(c) PROVE EffectMoves(e)
  <2>1. consumer[c] # NoTxn
    BY <1>2 DEF Commit, Does
  <2>2. /\ consumer[c].status \in {"PENDING", "COMPLETED"}
        /\ \A d \in consumer[c].closes : IsReconciliation(d)
        /\ consumer[c].status = "COMPLETED" => IsReconciliation(consumer[c].event)
    BY <2>1, ConsumerFacts
  <2>3. effect'[e] = IF e = consumer[c].event /\ effect[e] = "none" THEN consumer[c].status
                     ELSE IF e \in consumer[c].closes /\ effect[e] = "PENDING"
                     THEN "COMPLETED" ELSE effect[e]
    BY <1>2 DEF Commit
  <2> QED
    BY <2>2, <2>3 DEF EffectMoves
<1>3. effect' = effect \/ \E c \in Workers : Commit(c)
  BY DEF Next, Emit, ClaimEvent, BecomesAvailable, TakeJob, Stall, DropJob, StartReplay,
         RelayStep, Enqueue, MarkPublished, PublishFails, RecordRelayFailure, LoseClaim,
         WorkerStep, ReadEvent, Project, Recheck, Finish, Throw, RecordFailure, FailJob,
         WorkerDies, ClearTerminalJob, ResetEvent
<1> QED
  BY <1>1, <1>2, <1>3

\* A step of a sender changes nothing of the outbox but an effect.
LEMMA SenderLeavesOutbox ==
    ASSUME OutboxInv, UNCHANGED <<payment, event, claim, job, consumer, replay, replays>>,
           faults' = faults \/ Fault,
           effect' \in [Events -> {"none", "PENDING", "COMPLETED", "FAILED"}]
    PROVE  OutboxInv' /\ ConsumedStep
<1>1. RowsKept /\ Grown
  BY QuietRows DEF RowsKept
<1>2. ClaimsWritten' /\ JobsWritten' /\ JobsCounted' /\ ConsumersWritten' /\ Projections'
      /\ ReplayWritten'
  BY <1>1, ClaimsStay, JobsStay, ConsumersStay, ReplayStays
<1>3. TypeOK'
  BY FaultsBounded DEF OutboxInv, TypeOK
<1> QED
  BY <1>1, <1>2, <1>3 DEF OutboxInv, RowsKept

-----------------------------------------------------------------------------
(* The messages                                                            *)

\* What the outbox does to effects disturbs no sender.
LEMMA OutboxLeavesMessages ==
    ASSUME SmsInv, UNCHANGED smsVars, \A e \in Events : EffectMoves(e)
    PROVE  SmsInv'
<1>1. attemptCount' = attemptCount /\ sender' = sender /\ accepted' = accepted
  BY DEF smsVars
<1>2. SmsTypes'
  BY <1>1 DEF SmsInv, SmsTypes
<1>3. ASSUME NEW e \in Events
      PROVE  /\ effect[e] = "FAILED" => effect'[e] = "FAILED"
             /\ effect'[e] = "none" => effect[e] = "none"
             /\ effect'[e] = "PENDING" => effect[e] \in {"none", "PENDING"}
             /\ effect'[e] = "COMPLETED" /\ IsCustomerKind(e) => effect[e] = "COMPLETED"
  BY DEF EffectMoves, IsReconciliation, IsCustomerKind
<1>4. Passes'
  BY <1>1, <1>3 DEF SmsInv, Passes, HasClaimed
<1>5. Counted'
  BY <1>1, <1>3, CustomerSmsAssumption DEF SmsInv, SmsTypes, Counted
<1>6. OneMessage'
  BY <1>1, <1>3 DEF SmsInv, Counted, OneMessage, IsCustomerKind
<1> QED
  BY <1>2, <1>4, <1>5, <1>6 DEF SmsInv

\* A candidate in hand: its event, as a constant.
LEMMA CandidateFacts ==
    ASSUME SmsInv, NEW s \in Senders, sender[s] # NoPass
    PROVE  /\ sender[s] \in Candidate /\ sender[s].event \in Events
           /\ sender[s].attempt \in 1..MaxSmsAttempts
<1>1. sender[s] \in Candidate
  BY DEF SmsInv, SmsTypes
<1> QED
  BY <1>1 DEF Candidate

\* One candidate changes; the claims of the others are left as they are.
LEMMA OtherSenders ==
    ASSUME SmsInv, NEW s \in Senders, NEW x \in Candidate \cup {NoPass},
           sender' = [sender EXCEPT ![s] = x]
    PROVE  /\ sender' \in [Senders -> Candidate \cup {NoPass}] /\ sender'[s] = x
           /\ \A t \in Senders : t # s => sender'[t] = sender[t]
           /\ \A t \in Senders, e \in Events : t # s => (HasClaimed(t, e)' <=> HasClaimed(t, e))
<1>1. /\ sender' \in [Senders -> Candidate \cup {NoPass}] /\ sender'[s] = x
      /\ \A t \in Senders : t # s => sender'[t] = sender[t]
  BY DEF SmsInv, SmsTypes
<1> QED
  BY <1>1 DEF HasClaimed

\* A sender that claims nothing in the next state disturbs no other.
LEMMA Unclaimed ==
    ASSUME SmsInv, NEW s \in Senders, NEW x \in Candidate \cup {NoPass},
           sender' = [sender EXCEPT ![s] = x], x = NoPass \/ x.step = "picked",
           effect' = effect, attemptCount' = attemptCount, accepted' = accepted
    PROVE  SmsInv'
<1>1. SmsTypes'
  BY OtherSenders DEF SmsInv, SmsTypes
<1>2. \A e \in Events : ~HasClaimed(s, e)'
  BY OtherSenders DEF HasClaimed
<1>3. Passes'
  <2> SUFFICES ASSUME NEW t \in Senders, NEW e \in Events, HasClaimed(t, e)'
               PROVE  /\ effect[e] = "FAILED" /\ attemptCount[e] = sender'[t].attempt
                      /\ sender'[t].step \in {"claimed", "rate_limited"} => accepted[e] = 0
                      /\ sender'[t].step = "accepted" => accepted[e] = 1
                      /\ \A u \in Senders : HasClaimed(u, e)' => u = t
    BY DEF Passes
  <2>1. t # s /\ HasClaimed(t, e) /\ sender'[t] = sender[t]
    BY <1>2, OtherSenders
  <2>2. ASSUME NEW u \in Senders, HasClaimed(u, e)' PROVE u = t
    <3>1. u # s /\ HasClaimed(u, e)
      BY <2>2, <1>2, OtherSenders
    <3> QED
      BY <3>1, <2>1 DEF SmsInv, Passes
  <2> QED
    BY <2>1, <2>2 DEF SmsInv, Passes
<1>4. Counted' /\ OneMessage'
  BY DEF SmsInv, Counted, OneMessage, IsCustomerKind
<1> QED
  BY <1>1, <1>3, <1>4 DEF SmsInv

LEMMA PickEffectKeeps ==
    ASSUME IInv, NEW s \in Senders, NEW e \in Events, PickEffect(s, e)
    PROVE  SmsInv' /\ OutboxInv' /\ ConsumedStep
<1> DEFINE x == [event |-> e, attempt |-> attemptCount[e] + 1, step |-> "picked"]
<1>1. /\ sender' = [sender EXCEPT ![s] = x] /\ effect[e] = "PENDING" /\ UNCHANGED vars
      /\ attemptCount' = attemptCount /\ accepted' = accepted
  BY DEF PickEffect
<1>2. attemptCount[e] + 1 \in 1..MaxSmsAttempts
  <2>1. attemptCount[e] < MaxSmsAttempts /\ attemptCount[e] \in 0..MaxSmsAttempts
    BY <1>1 DEF IInv, SmsInv, SmsTypes, Counted
  <2> QED
    BY <2>1, CustomerSmsAssumption
<1>3. x \in Candidate /\ x.step = "picked"
  BY <1>2 DEF Candidate
<1> HIDE DEF x
<1>4. effect' = effect
  BY <1>1 DEF vars
<1>5. SmsInv'
  BY <1>1, <1>3, <1>4, Unclaimed DEF IInv
<1>6. effect' \in [Events -> {"none", "PENDING", "COMPLETED", "FAILED"}]
  BY <1>4 DEF IInv, OutboxInv, TypeOK
<1> QED
  BY <1>1, <1>5, <1>6, SenderLeavesOutbox DEF IInv, vars

LEMMA LoseCandidateKeeps ==
    ASSUME IInv, NEW s \in Senders, LoseCandidate(s)
    PROVE  SmsInv' /\ OutboxInv' /\ ConsumedStep
<1>1. SmsInv'
  BY Unclaimed DEF LoseCandidate, IInv
<1>2. effect' \in [Events -> {"none", "PENDING", "COMPLETED", "FAILED"}]
  BY DEF LoseCandidate, IInv, OutboxInv, TypeOK
<1> QED
  BY <1>1, <1>2, SenderLeavesOutbox DEF LoseCandidate, IInv

\* What the invariant says of one event: Counted and OneMessage.
Honest(e) ==
    /\ effect[e] = "none" => accepted[e] = 0 /\ attemptCount[e] = 0
    /\ effect[e] = "PENDING" => attemptCount[e] < MaxSmsAttempts
    /\ accepted[e] <= 1
    /\ effect[e] = "PENDING" => accepted[e] = 0
    /\ effect[e] = "COMPLETED" /\ IsCustomerKind(e) => accepted[e] = 1

\* A sender and one effect change.
LEMMA OneEffect ==
    ASSUME SmsInv, NEW s \in Senders, NEW e \in Events, NEW x \in Candidate \cup {NoPass},
           sender' = [sender EXCEPT ![s] = x],
           \A t \in Senders : HasClaimed(t, e) => t = s,
           x = NoPass \/ (/\ x.event = e /\ x.step # "picked"
                          /\ effect'[e] = "FAILED" /\ attemptCount'[e] = x.attempt
                          /\ x.step \in {"claimed", "rate_limited"} => accepted'[e] = 0
                          /\ x.step = "accepted" => accepted'[e] = 1),
           attemptCount' \in [Events -> 0..MaxSmsAttempts], accepted' \in [Events -> Nat],
           \A d \in Events : d # e => /\ effect'[d] = effect[d] /\ accepted'[d] = accepted[d]
                                      /\ attemptCount'[d] = attemptCount[d],
           Honest(e)'
    PROVE  SmsInv'
<1>1. SmsTypes'
  BY OtherSenders DEF SmsTypes
<1>2. Passes'
  <2> SUFFICES ASSUME NEW t \in Senders, NEW d \in Events, HasClaimed(t, d)'
               PROVE  /\ effect'[d] = "FAILED" /\ attemptCount'[d] = sender'[t].attempt
                      /\ sender'[t].step \in {"claimed", "rate_limited"} => accepted'[d] = 0
                      /\ sender'[t].step = "accepted" => accepted'[d] = 1
                      /\ \A u \in Senders : HasClaimed(u, d)' => u = t
    BY DEF Passes
  <2>1. CASE d = e
    <3>1. ASSUME NEW u \in Senders, HasClaimed(u, e)' PROVE u = s
      BY <3>1, OtherSenders
    <3>2. t = s
      BY <3>1, <2>1
    <3>3. x # NoPass /\ sender'[s] = x
      BY <3>2, OtherSenders DEF HasClaimed
    <3> QED
      BY <3>1, <3>2, <3>3, <2>1
  <2>2. CASE d # e
    <3>1. ~HasClaimed(s, d)'
      BY <2>2, OtherSenders DEF HasClaimed
    <3>2. t # s /\ HasClaimed(t, d) /\ sender'[t] = sender[t]
      BY <3>1, OtherSenders
    <3>3. ASSUME NEW u \in Senders, HasClaimed(u, d)' PROVE u = t
      <4>1. u # s /\ HasClaimed(u, d)
        BY <3>1, <3>3, OtherSenders
      <4> QED
        BY <4>1, <3>2 DEF SmsInv, Passes
    <3> QED
      BY <2>2, <3>2, <3>3 DEF SmsInv, Passes
  <2> QED
    BY <2>1, <2>2
<1>3. \A d \in Events : Honest(d)'
  <2> SUFFICES ASSUME NEW d \in Events, d # e PROVE Honest(d)'
    OBVIOUS
  <2>1. Honest(d)
    BY DEF Honest, SmsInv, Counted, OneMessage
  <2> QED
    BY <2>1 DEF Honest, IsCustomerKind
<1>4. Counted' /\ OneMessage'
  BY <1>3 DEF Honest, Counted, OneMessage
<1> QED
  BY <1>1, <1>2, <1>4 DEF SmsInv

LEMMA ClaimEffectKeeps ==
    ASSUME IInv, NEW s \in Senders, ClaimEffect(s)
    PROVE  SmsInv' /\ OutboxInv' /\ ConsumedStep
<1>1. /\ sender[s] # NoPass /\ accepted' = accepted /\ faults' = faults
      /\ UNCHANGED <<payment, event, claim, job, consumer, replay, replays>>
  BY DEF ClaimEffect, Has
<1>2. SmsInv /\ OutboxInv
  BY DEF IInv
<1>3. PICK e \in Events : e = sender[s].event
  BY <1>1, <1>2, CandidateFacts
<1>4. CASE ~Claims(s)
  <2>1. sender' = [sender EXCEPT ![s] = NoPass] /\ effect' = effect /\ attemptCount' = attemptCount
    BY <1>4 DEF ClaimEffect
  <2>2. SmsInv'
    BY <2>1, <1>1, <1>2, Unclaimed
  <2>3. effect' \in [Events -> {"none", "PENDING", "COMPLETED", "FAILED"}]
    BY <2>1, <1>2 DEF OutboxInv, TypeOK
  <2> QED
    BY <2>2, <2>3, <1>1, <1>2, SenderLeavesOutbox
<1>5. CASE Claims(s)
  <2> DEFINE x == [sender[s] EXCEPT !.step = "claimed"]
  <2>1. /\ sender[s] \in Candidate /\ sender[s].attempt \in 1..MaxSmsAttempts
        /\ sender[s].attempt \in 0..MaxSmsAttempts
    <3>1. sender[s] \in Candidate /\ sender[s].attempt \in 1..MaxSmsAttempts
      BY <1>1, <1>2, CandidateFacts
    <3> QED
      BY <3>1, CustomerSmsAssumption
  <2>2. /\ sender' = [sender EXCEPT ![s] = x] /\ effect' = [effect EXCEPT ![e] = "FAILED"]
        /\ attemptCount' = [attemptCount EXCEPT ![e] = sender[s].attempt]
    BY <1>2, <1>3, <1>5 DEF ClaimEffect, SmsInv, SmsTypes
  <2>3. x \in Candidate /\ x.event = e /\ x.step = "claimed" /\ x.attempt = sender[s].attempt
    BY <2>1, <1>3 DEF Candidate
  <2> HIDE DEF x
  <2>4. /\ effect[e] = "PENDING" /\ accepted[e] = 0
    BY <1>2, <1>3, <1>5 DEF Claims, SmsInv, OneMessage
  <2>5. \A t \in Senders : ~HasClaimed(t, e)
    BY <2>4, <1>2 DEF SmsInv, Passes
  <2>6. /\ attemptCount' \in [Events -> 0..MaxSmsAttempts] /\ accepted' \in [Events -> Nat]
        /\ effect' \in [Events -> {"none", "PENDING", "COMPLETED", "FAILED"}]
        /\ effect'[e] = "FAILED" /\ attemptCount'[e] = x.attempt /\ accepted'[e] = 0
        /\ \A d \in Events : d # e => /\ effect'[d] = effect[d] /\ accepted'[d] = accepted[d]
                                      /\ attemptCount'[d] = attemptCount[d]
    BY <2>1, <2>2, <2>3, <2>4, <1>1, <1>2 DEF SmsInv, SmsTypes, OutboxInv, TypeOK
  <2>7. Honest(e)'
    BY <2>6 DEF Honest
  <2>8. SmsInv'
    BY <2>2, <2>3, <2>5, <2>6, <2>7, <1>2, OneEffect
  <2> QED
    BY <2>6, <2>8, <1>1, <1>2, SenderLeavesOutbox
<1> QED
  BY <1>4, <1>5

LEMMA SendKeeps ==
    ASSUME IInv, NEW s \in Senders, Send(s)
    PROVE  SmsInv' /\ OutboxInv' /\ ConsumedStep
<1>1. sender[s] # NoPass /\ sender[s].step = "claimed" /\ attemptCount' = attemptCount
      /\ effect' = effect /\ UNCHANGED vars
  BY DEF Send, Has, vars
<1>2. SmsInv /\ OutboxInv
  BY DEF IInv
<1>3. PICK e \in Events : e = sender[s].event
  BY <1>1, <1>2, CandidateFacts
<1>4. PICK answer \in Answers, taken \in BOOLEAN :
          /\ answer = "accepted" => taken
          /\ answer = "rate_limited" => ~taken
          /\ sender' = [sender EXCEPT ![s].step = answer]
          /\ accepted' = IF taken THEN [accepted EXCEPT ![e] = accepted[e] + 1] ELSE accepted
  BY <1>3 DEF Send
<1> DEFINE x == [sender[s] EXCEPT !.step = answer]
<1>5. sender' = [sender EXCEPT ![s] = x]
  BY <1>4, <1>2 DEF SmsInv, SmsTypes
<1>6. sender[s] \in Candidate
  BY <1>1, <1>2, CandidateFacts
<1>7. x \in Candidate /\ x.event = e /\ x.step = answer /\ x.attempt = sender[s].attempt
  BY <1>3, <1>6 DEF Candidate
<1> HIDE DEF x
<1>8. HasClaimed(s, e)
  BY <1>1, <1>3 DEF HasClaimed
<1>9. /\ effect[e] = "FAILED" /\ attemptCount[e] = sender[s].attempt /\ accepted[e] = 0
      /\ \A t \in Senders : HasClaimed(t, e) => t = s
  BY <1>1, <1>2, <1>8 DEF SmsInv, Passes
<1>10. /\ accepted' \in [Events -> Nat] /\ accepted'[e] = (IF taken THEN 1 ELSE 0)
       /\ \A d \in Events : d # e => accepted'[d] = accepted[d]
  BY <1>2, <1>4, <1>9 DEF SmsInv, SmsTypes
<1>11. x.step # "picked" /\ (x.step \in {"claimed", "rate_limited"} => accepted'[e] = 0)
       /\ (x.step = "accepted" => accepted'[e] = 1)
  BY <1>4, <1>7, <1>10 DEF Answers
<1>12. Honest(e)'
  BY <1>1, <1>9, <1>10 DEF Honest
<1>13. attemptCount' \in [Events -> 0..MaxSmsAttempts]
       /\ effect' \in [Events -> {"none", "PENDING", "COMPLETED", "FAILED"}]
  BY <1>1, <1>2 DEF SmsInv, SmsTypes, OutboxInv, TypeOK
<1>14. SmsInv'
  BY <1>1, <1>2, <1>5, <1>7, <1>9, <1>10, <1>11, <1>12, <1>13, OneEffect
<1> QED
  BY <1>1, <1>2, <1>13, <1>14, SenderLeavesOutbox DEF vars

LEMMA RecordKeeps ==
    ASSUME IInv, NEW s \in Senders, Record(s)
    PROVE  SmsInv' /\ OutboxInv' /\ ConsumedStep
<1>1. /\ sender[s] # NoPass /\ sender[s].step \in Answers /\ accepted' = accepted
      /\ attemptCount' = attemptCount /\ faults' = faults
      /\ sender' = [sender EXCEPT ![s] = NoPass]
      /\ UNCHANGED <<payment, event, claim, job, consumer, replay, replays>>
  BY DEF Record
<1>2. SmsInv /\ OutboxInv
  BY DEF IInv
<1>3. PICK e \in Events : e = sender[s].event
  BY <1>1, <1>2, CandidateFacts
<1>4. HasClaimed(s, e)
  BY <1>1, <1>3 DEF HasClaimed, Answers
<1>5. /\ effect[e] = "FAILED" /\ attemptCount[e] = sender[s].attempt
      /\ sender[s].step \in {"claimed", "rate_limited"} => accepted[e] = 0
      /\ sender[s].step = "accepted" => accepted[e] = 1
      /\ \A t \in Senders : HasClaimed(t, e) => t = s
  BY <1>2, <1>4 DEF SmsInv, Passes
<1> DEFINE retry == Retryable(sender[s].step) /\ sender[s].attempt < MaxSmsAttempts
           status == CASE sender[s].step = "accepted" -> "COMPLETED"
                       [] retry -> "PENDING"
                       [] OTHER -> "FAILED"
<1>6. effect' = [effect EXCEPT ![e] = status]
  BY <1>3, <1>5 DEF Record
<1>7. /\ status \in {"COMPLETED", "PENDING", "FAILED"}
      /\ status = "COMPLETED" => sender[s].step = "accepted"
      /\ status = "PENDING" => sender[s].step = "rate_limited" /\ sender[s].attempt < MaxSmsAttempts
  BY DEF Retryable
<1> HIDE DEF status
<1>8. /\ effect' \in [Events -> {"none", "PENDING", "COMPLETED", "FAILED"}] /\ effect'[e] = status
      /\ \A d \in Events : d # e => effect'[d] = effect[d]
  BY <1>2, <1>6, <1>7 DEF OutboxInv, TypeOK
<1>9. attemptCount' \in [Events -> 0..MaxSmsAttempts] /\ accepted' \in [Events -> Nat]
      /\ accepted[e] <= 1
  BY <1>1, <1>2 DEF SmsInv, SmsTypes, OneMessage
<1>10. Honest(e)'
  BY <1>1, <1>5, <1>7, <1>8, <1>9 DEF Honest
<1>11. SmsInv'
  BY <1>1, <1>2, <1>5, <1>8, <1>9, <1>10, OneEffect
<1> QED
  BY <1>1, <1>2, <1>8, <1>11, SenderLeavesOutbox

-----------------------------------------------------------------------------
(* The theorems                                                            *)

\* Before anything is written the invariant holds.
THEOREM InitIInv == SmsInit => IInv
<1> SUFFICES ASSUME SmsInit PROVE IInv
  OBVIOUS
<1>1. TypeOK
  <2>1. job \in [Events -> Job]
    BY NoJobIsJob DEF SmsInit, Init
  <2> QED
    BY <2>1, OutboxAssumption DEF SmsInit, Init, TypeOK
<1>2. ClaimsWritten /\ ConsumersWritten /\ ReplayWritten /\ Budget /\ Projections /\ GivenUp
  BY DEF SmsInit, Init, ClaimsWritten, ConsumersWritten, ReplayWritten, Budget, Projections,
         GivenUp, Written
<1>3. JobsWritten /\ JobsCounted
  BY NoJobIsJob DEF SmsInit, Init, JobsWritten, JobsCounted
<1>4. SmsTypes
  BY CustomerSmsAssumption DEF SmsInit, SmsTypes
<1>5. Passes /\ Counted /\ OneMessage
  BY CustomerSmsAssumption DEF SmsInit, Init, Passes, HasClaimed, Counted, OneMessage
<1>6. Fenced
  BY DEF SmsInit, Init, Fenced, OnePass, Written
<1> QED
  BY <1>1, <1>2, <1>3, <1>4, <1>5, <1>6 DEF IInv, OutboxInv, SmsInv

\* Every step of a relay, a worker, an operator, a sender or the world keeps
\* the invariant, and forgets no consumption.
THEOREM NextIInv == IInv /\ [SmsNext]_allVars => IInv' /\ [ConsumedStep]_vars
<1> SUFFICES ASSUME IInv, [SmsNext]_allVars PROVE IInv' /\ [ConsumedStep]_vars
  OBVIOUS
<1>1. CASE Next /\ UNCHANGED smsVars
  <2>1. OutboxInv' /\ ConsumedStep
    BY <1>1, OutboxNext DEF IInv
  <2>2. \A e \in Events : EffectMoves(e)
    BY <1>1, EffectStep DEF IInv
  <2>3. SmsInv'
    BY <2>2, <1>1, OutboxLeavesMessages DEF IInv
  <2>4. Fenced'
    BY <2>1, <1>1, FencedNext DEF IInv
  <2> QED
    BY <2>1, <2>3, <2>4 DEF IInv
<1>2. ASSUME NEW s \in Senders, NEW e \in Events, PickEffect(s, e)
      PROVE  IInv' /\ ConsumedStep
  <2>1. OutboxInv' /\ SmsInv' /\ ConsumedStep
    BY <1>2, PickEffectKeeps DEF IInv
  <2>2. event' = event /\ claim' = claim /\ replay' = replay /\ replays' = replays
    BY <1>2 DEF PickEffect, vars
  <2> QED
    BY <2>1, <2>2, FencedQuiet DEF IInv, ReplaysCounted
<1>3. ASSUME NEW s \in Senders, SenderStep(s) \/ LoseCandidate(s)
      PROVE  IInv' /\ ConsumedStep
  <2>1. OutboxInv' /\ SmsInv' /\ ConsumedStep
    BY <1>3, ClaimEffectKeeps, SendKeeps, RecordKeeps, LoseCandidateKeeps DEF SenderStep, IInv
  <2>2. event' = event /\ claim' = claim /\ replay' = replay /\ replays' = replays
    BY <1>3 DEF SenderStep, ClaimEffect, Send, Record, LoseCandidate, vars
  <2> QED
    BY <2>1, <2>2, FencedQuiet DEF IInv, ReplaysCounted
<1>4. CASE UNCHANGED allVars
  <2>1. UNCHANGED smsVars /\ UNCHANGED vars
    BY <1>4 DEF allVars
  <2>2. OutboxInv'
    <3>1. effect' \in [Events -> {"none", "PENDING", "COMPLETED", "FAILED"}]
      BY <2>1 DEF vars, IInv, OutboxInv, TypeOK
    <3> QED
      BY <3>1, <2>1, SenderLeavesOutbox DEF vars, IInv
  <2>3. \A e \in Events : EffectMoves(e)
    BY <2>1 DEF EffectMoves, vars
  <2>4. SmsInv'
    BY <2>1, <2>3, OutboxLeavesMessages DEF IInv
  <2>5. Fenced'
    BY <2>1, <2>2, FencedQuiet DEF IInv, ReplaysCounted, vars
  <2> QED
    BY <2>1, <2>2, <2>4, <2>5 DEF IInv
<1> QED
  BY <1>1, <1>2, <1>3, <1>4 DEF SmsNext

\* The outbox rows, the queue, the effect rows and whoever has them in hand
\* keep their types.
THEOREM MessagesTyped == SmsSpec => []SmsTypeOK
<1>1. IInv => SmsTypeOK
  BY DEF IInv, OutboxInv, SmsInv, SmsTypes, SmsTypeOK
<1> QED
  BY <1>1, InitIInv, NextIInv, PTL DEF SmsSpec

\* For any number of relay passes, workers and senders, and however many of
\* them die: the worker buries no row that was consumed; the relay buries no
\* row that has an attempt left or was published, nor, until an operator
\* replays, one that a pass has in hand; and a row is claimed at most once more
\* for each fault.
THEOREM DeadLettersAreEarned == SmsSpec => []DeadLettersEarned
<1>1. IInv => DeadLettersEarned
  BY DEF IInv, OutboxInv, GivenUp, Fenced, OnePass, DeadLettersEarned
<1> QED
  BY <1>1, InitIInv, NextIInv, PTL DEF SmsSpec

\* For any number of deliveries, replays, deaths and overlapping passes the
\* provider accepts at most one message for an event, and none while the
\* effect may still be picked.
THEOREM CustomersToldOnce == SmsSpec => []OneMessage
<1>1. IInv => OneMessage
  BY DEF IInv, SmsInv
<1> QED
  BY <1>1, InitIInv, NextIInv, PTL DEF SmsSpec

\* A replay, whatever ran between its check and its reset, sends no consumed
\* event back to the relay.
THEOREM ConsumedStaysConsumed == SmsSpec => ConsumedNotReplayed
<1>1. [ConsumedStep]_vars =>
        [\A e \in Events :
           Written(e) /\ event[e].consumed =>
              /\ event'[e].consumed
              /\ event[e].published => event'[e].published]_vars
  BY DEF ConsumedStep
<1> QED
  BY <1>1, InitIInv, NextIInv, PTL DEF SmsSpec, ConsumedNotReplayed

=============================================================================
