------------------------------ MODULE CustomerSms ------------------------------
(***************************************************************************)
(* Customer text messages: apps/api/src/modules/notifications/             *)
(* customer-sms-delivery.service.ts, on top of the outbox.                 *)
(*                                                                         *)
(* The effect row that the outbox consumer inserts for a verified payment  *)
(* is the intent to send one message.  A pass of a worker process reads    *)
(* the pending effects, claims each with a conditional update that marks   *)
(* it FAILED before anything is sent, calls the provider and records the   *)
(* answer.  The passes of several processes overlap, and a process may die *)
(* between any two steps.  The effect's status is Outbox's `effect`; the   *)
(* backoff of a retry is left to the time that passes before the next pick.*)
(*                                                                         *)
(* A pass handles its candidates one by one, so a candidate that waits for *)
(* its turn, its attempt count read long ago, is one member of Senders.    *)
(***************************************************************************)
EXTENDS Outbox

CONSTANTS
    Senders,        \* candidates that passes have in hand at the same time
    MaxSmsAttempts, \* MAX_ATTEMPTS of the delivery
    NoPass          \* a sender with no candidate

VARIABLES
    attemptCount,  \* [Events -> attempts counted on the effect row]
    sender,        \* [Senders -> the candidate in hand, or NoPass]
    accepted       \* [Events -> messages the provider has accepted]

smsVars == <<attemptCount, sender, accepted>>
allVars == <<vars, smsVars>>

\* "unknown_result" also stands for the other answers that are never tried
\* again: rejected and unavailable.
Answers == {"accepted", "rate_limited", "unknown_result"}

Candidate ==
    [event : Events, attempt : 1..MaxSmsAttempts,
     step : {"picked", "claimed"} \cup Answers]

ASSUME CustomerSmsAssumption == MaxSmsAttempts \in Nat \ {0} /\ NoPass \notin Candidate

\* The outbox rows, the effect rows with the claim that a sender leaves on
\* them, and the candidates in the senders' hands.
SmsTypeOK ==
    /\ TypeOK
    /\ attemptCount \in [Events -> 0..MaxSmsAttempts]
    /\ sender \in [Senders -> Candidate \cup {NoPass}]
    /\ accepted \in [Events -> Nat]

SmsInit ==
    /\ Init
    /\ attemptCount = [e \in Events |-> 0]
    /\ sender = [s \in Senders |-> NoPass]
    /\ accepted = [e \in Events |-> 0]

-----------------------------------------------------------------------------
(* A pass                                                                  *)

\* KINDS: of the effects about a payment, only a verified one is told to the
\* customer; the others are work for operations.
IsCustomerKind(e) == TopicOf[e] = "VERIFIED"

\* The query of the pass.
PickEffect(s, e) ==
    /\ sender[s] = NoPass
    /\ IsCustomerKind(e) /\ effect[e] = "PENDING"
    /\ sender' = [sender EXCEPT ![s] = [event |-> e, attempt |-> attemptCount[e] + 1,
                                        step |-> "picked"]]
    /\ UNCHANGED <<vars, attemptCount, accepted>>

Has(s, step) == sender[s] # NoPass /\ sender[s].step = step

\* The claim's WHERE clause: still pending, and not tried since the query.
Claims(s) ==
    LET e == sender[s].event
    IN  effect[e] = "PENDING" /\ attemptCount[e] + 1 = sender[s].attempt

\* FAILED, CLAIMED_UNCERTAIN is on disk before anything is sent; a candidate
\* that another pass has taken is skipped.
ClaimEffect(s) ==
    LET e == sender[s].event
    IN  /\ Has(s, "picked")
        /\ IF Claims(s)
           THEN /\ effect' = [effect EXCEPT ![e] = "FAILED"]
                /\ attemptCount' = [attemptCount EXCEPT ![e] = sender[s].attempt]
                /\ sender' = [sender EXCEPT ![s].step = "claimed"]
           ELSE /\ sender' = [sender EXCEPT ![s] = NoPass]
                /\ UNCHANGED <<effect, attemptCount>>
        /\ UNCHANGED <<payment, event, claim, job, consumer, replay, replays, faults, accepted>>

\* provider.send: a message may have been accepted without the caller being
\* told (an error, a timeout, an upstream failure); a refusal for the rate
\* means that it was not.  Without an order or a template nothing is sent and
\* "rejected" is recorded.
Send(s) ==
    /\ Has(s, "claimed")
    /\ \E answer \in Answers, taken \in BOOLEAN :
          /\ answer = "accepted" => taken
          /\ answer = "rate_limited" => ~taken
          /\ sender' = [sender EXCEPT ![s].step = answer]
          /\ accepted' = IF taken THEN [accepted EXCEPT ![sender[s].event] = @ + 1] ELSE accepted
    /\ UNCHANGED <<vars, attemptCount>>

\* Mutant: an answer that never came is tried again.
RetryableUnknown(answer) == answer \in {"rate_limited", "unknown_result"}

\* Only an explicit rate limit is safe to try again.
Retryable(answer) == answer = "rate_limited"

\* record: fenced by the attempt that this pass has claimed.
Record(s) ==
    LET e == sender[s].event
        answer == sender[s].step
        retry == Retryable(answer) /\ sender[s].attempt < MaxSmsAttempts
    IN  /\ sender[s] # NoPass /\ answer \in Answers
        /\ effect' = IF effect[e] = "FAILED" /\ attemptCount[e] = sender[s].attempt
                     THEN [effect EXCEPT ![e] = CASE answer = "accepted" -> "COMPLETED"
                                                  [] retry -> "PENDING"
                                                  [] OTHER -> "FAILED"]
                     ELSE effect
        /\ sender' = [sender EXCEPT ![s] = NoPass]
        /\ UNCHANGED <<payment, event, claim, job, consumer, replay, replays, faults,
                       attemptCount, accepted>>

\* The process dies, or the pass fails, with a candidate in hand.
LoseCandidate(s) ==
    /\ sender[s] # NoPass
    /\ Fault
    /\ sender' = [sender EXCEPT ![s] = NoPass]
    /\ UNCHANGED <<payment, event, effect, claim, job, consumer, replay, replays,
                   attemptCount, accepted>>

-----------------------------------------------------------------------------
(* Specification                                                           *)

SenderStep(s) == ClaimEffect(s) \/ Send(s) \/ Record(s)

SmsNext ==
    \/ Next /\ UNCHANGED smsVars
    \/ \E s \in Senders, e \in Events : PickEffect(s, e)
    \/ \E s \in Senders : SenderStep(s) \/ LoseCandidate(s)

SmsSpec == SmsInit /\ [][SmsNext]_allVars

\* The outbox's fairness; and a pass runs every five seconds and finishes
\* what it has in hand.
SmsFairSpec ==
    /\ SmsSpec /\ Fairness
    /\ \A e \in Events : WF_allVars(\E s \in Senders : PickEffect(s, e))
    /\ \A s \in Senders : WF_allVars(SenderStep(s))

-----------------------------------------------------------------------------
(* Properties                                                              *)

\* A customer gets at most one message for an event, however often the relay
\* publishes it, the queue delivers it, an operator replays it and whoever
\* dies on the way: an effect that a pass may still pick has never been
\* accepted by the provider, and one that is COMPLETED has been.
OneMessage ==
    \A e \in Events :
        /\ accepted[e] <= 1
        /\ effect[e] = "PENDING" => accepted[e] = 0
        /\ effect[e] = "COMPLETED" /\ IsCustomerKind(e) => accepted[e] = 1

\* At least handled: every event that was written is consumed in the end and
\* its message was sent or is a FAILED effect, or the event is one of the dead
\* letters and stranded events that operators are told to watch
\* (docs/OPERATIONS.md).
EventHandled ==
    \A e \in Events :
        Written(e) ~> /\ Written(e)
                      /\ \/ /\ event[e].consumed
                            /\ IsCustomerKind(e) => effect[e] \in {"COMPLETED", "FAILED"}
                         \/ event[e].deadLettered \/ event[e].processingDead
                         \/ event[e].published /\ (Ended(e) \/ job[e].state = "none")
=============================================================================
