----------------------------- MODULE OrderExpiry -----------------------------
(***************************************************************************)
(* The worker that expires abandoned orders:                               *)
(* apps/api/src/modules/orders/order-expiry-runtime.ts, on top of          *)
(* OrderPayment.                                                           *)
(*                                                                         *)
(* A scheduled dispatch job selects a page of expired orders after a       *)
(* cursor, adds a job with a stable id for each, and moves the cursor; an  *)
(* expire job closes its order if it still may.  The queue keeps finished  *)
(* jobs, and does not add a job whose id it has.  It runs one job at a     *)
(* time across all processes, but orders are paid, cancelled and sold at   *)
(* any time, and staff may run the same expiry by hand (OrderPayment).     *)
(***************************************************************************)
EXTENDS OrderPayment, SequencesExt

CONSTANTS
    PageSize,     \* PAGE_SIZE
    MaxBacklog,   \* MAX_BACKLOG
    JobAttempts,  \* ATTEMPTS
    MaxFaults,    \* bound: dispatch jobs that fail
    NoPage        \* no dispatch job is running

\* Order ids are compared; 0 stands for the empty cursor.
ASSUME ExpiryAssumption ==
    /\ Orders \subseteq Nat \ {0}
    /\ PageSize \in Nat \ {0} /\ MaxBacklog \in Nat /\ JobAttempts \in Nat \ {0}
    /\ MaxFaults \in Nat

VARIABLES
    expiryJob,  \* [Orders -> the queue's job with the order's id: its state
                \*  (none, waiting, completed or failed) and attempts made]
    cursor,     \* the last order of the last page
    page,       \* the candidates of the dispatch job that is running and
                \*  whether it has added their jobs, or NoPage
    faults      \* dispatch jobs that have failed

expiryVars == <<expiryJob, cursor, page, faults>>
allVars == <<vars, expiryVars>>

NoJob == [state |-> "none", made |-> 0]

ExpiryInit ==
    /\ Init
    /\ expiryJob = [o \in Orders |-> NoJob]
    /\ cursor = 0
    /\ page = NoPage
    /\ faults = 0

-----------------------------------------------------------------------------
(* The dispatch job                                                        *)

\* Jobs that wait, and the dispatch job itself, and the next one.
Backlog == 2 + Cardinality({o \in Orders : expiryJob[o].state = "waiting"})

Room == IF PageSize < MaxBacklog - Backlog THEN PageSize ELSE MaxBacklog - Backlog

\* The query: expired, unpaid and untried orders after the cursor, by id.
Candidates ==
    LET after == SetToSortSeq({o \in Orders : MayExpire(o) /\ o > cursor}, <)
    IN  {after[i] : i \in 1..Len(after) \cap 1..Room}

\* Beyond the backlog limit the dispatcher skips its turn.
SelectPage ==
    /\ page = NoPage
    /\ Backlog < MaxBacklog
    /\ page' = [candidates |-> Candidates, step |-> "selected"]
    /\ UNCHANGED <<vars, expiryJob, cursor, faults>>

\* A job id that the queue has is not added again.
AddJobs ==
    /\ page # NoPage /\ page.step = "selected"
    /\ expiryJob' = [o \in Orders |->
                       IF o \in page.candidates /\ expiryJob[o].state = "none"
                       THEN [NoJob EXCEPT !.state = "waiting"] ELSE expiryJob[o]]
    /\ page' = [page EXCEPT !.step = "added"]
    /\ UNCHANGED <<vars, cursor, faults>>

\* Mutant: the end of the list does not start it again.
NextCursorForward(candidates) ==
    IF candidates = {} THEN cursor
    ELSE CHOOSE o \in candidates : \A q \in candidates : q <= o

\* The last candidate; an empty page starts from the beginning.
NextCursor(candidates) ==
    IF candidates = {} THEN 0
    ELSE CHOOSE o \in candidates : \A q \in candidates : q <= o

MoveCursor ==
    /\ page # NoPage /\ page.step = "added"
    /\ cursor' = NextCursor(page.candidates)
    /\ page' = NoPage
    /\ UNCHANGED <<vars, expiryJob, faults>>

\* A statement or the queue fails, or the process dies, before or after the
\* jobs were added; the next dispatch selects again from the same cursor.
DispatchFails ==
    /\ page # NoPage
    /\ faults < MaxFaults
    /\ faults' = faults + 1
    /\ page' = NoPage
    /\ UNCHANGED <<vars, expiryJob, cursor>>

-----------------------------------------------------------------------------
(* The expire jobs                                                         *)

Runs(o) == page = NoPage /\ expiryJob[o].state = "waiting"

\* expireAbandonedOrderAsSystem: closes the order, or finds that it may not.
CloseOrLeave(o) == IF MayExpire(o) THEN CloseOrder(o, "ORDER_EXPIRED") ELSE UNCHANGED vars

RunJob(o) ==
    /\ Runs(o)
    /\ CloseOrLeave(o)
    /\ expiryJob' = [expiryJob EXCEPT ![o].state = "completed"]
    /\ UNCHANGED <<cursor, page, faults>>

\* The job throws, or its worker dies, before the transaction or after it; it
\* is tried again, and after its last attempt it stays as a dead letter.
FailJob(o) ==
    /\ Runs(o)
    /\ CloseOrLeave(o) \/ UNCHANGED vars
    /\ expiryJob' = [expiryJob EXCEPT
                       ![o].made = @ + 1,
                       ![o].state = IF expiryJob[o].made + 1 >= JobAttempts
                                    THEN "failed" ELSE "waiting"]
    /\ UNCHANGED <<cursor, page, faults>>

\* Of the finished jobs the last thousand are retained.
DropJob(o) ==
    /\ expiryJob[o].state \in {"completed", "failed"}
    /\ expiryJob' = [expiryJob EXCEPT ![o] = NoJob]
    /\ UNCHANGED <<vars, cursor, page, faults>>

-----------------------------------------------------------------------------
(* Specification                                                           *)

ExpiryNext ==
    \/ Next /\ UNCHANGED expiryVars
    \/ SelectPage \/ AddJobs \/ MoveCursor \/ DispatchFails
    \/ \E o \in Orders : RunJob(o) \/ FailJob(o) \/ DropJob(o)

\* Time passes, the scheduler dispatches every minute, and the queue hands its
\* jobs out in order, so that no dispatch overtakes a waiting job for ever;
\* nobody is obliged to pay, cancel or drop anything.
ExpirySpec ==
    /\ ExpiryInit /\ [][ExpiryNext]_allVars
    /\ WF_vars(Tick)
    /\ WF_allVars(SelectPage) /\ WF_allVars(AddJobs) /\ WF_allVars(MoveCursor)
    /\ \A o \in Orders : SF_allVars(RunJob(o) \/ FailJob(o))

-----------------------------------------------------------------------------
(* Properties                                                              *)

\* An order nobody tried to pay gives its stock and its capacity back after
\* its deadline, or its expiry is a dead letter that operations can see: it
\* is not lost by a page that ended before it, a cursor that has passed it,
\* a full queue, or a dispatch that failed half way.
AbandonedOrderCloses ==
    \A o \in Orders :
        (order[o].status = "PENDING_PAYMENT" /\ AttemptsOf(o) = {})
            ~> \/ order[o].status # "PENDING_PAYMENT" \/ AttemptsOf(o) # {}
               \/ expiryJob[o].state = "failed"
=============================================================================
