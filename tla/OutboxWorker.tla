----------------------------- MODULE OutboxWorker -----------------------------
(***************************************************************************)
(* Delivery of outbox events: OutboxWorker in domain/outbox_worker.ts with *)
(* the webhook client of domain/webhook.ts.  One worker polls the rows     *)
(* that are PENDING, oldest first, and takes each through its durable       *)
(* states; every await of the code is a step of its own here.               *)
(*                                                                         *)
(* An attempt is named by its number, so that the history of an event is a *)
(* set of attempts: which were audited, which reached which target, which   *)
(* ended how.  The worker is the only writer of rows that exist, so the     *)
(* snapshot that findPending took of a row is the row itself.               *)
(***************************************************************************)
EXTENDS Naturals

CONSTANTS
    Event,        \* outbox events, named by their deterministic ids
    Notice,       \* those of type REQUEST_CREATED; the others are callbacks
    Destination,  \* callback destinations an Owner may register
    Inbox,        \* the Discord DM channel of the owner
    None,         \* no event, no target
    MaxAttempts   \* maxAttempts of the worker

ASSUME EventAssumption == Notice \subseteq Event
ASSUME TargetAssumption == Inbox \notin Destination
ASSUME NoneAssumption == None \notin Event /\ None \notin Destination \cup {Inbox}
ASSUME AttemptAssumption == MaxAttempts \in Nat \ {0}

VARIABLES
    before,    \* before[e]: events with an earlier createdAt
    row,       \* status and attempts of each OutboxEvent row
    waiting,   \* events whose backoff window has not elapsed
    enabled,   \* destinations that are registered and enabled
    worker,    \* control state of the worker and its local variables
    audited,   \* audited[e]: attempts with a DELIVERY_ATTEMPT audit row
    targets,   \* targets[e]: whom the last attempt of e set out to reach
    posts,     \* posts[e][d]: attempts in which e reached target d
    outcomes   \* outcomes[e]: the DELIVERY_OUTCOME audit rows

store == <<before, row, waiting, enabled>>
history == <<audited, targets, posts, outcomes>>
vars == <<store, worker, history>>

Target == Destination \cup {Inbox}
Attempt == 1..MaxAttempts
RowStatus == {"absent", "PENDING", "DELIVERY_IN_PROGRESS",
              "DELIVERED_PENDING_AUDIT", "PROCESSED", "FAILED"}
Outcome == {"SUCCESS", "NOOP", "FAILURE"}

Idle == [pc |-> "idle", batch |-> {}, event |-> None, todo |-> {},
         target |-> None, link |-> "silent", result |-> "NOOP", terminal |-> FALSE]

Worker ==
    [pc : {"idle", "next", "begun", "load", "send", "await", "reference",
           "sent", "delivered", "closing", "failing", "failed"},
     batch : SUBSET Event, event : Event \cup {None},
     todo : SUBSET Target, target : Target \cup {None},
     link : {"silent", "heard", "stalled", "cut"},
     result : {"SUCCESS", "NOOP"}, terminal : BOOLEAN]

TypeOK ==
    /\ before \in [Event -> SUBSET Event]
    /\ row \in [Event -> [status : RowStatus, attempts : 0..MaxAttempts]]
    /\ waiting \in SUBSET Event
    /\ enabled \in SUBSET Destination
    /\ worker \in Worker
    /\ audited \in [Event -> SUBSET Attempt]
    /\ targets \in [Event -> SUBSET Target]
    /\ posts \in [Event -> [Target -> SUBSET Attempt]]
    /\ outcomes \in [Event -> SUBSET (Attempt \X Outcome)]

Init ==
    /\ before = [e \in Event |-> {}]
    /\ row = [e \in Event |-> [status |-> "absent", attempts |-> 0]]
    /\ waiting = {}
    /\ enabled = {}
    /\ worker = Idle
    /\ audited = [e \in Event |-> {}]
    /\ targets = [e \in Event |-> {}]
    /\ posts = [e \in Event |-> [d \in Target |-> {}]]
    /\ outcomes = [e \in Event |-> {}]

-------------------------------------------------------------------------------
(* The other actors: services that enqueue, Owners, the clock                *)

\* The row is inserted in the transaction of the request or of the decision.
Enqueue(e) ==
    /\ row[e].status = "absent"
    /\ row' = [row EXCEPT ![e].status = "PENDING"]
    /\ before' = [before EXCEPT ![e] = {f \in Event : row[f].status # "absent"}]
    /\ UNCHANGED <<waiting, enabled, worker, history>>

Register(d) ==
    /\ d \notin enabled
    /\ enabled' = enabled \cup {d}
    /\ UNCHANGED <<before, row, waiting, worker, history>>

Unregister(d) ==
    /\ d \in enabled
    /\ enabled' = enabled \ {d}
    /\ UNCHANGED <<before, row, waiting, worker, history>>

\* 2^attempts seconds have passed since the row was written.
Elapse(e) ==
    /\ e \in waiting
    /\ waiting' = waiting \ {e}
    /\ UNCHANGED <<before, row, enabled, worker, history>>

-------------------------------------------------------------------------------
(* The worker                                                                *)

\* The event the loop of processEvents has come to.
current == worker.event

\* const attempt = event.attempts + 1, from the snapshot; once the row is
\* marked DELIVERY_IN_PROGRESS it carries that number itself.
AttemptOf(e) ==
    IF row[e].status = "PENDING" THEN row[e].attempts + 1 ELSE row[e].attempts

attempt == AttemptOf(current)

SetRow(e, status, n) ==
    row' = [row EXCEPT ![e] = [status |-> status, attempts |-> n]]

GoTo(pc) == worker' = [worker EXCEPT !.pc = pc]

NextEvent(batch) == worker' = [Idle EXCEPT !.pc = "next", !.batch = batch]

IsLast(n) == n >= MaxAttempts

\* Any throw before the side effect, or after it is known: the catch of
\* processEvents counts it and gives up only after maxAttempts.
Retry == worker' = [worker EXCEPT !.pc = "failing",
                                  !.terminal = IsLast(attempt)]

\* Mutant: failures of the dispatch are retried like any other.
GiveUpLater == worker' = [worker EXCEPT !.pc = "failing",
                                        !.terminal = IsLast(attempt)]

\* A throw of the dispatch or of the marker after it: DeliverySideEffectError.
GiveUp == worker' = [worker EXCEPT !.pc = "failing", !.terminal = TRUE]

\* processEvents rejects inside setInterval, or the process is killed: the
\* worker starts over with nothing but the rows.
Die ==
    /\ worker.pc # "idle"
    /\ worker' = Idle
    /\ UNCHANGED <<store, history>>

\* Mutants: the query also returns what a dead worker left behind; it returns
\* only what was never tried.
PendingOrAbandoned ==
    {e \in Event : row[e].status \in {"PENDING", "DELIVERY_IN_PROGRESS"}}
PendingUntried == {e \in Event : row[e].status = "PENDING" /\ row[e].attempts = 0}

\* findPending
Pending == {e \in Event : row[e].status = "PENDING"}

Poll ==
    /\ worker.pc = "idle"
    /\ Pending # {}
    /\ NextEvent(Pending)
    /\ UNCHANGED <<store, history>>

EndOfBatch ==
    /\ worker.pc = "next"
    /\ worker.batch = {}
    /\ worker' = Idle
    /\ UNCHANGED <<store, history>>

\* The loop comes to e: rows are processed oldest first.
ComesTo(e) ==
    /\ worker.pc = "next"
    /\ e \in worker.batch
    /\ before[e] \cap worker.batch = {}

Rest(e) == worker.batch \ {e}

SkipBackoff(e) ==
    /\ ComesTo(e)
    /\ e \in waiting
    /\ NextEvent(Rest(e))
    /\ UNCHANGED <<store, history>>

\* The envelope is intact and the attempt is audited ...
BeginAttempt(e) ==
    /\ ComesTo(e)
    /\ e \notin waiting
    /\ audited' = [audited EXCEPT ![e] = @ \cup {AttemptOf(e)}]
    /\ worker' = [worker EXCEPT !.pc = "begun", !.event = e, !.batch = Rest(e)]
    /\ UNCHANGED <<store, targets, posts, outcomes>>

\* Mutant: a failed audit write is ignored.
RefuseNothing(e) ==
    /\ ComesTo(e)
    /\ e \notin waiting
    /\ worker' = [worker EXCEPT !.pc = "begun", !.event = e, !.batch = Rest(e)]
    /\ UNCHANGED <<store, history>>

\* ... or it is not, or the audit write throws.
RefuseAttempt(e) ==
    /\ ComesTo(e)
    /\ e \notin waiting
    /\ worker' = [worker EXCEPT !.pc = "failing", !.event = e, !.batch = Rest(e),
                                !.terminal = IsLast(AttemptOf(e))]
    /\ UNCHANGED <<store, history>>

MarkInProgress ==
    /\ worker.pc = "begun"
    /\ SetRow(current, "DELIVERY_IN_PROGRESS", attempt)
    /\ GoTo("load")
    /\ UNCHANGED <<before, waiting, enabled, history>>

MarkInProgressFails ==
    /\ worker.pc = "begun"
    /\ Retry
    /\ UNCHANGED <<store, history>>

\* handleRequestCreated and handleApprovalCallback read whom to reach.
Recipients(e) == IF e \in Notice THEN {Inbox} ELSE enabled

LoadTargets ==
    /\ worker.pc = "load"
    /\ targets' = [targets EXCEPT ![current] = Recipients(current)]
    /\ worker' = [worker EXCEPT
                    !.pc = IF Recipients(current) = {} THEN "sent" ELSE "send",
                    !.todo = Recipients(current),
                    !.result = IF Recipients(current) = {} THEN "NOOP" ELSE "SUCCESS"]
    /\ UNCHANGED <<store, audited, posts, outcomes>>

LoadFails ==
    /\ worker.pc = "load"
    /\ GiveUp
    /\ UNCHANGED <<store, history>>

\* The POST (or the DM) leaves.  It may reach its target even when the
\* worker will never learn of it.
Post(d, reaches) ==
    /\ worker.pc = "send"
    /\ d \in worker.todo
    /\ posts' = IF reaches THEN [posts EXCEPT ![current][d] = @ \cup {attempt}]
                           ELSE posts
    /\ worker' = [worker EXCEPT !.pc = "await", !.target = d, !.link = "silent"]
    /\ UNCHANGED <<store, audited, targets, outcomes>>

Remaining(d) == worker.todo \ {d}

\* A send is in flight and its socket can still report something.
Listening == worker.pc = "await" /\ worker.link # "cut"

\* A complete answer that is no redirect resolves the promise whatever its
\* status code says: a refusal of the destination counts as a delivery.
Answered ==
    LET d == worker.target
        left == Remaining(d) IN
    /\ Listening
    /\ attempt \in posts[current][d]
    /\ worker' = [worker EXCEPT
                    !.pc = IF d = Inbox THEN "reference"
                           ELSE IF left = {} THEN "sent" ELSE "send",
                    !.todo = left, !.target = None]
    /\ UNCHANGED <<store, audited, targets, posts, outcomes>>

\* Discord refuses, the connection fails, the answer is a redirect or too long.
SendFails ==
    /\ Listening
    /\ GiveUp
    /\ UNCHANGED <<store, history>>

\* The beginning of an answer arrives and restarts the idle timer of the socket.
\* The size limits on headers and body bound how often; here it is once.
Bytes ==
    /\ Listening
    /\ worker.target # Inbox
    /\ worker.link = "silent"
    /\ attempt \in posts[current][worker.target]
    /\ worker' = [worker EXCEPT !.link = "heard"]
    /\ UNCHANGED <<store, history>>

\* The peer closes the connection in the middle of its answer.  Of that only
\* the response object would tell, and nobody listens to its errors: neither
\* end, error nor timeout of the request fires any more.
Cut ==
    /\ worker.pc = "await"
    /\ worker.link = "heard"
    /\ worker' = [worker EXCEPT !.link = "cut"]
    /\ UNCHANGED <<store, history>>

\* Ten seconds of the timer: it fires only if nothing was heard meanwhile.
IdleTimer ==
    /\ Listening
    /\ worker' = IF worker.link = "heard"
                   THEN [worker EXCEPT !.link = "stalled"]
                   ELSE [worker EXCEPT !.pc = "failing", !.terminal = TRUE]
    /\ UNCHANGED <<store, history>>

\* updateDeliveryReference, only for the DM of a new request
SaveReference ==
    /\ worker.pc = "reference"
    /\ GoTo("sent")
    /\ UNCHANGED <<store, history>>

SaveReferenceFails ==
    /\ worker.pc = "reference"
    /\ GiveUp
    /\ UNCHANGED <<store, history>>

MarkDelivered ==
    /\ worker.pc = "sent"
    /\ SetRow(current, "DELIVERED_PENDING_AUDIT", attempt)
    /\ GoTo("delivered")
    /\ UNCHANGED <<before, waiting, enabled, history>>

MarkDeliveredFails ==
    /\ worker.pc = "sent"
    /\ GiveUp
    /\ UNCHANGED <<store, history>>

AuditOutcome ==
    /\ worker.pc = "delivered"
    /\ outcomes' = [outcomes EXCEPT ![current] =
                      @ \cup {<<attempt, worker.result>>}]
    /\ GoTo("closing")
    /\ UNCHANGED <<store, audited, targets, posts>>

\* Mutant: the event is closed although its outcome is not in the audit trail.
AuditOutcomeIgnored ==
    /\ worker.pc = "delivered"
    /\ GoTo("closing")
    /\ UNCHANGED <<store, history>>

\* The row is left DELIVERED_PENDING_AUDIT for an operator.
AuditOutcomeFails ==
    /\ worker.pc = "delivered"
    /\ NextEvent(worker.batch)
    /\ UNCHANGED <<store, history>>

MarkProcessed ==
    /\ worker.pc = "closing"
    /\ SetRow(current, "PROCESSED", attempt)
    /\ NextEvent(worker.batch)
    /\ UNCHANGED <<before, waiting, enabled, history>>

\* This write is outside the inner try: its failure is retried like any other.
MarkProcessedFails ==
    /\ worker.pc = "closing"
    /\ Retry
    /\ UNCHANGED <<store, history>>

AuditFailure ==
    /\ worker.pc = "failing"
    /\ outcomes' = [outcomes EXCEPT ![current] = @ \cup {<<attempt, "FAILURE">>}]
    /\ GoTo("failed")
    /\ UNCHANGED <<store, audited, targets, posts>>

\* A row put back with attempts > 0 opens a backoff window.
MarkFailed ==
    /\ worker.pc = "failed"
    /\ SetRow(current, IF worker.terminal THEN "FAILED" ELSE "PENDING", attempt)
    /\ waiting' = IF worker.terminal THEN waiting ELSE waiting \cup {current}
    /\ NextEvent(worker.batch)
    /\ UNCHANGED <<before, enabled, history>>

-------------------------------------------------------------------------------
Work ==
    \/ Poll \/ EndOfBatch \/ MarkInProgress \/ LoadTargets
    \/ \E e \in Event : SkipBackoff(e) \/ BeginAttempt(e)
    \/ \E d \in Target, reaches \in BOOLEAN : Post(d, reaches)
    \/ SaveReference \/ MarkDelivered \/ AuditOutcome \/ MarkProcessed
    \/ AuditFailure \/ MarkFailed

\* Faults of this side: storage, audit and configuration, and crashes.
Fault ==
    \/ \E e \in Event : RefuseAttempt(e)
    \/ MarkInProgressFails \/ LoadFails
    \/ SaveReferenceFails \/ MarkDeliveredFails \/ AuditOutcomeFails
    \/ MarkProcessedFails \/ Die

\* What the other end of a connection and the socket do.
Network ==
    \/ Answered
    \/ SendFails \/ Bytes \/ Cut

Next ==
    \/ Work \/ Fault \/ Network \/ IdleTimer
    \/ \E e \in Event : Enqueue(e) \/ Elapse(e)
    \/ \E d \in Destination : Register(d) \/ Unregister(d)

Spec == Init /\ [][Next]_vars

\* The interval fires for ever, awaits of storage return, a backoff window
\* ends and so does the idle timer.  Nothing obliges the other end to answer.
FairSpec ==
    /\ Spec
    /\ WF_vars(Work)
    /\ WF_vars(IdleTimer)
    /\ \A e \in Event : WF_vars(Elapse(e))

-------------------------------------------------------------------------------
(* Properties                                                                *)

\* Nothing reaches a target in an attempt that is not in the audit trail.
SendsAreAudited ==
    \A e \in Event, d \in Target : posts[e][d] \subseteq audited[e]

\* A target is reached a second time only if every earlier attempt was known,
\* and audited, to have succeeded: an ambiguous send is never repeated.
ResendOnlyKnown ==
    \A e \in Event, d \in Target :
        \A a, b \in posts[e][d] : a < b => <<a, "SUCCESS">> \in outcomes[e]

\* A closed row is explained by the audit trail; PROCESSED moreover means that
\* every target the attempt set out to reach was reached.
ClosedIsExplained ==
    \A e \in Event :
        LET a == row[e].attempts IN
        /\ row[e].status = "FAILED" => <<a, "FAILURE">> \in outcomes[e]
        /\ row[e].status = "PROCESSED" =>
             /\ <<a, "SUCCESS">> \in outcomes[e] \/ <<a, "NOOP">> \in outcomes[e]
             /\ \A d \in targets[e] : a \in posts[e][d]

\* A row that left the queue changes only in the hands of the worker that took
\* it out; closed rows, and rows that a dead worker left half delivered, are
\* never taken up again.
QueueIsLeftForGood ==
    [][\A e \in Event :
         /\ row[e].status \notin {"absent", "PENDING"} /\ row'[e] # row[e] =>
              /\ e = worker.event
              /\ row[e].status \notin {"PROCESSED", "FAILED"}
         /\ worker'.event = e /\ worker.event # e =>
              row[e].status = "PENDING"]_vars

\* Once faults of this side cease, and if no connection is cut in the middle of
\* an answer for good, each queued event is taken out of the queue.
QueueDrains ==
    (<>[][~ Fault]_vars /\ []<>(worker.link # "cut"))
    => \A e \in Event : row[e].status = "PENDING" ~> row[e].status # "PENDING"

-------------------------------------------------------------------------------
(* What the documents and comments claim and the code does not do            *)

\* docs/operations/audit-migration-safety.md: marker failures after dispatch
\* are handed over "without automatically repeating a side effect".
NeverRedelivered ==
    \A e \in Event, d \in Target :
        \A a, b \in posts[e][d] : a = b
===============================================================================
