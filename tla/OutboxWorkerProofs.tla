-------------------------- MODULE OutboxWorkerProofs --------------------------
(***************************************************************************)
(* Proofs about OutboxWorker for every set of events and destinations and  *)
(* every maxAttempts, crashes and network outcomes included.               *)
(***************************************************************************)
EXTENDS OutboxWorker, TLAPS

\* The attempts that reached a target: audited, not beyond the row's count,
\* and known to have succeeded unless the row still says it is in that attempt.
PastIsKnown(e) ==
    \A d \in Target : \A a \in posts[e][d] :
        /\ a \in audited[e]
        /\ a <= row[e].attempts
        /\ a < row[e].attempts \/ row[e].status \in {"absent", "PENDING"} =>
             <<a, "SUCCESS">> \in outcomes[e]

IsExplained(e) ==
    /\ row[e].status = "FAILED" => <<row[e].attempts, "FAILURE">> \in outcomes[e]
    /\ row[e].status = "PROCESSED" =>
         /\ <<row[e].attempts, "SUCCESS">> \in outcomes[e]
              \/ <<row[e].attempts, "NOOP">> \in outcomes[e]
         /\ \A d \in targets[e] : row[e].attempts \in posts[e][d]

\* A row in the queue, or not yet in it, has an attempt left; one that was
\* taken out is in an attempt.
HasAttempt(e) ==
    IF row[e].status \in {"absent", "PENDING"} THEN row[e].attempts < MaxAttempts
                                               ELSE row[e].attempts > 0

OneKindOfTarget(e) == targets[e] = {Inbox} \/ targets[e] \subseteq Destination

EventIsSound(e) == PastIsKnown(e) /\ IsExplained(e) /\ HasAttempt(e) /\ OneKindOfTarget(e)

EventsAreSound == \A e \in Event : EventIsSound(e)

BatchIsQueued == \A e \in worker.batch : row[e].status = "PENDING"

\* Nothing has left in the attempt e is in; it has left for every target.
NothingSent(e) == \A d \in Target : row[e].attempts \notin posts[e][d]
AllSent(e) == \A d \in targets[e] : row[e].attempts \in posts[e][d]

\* What the worker's control state says of the row it is at.
SendingAt(e) ==
    /\ worker.pc \in {"load", "send", "await", "reference", "sent"} =>
         row[e].status = "DELIVERY_IN_PROGRESS"
    /\ worker.pc \in {"delivered", "closing"} => row[e].status = "DELIVERED_PENDING_AUDIT"
    /\ worker.pc \in {"load", "send", "await", "reference", "sent", "delivered", "closing"} =>
         row[e].attempts \in audited[e]
    /\ worker.pc = "load" => NothingSent(e)
    /\ worker.pc \in {"send", "await", "reference"} => worker.result = "SUCCESS"
    /\ worker.pc \in {"send", "await"} =>
         /\ worker.todo \subseteq targets[e]
         /\ \A d \in targets[e] \ worker.todo : row[e].attempts \in posts[e][d]
    /\ worker.pc = "await" => worker.target \in worker.todo

SentAt(e) ==
    /\ worker.pc \in {"reference", "sent", "delivered", "closing"} => AllSent(e)
    /\ worker.pc \in {"sent", "delivered", "closing"} =>
         (worker.result = "NOOP" => NothingSent(e))
    /\ worker.pc = "closing" => <<row[e].attempts, worker.result>> \in outcomes[e]

FailingAt(e) ==
    /\ worker.pc \in {"failing", "failed"} =>
         /\ row[e].status \in {"PENDING", "DELIVERY_IN_PROGRESS", "DELIVERED_PENDING_AUDIT"}
         /\ ~ worker.terminal =>
              /\ AttemptOf(e) < MaxAttempts
              /\ row[e].status # "PENDING" =>
                   \A d \in Target : row[e].attempts \in posts[e][d] =>
                       <<row[e].attempts, "SUCCESS">> \in outcomes[e]
    /\ worker.pc = "failed" => <<AttemptOf(e), "FAILURE">> \in outcomes[e]

WorkerIsAt(e) ==
    /\ worker.pc = "begun" => row[e].status = "PENDING" /\ AttemptOf(e) \in audited[e]
    /\ SendingAt(e)
    /\ SentAt(e)
    /\ FailingAt(e)

WorkerIsSound ==
    IF worker.pc \in {"idle", "next"}
      THEN worker.event = None
      ELSE /\ worker.event \in Event
           /\ worker.event \notin worker.batch
           /\ WorkerIsAt(worker.event)

IInv == TypeOK /\ EventsAreSound /\ BatchIsQueued /\ WorkerIsSound

USE DEF Worker, RowStatus, Outcome, Attempt, Target, Idle

LEMMA InitIInv == Init => IInv
<1> SUFFICES ASSUME Init PROVE IInv
  OBVIOUS
<1>1. TypeOK
  <2>1. 0 \in 0..MaxAttempts
    BY AttemptAssumption
  <2>2. row \in [Event -> [status : RowStatus, attempts : 0..MaxAttempts]]
    BY <2>1 DEF Init
  <2>3. worker \in Worker
    BY DEF Init
  <2>4. posts \in [Event -> [Target -> SUBSET Attempt]]
    BY DEF Init
  <2> QED
    BY <2>2, <2>3, <2>4 DEF Init, TypeOK
<1>2. EventsAreSound
  <2> SUFFICES ASSUME NEW e \in Event PROVE EventIsSound(e)
    BY DEF EventsAreSound
  <2>1. /\ row[e].status = "absent" /\ row[e].attempts = 0 /\ targets[e] = {}
        /\ \A d \in Target : posts[e][d] = {}
    BY DEF Init
  <2>2. 0 < MaxAttempts
    BY AttemptAssumption
  <2> QED
    BY <2>1, <2>2
    DEF EventIsSound, PastIsKnown, IsExplained, HasAttempt, OneKindOfTarget
<1>3. BatchIsQueued /\ WorkerIsSound
  BY DEF Init, BatchIsQueued, WorkerIsSound
<1> QED
  BY <1>1, <1>2, <1>3 DEF IInv

\* The number of the attempt an event is in or would begin.
LEMMA AttemptType ==
    ASSUME IInv, NEW e \in Event
    PROVE  /\ row[e].attempts \in 0..MaxAttempts
           /\ row[e].status \in RowStatus
           /\ row[e].status # "absent" => AttemptOf(e) \in Attempt
<1>1. row[e] \in [status : RowStatus, attempts : 0..MaxAttempts] /\ HasAttempt(e)
  BY DEF IInv, TypeOK, EventsAreSound, EventIsSound
<1> QED
  BY <1>1, AttemptAssumption DEF HasAttempt, AttemptOf

\* Soundness of an event depends on its row and history only.
LEMMA EventKept ==
    ASSUME NEW e \in Event, EventIsSound(e), row'[e] = row[e], audited'[e] = audited[e],
           posts'[e] = posts[e], outcomes'[e] = outcomes[e], targets'[e] = targets[e]
    PROVE  EventIsSound(e)'
BY DEF EventIsSound, PastIsKnown, IsExplained, HasAttempt, OneKindOfTarget

\* A step of the worker alone.
LEMMA WorkerStep ==
    ASSUME IInv, UNCHANGED <<store, history>>, worker' \in Worker,
           worker'.batch \subseteq worker.batch, WorkerIsSound'
    PROVE  IInv'
<1>1. TypeOK' /\ BatchIsQueued'
  BY DEF IInv, TypeOK, BatchIsQueued, store, history
<1>2. EventsAreSound'
  BY EventKept DEF IInv, EventsAreSound, store, history
<1> QED
  BY <1>1, <1>2 DEF IInv

\* The worker gives up what it does: crash, end of a batch, a row skipped or left.
LEMMA LetGo ==
    ASSUME IInv, UNCHANGED <<store, history>>,
           NEW b \in SUBSET worker.batch, NEW p \in {"idle", "next"},
           worker' = [Idle EXCEPT !.pc = p, !.batch = b]
    PROVE  IInv'
<1>1. worker' \in Worker /\ worker'.batch \subseteq worker.batch
  BY DEF IInv, TypeOK
<1>2. WorkerIsSound'
  BY DEF WorkerIsSound
<1> QED
  BY <1>1, <1>2, WorkerStep

\* A dispatch that throws: terminal, whatever it did.
LEMMA GiveUpIInv ==
    ASSUME IInv, GiveUp, UNCHANGED <<store, history>>,
           worker.pc \in {"load", "await", "reference", "sent"}
    PROVE  IInv'
<1>1. worker' \in Worker /\ worker'.batch = worker.batch
  BY DEF IInv, TypeOK, GiveUp
<1>2. /\ worker'.pc = "failing" /\ worker'.terminal /\ worker'.event = worker.event
      /\ worker.event \in Event \ worker.batch
      /\ row[worker.event].status = "DELIVERY_IN_PROGRESS"
  BY DEF IInv, TypeOK, GiveUp, WorkerIsSound, WorkerIsAt, SendingAt
<1>3. WorkerIsSound'
  BY <1>1, <1>2 DEF WorkerIsSound, WorkerIsAt, SendingAt, SentAt, FailingAt, store
<1> QED
  BY <1>1, <1>3, WorkerStep

\* A failure that is counted: it ends the event only after the last attempt.
LEMMA RetryIInv ==
    ASSUME IInv, Retry, UNCHANGED <<store, history>>, worker.pc \in {"begun", "closing"}
    PROVE  IInv'
<1> DEFINE e == worker.event
<1>1. /\ worker.event \in Event \ worker.batch
      /\ WorkerIsAt(worker.event)
      /\ row[worker.event].status \in {"PENDING", "DELIVERED_PENDING_AUDIT"}
  BY DEF IInv, WorkerIsSound, WorkerIsAt, SendingAt
<1>2. worker' = [worker EXCEPT !.pc = "failing", !.terminal = IsLast(AttemptOf(e))]
  BY DEF Retry, attempt, current
<1>3. worker' \in Worker /\ worker'.batch = worker.batch /\ worker'.event = worker.event
      /\ worker'.pc = "failing" /\ worker'.terminal = IsLast(AttemptOf(e))
  <2>1. IsLast(AttemptOf(e)) \in BOOLEAN
    BY DEF IsLast
  <2> QED
    BY <1>2, <2>1 DEF IInv, TypeOK
<1>4. AttemptOf(e) \in Nat /\ MaxAttempts \in Nat /\ AttemptOf(e)' = AttemptOf(e)
  <2>1. AttemptOf(e) \in Attempt
    BY <1>1, AttemptType
  <2> QED
    BY <2>1, <1>3, AttemptAssumption DEF AttemptOf, store
<1>5. row[e].status # "PENDING" =>
        \A d \in Target : row[e].attempts \in posts[e][d] =>
            <<row[e].attempts, "SUCCESS">> \in outcomes[e]
  <2> SUFFICES ASSUME row[e].status # "PENDING"
               PROVE  \A d \in Target : row[e].attempts \in posts[e][d] =>
                          <<row[e].attempts, "SUCCESS">> \in outcomes[e]
    OBVIOUS
  <2>1. worker.pc = "closing"
    BY <1>1 DEF WorkerIsAt
  <2>2. /\ <<row[e].attempts, worker.result>> \in outcomes[e]
        /\ worker.result = "NOOP" => NothingSent(e)
        /\ worker.result \in {"SUCCESS", "NOOP"}
    BY <1>1, <2>1 DEF IInv, TypeOK, WorkerIsAt, SentAt
  <2> QED
    BY <2>2 DEF NothingSent
<1>6. FailingAt(e)'
  <2>1. ~ worker'.terminal => AttemptOf(e) < MaxAttempts
    BY <1>3, <1>4 DEF IsLast
  <2> QED
    BY <1>1, <1>3, <1>4, <1>5, <2>1 DEF FailingAt, store, history
<1>7. WorkerIsSound'
  BY <1>1, <1>3, <1>6 DEF WorkerIsSound, WorkerIsAt, SendingAt, SentAt, store
<1> QED
  BY <1>3, <1>7, WorkerStep

LEMMA PollIInv == ASSUME IInv, Poll PROVE IInv'
<1>1. worker' = [Idle EXCEPT !.pc = "next", !.batch = Pending]
  BY DEF Poll, NextEvent
<1>2. TypeOK'
  BY <1>1 DEF IInv, TypeOK, Poll, Pending, store, history
<1>3. EventsAreSound'
  BY EventKept DEF IInv, EventsAreSound, Poll, store, history
<1>4. BatchIsQueued' /\ WorkerIsSound'
  BY <1>1 DEF BatchIsQueued, WorkerIsSound, Poll, Pending, store
<1> QED
  BY <1>2, <1>3, <1>4 DEF IInv

LEMMA DropIInv ==
    ASSUME IInv, EndOfBatch \/ Die \/ AuditOutcomeFails \/ \E e \in Event : SkipBackoff(e)
    PROVE  IInv'
<1>1. CASE EndOfBatch \/ Die
  <2>1. worker' = Idle /\ UNCHANGED <<store, history>>
    BY <1>1 DEF EndOfBatch, Die
  <2>2. worker' \in Worker /\ worker'.batch \subseteq worker.batch /\ WorkerIsSound'
    BY <2>1 DEF WorkerIsSound
  <2> QED
    BY <2>1, <2>2, WorkerStep
<1>2. CASE AuditOutcomeFails
  BY <1>2, LetGo DEF AuditOutcomeFails, NextEvent
<1>3. ASSUME NEW e \in Event, SkipBackoff(e) PROVE IInv'
  <2>1. Rest(e) \in SUBSET worker.batch
    BY DEF Rest
  <2> QED
    BY <1>3, <2>1, LetGo DEF SkipBackoff, NextEvent
<1> QED
  BY <1>1, <1>2, <1>3

\* A queued row's next attempt is one that none of its targets has seen.
LEMMA QueuedRow ==
    ASSUME IInv, NEW e \in Event, row[e].status = "PENDING"
    PROVE  /\ AttemptOf(e) = row[e].attempts + 1
           /\ AttemptOf(e) \in Attempt
           /\ row[e].attempts \in Nat
           /\ \A d \in Target : AttemptOf(e) \notin posts[e][d]
<1>1. AttemptOf(e) = row[e].attempts + 1 /\ AttemptOf(e) \in Attempt
      /\ row[e].attempts \in 0..MaxAttempts
  BY AttemptType DEF AttemptOf
<1>2. PastIsKnown(e)
  BY DEF IInv, EventsAreSound, EventIsSound
<1>3. \A d \in Target : \A a \in posts[e][d] : a <= row[e].attempts
  BY <1>2 DEF PastIsKnown
<1> QED
  BY <1>1, <1>3

LEMMA BeginAttemptIInv ==
    ASSUME IInv, NEW e \in Event, BeginAttempt(e)
    PROVE  IInv'
<1>1. e \in worker.batch /\ row[e].status = "PENDING" /\ AttemptOf(e) \in Attempt
  <2>1. e \in worker.batch /\ row[e].status = "PENDING"
    BY DEF IInv, BatchIsQueued, BeginAttempt, ComesTo
  <2> QED
    BY <2>1, QueuedRow
<1>2. worker' = [worker EXCEPT !.pc = "begun", !.event = e, !.batch = worker.batch \ {e}]
  BY DEF BeginAttempt, Rest
<1>3. audited' \in [Event -> SUBSET Attempt]
      /\ audited'[e] = audited[e] \cup {AttemptOf(e)}
      /\ \A f \in Event : audited[f] \subseteq audited'[f]
  BY <1>1 DEF IInv, TypeOK, BeginAttempt
<1>4. UNCHANGED <<store, targets, posts, outcomes>>
  BY DEF BeginAttempt
<1>5. TypeOK'
  BY <1>2, <1>3, <1>4 DEF IInv, TypeOK, store
<1>6. EventsAreSound'
  BY <1>3, <1>4
  DEF IInv, EventsAreSound, EventIsSound, PastIsKnown, IsExplained, HasAttempt,
      OneKindOfTarget, store
<1>7. BatchIsQueued'
  BY <1>2, <1>4 DEF IInv, TypeOK, BatchIsQueued, store
<1>8. WorkerIsSound'
  <2>1. worker'.pc = "begun" /\ worker'.event = e /\ e \notin worker'.batch
    BY <1>2 DEF IInv, TypeOK
  <2>2. AttemptOf(e)' = AttemptOf(e) /\ row'[e].status = "PENDING"
    BY <1>1, <1>4 DEF AttemptOf, store
  <2> QED
    BY <1>3, <2>1, <2>2 DEF WorkerIsSound, WorkerIsAt, SendingAt, SentAt, FailingAt
<1> QED
  BY <1>5, <1>6, <1>7, <1>8 DEF IInv

LEMMA RefuseAttemptIInv ==
    ASSUME IInv, NEW e \in Event, RefuseAttempt(e)
    PROVE  IInv'
<1>1. e \in worker.batch /\ row[e].status = "PENDING" /\ AttemptOf(e) \in Attempt
  <2>1. e \in worker.batch /\ row[e].status = "PENDING"
    BY DEF IInv, BatchIsQueued, RefuseAttempt, ComesTo
  <2> QED
    BY <2>1, QueuedRow
<1>2. worker' = [worker EXCEPT !.pc = "failing", !.event = e,
                               !.batch = worker.batch \ {e},
                               !.terminal = IsLast(AttemptOf(e))]
  BY DEF RefuseAttempt, Rest
<1>3. /\ worker' \in Worker /\ worker'.batch = worker.batch \ {e}
      /\ worker'.pc = "failing" /\ worker'.event = e
      /\ worker'.terminal = IsLast(AttemptOf(e))
  <2>1. IsLast(AttemptOf(e)) \in BOOLEAN
    BY DEF IsLast
  <2> QED
    BY <1>2, <2>1 DEF IInv, TypeOK
<1>4. UNCHANGED <<store, history>>
  BY DEF RefuseAttempt
<1>5. WorkerIsSound'
  <2>1. AttemptOf(e)' = AttemptOf(e) /\ row'[e].status = "PENDING"
    BY <1>1, <1>4 DEF AttemptOf, store
  <2>2. ~ worker'.terminal => AttemptOf(e) < MaxAttempts
    BY <1>1, <1>3, AttemptAssumption DEF IsLast
  <2> QED
    BY <1>3, <2>1, <2>2 DEF WorkerIsSound, WorkerIsAt, SendingAt, SentAt, FailingAt
<1> QED
  BY <1>3, <1>4, <1>5, WorkerStep

\* A step that writes the row or the history of one event, not in the batch.
LEMMA EventStep ==
    ASSUME IInv, NEW e \in Event, TypeOK', EventIsSound(e)', WorkerIsSound',
           worker'.batch \subseteq worker.batch, e \notin worker'.batch,
           \A f \in Event \ {e} : /\ row'[f] = row[f] /\ audited'[f] = audited[f]
                                  /\ posts'[f] = posts[f] /\ outcomes'[f] = outcomes[f]
                                  /\ targets'[f] = targets[f]
    PROVE  IInv'
<1>1. EventsAreSound'
  BY EventKept DEF IInv, EventsAreSound
<1>2. BatchIsQueued'
  <2>1. worker.batch \subseteq Event
    BY DEF IInv, TypeOK
  <2> QED
    BY <2>1 DEF IInv, BatchIsQueued
<1> QED
  BY <1>1, <1>2 DEF IInv

\* The event the worker is at.
LEMMA AtEvent ==
    ASSUME IInv, worker.pc \notin {"idle", "next"}
    PROVE  /\ worker.event \in Event \ worker.batch
           /\ WorkerIsAt(worker.event)
           /\ EventIsSound(worker.event)
           /\ row[worker.event].status # "absent"
           /\ attempt = AttemptOf(worker.event)
           /\ attempt \in Attempt
<1>1. worker.event \in Event \ worker.batch /\ WorkerIsAt(worker.event)
      /\ EventIsSound(worker.event)
  BY DEF IInv, WorkerIsSound, EventsAreSound
<1>2. worker.pc \in {"begun", "load", "send", "await", "reference", "sent", "delivered",
                     "closing", "failing", "failed"}
  BY DEF IInv, TypeOK
<1>3. row[worker.event].status # "absent"
  BY <1>1, <1>2 DEF WorkerIsAt, SendingAt, FailingAt
<1> QED
  BY <1>1, <1>3, AttemptType DEF attempt, current

\* The counter of a row becomes the attempt the worker is in.
LEMMA RowStep ==
    ASSUME IInv, NEW e \in Event, NEW status \in RowStatus, NEW n \in Attempt,
           SetRow(e, status, n)
    PROVE  /\ row' \in [Event -> [status : RowStatus, attempts : 0..MaxAttempts]]
           /\ row'[e].status = status /\ row'[e].attempts = n
           /\ \A f \in Event \ {e} : row'[f] = row[f]
<1>1. [status |-> status, attempts |-> n] \in [status : RowStatus, attempts : 0..MaxAttempts]
  BY AttemptAssumption
<1> QED
  BY <1>1 DEF IInv, TypeOK, SetRow

LEMMA MarkInProgressIInv == ASSUME IInv, MarkInProgress PROVE IInv'
<1>0. PICK e \in Event : e = worker.event
  BY AtEvent DEF MarkInProgress
<1>1. /\ e \in Event \ worker.batch /\ EventIsSound(e)
      /\ row[e].status = "PENDING" /\ AttemptOf(e) \in audited[e]
      /\ attempt = AttemptOf(e) /\ attempt \in Attempt
  BY <1>0, AtEvent DEF MarkInProgress, WorkerIsAt
<1>2. /\ row' \in [Event -> [status : RowStatus, attempts : 0..MaxAttempts]]
      /\ row'[e].status = "DELIVERY_IN_PROGRESS" /\ row'[e].attempts = attempt
      /\ \A f \in Event \ {e} : row'[f] = row[f]
  BY <1>0, <1>1, RowStep DEF MarkInProgress, current
<1>3. /\ worker' \in Worker /\ worker'.pc = "load" /\ worker'.event = e
      /\ worker'.batch = worker.batch
  BY <1>0 DEF IInv, TypeOK, MarkInProgress, GoTo
<1>4. UNCHANGED <<before, waiting, enabled, history>>
  BY DEF MarkInProgress
<1>5. TypeOK'
  BY <1>2, <1>3, <1>4 DEF IInv, TypeOK, history
<1>6. /\ attempt = row[e].attempts + 1 /\ row[e].attempts \in Nat
      /\ \A d \in Target : attempt \notin posts[e][d]
  BY <1>1, QueuedRow
<1>7. EventIsSound(e)'
  <2>1. PastIsKnown(e)'
    <3> SUFFICES ASSUME NEW d \in Target, NEW a \in posts[e][d]
                 PROVE  /\ a \in audited[e] /\ a <= attempt
                        /\ <<a, "SUCCESS">> \in outcomes[e]
      BY <1>2, <1>4 DEF PastIsKnown, history
    <3>1. a \in audited[e] /\ a <= row[e].attempts /\ <<a, "SUCCESS">> \in outcomes[e]
      BY <1>1 DEF EventIsSound, PastIsKnown
    <3>2. a \in Nat
      BY <1>1 DEF IInv, TypeOK
    <3> QED
      BY <1>6, <3>1, <3>2
  <2>2. attempt > 0
    BY <1>1
  <2> QED
    BY <1>1, <1>2, <1>4, <2>1, <2>2
    DEF EventIsSound, IsExplained, HasAttempt, OneKindOfTarget, history
<1>8. WorkerIsSound'
  BY <1>1, <1>2, <1>3, <1>4, <1>6
  DEF WorkerIsSound, WorkerIsAt, SendingAt, SentAt, FailingAt, NothingSent, history
<1> QED
  BY <1>1, <1>2, <1>3, <1>4, <1>5, <1>7, <1>8, EventStep DEF history

LEMMA LoadTargetsIInv == ASSUME IInv, LoadTargets PROVE IInv'
<1>0. PICK e \in Event : e = worker.event
  BY AtEvent DEF LoadTargets
<1> DEFINE whom == Recipients(e)
<1>1. /\ e \in Event \ worker.batch /\ EventIsSound(e)
      /\ row[e].status = "DELIVERY_IN_PROGRESS" /\ row[e].attempts \in audited[e]
      /\ NothingSent(e)
  BY <1>0, AtEvent DEF LoadTargets, WorkerIsAt, SendingAt
<1>2. whom \subseteq Target /\ (whom = {Inbox} \/ whom \subseteq Destination)
  BY DEF IInv, TypeOK, Recipients
<1>3. /\ targets' \in [Event -> SUBSET Target] /\ targets'[e] = whom
      /\ \A f \in Event \ {e} : targets'[f] = targets[f]
  BY <1>0, <1>1, <1>2 DEF IInv, TypeOK, LoadTargets, current
<1>4. /\ worker' \in Worker /\ worker'.event = e /\ worker'.batch = worker.batch
      /\ worker'.todo = whom
      /\ IF whom = {} THEN worker'.pc = "sent" /\ worker'.result = "NOOP"
                      ELSE worker'.pc = "send" /\ worker'.result = "SUCCESS"
  BY <1>0, <1>2 DEF IInv, TypeOK, LoadTargets, current
<1>5. UNCHANGED <<store, audited, posts, outcomes>>
  BY DEF LoadTargets
<1>6. TypeOK'
  BY <1>3, <1>4, <1>5 DEF IInv, TypeOK, store
<1>7. EventIsSound(e)'
  BY <1>1, <1>2, <1>3, <1>5
  DEF EventIsSound, PastIsKnown, IsExplained, HasAttempt, OneKindOfTarget, store
<1>8. WorkerIsSound'
  <2>1. CASE whom = {}
    BY <1>1, <1>3, <1>4, <1>5, <2>1
    DEF WorkerIsSound, WorkerIsAt, SendingAt, SentAt, FailingAt, NothingSent, AllSent, store
  <2>2. CASE whom # {}
    BY <1>1, <1>3, <1>4, <1>5, <2>2
    DEF WorkerIsSound, WorkerIsAt, SendingAt, SentAt, FailingAt, NothingSent, AllSent, store
  <2> QED
    BY <2>1, <2>2
<1> QED
  BY <1>1, <1>3, <1>4, <1>5, <1>6, <1>7, <1>8, EventStep DEF store

\* The attempt of a row that was taken out of the queue is the row's own.
LEMMA PostIInv ==
    ASSUME IInv, NEW d \in Target, NEW reaches \in BOOLEAN, Post(d, reaches)
    PROVE  IInv'
<1>0. PICK e \in Event : e = worker.event
  BY AtEvent DEF Post
<1>1. /\ e \notin worker.batch /\ EventIsSound(e)
      /\ worker.pc = "send" /\ d \in worker.todo /\ WorkerIsAt(e)
      /\ row[e].status = "DELIVERY_IN_PROGRESS" /\ row[e].attempts \in audited[e]
      /\ attempt = row[e].attempts /\ attempt \in Attempt
  BY <1>0, AtEvent DEF Post, WorkerIsAt, SendingAt, AttemptOf
<1>2. /\ posts' \in [Event -> [Target -> SUBSET Attempt]]
      /\ \A f \in Event \ {e} : posts'[f] = posts[f]
      /\ \A c \in Target : /\ posts[e][c] \subseteq posts'[e][c]
                            /\ posts'[e][c] \subseteq posts[e][c] \cup {attempt}
  <2>1. CASE reaches
    <3>1. posts[e] \in [Target -> SUBSET Attempt]
      BY DEF IInv, TypeOK
    <3>2. [posts[e] EXCEPT ![d] = @ \cup {attempt}] \in [Target -> SUBSET Attempt]
      BY <1>1, <3>1
    <3>3. posts' = [posts EXCEPT ![e] = [posts[e] EXCEPT ![d] = @ \cup {attempt}]]
      BY <1>0, <2>1 DEF Post, current
    <3>4. posts' \in [Event -> [Target -> SUBSET Attempt]]
      BY <3>2, <3>3 DEF IInv, TypeOK
    <3>5. posts'[e] = [posts[e] EXCEPT ![d] = @ \cup {attempt}]
          /\ \A f \in Event \ {e} : posts'[f] = posts[f]
      BY <3>3 DEF IInv, TypeOK
    <3> QED
      BY <3>1, <3>4, <3>5
  <2>2. CASE ~ reaches
    BY <2>2 DEF IInv, TypeOK, Post
  <2> QED
    BY <2>1, <2>2
<1>3. /\ worker' \in Worker /\ worker'.pc = "await" /\ worker'.event = e
      /\ worker'.batch = worker.batch /\ worker'.todo = worker.todo
      /\ worker'.target = d /\ worker'.result = worker.result
  BY <1>0 DEF IInv, TypeOK, Post
<1>4. UNCHANGED <<store, audited, targets, outcomes>>
  BY DEF Post
<1>5. TypeOK'
  BY <1>2, <1>3, <1>4 DEF IInv, TypeOK, store
<1>6. EventIsSound(e)'
  <2>1. PastIsKnown(e)'
    <3> SUFFICES ASSUME NEW c \in Target, NEW a \in posts'[e][c]
                 PROVE  /\ a \in audited[e] /\ a <= row[e].attempts
                        /\ a < row[e].attempts => <<a, "SUCCESS">> \in outcomes[e]
      BY <1>1, <1>4 DEF PastIsKnown, store
    <3>1. CASE a \in posts[e][c]
      BY <1>1, <3>1 DEF EventIsSound, PastIsKnown
    <3>2. CASE a = row[e].attempts
      BY <1>1, <3>2
    <3> QED
      BY <1>1, <1>2, <3>1, <3>2
  <2> QED
    BY <1>1, <1>4, <2>1 DEF EventIsSound, IsExplained, HasAttempt, OneKindOfTarget, store
<1>7. WorkerIsSound'
  <2>1. \A c \in targets[e] \ worker.todo : row[e].attempts \in posts'[e][c]
    <3>1. targets[e] \subseteq Target
      BY DEF IInv, TypeOK
    <3> QED
      BY <1>1, <1>2, <3>1 DEF WorkerIsAt, SendingAt
  <2> QED
    BY <1>1, <1>3, <1>4, <2>1
    DEF WorkerIsSound, WorkerIsAt, SendingAt, SentAt, FailingAt, store
<1> QED
  BY <1>1, <1>2, <1>3, <1>4, <1>5, <1>6, <1>7, EventStep DEF store

LEMMA AnsweredIInv ==
    ASSUME IInv, Answered
    PROVE  IInv'
<1>0. PICK e \in Event : e = worker.event
  BY AtEvent DEF Answered, Listening
<1> DEFINE d == worker.target
           left == worker.todo \ {d}
<1>1. /\ e \notin worker.batch /\ EventIsSound(e) /\ WorkerIsAt(e) /\ worker.pc = "await"
      /\ row[e].status = "DELIVERY_IN_PROGRESS" /\ row[e].attempts \in audited[e]
      /\ attempt = row[e].attempts /\ attempt \in Attempt
  BY <1>0, AtEvent DEF Answered, Listening, WorkerIsAt, SendingAt, AttemptOf
<1>2. /\ d \in worker.todo /\ worker.todo \subseteq targets[e] /\ d \in Target
      /\ worker.result = "SUCCESS" /\ row[e].attempts \in posts[e][d]
      /\ \A c \in targets[e] \ worker.todo : row[e].attempts \in posts[e][c]
  BY <1>0, <1>1 DEF IInv, TypeOK, Answered, WorkerIsAt, SendingAt, current
<1>3. \A c \in targets[e] \ left : row[e].attempts \in posts[e][c]
  BY <1>2
<1>4. d = Inbox => left = {}
  BY <1>1, <1>2, TargetAssumption DEF EventIsSound, OneKindOfTarget
<1>6. /\ worker' \in Worker /\ worker'.event = e /\ worker'.batch = worker.batch
      /\ worker'.todo = left /\ worker'.result = "SUCCESS"
      /\ worker'.pc = IF d = Inbox THEN "reference" ELSE IF left = {} THEN "sent" ELSE "send"
  <2>1. worker' = [worker EXCEPT
                    !.pc = IF d = Inbox THEN "reference" ELSE IF left = {} THEN "sent" ELSE "send",
                    !.todo = left, !.target = None]
    BY DEF Answered, Remaining
  <2> QED
    BY <1>0, <1>2, <2>1 DEF IInv, TypeOK
<1>7. UNCHANGED <<store, audited, targets, posts, outcomes>>
  BY DEF Answered
<1>8. TypeOK'
  BY <1>6, <1>7 DEF IInv, TypeOK, store
<1>9. EventIsSound(e)'
  BY <1>1, <1>7, EventKept DEF store
<1>10. WorkerIsSound'
  <2> HIDE DEF d, left
  <2>1. worker'.pc \in {"reference", "sent", "send"}
        /\ (worker'.pc \in {"reference", "sent"} => left = {})
    BY <1>4, <1>6
  <2>2. targets[e] \ left = {c \in targets[e] : c \notin left}
    OBVIOUS
  <2>3. left \subseteq targets[e]
    BY <1>2 DEF left
  <2>4. left = {} => AllSent(e)
    BY <1>3 DEF AllSent
  <2> QED
    BY <1>1, <1>3, <1>6, <1>7, <2>1, <2>3, <2>4
    DEF WorkerIsSound, WorkerIsAt, SendingAt, SentAt, FailingAt, AllSent, store
<1> QED
  BY <1>1, <1>6, <1>7, <1>8, <1>9, <1>10, EventStep DEF store

\* The socket reports something, or the timer only notices it.
LEMMA LinkIInv ==
    ASSUME IInv, Bytes \/ Cut \/ (IdleTimer /\ worker.link = "heard")
    PROVE  IInv'
<1>1. /\ worker.pc = "await" /\ UNCHANGED <<store, history>>
      /\ \E l \in {"heard", "stalled", "cut"} : worker' = [worker EXCEPT !.link = l]
  BY DEF Bytes, Cut, IdleTimer, Listening
<1>2. /\ worker' \in Worker /\ worker'.pc = worker.pc /\ worker'.event = worker.event
      /\ worker'.batch = worker.batch /\ worker'.todo = worker.todo
      /\ worker'.target = worker.target /\ worker'.result = worker.result
      /\ worker'.terminal = worker.terminal
  BY <1>1 DEF IInv, TypeOK
<1>3. WorkerIsSound'
  BY <1>1, <1>2
  DEF IInv, WorkerIsSound, WorkerIsAt, SendingAt, SentAt, FailingAt, store, history
<1> QED
  BY <1>1, <1>2, <1>3, WorkerStep

LEMMA SendEndsIInv ==
    ASSUME IInv, SendFails \/ (IdleTimer /\ worker.link # "heard")
    PROVE  IInv'
<1>1. /\ worker.pc = "await" /\ GiveUp /\ UNCHANGED <<store, history>>
  BY DEF SendFails, IdleTimer, Listening, GiveUp
<1> QED
  BY <1>1, GiveUpIInv

LEMMA SaveReferenceIInv == ASSUME IInv, SaveReference PROVE IInv'
<1>0. PICK e \in Event : e = worker.event
  BY AtEvent DEF SaveReference
<1>1. /\ e \notin worker.batch /\ WorkerIsAt(e) /\ worker.pc = "reference"
      /\ UNCHANGED <<store, history>>
  BY <1>0, AtEvent DEF SaveReference
<1>2. /\ worker' \in Worker /\ worker'.pc = "sent" /\ worker'.event = e
      /\ worker'.batch = worker.batch /\ worker'.result = worker.result
  BY <1>0 DEF IInv, TypeOK, SaveReference, GoTo
<1>3. WorkerIsSound'
  BY <1>1, <1>2
  DEF WorkerIsSound, WorkerIsAt, SendingAt, SentAt, FailingAt, AllSent, store, history
<1> QED
  BY <1>1, <1>2, <1>3, WorkerStep

\* Writing the status of a row that keeps its count leaves the past known.
LEMMA PastKept ==
    ASSUME NEW e \in Event, PastIsKnown(e), UNCHANGED <<posts, audited>>,
           outcomes[e] \subseteq outcomes'[e], row'[e].attempts = row[e].attempts,
           row'[e].status \notin {"absent", "PENDING"}
    PROVE  PastIsKnown(e)'
BY DEF PastIsKnown

LEMMA MarkDeliveredIInv == ASSUME IInv, MarkDelivered PROVE IInv'
<1>0. PICK e \in Event : e = worker.event
  BY AtEvent DEF MarkDelivered
<1>1. /\ e \notin worker.batch /\ EventIsSound(e) /\ WorkerIsAt(e) /\ worker.pc = "sent"
      /\ row[e].status = "DELIVERY_IN_PROGRESS" /\ row[e].attempts \in audited[e]
      /\ attempt = row[e].attempts /\ attempt \in Attempt
  BY <1>0, AtEvent DEF MarkDelivered, WorkerIsAt, SendingAt, AttemptOf
<1>2. /\ row' \in [Event -> [status : RowStatus, attempts : 0..MaxAttempts]]
      /\ row'[e].status = "DELIVERED_PENDING_AUDIT" /\ row'[e].attempts = row[e].attempts
      /\ \A f \in Event \ {e} : row'[f] = row[f]
  BY <1>0, <1>1, RowStep DEF MarkDelivered, current
<1>3. /\ worker' \in Worker /\ worker'.pc = "delivered" /\ worker'.event = e
      /\ worker'.batch = worker.batch /\ worker'.result = worker.result
  BY <1>0 DEF IInv, TypeOK, MarkDelivered, GoTo
<1>4. UNCHANGED <<before, waiting, enabled, history>>
  BY DEF MarkDelivered
<1>5. TypeOK'
  BY <1>2, <1>3, <1>4 DEF IInv, TypeOK, history
<1>6. EventIsSound(e)'
  <2>1. PastIsKnown(e)'
    BY <1>1, <1>2, <1>4, PastKept DEF EventIsSound, history
  <2>2. row'[e].attempts > 0
    BY <1>1, <1>2
  <2> QED
    BY <1>1, <1>2, <1>4, <2>1, <2>2
    DEF EventIsSound, IsExplained, HasAttempt, OneKindOfTarget, history
<1>7. WorkerIsSound'
  BY <1>1, <1>2, <1>3, <1>4
  DEF WorkerIsSound, WorkerIsAt, SendingAt, SentAt, FailingAt, NothingSent, AllSent, history
<1> QED
  BY <1>1, <1>2, <1>3, <1>4, <1>5, <1>6, <1>7, EventStep DEF history

\* One more audit row about the current attempt.
LEMMA OutcomeStep ==
    ASSUME IInv, NEW e \in Event, NEW r \in Outcome, NEW n \in Attempt, EventIsSound(e),
           outcomes' = [outcomes EXCEPT ![e] = @ \cup {<<n, r>>}],
           UNCHANGED <<store, audited, targets, posts>>
    PROVE  /\ outcomes' \in [Event -> SUBSET (Attempt \X Outcome)]
           /\ \A f \in Event \ {e} : outcomes'[f] = outcomes[f]
           /\ <<n, r>> \in outcomes'[e] /\ outcomes[e] \subseteq outcomes'[e]
           /\ EventIsSound(e)'
<1>1. /\ outcomes' \in [Event -> SUBSET (Attempt \X Outcome)]
      /\ \A f \in Event \ {e} : outcomes'[f] = outcomes[f]
      /\ <<n, r>> \in outcomes'[e] /\ outcomes[e] \subseteq outcomes'[e]
  <2>1. <<n, r>> \in Attempt \X Outcome
    OBVIOUS
  <2> QED
    BY <2>1 DEF IInv, TypeOK
<1>2. EventIsSound(e)'
  BY <1>1 DEF EventIsSound, PastIsKnown, IsExplained, HasAttempt, OneKindOfTarget, store
<1> QED
  BY <1>1, <1>2

LEMMA AuditOutcomeIInv == ASSUME IInv, AuditOutcome PROVE IInv'
<1>0. PICK e \in Event : e = worker.event
  BY AtEvent DEF AuditOutcome
<1>1. /\ e \notin worker.batch /\ EventIsSound(e) /\ WorkerIsAt(e)
      /\ worker.pc = "delivered" /\ row[e].status = "DELIVERED_PENDING_AUDIT"
      /\ attempt = row[e].attempts /\ attempt \in Attempt
      /\ worker.result \in Outcome
  <2>1. worker.result \in {"SUCCESS", "NOOP"}
    BY DEF IInv, TypeOK
  <2> QED
    BY <1>0, <2>1, AtEvent DEF AuditOutcome, WorkerIsAt, SendingAt, AttemptOf
<1>2. UNCHANGED <<store, audited, targets, posts>>
  BY DEF AuditOutcome
<1>3. /\ outcomes' \in [Event -> SUBSET (Attempt \X Outcome)]
      /\ \A f \in Event \ {e} : outcomes'[f] = outcomes[f]
      /\ <<row[e].attempts, worker.result>> \in outcomes'[e]
      /\ EventIsSound(e)'
  <2>1. outcomes' = [outcomes EXCEPT ![e] = @ \cup {<<row[e].attempts, worker.result>>}]
    BY <1>0, <1>1 DEF AuditOutcome, current
  <2>2. row[e].attempts \in Attempt
    BY <1>1
  <2> QED
    BY <1>1, <1>2, <2>1, <2>2, OutcomeStep
<1>4. /\ worker' \in Worker /\ worker'.pc = "closing" /\ worker'.event = e
      /\ worker'.batch = worker.batch /\ worker'.result = worker.result
  BY <1>0 DEF IInv, TypeOK, AuditOutcome, GoTo
<1>5. TypeOK'
  BY <1>2, <1>3, <1>4 DEF IInv, TypeOK, store
<1>6. WorkerIsSound'
  BY <1>1, <1>2, <1>3, <1>4
  DEF WorkerIsSound, WorkerIsAt, SendingAt, SentAt, FailingAt, NothingSent, AllSent, store
<1> QED
  BY <1>1, <1>2, <1>3, <1>4, <1>5, <1>6, EventStep DEF store

LEMMA AuditFailureIInv == ASSUME IInv, AuditFailure PROVE IInv'
<1>0. PICK e \in Event : e = worker.event
  BY AtEvent DEF AuditFailure
<1>1. /\ e \notin worker.batch /\ EventIsSound(e) /\ WorkerIsAt(e)
      /\ worker.pc = "failing" /\ attempt = AttemptOf(e) /\ AttemptOf(e) \in Attempt
  BY <1>0, AtEvent DEF AuditFailure
<1>2. UNCHANGED <<store, audited, targets, posts>>
  BY DEF AuditFailure
<1>3. /\ outcomes' \in [Event -> SUBSET (Attempt \X Outcome)]
      /\ \A f \in Event \ {e} : outcomes'[f] = outcomes[f]
      /\ <<AttemptOf(e), "FAILURE">> \in outcomes'[e] /\ outcomes[e] \subseteq outcomes'[e]
      /\ EventIsSound(e)'
  <2>1. outcomes' = [outcomes EXCEPT ![e] = @ \cup {<<AttemptOf(e), "FAILURE">>}]
    BY <1>0, <1>1 DEF AuditFailure, current
  <2>2. "FAILURE" \in Outcome
    OBVIOUS
  <2> QED
    BY <1>1, <1>2, <2>1, <2>2, OutcomeStep
<1>4. /\ worker' \in Worker /\ worker'.pc = "failed" /\ worker'.event = e
      /\ worker'.batch = worker.batch /\ worker'.terminal = worker.terminal
  BY <1>0 DEF IInv, TypeOK, AuditFailure, GoTo
<1>5. TypeOK'
  BY <1>2, <1>3, <1>4 DEF IInv, TypeOK, store
<1>6. WorkerIsSound'
  <2>1. AttemptOf(e)' = AttemptOf(e) /\ row' = row
    BY <1>2 DEF AttemptOf, store
  <2> QED
    BY <1>1, <1>2, <1>3, <1>4, <2>1
    DEF WorkerIsSound, WorkerIsAt, SendingAt, SentAt, FailingAt
<1> QED
  BY <1>1, <1>2, <1>3, <1>4, <1>5, <1>6, EventStep DEF store

LEMMA MarkProcessedIInv == ASSUME IInv, MarkProcessed PROVE IInv'
<1>0. PICK e \in Event : e = worker.event
  BY AtEvent DEF MarkProcessed
<1>1. /\ e \notin worker.batch /\ EventIsSound(e) /\ AllSent(e)
      /\ row[e].status = "DELIVERED_PENDING_AUDIT"
      /\ <<row[e].attempts, worker.result>> \in outcomes[e]
      /\ worker.result \in {"SUCCESS", "NOOP"}
      /\ attempt = row[e].attempts /\ attempt \in Attempt
  <2>1. worker.result \in {"SUCCESS", "NOOP"}
    BY DEF IInv, TypeOK
  <2> QED
    BY <1>0, <2>1, AtEvent DEF MarkProcessed, WorkerIsAt, SendingAt, SentAt, AttemptOf
<1>2. /\ row' \in [Event -> [status : RowStatus, attempts : 0..MaxAttempts]]
      /\ row'[e].status = "PROCESSED" /\ row'[e].attempts = row[e].attempts
      /\ \A f \in Event \ {e} : row'[f] = row[f]
  BY <1>0, <1>1, RowStep DEF MarkProcessed, current
<1>3. /\ worker' \in Worker /\ worker'.pc = "next" /\ worker'.event = None
      /\ worker'.batch = worker.batch
  BY DEF IInv, TypeOK, MarkProcessed, NextEvent
<1>4. UNCHANGED <<before, waiting, enabled, history>>
  BY DEF MarkProcessed
<1>5. TypeOK'
  BY <1>2, <1>3, <1>4 DEF IInv, TypeOK, history
<1>6. EventIsSound(e)'
  <2>1. PastIsKnown(e)'
    BY <1>1, <1>2, <1>4, PastKept DEF EventIsSound, history
  <2>2. row'[e].attempts > 0
    BY <1>1, <1>2
  <2> QED
    BY <1>1, <1>2, <1>4, <2>1, <2>2
    DEF EventIsSound, IsExplained, HasAttempt, OneKindOfTarget, AllSent, history
<1>7. WorkerIsSound'
  BY <1>3 DEF WorkerIsSound
<1> QED
  BY <1>1, <1>2, <1>3, <1>4, <1>5, <1>6, <1>7, EventStep DEF history

\* A failed attempt is counted.  Put back into the queue, everything it sent
\* is known to have succeeded.
LEMMA MarkFailedIInv == ASSUME IInv, MarkFailed PROVE IInv'
<1>0. PICK e \in Event : e = worker.event
  BY AtEvent DEF MarkFailed
<1> DEFINE n == AttemptOf(e)
           status == IF worker.terminal THEN "FAILED" ELSE "PENDING"
<1>1. /\ e \notin worker.batch /\ EventIsSound(e) /\ WorkerIsAt(e)
      /\ attempt = n /\ n \in Attempt /\ <<n, "FAILURE">> \in outcomes[e]
      /\ row[e].status \in {"PENDING", "DELIVERY_IN_PROGRESS", "DELIVERED_PENDING_AUDIT"}
      /\ ~ worker.terminal => n < MaxAttempts
  BY <1>0, AtEvent DEF MarkFailed, WorkerIsAt, FailingAt
<1>2. /\ row' \in [Event -> [status : RowStatus, attempts : 0..MaxAttempts]]
      /\ row'[e].status = status /\ row'[e].attempts = n
      /\ \A f \in Event \ {e} : row'[f] = row[f]
  <2>1. SetRow(e, status, n) /\ status \in RowStatus
    BY <1>0, <1>1 DEF MarkFailed, current
  <2> HIDE DEF n, status
  <2> QED
    BY <1>1, <2>1, RowStep
<1>3. /\ worker' \in Worker /\ worker'.pc = "next" /\ worker'.event = None
      /\ worker'.batch = worker.batch
  BY DEF IInv, TypeOK, MarkFailed, NextEvent
<1>4. UNCHANGED <<before, enabled, history>> /\ waiting' \in SUBSET Event
  BY <1>0 DEF IInv, TypeOK, MarkFailed, current
<1>5. TypeOK'
  BY <1>2, <1>3, <1>4 DEF IInv, TypeOK, history
<1>6. \A d \in Target : \A a \in posts[e][d] :
        /\ a \in audited[e] /\ a <= n
        /\ a < n \/ ~ worker.terminal => <<a, "SUCCESS">> \in outcomes[e]
  <2> SUFFICES ASSUME NEW d \in Target, NEW a \in posts[e][d]
               PROVE  /\ a \in audited[e] /\ a <= n
                      /\ a < n \/ ~ worker.terminal => <<a, "SUCCESS">> \in outcomes[e]
    OBVIOUS
  <2>1. /\ a \in audited[e] /\ a <= row[e].attempts
        /\ a < row[e].attempts \/ row[e].status = "PENDING" => <<a, "SUCCESS">> \in outcomes[e]
    BY <1>1 DEF EventIsSound, PastIsKnown
  <2>2. a \in Nat /\ row[e].attempts \in Nat
    <3>1. posts[e][d] \subseteq Attempt /\ row[e].attempts \in 0..MaxAttempts
      BY AttemptType DEF IInv, TypeOK
    <3> QED
      BY <3>1
  <2>3. CASE row[e].status = "PENDING"
    <3>1. n = row[e].attempts + 1
      BY <2>3 DEF AttemptOf
    <3> QED
      BY <2>1, <2>2, <2>3, <3>1
  <2>4. CASE row[e].status # "PENDING"
    <3>1. n = row[e].attempts
      BY <2>4 DEF AttemptOf
    <3>2. ~ worker.terminal /\ a = n => <<a, "SUCCESS">> \in outcomes[e]
      BY <1>0, <1>1, <2>4, <3>1 DEF MarkFailed, WorkerIsAt, FailingAt
    <3> QED
      BY <2>1, <2>2, <3>1, <3>2
  <2> QED
    BY <2>3, <2>4
<1>7. EventIsSound(e)'
  <2> HIDE DEF n
  <2>1. PastIsKnown(e)'
    BY <1>2, <1>4, <1>6 DEF PastIsKnown, history
  <2>2. n > 0
    BY <1>1
  <2>3. HasAttempt(e)'
    BY <1>1, <1>2, <2>2 DEF HasAttempt
  <2>4. IsExplained(e)'
    BY <1>1, <1>2, <1>4 DEF IsExplained, history
  <2> QED
    BY <1>1, <1>4, <2>1, <2>3, <2>4 DEF EventIsSound, OneKindOfTarget, history
<1>8. WorkerIsSound'
  BY <1>3 DEF WorkerIsSound
<1> QED
  BY <1>1, <1>2, <1>3, <1>4, <1>5, <1>7, <1>8, EventStep DEF history

LEMMA EnqueueIInv == ASSUME IInv, NEW e \in Event, Enqueue(e) PROVE IInv'
<1>1. /\ row[e].status = "absent" /\ EventIsSound(e) /\ row[e].attempts \in 0..MaxAttempts
      /\ e \notin worker.batch
  BY AttemptType DEF IInv, EventsAreSound, BatchIsQueued, Enqueue
<1>2. /\ row' \in [Event -> [status : RowStatus, attempts : 0..MaxAttempts]]
      /\ row'[e].status = "PENDING" /\ row'[e].attempts = row[e].attempts
      /\ \A f \in Event \ {e} : row'[f] = row[f]
  BY DEF IInv, TypeOK, Enqueue
<1>3. UNCHANGED <<waiting, enabled, worker, history>> /\ before' \in [Event -> SUBSET Event]
  BY DEF IInv, TypeOK, Enqueue
<1>4. TypeOK'
  BY <1>2, <1>3, ZenonT(60) DEF IInv, TypeOK, history
<1>5. EventIsSound(e)'
  BY <1>1, <1>2, <1>3
  DEF EventIsSound, PastIsKnown, IsExplained, HasAttempt, OneKindOfTarget, history
<1>6. WorkerIsSound'
  <2>1. CASE worker.pc \in {"idle", "next"}
    BY <1>3, <2>1 DEF IInv, WorkerIsSound
  <2>2. CASE worker.pc \notin {"idle", "next"}
    <3>0. PICK f \in Event : f = worker.event
      BY <2>2, AtEvent
    <3>1. f \in Event \ worker.batch /\ WorkerIsAt(f) /\ row[f].status # "absent"
      BY <2>2, <3>0, AtEvent
    <3>2. row'[f] = row[f] /\ worker'.event = f
      BY <1>1, <1>2, <1>3, <3>0, <3>1
    <3> QED
      BY <1>3, <2>2, <3>1, <3>2
      DEF WorkerIsSound, WorkerIsAt, SendingAt, SentAt, FailingAt, NothingSent, AllSent,
          AttemptOf, history
  <2> QED
    BY <2>1, <2>2
<1> QED
  BY <1>1, <1>2, <1>3, <1>4, <1>5, <1>6, EventStep DEF history

\* Backoff windows and registrations touch neither rows nor the worker.
LEMMA SurroundingsIInv ==
    ASSUME IInv, waiting' \in SUBSET Event, enabled' \in SUBSET Destination,
           UNCHANGED <<before, row, worker, history>>
    PROVE  IInv'
<1>1. TypeOK'
  BY ZenonT(60) DEF IInv, TypeOK, history
<1>2. EventsAreSound'
  BY EventKept DEF IInv, EventsAreSound, history
<1>3. BatchIsQueued'
  BY DEF IInv, BatchIsQueued
<1>4. WorkerIsSound'
  BY DEF IInv, WorkerIsSound, WorkerIsAt, SendingAt, SentAt, FailingAt, NothingSent, AllSent,
         AttemptOf, history
<1> QED
  BY <1>1, <1>2, <1>3, <1>4 DEF IInv

-------------------------------------------------------------------------------
(* The theorems                                                              *)

LEMMA NextIInv == IInv /\ [Next]_vars => IInv'
<1> SUFFICES ASSUME IInv, [Next]_vars PROVE IInv'
  OBVIOUS
<1>1. CASE Work
  <2>1. ASSUME NEW d \in Target, NEW reaches \in BOOLEAN, Post(d, reaches) PROVE IInv'
    BY <2>1, PostIInv
  <2>2. ASSUME NEW e \in Event, SkipBackoff(e) \/ BeginAttempt(e) PROVE IInv'
    BY <2>2, DropIInv, BeginAttemptIInv
  <2>3. CASE Poll \/ EndOfBatch \/ MarkInProgress \/ LoadTargets
    BY <2>3, PollIInv, DropIInv, MarkInProgressIInv, LoadTargetsIInv
  <2>4. CASE SaveReference \/ MarkDelivered \/ AuditOutcome \/ MarkProcessed
    BY <2>4, SaveReferenceIInv, MarkDeliveredIInv, AuditOutcomeIInv, MarkProcessedIInv
  <2>5. CASE AuditFailure \/ MarkFailed
    BY <2>5, AuditFailureIInv, MarkFailedIInv
  <2> QED
    BY <1>1, <2>1, <2>2, <2>3, <2>4, <2>5 DEF Work
<1>2. CASE Fault
  <2>1. ASSUME NEW e \in Event, RefuseAttempt(e) PROVE IInv'
    BY <2>1, RefuseAttemptIInv
  <2>2. CASE MarkInProgressFails \/ MarkProcessedFails
    BY <2>2, RetryIInv DEF MarkInProgressFails, MarkProcessedFails
  <2>3. CASE LoadFails \/ SaveReferenceFails \/ MarkDeliveredFails
    BY <2>3, GiveUpIInv DEF LoadFails, SaveReferenceFails, MarkDeliveredFails
  <2>4. CASE AuditOutcomeFails \/ Die
    BY <2>4, DropIInv
  <2> QED
    BY <1>2, <2>1, <2>2, <2>3, <2>4 DEF Fault
<1>3. CASE Network \/ IdleTimer
  <2>1. ASSUME Answered PROVE IInv'
    BY <2>1, AnsweredIInv
  <2>2. CASE Bytes \/ Cut \/ (IdleTimer /\ worker.link = "heard")
    BY <2>2, LinkIInv
  <2>3. CASE SendFails \/ (IdleTimer /\ worker.link # "heard")
    BY <2>3, SendEndsIInv
  <2> QED
    BY <1>3, <2>1, <2>2, <2>3 DEF Network
<1>4. ASSUME NEW e \in Event, Enqueue(e) PROVE IInv'
  BY <1>4, EnqueueIInv
<1>5. ASSUME NEW e \in Event, Elapse(e) PROVE IInv'
  BY <1>5, SurroundingsIInv DEF IInv, TypeOK, Elapse
<1>6. ASSUME NEW d \in Destination, Register(d) \/ Unregister(d) PROVE IInv'
  BY <1>6, SurroundingsIInv DEF IInv, TypeOK, Register, Unregister
<1>7. CASE UNCHANGED vars
  BY <1>7, SurroundingsIInv DEF IInv, TypeOK, vars, store
<1> QED
  BY <1>1, <1>2, <1>3, <1>4, <1>5, <1>6, <1>7 DEF Next

LEMMA IInvAlways == Spec => []IInv
BY InitIInv, NextIInv, PTL DEF Spec

\* Rows, counters, the worker and its history are of their types; in
\* particular no row counts beyond maxAttempts.
THEOREM TypeCorrect == Spec => []TypeOK
BY IInvAlways, PTL DEF IInv

\* Nothing leaves in an attempt that is not in the audit trail (processEvent).
THEOREM SendAudit == Spec => []SendsAreAudited
<1>1. IInv => SendsAreAudited
  BY DEF IInv, EventsAreSound, EventIsSound, PastIsKnown, SendsAreAudited
<1> QED
  BY <1>1, IInvAlways, PTL

\* Crashes, retries and ambiguous sends included: a target is reached again
\* only after attempts that are audited to have succeeded.
THEOREM ResendsAreKnown == Spec => []ResendOnlyKnown
<1>1. IInv => ResendOnlyKnown
  <2> SUFFICES ASSUME IInv, NEW e \in Event, NEW d \in Target,
                      NEW a \in posts[e][d], NEW b \in posts[e][d], a < b
               PROVE  <<a, "SUCCESS">> \in outcomes[e]
    BY DEF ResendOnlyKnown
  <2>1. PastIsKnown(e)
    BY DEF IInv, EventsAreSound, EventIsSound
  <2>2. b <= row[e].attempts
    BY <2>1 DEF PastIsKnown
  <2>3. a \in Nat /\ b \in Nat /\ row[e].attempts \in Nat
    <3>1. posts[e][d] \subseteq Attempt /\ row[e].attempts \in 0..MaxAttempts
      BY AttemptType DEF IInv, TypeOK
    <3> QED
      BY <3>1
  <2>4. a < row[e].attempts
    BY <2>2, <2>3
  <2> QED
    BY <2>1, <2>4 DEF PastIsKnown
<1> QED
  BY <1>1, IInvAlways, PTL

\* Closed rows have their outcome in the audit trail, and PROCESSED means that
\* every target was reached.
THEOREM ClosingIsExplained == Spec => []ClosedIsExplained
<1>1. IInv => ClosedIsExplained
  BY DEF IInv, EventsAreSound, EventIsSound, IsExplained, ClosedIsExplained
<1> QED
  BY <1>1, IInvAlways, PTL

\* Steps that write a row write the one the worker is at.
LEMMA WrittenRow ==
    ASSUME IInv, MarkInProgress \/ MarkDelivered \/ MarkProcessed \/ MarkFailed
    PROVE  /\ row[worker.event].status \notin {"PROCESSED", "FAILED"}
           /\ \A f \in Event : f # worker.event => row'[f] = row[f]
           /\ worker'.event \in {worker.event, None}
<1>1. row[worker.event].status \notin {"PROCESSED", "FAILED"}
  BY AtEvent
  DEF MarkInProgress, MarkDelivered, MarkProcessed, MarkFailed, WorkerIsAt, SendingAt, FailingAt
<1>2. \A f \in Event : f # worker.event => row'[f] = row[f]
  BY DEF IInv, TypeOK, MarkInProgress, MarkDelivered, MarkProcessed, MarkFailed, SetRow, current
<1>3. worker'.event \in {worker.event, None}
  BY DEF IInv, TypeOK, MarkInProgress, MarkDelivered, MarkProcessed, MarkFailed, GoTo, NextEvent
<1> QED
  BY <1>1, <1>2, <1>3

\* A row out of the queue is the business of the worker that took it, and of
\* nobody after a crash or once it is closed.
THEOREM QueueIsLeft == Spec => QueueIsLeftForGood
<1> DEFINE Left(e) ==
      /\ row[e].status \notin {"absent", "PENDING"} /\ row'[e] # row[e] =>
           /\ e = worker.event
           /\ row[e].status \notin {"PROCESSED", "FAILED"}
      /\ worker'.event = e /\ worker.event # e => row[e].status = "PENDING"
<1>1. ASSUME IInv, Next, NEW e \in Event PROVE Left(e)
  <2>1. CASE MarkInProgress \/ MarkDelivered \/ MarkProcessed \/ MarkFailed
    BY <1>1, <2>1, WrittenRow, NoneAssumption
  <2>2. ASSUME NEW f \in Event, BeginAttempt(f) \/ RefuseAttempt(f) PROVE Left(e)
    <3>1. f \in worker.batch /\ row' = row /\ worker'.event = f
      BY <1>1, <2>2 DEF IInv, TypeOK, BeginAttempt, RefuseAttempt, ComesTo, store
    <3>2. row[f].status = "PENDING"
      BY <1>1, <3>1 DEF IInv, BatchIsQueued
    <3> QED
      BY <3>1, <3>2
  <2>3. ASSUME NEW f \in Event, Enqueue(f) PROVE Left(e)
    BY <1>1, <2>3 DEF IInv, TypeOK, Enqueue
  <2>4. ASSUME row' = row, worker'.event \in {worker.event, None} PROVE Left(e)
    BY <2>4, NoneAssumption
  <2>5. CASE Poll \/ EndOfBatch \/ Die \/ AuditOutcomeFails \/ \E f \in Event : SkipBackoff(f)
    <3>1. row' = row
      BY <2>5 DEF Poll, EndOfBatch, Die, AuditOutcomeFails, SkipBackoff, store
    <3>2. ASSUME NEW b, NextEvent(b) PROVE worker'.event = None
      BY <3>2 DEF NextEvent
    <3>3. CASE EndOfBatch \/ Die
      <4>1. worker'.event = None
        BY <3>3 DEF EndOfBatch, Die
      <4> QED
        BY <2>4, <3>1, <4>1
    <3>4. CASE Poll \/ AuditOutcomeFails \/ \E f \in Event : SkipBackoff(f)
      <4>1. \E b : NextEvent(b)
        BY <3>4 DEF Poll, AuditOutcomeFails, SkipBackoff
      <4> QED
        BY <2>4, <3>1, <3>2, <4>1
    <3> QED
      BY <2>5, <3>3, <3>4
  <2>6. CASE LoadTargets \/ \E d \in Target, reaches \in BOOLEAN : Post(d, reaches)
    BY <1>1, <2>4, <2>6 DEF IInv, TypeOK, LoadTargets, Post, store
  <2>7. CASE SaveReference \/ AuditOutcome \/ AuditFailure
    BY <1>1, <2>4, <2>7 DEF IInv, TypeOK, SaveReference, AuditOutcome, AuditFailure, GoTo, store
  <2>8. CASE MarkInProgressFails \/ LoadFails \/ SaveReferenceFails
             \/ MarkDeliveredFails \/ MarkProcessedFails
    BY <1>1, <2>4, <2>8
    DEF IInv, TypeOK, MarkInProgressFails, LoadFails, SaveReferenceFails, MarkDeliveredFails,
        MarkProcessedFails, Retry, GiveUp, store
  <2>9. CASE Network \/ IdleTimer
    BY <1>1, <2>4, <2>9
    DEF IInv, TypeOK, Network, IdleTimer, Answered, SendFails, Bytes, Cut, GiveUp, store
  <2>10. CASE \/ \E f \in Event : Elapse(f)
              \/ \E d \in Destination : Register(d) \/ Unregister(d)
    BY <2>4, <2>10 DEF Elapse, Register, Unregister
  <2> HIDE DEF Left
  <2> QED
    BY <1>1, <2>1, <2>2, <2>3, <2>5, <2>6, <2>7, <2>8, <2>9, <2>10 DEF Next, Work, Fault
<1>2. IInv /\ [Next]_vars => [\A e \in Event : Left(e)]_vars
  BY <1>1
<1> QED
  BY <1>2, IInvAlways, PTL DEF Spec, QueueIsLeftForGood
===============================================================================
