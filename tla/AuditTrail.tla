-------------------------------- MODULE AuditTrail --------------------------------
(***************************************************************************)
(* The audit trail of domain/audit.ts and its repository: events, signed   *)
(* checkpoints over them, the maintenance that index.ts schedules, and the *)
(* privacy workflow that rewrites what names a subject.                    *)
(*                                                                         *)
(* Every await is a step.  A signature covers the whole row; of a row only *)
(* the subjects it names ever change, so an event and the subjects it      *)
(* names stand for a signed version of it.  Checkpoints verify: the key    *)
(* ring keeps its old keys.                                                *)
(***************************************************************************)
EXTENDS Naturals, FiniteSets, Sequences

CONSTANTS
    Event,               \* ids that AuditLog rows may draw, in their order
    Subject,             \* people whom events name
    Written,             \* what operations log: a retention class and the
                         \* subjects that the event names
    Run,                 \* runs of the maintenance that may overlap
    Workflow,            \* calls of pseudonymizeSubject that may overlap
    retention,           \* age in ticks beyond which an event may be deleted
    lag,                 \* ticks that a transaction with an event may last
    checkpointInterval,  \* events that call for a checkpoint
    MaxTime,             \* bound of the model: the clock stops there
    MaxFaults,           \* bound of the model: throws, and ends of the process
    None                 \* no subject

ASSUME EventsAreOrdered == Event \subseteq Nat \ {0}
ASSUME WrittenAssumption ==
    Written \subseteq {"SECURITY", "OPERATIONAL", "PRIVACY"} \X SUBSET Subject
ASSUME CallersAreDistinct == Run \cap Workflow = {}
ASSUME NoneIsNoSubject == None \notin Subject
ASSUME RetentionAssumption ==
    /\ retention \in Nat /\ lag \in Nat /\ lag <= retention
    /\ checkpointInterval \in Nat \ {0} /\ MaxTime \in Nat /\ MaxFaults \in Nat

VARIABLES
    log,          \* log[e]: the AuditLog row e
    checkpoints,  \* AuditCheckpoint rows in the order of their insertion
    now,          \* the clock
    call,         \* call[h]: what a run or workflow has read so far
    faults,       \* awaits that threw and ends of the process
    overlapped    \* history: two calls were under way at the same time

auditVars == <<log, checkpoints, now, call, faults, overlapped>>

Handler == Run \cup Workflow
Time == 0..MaxTime

\* An open event belongs to a transaction that has not committed.
Row == [status : {"absent", "open", "kept", "deleted"},
        class : {"SECURITY", "OPERATIONAL", "PRIVACY"}, createdAt : Time,
        mentions : SUBSET Subject, verifies : BOOLEAN]
NoRow == [status |-> "absent", class |-> "SECURITY", createdAt |-> 0,
          mentions |-> {}, verifies |-> TRUE]

Signed == Event \X SUBSET Subject
Version(e) == <<e, log[e].mentions>>
Kept == {e \in Event : log[e].status = "kept"}

\* previous is the place of the checkpoint whose hash it carries, or 0.
Checkpoint == [events : SUBSET Signed, previous : Nat, createdAt : Time,
               through : Event, throughAt : Time]

\* upTo is the "now" a call was given; again marks the checkpoint for cadence.
Frame == [pc : {"idle", "count", "find", "latest", "insert", "delete", "since",
                "pending", "rewrite"},
          upTo : Time, subject : Subject \cup {None}, snapshot : SUBSET Signed,
          read : SUBSET Signed, previous : Nat, again : BOOLEAN]
Idle == [pc |-> "idle", upTo |-> 0, subject |-> None, snapshot |-> {},
         read |-> {}, previous |-> 0, again |-> FALSE]

AuditTypeOK ==
    /\ log \in [Event -> Row]
    /\ checkpoints \in Seq(Checkpoint)
    /\ now \in Time
    /\ call \in [Handler -> Frame]
    /\ faults \in 0..MaxFaults
    /\ overlapped \in BOOLEAN

AuditInit ==
    /\ log = [e \in Event |-> NoRow]
    /\ checkpoints = <<>>
    /\ now = 0
    /\ call = [h \in Handler |-> Idle]
    /\ faults = 0
    /\ overlapped = FALSE

-------------------------------------------------------------------------------
(* Events                                                                    *)

\* log: an event is signed with the time of the call, inside a transaction.
Log(e, written) ==
    /\ log[e].status = "absent"
    /\ log' = [log EXCEPT ![e] = [NoRow EXCEPT !.status = "open", !.class = written[1],
                                      !.createdAt = now, !.mentions = written[2]]]
    /\ UNCHANGED <<checkpoints, now, call, faults, overlapped>>

LogEnds(e) ==
    /\ log[e].status = "open"
    /\ \/ log' = [log EXCEPT ![e].status = "kept"]
       \/ log' = [log EXCEPT ![e] = NoRow]
    /\ UNCHANGED <<checkpoints, now, call, faults, overlapped>>

\* Rows of before the trail was signed, brought in by an upgrade.  Whether one
\* verifies depends on the form its createdAt was stored in.
Import(rows) ==
    /\ \A e \in DOMAIN rows : /\ log[e].status = "absent"
                             /\ rows[e].status = "kept" /\ rows[e].class = "SECURITY"
                             /\ rows[e].createdAt <= now
    /\ log' = [e \in Event |-> IF e \in DOMAIN rows THEN rows[e] ELSE log[e]]
    /\ UNCHANGED <<checkpoints, now, call, faults, overlapped>>

Tick ==
    /\ now < MaxTime
    /\ \A e \in Event : log[e].status = "open" => now < log[e].createdAt + lag
    /\ now' = now + 1
    /\ UNCHANGED <<log, checkpoints, call, faults, overlapped>>

-------------------------------------------------------------------------------
(* createCheckpoint                                                          *)

Step(h, frame) ==
    /\ call' = [call EXCEPT ![h] = frame]
    /\ UNCHANGED <<now, faults>>

Begin(h, frame) ==
    /\ call[h].pc = "idle"
    /\ Step(h, frame)
    /\ overlapped' = (overlapped \/ \E g \in Handler : call[g].pc # "idle")
    /\ UNCHANGED <<log, checkpoints>>

\* Where a call goes on after its checkpoint.
Onwards(h) ==
    IF call[h].again THEN Idle
    ELSE [call[h] EXCEPT !.pc = IF h \in Workflow THEN "rewrite" ELSE "delete",
                         !.read = {}, !.previous = 0]

\* A run passes its own time on; a workflow takes the time after its read.
MayRead(h, upTo) == upTo \in call[h].upTo..(IF h \in Workflow THEN now ELSE call[h].upTo)

\* An event that does not verify makes the whole call throw.
FindThrough(h, upTo) ==
    LET through == {e \in Kept : log[e].createdAt <= upTo} IN
    /\ call[h].pc = "find"
    /\ MayRead(h, upTo)
    /\ Step(h, IF through = {} THEN Onwards(h)
               ELSE IF \E e \in through : ~log[e].verifies THEN Idle
               ELSE [call[h] EXCEPT !.pc = "latest", !.upTo = upTo,
                                    !.read = {Version(e) : e \in through}])
    /\ UNCHANGED <<log, checkpoints, overlapped>>

\* Mutant: the first checkpoint is taken for the latest.
FirstCheckpoint(i) == i = 1

\* By createdAt, which is when its call began; among equals the last inserted.
LatestCheckpoint(i) ==
    /\ \A j \in DOMAIN checkpoints :
           /\ checkpoints[j].createdAt <= checkpoints[i].createdAt
           /\ checkpoints[j].createdAt = checkpoints[i].createdAt => j <= i

FindLatest(h, from, to) ==
    /\ call[h].pc = from
    /\ \/ /\ checkpoints = <<>>
          /\ Step(h, [call[h] EXCEPT !.pc = to, !.previous = 0])
       \/ \E i \in DOMAIN checkpoints :
              /\ LatestCheckpoint(i)
              /\ Step(h, [call[h] EXCEPT !.pc = to, !.previous = i])
    /\ UNCHANGED <<log, checkpoints, overlapped>>

\* The events were read in the order of createdAt and id; e is the last one.
\* Neither ever changes in a row, so they are looked up here.
IsLastRead(h, e) ==
    /\ \E v \in call[h].read : v[1] = e
    /\ \A v \in call[h].read :
           \/ log[v[1]].createdAt < log[e].createdAt
           \/ log[v[1]].createdAt = log[e].createdAt /\ v[1] <= e

InsertCheckpoint(h) ==
    /\ call[h].pc = "insert"
    /\ \E e \in Event :
           /\ IsLastRead(h, e)
           /\ checkpoints' = Append(checkpoints,
                  [events |-> call[h].read, previous |-> call[h].previous,
                   createdAt |-> call[h].upTo, through |-> e,
                   throughAt |-> log[e].createdAt])
    /\ Step(h, Onwards(h))
    /\ UNCHANGED <<log, overlapped>>

-------------------------------------------------------------------------------
(* runMaintenance with executeRetention                                      *)

\* Mutant: the retention class is not looked at.
ExpiredOfAnyClass(upTo) == {e \in Kept : log[e].createdAt + retention < upTo}

Expired(upTo) ==
    {e \in Kept : /\ log[e].createdAt + retention < upTo
                  /\ log[e].class \in {"OPERATIONAL", "PRIVACY"}}

\* Mutant: retention is left to the runs that have a checkpoint to make.
StartRunForCadence(r) == Begin(r, [Idle EXCEPT !.pc = "since", !.upTo = now])

StartRun(r) == Begin(r, [Idle EXCEPT !.pc = "count", !.upTo = now])

\* Mutant: the deletion goes ahead of the checkpoint.
CountRetainedHasty(r) ==
    /\ call[r].pc = "count"
    /\ Step(r, [call[r] EXCEPT !.pc =
                   IF Expired(call[r].upTo) = {} THEN "since" ELSE "delete"])
    /\ UNCHANGED <<log, checkpoints, overlapped>>

CountRetained(r) ==
    /\ call[r].pc = "count"
    /\ Step(r, [call[r] EXCEPT !.pc =
                   IF Expired(call[r].upTo) = {} THEN "since" ELSE "find"])
    /\ UNCHANGED <<log, checkpoints, overlapped>>

DeleteRetained(r) ==
    LET expired == Expired(call[r].upTo) IN
    /\ call[r].pc = "delete"
    /\ log' = [e \in Event |-> IF e \in expired THEN [log[e] EXCEPT !.status = "deleted"]
                               ELSE log[e]]
    /\ Step(r, IF expired = {} THEN [call[r] EXCEPT !.pc = "since"] ELSE Idle)
    /\ UNCHANGED <<checkpoints, overlapped>>

\* Events behind the latest checkpoint, by createdAt and id: one that committed
\* late with an older createdAt is not counted.
Since(i) ==
    IF i = 0 THEN Kept
    ELSE {e \in Kept : \/ log[e].createdAt > checkpoints[i].throughAt
                       \/ log[e].createdAt = checkpoints[i].throughAt
                          /\ e > checkpoints[i].through}

CountSince(r) ==
    /\ call[r].pc = "pending"
    /\ Step(r, IF Cardinality(Since(call[r].previous)) >= checkpointInterval
               THEN [call[r] EXCEPT !.pc = "find", !.previous = 0, !.again = TRUE]
               ELSE Idle)
    /\ UNCHANGED <<log, checkpoints, overlapped>>

-------------------------------------------------------------------------------
(* pseudonymizeSubject                                                       *)

\* Mutant: nothing is checkpointed before the rewrite.
StartWorkflowHasty(w, s) ==
    LET named == {e \in Kept : s \in log[e].mentions} IN
    /\ named # {}
    /\ \A e \in named : log[e].verifies
    /\ Begin(w, [Idle EXCEPT !.pc = "rewrite", !.upTo = now, !.subject = s,
                             !.snapshot = {Version(e) : e \in named}])

\* The first await reads the events that name s; none ends the call, and one
\* that does not verify makes it throw.
StartWorkflow(w, s) ==
    LET named == {e \in Kept : s \in log[e].mentions} IN
    /\ named # {}
    /\ \A e \in named : log[e].verifies
    /\ Begin(w, [Idle EXCEPT !.pc = "find", !.upTo = now, !.subject = s,
                             !.snapshot = {Version(e) : e \in named}])

\* What was read is written back without the subject, whatever the row holds
\* by now, and e records it.
Rewrite(w, e) ==
    LET read(i) == {v \in call[w].snapshot : v[1] = i} IN
    /\ call[w].pc = "rewrite"
    /\ \A v \in call[w].snapshot : v[1] \in Kept
    /\ log[e].status = "absent"
    /\ log' = [i \in Event |->
                  IF i = e THEN [NoRow EXCEPT !.status = "kept", !.createdAt = now]
                  ELSE IF read(i) = {} THEN log[i]
                  ELSE [log[i] EXCEPT !.verifies = TRUE, !.mentions =
                            (CHOOSE v \in read(i) : TRUE)[2] \ {call[w].subject}]]
    /\ Step(w, Idle)
    /\ UNCHANGED <<checkpoints, overlapped>>

\* One of the rows is gone: the transaction throws and changes nothing.
RewriteThrows(w) ==
    /\ call[w].pc = "rewrite"
    /\ \E v \in call[w].snapshot : v[1] \notin Kept
    /\ Step(w, Idle)
    /\ UNCHANGED <<log, checkpoints, overlapped>>

-------------------------------------------------------------------------------

Fault(calls) ==
    /\ faults < MaxFaults
    /\ faults' = faults + 1
    /\ call' = calls
    /\ UNCHANGED <<checkpoints, now, overlapped>>

\* An await throws.
Fail(h) ==
    /\ call[h].pc # "idle"
    /\ Fault([call EXCEPT ![h] = Idle])
    /\ UNCHANGED log

\* The process ends: calls are forgotten, open transactions are rolled back.
ProcessEnds ==
    /\ Fault([h \in Handler |-> Idle])
    /\ log' = [e \in Event |-> IF log[e].status = "open" THEN NoRow ELSE log[e]]

CheckpointStep(h) ==
    \/ \E upTo \in Time : FindThrough(h, upTo)
    \/ FindLatest(h, "latest", "insert")
    \/ InsertCheckpoint(h)

RunStep(r) ==
    \/ CountRetained(r)
    \/ CheckpointStep(r)
    \/ DeleteRetained(r)
    \/ FindLatest(r, "since", "pending")
    \/ CountSince(r)

TrailNext ==
    \/ \E e \in Event :
        \/ \E written \in Written : Log(e, written)
        \/ LogEnds(e)
    \/ Tick
    \/ \E r \in Run : StartRun(r) \/ RunStep(r)
    \/ \E w \in Workflow :
        \/ \E s \in Subject : StartWorkflow(w, s)
        \/ CheckpointStep(w)
        \/ \E e \in Event : Rewrite(w, e)
        \/ RewriteThrows(w)
    \/ \E h \in Handler : Fail(h)

AuditNext ==
    \/ TrailNext \/ ProcessEnds
    \/ \E E \in SUBSET Event : \E rows \in [E -> Row] : Import(rows)

AuditSpec == AuditInit /\ [][AuditNext]_auditVars

-------------------------------------------------------------------------------
(* Properties                                                                *)

Covers(i, e) == \E v \in checkpoints[i].events : v[1] = e

\* executeRetention: whatever overlaps, dies half-way or commits late, an event
\* that is gone was not SECURITY evidence and some checkpoint covers it.
DeletedUnderCheckpoint ==
    \A e \in Event : log[e].status = "deleted" =>
        /\ log[e].class # "SECURITY"
        /\ \E i \in DOMAIN checkpoints : Covers(i, e)

\* pseudonymizeSubject: whatever overlaps, no event is overwritten before a
\* checkpoint covers it as it was logged, and while no calls overlap a checkpoint
\* covers the very version that is overwritten.
EvidenceIsKept ==
    [][\A e \in Event :
          log[e].status = "kept" /\ log'[e].mentions # log[e].mentions =>
              \E i \in DOMAIN checkpoints :
                  /\ Covers(i, e)
                  /\ overlapped \/ Version(e) \in checkpoints[i].events]_auditVars

\* The hash chain of the checkpoints forks only if calls overlap; calls that
\* throw half-way or are repeated do no harm.
ChainIsLinear ==
    ~overlapped => \A i \in DOMAIN checkpoints : checkpoints[i].previous = i - 1

===============================================================================
