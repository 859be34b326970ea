------------------------- MODULE MigrationDeployProofs -------------------------
(***************************************************************************)
(* Proofs about AuditTrail and MigrationDeploy.                            *)
(***************************************************************************)
EXTENDS MigrationDeploy, SequenceTheorems, TLAPS

-------------------------------------------------------------------------------
(* The trail: types                                                          *)

LEMMA TimeIsNat == Time \subseteq Nat /\ 0 \in Time /\ retention \in Nat /\ lag \in Nat
  BY RetentionAssumption DEF Time

LEMMA NoRowIsRow == NoRow \in Row
  BY TimeIsNat DEF NoRow, Row

LEMMA IdleIsFrame == Idle \in Frame
  BY TimeIsNat DEF Idle, Frame

\* What a row is changed to.
LEMMA RowsStay ==
    /\ \A row \in Row : /\ [row EXCEPT !.status = "kept"] \in Row
                        /\ [row EXCEPT !.status = "deleted"] \in Row
    /\ \A row \in Row, m \in SUBSET Subject :
          [row EXCEPT !.verifies = TRUE, !.mentions = m] \in Row
    /\ \A c \in {"SECURITY", "OPERATIONAL", "PRIVACY"}, t \in Time, m \in SUBSET Subject :
          [NoRow EXCEPT !.status = "open", !.class = c, !.createdAt = t, !.mentions = m] \in Row
    /\ \A t \in Time : [NoRow EXCEPT !.status = "kept", !.createdAt = t] \in Row
  BY TimeIsNat DEF Row, NoRow

\* What a frame is changed to.
LEMMA FramesStay ==
    ASSUME NEW f \in Frame
    PROVE  /\ \A pc \in {"find", "since", "delete"} : [f EXCEPT !.pc = pc] \in Frame
           /\ \A pc \in {"rewrite", "delete"} :
                 [f EXCEPT !.pc = pc, !.read = {}, !.previous = 0] \in Frame
           /\ [f EXCEPT !.pc = "find", !.previous = 0, !.again = TRUE] \in Frame
           /\ \A pc \in {"insert", "pending"}, i \in Nat :
                 [f EXCEPT !.pc = pc, !.previous = i] \in Frame
           /\ \A t \in Time, r \in SUBSET Signed :
                 [f EXCEPT !.pc = "latest", !.upTo = t, !.read = r] \in Frame
<1> HIDE DEF Signed, Time
<1>1. QED
  BY DEF Frame

LEMMA OnwardsIsFrame ==
    ASSUME AuditTypeOK, NEW h \in Handler PROVE Onwards(h) \in Frame
  BY IdleIsFrame, FramesStay DEF AuditTypeOK, Onwards

-------------------------------------------------------------------------------
(* The trail: deletion                                                       *)

\* A transaction that has not committed is not older than lag.
OpenIsYoung == \A e \in Event : log[e].status = "open" => now <= log[e].createdAt + lag

\* What a run is about to checkpoint, or about to delete, is all that expired.
IsCareful(h) ==
    /\ call[h].pc \in {"latest", "insert"} =>
          \A e \in Expired(call[h].upTo) : \E v \in call[h].read : v[1] = e
    /\ call[h].pc = "delete" =>
          \A e \in Expired(call[h].upTo) : \E i \in DOMAIN checkpoints : Covers(i, e)

IsSound(h) ==
    /\ call[h].upTo <= now
    /\ h \in Workflow => call[h].pc \in {"idle", "find", "latest", "insert", "rewrite"}
    /\ h \in Run => IsCareful(h)

AuditInv ==
    /\ AuditTypeOK
    /\ OpenIsYoung
    /\ \A h \in Handler : IsSound(h)
    /\ DeletedUnderCheckpoint

NoMoreExpire == \A upTo \in Time : upTo <= now => Expired(upTo)' \subseteq Expired(upTo)
CheckpointsStay ==
    \A i \in DOMAIN checkpoints : i \in DOMAIN checkpoints' /\ checkpoints'[i] = checkpoints[i]

LEMMA TrailInitially == AuditInit => AuditInv
<1> SUFFICES ASSUME AuditInit PROVE AuditInv
  OBVIOUS
<1>1. /\ log = [e \in Event |-> NoRow] /\ checkpoints = <<>> /\ now = 0 /\ faults = 0
      /\ call = [h \in Handler |-> Idle] /\ overlapped = FALSE
  BY DEF AuditInit
<1>2. AuditTypeOK
  <2>1. log \in [Event -> Row] /\ call \in [Handler -> Frame]
    BY <1>1, NoRowIsRow, IdleIsFrame
  <2>2. checkpoints \in Seq(Checkpoint)
    BY <1>1, EmptySeq
  <2>3. now \in Time /\ faults \in 0..MaxFaults
    BY <1>1, RetentionAssumption DEF Time
  <2>4. overlapped \in BOOLEAN
    BY <1>1
  <2>5. QED
    BY <2>1, <2>2, <2>3, <2>4 DEF AuditTypeOK
<1>3. \A e \in Event : log[e].status = "absent"
  BY <1>1 DEF NoRow
<1>4. \A h \in Handler : call[h].pc = "idle" /\ call[h].upTo = 0
  BY <1>1 DEF Idle
<1>5. \A h \in Handler : IsSound(h)
  BY <1>1, <1>4 DEF IsSound, IsCareful
<1>6. QED
  BY <1>2, <1>3, <1>5 DEF AuditInv, OpenIsYoung, DeletedUnderCheckpoint

\* What a call knows stays true while others step.
LEMMA OthersStay ==
    ASSUME AuditInv, AuditTypeOK', NEW h \in Handler, call'[h] = call[h], now <= now',
           NoMoreExpire, CheckpointsStay
    PROVE  IsSound(h)'
<1>1. /\ AuditTypeOK /\ IsSound(h) /\ call[h].upTo \in Time /\ call[h].upTo <= now
      /\ now \in Nat /\ now' \in Nat /\ call[h].upTo \in Nat
  BY TimeIsNat DEF AuditInv, IsSound, AuditTypeOK, Frame
<1>2. PICK f : f = call[h]
  OBVIOUS
<1>3. Expired(f.upTo)' \subseteq Expired(f.upTo)
  BY <1>1, <1>2 DEF NoMoreExpire
<1>4. call'[h] = f
  BY <1>2
<1>5. ASSUME h \in Run PROVE IsCareful(h)'
  <2>1. IsCareful(h)
    BY <1>1, <1>5 DEF IsSound
  <2>2. f.pc \in {"latest", "insert"} =>
           \A e \in Expired(f.upTo)' : \E v \in f.read : v[1] = e
    BY <1>2, <1>3, <2>1 DEF IsCareful
  <2>3. \A e : (\E i \in DOMAIN checkpoints : Covers(i, e))
                 => \E i \in DOMAIN checkpoints' : Covers(i, e)'
    BY DEF CheckpointsStay, Covers
  <2>4. f.pc = "delete" =>
           \A e \in Expired(f.upTo)' : \E i \in DOMAIN checkpoints' : Covers(i, e)'
    BY <1>2, <1>3, <2>1, <2>3 DEF IsCareful
  <2>5. QED
    BY <1>4, <2>2, <2>4 DEF IsCareful
<1>6. QED
  BY <1>1, <1>4, <1>5 DEF IsSound

\* What has to be shown of a step of the trail.
LEMMA StepKeeps ==
    ASSUME AuditInv, AuditTypeOK', OpenIsYoung', now <= now', NoMoreExpire, CheckpointsStay,
           \A h \in Handler : call'[h] = call[h] \/ IsSound(h)',
           \A e \in Event : log'[e].status = "deleted" =>
              IF log[e].status = "deleted" THEN log'[e].class = log[e].class
              ELSE log'[e].class # "SECURITY" /\ \E i \in DOMAIN checkpoints : Covers(i, e)
    PROVE  AuditInv'
<1>1. \A h \in Handler : IsSound(h)'
  BY OthersStay
<1>2. DeletedUnderCheckpoint'
  <2> SUFFICES ASSUME NEW e \in Event, log'[e].status = "deleted"
               PROVE  /\ log'[e].class # "SECURITY"
                      /\ \E i \in DOMAIN checkpoints' : Covers(i, e)'
    BY DEF DeletedUnderCheckpoint
  <2>1. log'[e].class # "SECURITY" /\ \E i \in DOMAIN checkpoints : Covers(i, e)
    BY DEF AuditInv, DeletedUnderCheckpoint
  <2>2. QED
    BY <2>1 DEF CheckpointsStay, Covers
<1>3. QED
  BY <1>1, <1>2 DEF AuditInv

\* A step of one call that leaves the rows and the checkpoints alone.
LEMMA CallMoves ==
    ASSUME AuditInv, NEW h \in Handler, NEW f \in Frame, call' = [call EXCEPT ![h] = f],
           UNCHANGED <<log, checkpoints, now>>, faults' \in 0..MaxFaults,
           overlapped' \in BOOLEAN, f.upTo <= now,
           h \in Workflow => f.pc \in {"idle", "find", "latest", "insert", "rewrite"},
           h \in Run /\ f.pc \in {"latest", "insert"} =>
              \A e \in Expired(f.upTo) : \E v \in f.read : v[1] = e,
           h \in Run /\ f.pc = "delete" =>
              \A e \in Expired(f.upTo) : \E i \in DOMAIN checkpoints : Covers(i, e)
    PROVE  AuditInv'
<1>1. AuditTypeOK
  BY DEF AuditInv
<1>2. call'[h] = f /\ \A g \in Handler : g # h => call'[g] = call[g]
  BY <1>1 DEF AuditTypeOK
<1>3. AuditTypeOK'
  BY <1>1 DEF AuditTypeOK
<1>4. Expired(f.upTo)' = Expired(f.upTo) /\ \A i, e : Covers(i, e)' <=> Covers(i, e)
  BY DEF Expired, Kept, Covers
<1>5. IsSound(h)'
  <2>1. h \in Run => IsCareful(h)'
    BY <1>2, <1>4 DEF IsCareful
  <2>2. QED
    BY <1>2, <2>1 DEF IsSound
<1>6. NoMoreExpire /\ CheckpointsStay /\ OpenIsYoung' /\ now <= now'
  <2>1. \A upTo : Expired(upTo)' = Expired(upTo)
    BY DEF Expired, Kept
  <2>2. QED
    BY <1>1, <2>1, TimeIsNat DEF NoMoreExpire, CheckpointsStay, OpenIsYoung, AuditInv, AuditTypeOK
<1>7. \A e \in Event : log'[e].status = "deleted" =>
         IF log[e].status = "deleted" THEN log'[e].class = log[e].class
         ELSE log'[e].class # "SECURITY" /\ \E i \in DOMAIN checkpoints : Covers(i, e)
  OBVIOUS
<1>8. QED
  BY <1>2, <1>3, <1>5, <1>6, <1>7, StepKeeps

\* Steps that only write rows.
LEMMA RowsChange ==
    ASSUME AuditInv, log' \in [Event -> Row], UNCHANGED <<checkpoints, now>>,
           call' = call \/ call' = [h \in Handler |-> Idle],
           faults' \in 0..MaxFaults, overlapped' \in BOOLEAN,
           \A e \in Event : log'[e].status = "open" =>
              \/ log'[e].createdAt = now
              \/ log[e].status = "open" /\ log'[e].createdAt = log[e].createdAt,
           \A e \in Event : log'[e].status = "kept" =>
              \/ log'[e].class = "SECURITY"
              \/ log'[e].createdAt + lag >= now
              \/ /\ log[e].status = "kept" /\ log'[e].class = log[e].class
                 /\ log'[e].createdAt = log[e].createdAt,
           \A e \in Event : log'[e].status = "deleted" =>
              log[e].status = "deleted" /\ log'[e].class = log[e].class
    PROVE  AuditInv'
<1>1. AuditTypeOK /\ OpenIsYoung /\ now \in Nat /\ \A h \in Handler : IsSound(h)
  BY TimeIsNat DEF AuditInv, AuditTypeOK
<1>2. call' \in [Handler -> Frame]
  BY <1>1, IdleIsFrame DEF AuditTypeOK
<1>3. AuditTypeOK'
  BY <1>1, <1>2 DEF AuditTypeOK
<1>4. \A e \in Event : log[e].createdAt \in Nat /\ log'[e].createdAt \in Nat
  BY <1>1, TimeIsNat DEF AuditTypeOK, Row
<1>5. OpenIsYoung'
  BY <1>1, <1>4, TimeIsNat DEF OpenIsYoung
<1>6. NoMoreExpire
  <2> SUFFICES ASSUME NEW upTo \in Time, upTo <= now, NEW e \in Event,
                      log'[e].status = "kept", log'[e].createdAt + retention < upTo,
                      log'[e].class \in {"OPERATIONAL", "PRIVACY"}
               PROVE  e \in Expired(upTo)
    BY DEF NoMoreExpire, Expired, Kept
  <2>1. log'[e].createdAt + lag < now
    BY <1>1, <1>4, TimeIsNat, RetentionAssumption
  <2>2. /\ log[e].status = "kept" /\ log'[e].class = log[e].class
        /\ log'[e].createdAt = log[e].createdAt
    BY <1>1, <1>4, <2>1, TimeIsNat
  <2>3. QED
    BY <2>2 DEF Expired, Kept
<1>7. CheckpointsStay /\ now <= now'
  BY <1>1 DEF CheckpointsStay
<1>8. ASSUME NEW h \in Handler PROVE call'[h] = call[h] \/ IsSound(h)'
  <2>1. CASE call' = call
    BY <2>1
  <2>2. CASE call' = [g \in Handler |-> Idle]
    <3>1. call'[h].pc = "idle" /\ call'[h].upTo = 0
      BY <2>2 DEF Idle
    <3>2. QED
      BY <1>1, <3>1 DEF IsSound, IsCareful
  <2>3. QED
    BY <2>1, <2>2
<1>9. QED
  BY <1>3, <1>5, <1>6, <1>7, <1>8, StepKeeps

LEMMA EventsKeep ==
    ASSUME AuditInv, NEW e \in Event, (\E w \in Written : Log(e, w)) \/ LogEnds(e)
    PROVE  AuditInv'
<1>1. AuditTypeOK /\ OpenIsYoung /\ log \in [Event -> Row] /\ now \in Time
  BY DEF AuditInv, AuditTypeOK
<1>2. UNCHANGED <<checkpoints, now, call>> /\ faults' \in 0..MaxFaults /\ overlapped' \in BOOLEAN
  BY <1>1 DEF Log, LogEnds, AuditTypeOK
<1>3. ASSUME NEW w \in Written, Log(e, w) PROVE AuditInv'
  <2> DEFINE row == [NoRow EXCEPT !.status = "open", !.class = w[1],
                                  !.createdAt = now, !.mentions = w[2]]
  <2>1. w[1] \in {"SECURITY", "OPERATIONAL", "PRIVACY"} /\ w[2] \in SUBSET Subject
    BY WrittenAssumption
  <2>2. row \in Row /\ row.status = "open" /\ row.createdAt = now
    BY <1>1, <2>1, RowsStay DEF NoRow
  <2>3. log' = [log EXCEPT ![e] = row]
    BY <1>3 DEF Log
  <2> HIDE DEF row
  <2>4. log' \in [Event -> Row]
    BY <1>1, <2>2, <2>3
  <2>5. \A i \in Event : IF i = e THEN log'[i] = row ELSE log'[i] = log[i]
    BY <1>1, <2>3
  <2>6. QED
    BY <1>2, <2>2, <2>4, <2>5, RowsChange
<1>4. CASE LogEnds(e)
  <2>1. log[e].status = "open" /\ (log' = [log EXCEPT ![e].status = "kept"]
                                     \/ log' = [log EXCEPT ![e] = NoRow])
    BY <1>4 DEF LogEnds
  <2>2. CASE log' = [log EXCEPT ![e].status = "kept"]
    <3> DEFINE row == [log[e] EXCEPT !.status = "kept"]
    <3>1. row \in Row /\ row.status = "kept" /\ row.createdAt = log[e].createdAt
      <4>1. log[e] \in Row
        BY <1>1
      <4>2. row \in Row
        BY <4>1, RowsStay
      <4>3. row.status = "kept" /\ row.createdAt = log[e].createdAt
        BY <4>1 DEF Row
      <4>4. QED
        BY <4>2, <4>3
    <3>2. log' = [log EXCEPT ![e] = row]
      BY <1>1, <2>2
    <3> HIDE DEF row
    <3>3. log' \in [Event -> Row]
      BY <1>1, <3>1, <3>2
    <3>4. \A i \in Event : IF i = e THEN log'[i] = row ELSE log'[i] = log[i]
      BY <1>1, <3>2
    <3>5. row.createdAt + lag >= now
      BY <1>1, <2>1, <3>1 DEF OpenIsYoung
    <3>6. QED
      BY <1>2, <3>1, <3>3, <3>4, <3>5, RowsChange
  <2>3. CASE log' = [log EXCEPT ![e] = NoRow]
    <3>1. log' \in [Event -> Row]
      BY <1>1, <2>3, NoRowIsRow
    <3>2. \A i \in Event : IF i = e THEN log'[i].status = "absent" ELSE log'[i] = log[i]
      BY <1>1, <2>3 DEF NoRow
    <3>3. QED
      BY <1>2, <3>1, <3>2, RowsChange
  <2>4. QED
    BY <2>1, <2>2, <2>3
<1>5. QED
  BY <1>3, <1>4

LEMMA ImportKeeps ==
    ASSUME AuditInv, NEW D \in SUBSET Event, NEW rows \in [D -> Row], Import(rows)
    PROVE  AuditInv'
<1>1. AuditTypeOK /\ log \in [Event -> Row] /\ DOMAIN rows = D
  BY DEF AuditInv, AuditTypeOK
<1>2. UNCHANGED <<checkpoints, now, call>> /\ faults' \in 0..MaxFaults /\ overlapped' \in BOOLEAN
  BY <1>1 DEF Import, AuditTypeOK
<1>3. log' = [e \in Event |-> IF e \in D THEN rows[e] ELSE log[e]]
  BY <1>1 DEF Import
<1>4. \A e \in D : rows[e].status = "kept" /\ rows[e].class = "SECURITY"
  BY <1>1 DEF Import
<1>5. log' \in [Event -> Row]
  BY <1>1, <1>3
<1>6. \A e \in Event : IF e \in D THEN log'[e].status = "kept" /\ log'[e].class = "SECURITY"
                       ELSE log'[e] = log[e]
  BY <1>3, <1>4
<1>7. QED
  BY <1>2, <1>5, <1>6, RowsChange

LEMMA EndKeeps ==
    ASSUME AuditInv, ProcessEnds
    PROVE  AuditInv'
<1>1. AuditTypeOK /\ log \in [Event -> Row]
  BY DEF AuditInv, AuditTypeOK
<1>2. /\ UNCHANGED <<checkpoints, now, overlapped>> /\ call' = [h \in Handler |-> Idle]
      /\ faults < MaxFaults /\ faults' = faults + 1
  BY DEF ProcessEnds, Fault
<1>3. faults' \in 0..MaxFaults /\ overlapped' \in BOOLEAN
  BY <1>1, <1>2, RetentionAssumption DEF AuditTypeOK
<1>4. log' = [e \in Event |-> IF log[e].status = "open" THEN NoRow ELSE log[e]]
  BY DEF ProcessEnds
<1>5. log' \in [Event -> Row]
  BY <1>1, <1>4, NoRowIsRow
<1>6. \A e \in Event : log'[e].status = "absent" \/ log'[e] = log[e]
  BY <1>4 DEF NoRow
<1>7. QED
  BY <1>2, <1>3, <1>5, <1>6, RowsChange

LEMMA TickKeeps ==
    ASSUME AuditInv, Tick
    PROVE  AuditInv'
<1>1. AuditTypeOK /\ now \in Nat /\ now' = now + 1 /\ now < MaxTime
      /\ UNCHANGED <<log, checkpoints, call, faults, overlapped>>
  BY TimeIsNat DEF AuditInv, AuditTypeOK, Tick
<1>2. AuditTypeOK'
  BY <1>1, RetentionAssumption DEF AuditTypeOK, Time
<1>3. OpenIsYoung'
  <2>1. \A e \in Event : log[e].createdAt \in Nat
    BY <1>1, TimeIsNat DEF AuditTypeOK, Row
  <2>2. QED
    BY <1>1, <2>1, TimeIsNat DEF OpenIsYoung, Tick
<1>4. NoMoreExpire /\ CheckpointsStay /\ now <= now'
  BY <1>1 DEF NoMoreExpire, CheckpointsStay, Expired, Kept
<1>5. QED
  BY <1>1, <1>2, <1>3, <1>4, StepKeeps

\* What is known of a call while it goes on.
LEMMA CallFacts ==
    ASSUME AuditInv, NEW h \in Handler
    PROVE  /\ AuditTypeOK /\ call[h] \in Frame /\ IsSound(h)
           /\ call[h].upTo \in Time /\ call[h].upTo \in Nat /\ now \in Time /\ now \in Nat
           /\ call[h].upTo <= now
           /\ call[h].read \in SUBSET Signed /\ call[h].previous \in Nat
           /\ faults \in 0..MaxFaults /\ overlapped \in BOOLEAN
  BY TimeIsNat DEF AuditInv, AuditTypeOK, IsSound, Frame

\* A call that ends knows nothing.
LEMMA IdleKeeps ==
    ASSUME AuditInv, NEW h \in Handler, call' = [call EXCEPT ![h] = Idle],
           UNCHANGED <<log, checkpoints, now>>, faults' \in 0..MaxFaults,
           overlapped' \in BOOLEAN
    PROVE  AuditInv'
<1>1. Idle \in Frame /\ Idle.pc = "idle" /\ Idle.upTo <= now
  BY IdleIsFrame, CallFacts DEF Idle
<1>2. QED
  BY <1>1, CallMoves

LEMMA BeginKeeps ==
    ASSUME AuditInv, NEW h \in Handler, NEW f \in Frame, Begin(h, f), f.upTo = now,
           IF h \in Run THEN f.pc = "count" ELSE f.pc = "find"
    PROVE  AuditInv'
<1>1. call' = [call EXCEPT ![h] = f] /\ UNCHANGED <<log, checkpoints, now, faults>>
  BY DEF Begin, Step
<1>2. overlapped' \in BOOLEAN
  BY DEF Begin
<1>3. f.upTo <= now /\ faults' \in 0..MaxFaults
  BY <1>1, CallFacts
<1>4. h \in Workflow => h \notin Run
  BY CallersAreDistinct
<1>5. QED
  BY <1>1, <1>2, <1>3, <1>4, CallMoves

LEMMA StartsKeep ==
    ASSUME AuditInv,
           \/ \E r \in Run : StartRun(r)
           \/ \E w \in Workflow, s \in Subject : StartWorkflow(w, s)
    PROVE  AuditInv'
<1>1. AuditTypeOK /\ now \in Time
  BY DEF AuditInv, AuditTypeOK
<1>2. ASSUME NEW r \in Run, StartRun(r) PROVE AuditInv'
  <2> DEFINE f == [Idle EXCEPT !.pc = "count", !.upTo = now]
  <2>1. f \in Frame /\ f.pc = "count" /\ f.upTo = now
    BY <1>1, TimeIsNat DEF Idle, Frame
  <2>2. Begin(r, f) /\ r \in Handler
    BY <1>2 DEF StartRun, Handler
  <2> HIDE DEF f
  <2>3. QED
    BY <2>1, <2>2, BeginKeeps
<1>3. ASSUME NEW w \in Workflow, NEW s \in Subject, StartWorkflow(w, s) PROVE AuditInv'
  <2> DEFINE named == {e \in Kept : s \in log[e].mentions}
             versions == {Version(e) : e \in named}
             f == [Idle EXCEPT !.pc = "find", !.upTo = now, !.subject = s,
                               !.snapshot = versions]
  <2>1. versions \in SUBSET Signed
    BY <1>1 DEF Version, Signed, Kept, AuditTypeOK, Row
  <2>2. Begin(w, f)
    BY <1>3 DEF StartWorkflow
  <2> HIDE DEF versions, named
  <2>3. f \in Frame /\ f.pc = "find" /\ f.upTo = now
    <3> HIDE DEF Signed, Time
    <3>1. QED
      BY <1>1, <2>1, TimeIsNat DEF Idle, Frame
  <2>4. w \in Handler /\ w \notin Run
    BY CallersAreDistinct DEF Handler
  <2> HIDE DEF f
  <2>5. QED
    BY <2>2, <2>3, <2>4, BeginKeeps
<1>4. QED
  BY <1>2, <1>3

\* Where a call goes on once the rows that expired are under a checkpoint.
LEMMA OnwardsMoves ==
    ASSUME AuditInv, NEW h \in Handler
    PROVE  /\ Onwards(h) \in Frame /\ Onwards(h).upTo <= now
           /\ Onwards(h).pc \in {"idle", IF h \in Workflow THEN "rewrite" ELSE "delete"}
           /\ Onwards(h).pc # "idle" => Onwards(h).upTo = call[h].upTo
<1>1. call[h] \in Frame /\ call[h].upTo <= now /\ AuditTypeOK /\ 0 <= now
  BY CallFacts
<1>2. CASE call[h].again
  BY <1>1, <1>2, IdleIsFrame DEF Onwards, Idle
<1>3. CASE ~call[h].again
  <2>1. Onwards(h) = [call[h] EXCEPT !.pc = IF h \in Workflow THEN "rewrite" ELSE "delete",
                                     !.read = {}, !.previous = 0]
    BY <1>3 DEF Onwards
  <2>2. Onwards(h) \in Frame
    BY <1>1, OnwardsIsFrame
  <2>3. QED
    BY <1>1, <2>1, <2>2 DEF Frame
<1>4. QED
  BY <1>2, <1>3

LEMMA FindKeeps ==
    ASSUME AuditInv, NEW h \in Handler, NEW upTo \in Time, FindThrough(h, upTo)
    PROVE  AuditInv'
<1> DEFINE through == {e \in Kept : log[e].createdAt <= upTo}
           versions == {Version(e) : e \in through}
           f == [call[h] EXCEPT !.pc = "latest", !.upTo = upTo, !.read = versions]
<1>1. /\ call[h] \in Frame /\ UNCHANGED <<log, checkpoints, now, faults, overlapped>>
      /\ faults' \in 0..MaxFaults /\ overlapped' \in BOOLEAN
  BY CallFacts DEF FindThrough, Step
<1>2. call' = [call EXCEPT ![h] = IF through = {} THEN Onwards(h)
                                  ELSE IF \E e \in through : ~log[e].verifies THEN Idle
                                  ELSE f]
  BY DEF FindThrough, Step
<1>3. upTo \in Nat /\ upTo <= now /\ (h \notin Workflow => upTo = call[h].upTo)
  BY CallFacts, TimeIsNat DEF FindThrough, MayRead
<1>4. \A e \in Expired(upTo) : e \in through
  <2> SUFFICES ASSUME NEW e \in Expired(upTo) PROVE e \in through
    OBVIOUS
  <2>1. e \in Kept /\ log[e].createdAt + retention < upTo
    BY DEF Expired
  <2>2. log[e].createdAt \in Nat
    BY <2>1, TimeIsNat DEF AuditInv, AuditTypeOK, Row, Kept
  <2>3. QED
    BY <1>3, <2>1, <2>2, TimeIsNat
<1>5. CASE through = {}
  <2>1. call' = [call EXCEPT ![h] = Onwards(h)]
    BY <1>2, <1>5
  <2>2. h \in Run => h \notin Workflow
    BY CallersAreDistinct
  <2>3. h \in Run /\ Onwards(h).pc = "delete" => Expired(Onwards(h).upTo) = {}
    BY <1>3, <1>4, <1>5, <2>2, OnwardsMoves
  <2> HIDE DEF through, versions, f
  <2>4. QED
    BY <1>1, <2>1, <2>2, <2>3, OnwardsMoves, CallMoves
<1>6. CASE through # {} /\ \E e \in through : ~log[e].verifies
  <2>1. call' = [call EXCEPT ![h] = Idle]
    BY <1>2, <1>6
  <2>2. QED
    BY <1>1, <2>1, IdleKeeps
<1>7. CASE through # {} /\ ~\E e \in through : ~log[e].verifies
  <2>1. call' = [call EXCEPT ![h] = f]
    BY <1>2, <1>7
  <2>2. versions \in SUBSET Signed
    BY DEF Version, Signed, Kept, AuditInv, AuditTypeOK, Row
  <2>3. \A e \in Expired(upTo) : \E v \in versions : v[1] = e
    <3> SUFFICES ASSUME NEW e \in Expired(upTo) PROVE \E v \in versions : v[1] = e
      OBVIOUS
    <3>1. Version(e) \in versions
      BY <1>4
    <3>2. Version(e)[1] = e
      BY DEF Version
    <3> HIDE DEF versions
    <3>3. QED
      BY <3>1, <3>2
  <2> HIDE DEF versions, through
  <2>4. f \in Frame
    BY <1>1, <2>2, FramesStay
  <2>5. f.pc = "latest" /\ f.upTo = upTo /\ f.read = versions
    BY <1>1 DEF Frame
  <2> HIDE DEF f
  <2>6. QED
    BY <1>1, <1>3, <2>1, <2>3, <2>4, <2>5, CallMoves
<1>8. QED
  BY <1>5, <1>6, <1>7

LEMMA LatestKeeps ==
    ASSUME AuditInv, NEW h \in Handler,
           FindLatest(h, "latest", "insert") \/ (h \in Run /\ FindLatest(h, "since", "pending"))
    PROVE  AuditInv'
<1>1. /\ call[h] \in Frame /\ UNCHANGED <<log, checkpoints, now, faults, overlapped>>
      /\ faults' \in 0..MaxFaults /\ overlapped' \in BOOLEAN /\ IsSound(h)
      /\ call[h].upTo <= now
  BY CallFacts DEF FindLatest, Step
<1>2. PICK i \in Nat, pc \in {"insert", "pending"} :
         /\ call' = [call EXCEPT ![h] = [call[h] EXCEPT !.pc = pc, !.previous = i]]
         /\ pc = "insert" => call[h].pc = "latest"
         /\ pc = "pending" => h \in Run
  <2>1. DOMAIN checkpoints \subseteq Nat
    BY CallFacts DEF AuditTypeOK
  <2>2. QED
    BY <2>1 DEF FindLatest, Step
<1> DEFINE f == [call[h] EXCEPT !.pc = pc, !.previous = i]
<1>3. f \in Frame
  BY <1>1, FramesStay
<1>4. f.pc = pc /\ f.upTo = call[h].upTo /\ f.read = call[h].read
  BY <1>1 DEF Frame
<1>5. call' = [call EXCEPT ![h] = f]
  BY <1>2
<1> HIDE DEF f
<1>6. h \in Workflow => h \notin Run
  BY CallersAreDistinct
<1>7. h \in Run /\ f.pc \in {"latest", "insert"} =>
         \A e \in Expired(f.upTo) : \E v \in f.read : v[1] = e
  BY <1>1, <1>2, <1>4 DEF IsSound, IsCareful
<1>8. f.pc # "delete" /\ (h \in Workflow => f.pc = "insert")
  BY <1>2, <1>4, <1>6
<1>9. QED
  BY <1>1, <1>3, <1>4, <1>5, <1>7, <1>8, CallMoves

LEMMA InsertKeeps ==
    ASSUME AuditInv, NEW h \in Handler, InsertCheckpoint(h)
    PROVE  AuditInv'
<1>1. /\ AuditTypeOK /\ call[h] \in Frame /\ IsSound(h) /\ call[h].upTo <= now /\ now \in Nat
      /\ call[h].read \in SUBSET Signed /\ call[h].previous \in Nat /\ call[h].upTo \in Time
      /\ faults \in 0..MaxFaults /\ overlapped \in BOOLEAN
  BY CallFacts
<1>2. PICK e \in Event : checkpoints' = Append(checkpoints,
                  [events |-> call[h].read, previous |-> call[h].previous,
                   createdAt |-> call[h].upTo, through |-> e,
                   throughAt |-> log[e].createdAt])
  BY DEF InsertCheckpoint
<1> DEFINE c == [events |-> call[h].read, previous |-> call[h].previous,
                 createdAt |-> call[h].upTo, through |-> e, throughAt |-> log[e].createdAt]
<1>3. c \in Checkpoint /\ c.events = call[h].read
  BY <1>1 DEF Checkpoint, AuditTypeOK, Row
<1>4. checkpoints' = Append(checkpoints, c)
  BY <1>2
<1> HIDE DEF c
<1>5. /\ checkpoints \in Seq(Checkpoint) /\ checkpoints' \in Seq(Checkpoint)
      /\ Len(checkpoints') = Len(checkpoints) + 1
      /\ \A i \in 1..Len(checkpoints) : checkpoints'[i] = checkpoints[i]
      /\ checkpoints'[Len(checkpoints) + 1] = c
      /\ Len(checkpoints) \in Nat
  BY <1>1, <1>3, <1>4, AppendProperties, LenProperties DEF AuditTypeOK
<1>6. /\ DOMAIN checkpoints = 1..Len(checkpoints)
      /\ DOMAIN checkpoints' = 1..Len(checkpoints) + 1
  BY <1>5, LenProperties
<1>7. CheckpointsStay /\ Len(checkpoints) + 1 \in DOMAIN checkpoints'
  BY <1>5, <1>6 DEF CheckpointsStay
<1>8. call' = [call EXCEPT ![h] = Onwards(h)] /\ UNCHANGED <<log, now, faults, overlapped>>
  BY DEF InsertCheckpoint, Step
<1>9. call'[h] = Onwards(h) /\ \A g \in Handler : g # h => call'[g] = call[g]
  BY <1>1, <1>8 DEF AuditTypeOK
<1>10. AuditTypeOK'
  BY <1>1, <1>5, <1>8, OnwardsMoves DEF AuditTypeOK
<1>11. \A upTo : Expired(upTo)' = Expired(upTo)
  BY <1>8 DEF Expired, Kept
<1>12. IsSound(h)'
  <2>1. h \in Workflow => h \notin Run
    BY CallersAreDistinct
  <2>2. ASSUME h \in Run, Onwards(h).pc = "delete", NEW x \in Expired(call[h].upTo)
        PROVE  \E i \in DOMAIN checkpoints' : Covers(i, x)'
    <3>1. \E v \in c.events : v[1] = x
      BY <1>1, <1>3, <2>2 DEF IsSound, IsCareful, InsertCheckpoint
    <3>2. \E v \in checkpoints'[Len(checkpoints) + 1].events : v[1] = x
      BY <1>5, <3>1
    <3>3. QED
      BY <1>7, <3>2 DEF Covers
  <2>3. PICK f : f = Onwards(h)
    OBVIOUS
  <2>4. h \in Run => IsCareful(h)'
    <3>1. f.pc \notin {"latest", "insert"} /\ (f.pc # "idle" => f.upTo = call[h].upTo)
      BY <2>3, OnwardsMoves
    <3>2. ASSUME h \in Run, f.pc = "delete"
          PROVE  \A x \in Expired(f.upTo) : \E i \in DOMAIN checkpoints' : Covers(i, x)'
      BY <2>2, <2>3, <3>1, <3>2
    <3>3. call'[h] = f /\ Expired(f.upTo)' = Expired(f.upTo)
      BY <1>9, <1>11, <2>3
    <3>4. QED
      BY <3>1, <3>2, <3>3 DEF IsCareful
  <2>5. f.upTo <= now /\ (h \in Workflow => f.pc \in {"idle", "rewrite"})
    BY <2>3, OnwardsMoves
  <2>6. QED
    BY <1>8, <1>9, <2>1, <2>3, <2>4, <2>5 DEF IsSound
<1>13. NoMoreExpire /\ OpenIsYoung' /\ now <= now'
  BY <1>1, <1>8, <1>11 DEF NoMoreExpire, OpenIsYoung, AuditInv
<1>14. \A x \in Event : log'[x].status = "deleted" =>
         IF log[x].status = "deleted" THEN log'[x].class = log[x].class
         ELSE log'[x].class # "SECURITY" /\ \E i \in DOMAIN checkpoints : Covers(i, x)
  BY <1>8
<1>15. QED
  BY <1>7, <1>9, <1>10, <1>12, <1>13, <1>14, StepKeeps

LEMMA CountsKeep ==
    ASSUME AuditInv, NEW r \in Run, CountRetained(r) \/ CountSince(r)
    PROVE  AuditInv'
<1>1. /\ r \in Handler /\ r \notin Workflow
  BY CallersAreDistinct DEF Handler
<1>2. /\ call[r] \in Frame /\ UNCHANGED <<log, checkpoints, now, faults, overlapped>>
      /\ faults' \in 0..MaxFaults /\ overlapped' \in BOOLEAN /\ call[r].upTo <= now
  BY <1>1, CallFacts DEF CountRetained, CountSince, Step
<1>3. CASE CountRetained(r)
  <2>1. PICK pc \in {"since", "find"} : call' = [call EXCEPT ![r] = [call[r] EXCEPT !.pc = pc]]
    BY <1>3 DEF CountRetained, Step
  <2> DEFINE f == [call[r] EXCEPT !.pc = pc]
  <2>2. f \in Frame
    BY <1>2, FramesStay
  <2>3. f.pc = pc /\ f.upTo = call[r].upTo
    BY <1>2 DEF Frame
  <2>4. call' = [call EXCEPT ![r] = f]
    BY <2>1
  <2> HIDE DEF f
  <2>5. QED
    BY <1>1, <1>2, <2>2, <2>3, <2>4, CallMoves
<1>4. CASE CountSince(r)
  <2> DEFINE f == [call[r] EXCEPT !.pc = "find", !.previous = 0, !.again = TRUE]
  <2>1. call' = [call EXCEPT ![r] = f] \/ call' = [call EXCEPT ![r] = Idle]
    BY <1>4 DEF CountSince, Step
  <2>2. f \in Frame
    BY <1>2, FramesStay
  <2>3. f.pc = "find" /\ f.upTo = call[r].upTo
    BY <1>2 DEF Frame
  <2> HIDE DEF f
  <2>4. QED
    BY <1>1, <1>2, <2>1, <2>2, <2>3, CallMoves, IdleKeeps
<1>5. QED
  BY <1>3, <1>4

LEMMA DeleteKeeps ==
    ASSUME AuditInv, NEW r \in Run, DeleteRetained(r)
    PROVE  AuditInv'
<1> DEFINE expired == Expired(call[r].upTo)
           f == [call[r] EXCEPT !.pc = "since"]
<1>1. r \in Handler /\ r \notin Workflow
  BY CallersAreDistinct DEF Handler
<1>2. /\ AuditTypeOK /\ call[r] \in Frame /\ IsSound(r) /\ call[r].upTo <= now
      /\ call[r].upTo \in Time /\ now \in Nat
      /\ UNCHANGED <<checkpoints, now, faults, overlapped>> /\ call[r].pc = "delete"
  BY <1>1, CallFacts DEF DeleteRetained, Step
<1>3. log' = [e \in Event |-> IF e \in expired THEN [log[e] EXCEPT !.status = "deleted"]
                              ELSE log[e]]
  BY DEF DeleteRetained
<1>4. call' = [call EXCEPT ![r] = f] \/ call' = [call EXCEPT ![r] = Idle]
  BY DEF DeleteRetained, Step
<1>5. f \in Frame
  BY <1>2, FramesStay
<1>6. f.pc = "since" /\ f.upTo = call[r].upTo /\ Idle.pc = "idle" /\ Idle.upTo = 0
  BY <1>2 DEF Frame, Idle
<1>7. \A e \in expired : e \in Kept /\ log[e].class # "SECURITY"
                           /\ \E i \in DOMAIN checkpoints : Covers(i, e)
  BY <1>2 DEF Expired, IsSound, IsCareful
<1>8. \A e \in Event :
         /\ log[e] \in Row /\ log'[e] \in Row
         /\ log'[e].class = log[e].class /\ log'[e].createdAt = log[e].createdAt
         /\ IF e \in expired THEN log'[e].status = "deleted"
            ELSE log'[e].status = log[e].status
  <2> SUFFICES ASSUME NEW e \in Event
               PROVE  /\ log[e] \in Row /\ log'[e] \in Row
                      /\ log'[e].class = log[e].class /\ log'[e].createdAt = log[e].createdAt
                      /\ IF e \in expired THEN log'[e].status = "deleted"
                         ELSE log'[e].status = log[e].status
    OBVIOUS
  <2>1. log[e] \in Row
    BY <1>2 DEF AuditTypeOK
  <2>2. [log[e] EXCEPT !.status = "deleted"] \in Row
    BY <2>1, RowsStay
  <2>3. /\ [log[e] EXCEPT !.status = "deleted"].class = log[e].class
        /\ [log[e] EXCEPT !.status = "deleted"].createdAt = log[e].createdAt
        /\ [log[e] EXCEPT !.status = "deleted"].status = "deleted"
    BY <2>1 DEF Row
  <2> HIDE DEF expired
  <2>4. QED
    BY <1>3, <2>1, <2>2, <2>3
<1>9. log' \in [Event -> Row]
  <2>1. log' = [e \in Event |-> log'[e]]
    BY <1>3
  <2>2. QED
    BY <1>8, <2>1
<1> HIDE DEF expired, f
<1>10. AuditTypeOK'
  BY <1>2, <1>4, <1>5, <1>9, IdleIsFrame DEF AuditTypeOK
<1>11. OpenIsYoung'
  BY <1>2, <1>8 DEF OpenIsYoung, AuditInv
<1>12. NoMoreExpire /\ CheckpointsStay /\ now <= now'
  <2>1. \A upTo : Expired(upTo)' \subseteq Expired(upTo)
    BY <1>8 DEF Expired, Kept
  <2>2. QED
    BY <1>2, <2>1 DEF NoMoreExpire, CheckpointsStay
<1>13. \A h \in Handler : call'[h] = call[h] \/ IsSound(h)'
  <2> SUFFICES ASSUME NEW h \in Handler, h = r PROVE IsSound(h)'
    BY <1>2, <1>4 DEF AuditTypeOK
  <2>1. call'[h] = f \/ call'[h] = Idle
    BY <1>2, <1>4 DEF AuditTypeOK
  <2>2. QED
    BY <1>1, <1>2, <1>6, <2>1 DEF IsSound, IsCareful
<1>14. \A e \in Event : log'[e].status = "deleted" =>
         IF log[e].status = "deleted" THEN log'[e].class = log[e].class
         ELSE log'[e].class # "SECURITY" /\ \E i \in DOMAIN checkpoints : Covers(i, e)
  BY <1>7, <1>8
<1>15. QED
  BY <1>10, <1>11, <1>12, <1>13, <1>14, StepKeeps

LEMMA FaultsKeep ==
    ASSUME AuditInv, NEW h \in Handler, Fail(h) \/ RewriteThrows(h)
    PROVE  AuditInv'
<1>1. faults \in 0..MaxFaults /\ overlapped \in BOOLEAN /\ MaxFaults \in Nat
  BY CallFacts, RetentionAssumption
<1>2. call' = [call EXCEPT ![h] = Idle] /\ UNCHANGED <<log, checkpoints, now, overlapped>>
  BY DEF Fail, Fault, RewriteThrows, Step
<1>3. faults' \in 0..MaxFaults
  BY <1>1 DEF Fail, Fault, RewriteThrows, Step
<1>4. QED
  BY <1>1, <1>2, <1>3, IdleKeeps

\* What Rewrite does to each row: only the subjects of what was read change.
LEMMA RewriteWrites ==
    ASSUME AuditInv, NEW w \in Workflow, NEW e \in Event, Rewrite(w, e)
    PROVE  /\ log' \in [Event -> Row]
           /\ log[e].status = "absent"
           /\ log'[e].status = "kept" /\ log'[e].class = "SECURITY"
           /\ \A i \in Event : i # e =>
                /\ log'[i].status = log[i].status /\ log'[i].class = log[i].class
                /\ log'[i].createdAt = log[i].createdAt
                /\ \/ log'[i] = log[i]
                   \/ \E v \in call[w].snapshot : v[1] = i /\ log'[i].mentions \subseteq v[2]
<1> DEFINE read(i) == {v \in call[w].snapshot : v[1] = i}
           next(i) == [log[i] EXCEPT !.verifies = TRUE, !.mentions =
                            (CHOOSE v \in read(i) : TRUE)[2] \ {call[w].subject}]
           new == [NoRow EXCEPT !.status = "kept", !.createdAt = now]
<1>1. w \in Handler
  BY DEF Handler
<1>2. /\ log \in [Event -> Row] /\ now \in Time /\ call[w].snapshot \in SUBSET Signed
  BY <1>1 DEF AuditInv, AuditTypeOK, Frame
<1>3. log' = [i \in Event |-> IF i = e THEN new ELSE IF read(i) = {} THEN log[i] ELSE next(i)]
  BY DEF Rewrite
<1>4. new \in Row /\ new.status = "kept" /\ new.class = "SECURITY"
  BY <1>2, RowsStay DEF NoRow
<1>5. ASSUME NEW i \in Event, read(i) # {}
      PROVE  /\ next(i) \in Row /\ next(i).status = log[i].status
             /\ next(i).class = log[i].class /\ next(i).createdAt = log[i].createdAt
             /\ \E v \in call[w].snapshot : v[1] = i /\ next(i).mentions \subseteq v[2]
  <2>1. PICK v : v = CHOOSE x \in read(i) : TRUE
    OBVIOUS
  <2>2. v \in call[w].snapshot /\ v[1] = i
    BY <1>5, <2>1
  <2>3. v[2] \in SUBSET Subject
    BY <1>2, <2>2 DEF Signed
  <2>4. PICK m \in SUBSET Subject : m = v[2] \ {call[w].subject}
    BY <2>3
  <2>5. log[i] \in Row
    BY <1>2
  <2>6. next(i) = [log[i] EXCEPT !.verifies = TRUE, !.mentions = m]
    BY <2>1, <2>4
  <2> HIDE DEF next, read
  <2>7. next(i) \in Row
    BY <2>5, <2>6, RowsStay, ZenonT(60)
  <2>8. /\ next(i).status = log[i].status /\ next(i).class = log[i].class
        /\ next(i).createdAt = log[i].createdAt /\ next(i).mentions = m
    BY <2>5, <2>6 DEF Row
  <2>9. QED
    BY <2>2, <2>4, <2>7, <2>8
<1> HIDE DEF next, new, read
<1>6. ASSUME NEW i \in Event
      PROVE  log'[i] = IF i = e THEN new ELSE IF read(i) = {} THEN log[i] ELSE next(i)
  BY <1>3
<1>7. \A i \in Event : log'[i] \in Row
  BY <1>2, <1>4, <1>5, <1>6
<1>8. log' \in [Event -> Row]
  <2>1. log' = [i \in Event |-> log'[i]]
    BY <1>3
  <2>2. QED
    BY <1>7, <2>1
<1>9. ASSUME NEW i \in Event, i # e
      PROVE  /\ log'[i].status = log[i].status /\ log'[i].class = log[i].class
             /\ log'[i].createdAt = log[i].createdAt
             /\ \/ log'[i] = log[i]
                \/ \E v \in call[w].snapshot : v[1] = i /\ log'[i].mentions \subseteq v[2]
  <2>1. CASE read(i) = {}
    BY <1>6, <1>9, <2>1
  <2>2. CASE read(i) # {}
    <3>1. log'[i] = next(i)
      BY <1>6, <1>9, <2>2
    <3>2. QED
      BY <1>5, <2>2, <3>1
  <2>3. QED
    BY <2>1, <2>2
<1>10. QED
  BY <1>4, <1>6, <1>8, <1>9 DEF Rewrite

LEMMA RewriteKeeps ==
    ASSUME AuditInv, NEW w \in Workflow, NEW e \in Event, Rewrite(w, e)
    PROVE  AuditInv'
<1>1. w \in Handler
  BY DEF Handler
<1>2. /\ AuditTypeOK /\ now \in Nat /\ faults' \in 0..MaxFaults /\ overlapped' \in BOOLEAN
      /\ UNCHANGED <<checkpoints, now>> /\ call' = [call EXCEPT ![w] = Idle]
  BY <1>1, CallFacts DEF Rewrite, Step
<1>3. AuditTypeOK'
  BY <1>2, IdleIsFrame, RewriteWrites DEF AuditTypeOK
<1>4. \A i \in Event : log'[i].status = "open" =>
         log[i].status = "open" /\ log'[i].createdAt = log[i].createdAt
  BY RewriteWrites
<1>5. OpenIsYoung'
  BY <1>2, <1>4 DEF OpenIsYoung, AuditInv
<1>6. NoMoreExpire /\ CheckpointsStay /\ now <= now'
  <2>1. \A upTo : Expired(upTo)' \subseteq Expired(upTo)
    <3> SUFFICES ASSUME NEW upTo, NEW i \in Event, log'[i].status = "kept",
                        log'[i].createdAt + retention < upTo,
                        log'[i].class \in {"OPERATIONAL", "PRIVACY"}
                 PROVE  i \in Expired(upTo)
      BY DEF Expired, Kept
    <3>1. /\ log'[i].status = log[i].status /\ log'[i].class = log[i].class
          /\ log'[i].createdAt = log[i].createdAt
      BY RewriteWrites
    <3>2. QED
      BY <3>1 DEF Expired, Kept
  <2>2. QED
    BY <1>2, <2>1 DEF NoMoreExpire, CheckpointsStay
<1>7. \A h \in Handler : call'[h] = call[h] \/ IsSound(h)'
  <2> SUFFICES ASSUME NEW h \in Handler, h = w PROVE IsSound(h)'
    BY <1>2 DEF AuditTypeOK
  <2>1. call'[h].pc = "idle" /\ call'[h].upTo = 0
    BY <1>2 DEF AuditTypeOK, Idle
  <2>2. QED
    BY <1>2, <2>1 DEF IsSound, IsCareful
<1>8. \A i \in Event : log'[i].status = "deleted" =>
         log[i].status = "deleted" /\ log'[i].class = log[i].class
  BY RewriteWrites
<1>9. QED
  BY <1>3, <1>5, <1>6, <1>7, <1>8, StepKeeps

LEMMA TrailKeeps == AuditInv /\ TrailNext => AuditInv'
<1> SUFFICES ASSUME AuditInv, TrailNext PROVE AuditInv'
  OBVIOUS
<1>1. Run \subseteq Handler /\ Workflow \subseteq Handler
  BY DEF Handler
<1>2. ASSUME NEW h \in Handler, CheckpointStep(h) PROVE AuditInv'
  BY <1>2, FindKeeps, LatestKeeps, InsertKeeps DEF CheckpointStep
<1>3. ASSUME NEW r \in Run, StartRun(r) \/ RunStep(r) PROVE AuditInv'
  BY <1>1, <1>2, <1>3, StartsKeep, CountsKeep, DeleteKeeps, LatestKeeps DEF RunStep
<1>4. ASSUME NEW w \in Workflow,
             \/ \E s \in Subject : StartWorkflow(w, s)
             \/ CheckpointStep(w)
             \/ \E e \in Event : Rewrite(w, e)
             \/ RewriteThrows(w)
      PROVE  AuditInv'
  BY <1>1, <1>2, <1>4, StartsKeep, RewriteKeeps, FaultsKeep
<1>5. ASSUME NEW e \in Event, (\E written \in Written : Log(e, written)) \/ LogEnds(e)
      PROVE  AuditInv'
  BY <1>5, EventsKeep
<1>6. QED
  BY <1>3, <1>4, <1>5, TickKeeps, FaultsKeep DEF TrailNext

-------------------------------------------------------------------------------
(* The trail: what is kept as evidence                                       *)

\* SECURITY evidence that is kept stays kept, and a row gets no subjects but by
\* a workflow that had read them.
LEMMA EvidenceStays ==
    ASSUME AuditInv, TrailNext, NEW e \in Event,
           log[e].status = "kept", log[e].class = "SECURITY"
    PROVE  /\ log'[e].status = "kept" /\ log'[e].class = "SECURITY"
           /\ \/ log'[e] = log[e]
              \/ \E w \in Workflow : \E v \in call[w].snapshot :
                    v[1] = e /\ log'[e].mentions \subseteq v[2]
<1>1. log \in [Event -> Row]
  BY DEF AuditInv, AuditTypeOK
<1>2. CASE log' = log
  BY <1>2
<1>3. ASSUME NEW i \in Event, (\E written \in Written : Log(i, written)) \/ LogEnds(i)
      PROVE  log'[e] = log[e]
  BY <1>1, <1>3 DEF Log, LogEnds
<1>4. ASSUME NEW r \in Run, DeleteRetained(r)
      PROVE  log'[e] = log[e]
  BY <1>4 DEF DeleteRetained, Expired
<1>5. ASSUME NEW w \in Workflow, NEW i \in Event, Rewrite(w, i)
      PROVE  /\ log'[e].status = "kept" /\ log'[e].class = "SECURITY"
             /\ \/ log'[e] = log[e]
                \/ \E v \in call[w].snapshot : v[1] = e /\ log'[e].mentions \subseteq v[2]
  BY <1>5, RewriteWrites
<1>6. \A h : CheckpointStep(h) => log' = log
  BY DEF CheckpointStep, FindThrough, FindLatest, InsertCheckpoint
<1>7. ASSUME NEW r \in Run, StartRun(r) \/ RunStep(r), log' # log
      PROVE  DeleteRetained(r)
  BY <1>6, <1>7 DEF StartRun, Begin, RunStep, CountRetained, FindLatest, CountSince
<1>8. ASSUME NEW w \in Workflow, log' # log,
             \/ \E s \in Subject : StartWorkflow(w, s)
             \/ CheckpointStep(w)
             \/ \E i \in Event : Rewrite(w, i)
             \/ RewriteThrows(w)
      PROVE  \E i \in Event : Rewrite(w, i)
  BY <1>6, <1>8 DEF StartWorkflow, Begin, RewriteThrows
<1>9. QED
  BY <1>2, <1>3, <1>4, <1>5, <1>7, <1>8 DEF TrailNext, Tick, Fail

\* A call only gets what it reads of rows that are there.
LEMMA SnapshotsStay ==
    ASSUME AuditInv, TrailNext, NEW h \in Handler, NEW v \in call'[h].snapshot
    PROVE  v \in call[h].snapshot \/ \E e \in Kept : v = Version(e)
<1>1. call \in [Handler -> Frame] /\ Idle.snapshot = {}
  BY DEF AuditInv, AuditTypeOK, Idle
<1>2. ASSUME NEW g \in Handler, NEW f, call' = [call EXCEPT ![g] = f],
             f.snapshot \subseteq call[g].snapshot
      PROVE  v \in call[h].snapshot
  BY <1>1, <1>2
<1>3. ASSUME NEW g \in Handler, call' = [call EXCEPT ![g] = Idle]
      PROVE  v \in call[h].snapshot
  BY <1>1, <1>2, <1>3
<1>4. \A g \in Handler : Onwards(g).snapshot \subseteq call[g].snapshot
  <2> SUFFICES ASSUME NEW g \in Handler PROVE Onwards(g).snapshot \subseteq call[g].snapshot
    OBVIOUS
  <2>1. CASE call[g].again
    BY <1>1, <2>1 DEF Onwards
  <2>2. CASE ~call[g].again
    <3>1. Onwards(g) = [call[g] EXCEPT !.pc = IF g \in Workflow THEN "rewrite" ELSE "delete",
                                       !.read = {}, !.previous = 0]
      BY <2>2 DEF Onwards
    <3>2. QED
      BY <1>1, <3>1 DEF Frame
  <2>3. QED
    BY <2>1, <2>2
<1>5. ASSUME NEW g \in Handler, CheckpointStep(g) PROVE v \in call[h].snapshot
  <2>1. ASSUME NEW upTo \in Time, FindThrough(g, upTo) PROVE v \in call[h].snapshot
    <3> DEFINE read == {Version(e) : e \in {e \in Kept : log[e].createdAt <= upTo}}
               f == [call[g] EXCEPT !.pc = "latest", !.upTo = upTo, !.read = read]
    <3>1. \/ call' = [call EXCEPT ![g] = Onwards(g)]
          \/ call' = [call EXCEPT ![g] = Idle]
          \/ call' = [call EXCEPT ![g] = f]
      BY <2>1 DEF FindThrough, Step
    <3>2. f.snapshot = call[g].snapshot
      BY <1>1 DEF Frame
    <3> HIDE DEF f
    <3>3. QED
      BY <1>2, <1>3, <1>4, <3>1, <3>2
  <2>2. ASSUME FindLatest(g, "latest", "insert") PROVE v \in call[h].snapshot
    <3>1. PICK i : call' = [call EXCEPT ![g] = [call[g] EXCEPT !.pc = "insert", !.previous = i]]
      BY <2>2 DEF FindLatest, Step
    <3>2. [call[g] EXCEPT !.pc = "insert", !.previous = i].snapshot = call[g].snapshot
      BY <1>1 DEF Frame
    <3>3. QED
      BY <1>2, <3>1, <3>2
  <2>3. ASSUME InsertCheckpoint(g) PROVE v \in call[h].snapshot
    BY <1>2, <1>4, <2>3 DEF InsertCheckpoint, Step
  <2>4. QED
    BY <1>5, <2>1, <2>2, <2>3 DEF CheckpointStep
<1>6. ASSUME NEW r \in Run, StartRun(r) \/ RunStep(r) PROVE v \in call[h].snapshot
  <2>1. r \in Handler
    BY DEF Handler
  <2>2. ASSUME NEW pc PROVE [call[r] EXCEPT !.pc = pc].snapshot = call[r].snapshot
    BY <1>1, <2>1 DEF Frame
  <2>3. CASE StartRun(r)
    <3>1. call' = [call EXCEPT ![r] = [Idle EXCEPT !.pc = "count", !.upTo = now]]
      BY <2>3 DEF StartRun, Begin, Step
    <3>2. [Idle EXCEPT !.pc = "count", !.upTo = now].snapshot = {}
      BY DEF Idle
    <3>3. QED
      BY <1>2, <2>1, <3>1, <3>2
  <2>4. CASE CountRetained(r)
    <3>1. PICK pc : call' = [call EXCEPT ![r] = [call[r] EXCEPT !.pc = pc]]
      BY <2>4 DEF CountRetained, Step
    <3>2. QED
      BY <1>2, <2>1, <2>2, <3>1
  <2>5. CASE DeleteRetained(r)
    <3>1. \/ call' = [call EXCEPT ![r] = [call[r] EXCEPT !.pc = "since"]]
          \/ call' = [call EXCEPT ![r] = Idle]
      BY <2>5 DEF DeleteRetained, Step
    <3>2. QED
      BY <1>2, <1>3, <2>1, <2>2, <3>1
  <2>6. CASE FindLatest(r, "since", "pending")
    <3>1. PICK i : call' = [call EXCEPT ![r] = [call[r] EXCEPT !.pc = "pending", !.previous = i]]
      BY <2>6 DEF FindLatest, Step
    <3>2. [call[r] EXCEPT !.pc = "pending", !.previous = i].snapshot = call[r].snapshot
      BY <1>1, <2>1 DEF Frame
    <3>3. QED
      BY <1>2, <2>1, <3>1, <3>2
  <2>7. CASE CountSince(r)
    <3> DEFINE f == [call[r] EXCEPT !.pc = "find", !.previous = 0, !.again = TRUE]
    <3>1. call' = [call EXCEPT ![r] = f] \/ call' = [call EXCEPT ![r] = Idle]
      BY <2>7 DEF CountSince, Step
    <3>2. f.snapshot = call[r].snapshot
      BY <1>1, <2>1 DEF Frame
    <3> HIDE DEF f
    <3>3. QED
      BY <1>2, <1>3, <2>1, <3>1, <3>2
  <2>8. QED
    BY <1>5, <1>6, <2>1, <2>3, <2>4, <2>5, <2>6, <2>7 DEF RunStep
<1>7. ASSUME NEW w \in Workflow, NEW s \in Subject, StartWorkflow(w, s)
      PROVE  v \in call[h].snapshot \/ \E e \in Kept : v = Version(e)
  <2> DEFINE named == {e \in Kept : s \in log[e].mentions}
             versions == {Version(e) : e \in named}
             f == [Idle EXCEPT !.pc = "find", !.upTo = now, !.subject = s,
                               !.snapshot = versions]
  <2>1. call' = [call EXCEPT ![w] = f] /\ w \in Handler
    BY <1>7 DEF StartWorkflow, Begin, Step, Handler
  <2>2. f.snapshot = versions
    BY DEF Idle
  <2>3. \A x \in versions : \E e \in Kept : x = Version(e)
    OBVIOUS
  <2> HIDE DEF f, versions, named
  <2>4. h = w => call'[h] = f
    BY <1>1, <2>1
  <2>5. h # w => call'[h] = call[h]
    BY <1>1, <2>1
  <2>6. QED
    BY <2>2, <2>3, <2>4, <2>5
<1>8. ASSUME NEW w \in Workflow, (\E e \in Event : Rewrite(w, e)) \/ RewriteThrows(w)
      PROVE  v \in call[h].snapshot
  BY <1>3, <1>8 DEF Rewrite, RewriteThrows, Step, Handler
<1>9. ASSUME NEW g \in Handler, Fail(g) PROVE v \in call[h].snapshot
  BY <1>3, <1>9 DEF Fail, Fault
<1>10. ASSUME NEW e \in Event, (\E written \in Written : Log(e, written)) \/ LogEnds(e)
       PROVE  v \in call[h].snapshot
  BY <1>10 DEF Log, LogEnds
<1>11. QED
  BY <1>5, <1>6, <1>7, <1>8, <1>9, <1>10 DEF TrailNext, Tick, Handler

-------------------------------------------------------------------------------
(* The trail: the chain of the checkpoints                                   *)

CreatedAt(i) == checkpoints[i].createdAt

\* While no two calls overlap, one at most is under way; it is later than every
\* checkpoint, and what it is about to insert follows the last of them.
IsOrderly ==
    /\ \A g, h \in Handler : call[g].pc # "idle" /\ call[h].pc # "idle" => g = h
    /\ \A i \in DOMAIN checkpoints : checkpoints[i].previous = i - 1
    /\ \A i, j \in DOMAIN checkpoints : i <= j => CreatedAt(i) <= CreatedAt(j)
    /\ \A h \in Handler : call[h].pc # "idle" =>
          \A i \in DOMAIN checkpoints : CreatedAt(i) <= call[h].upTo
    /\ \A h \in Handler : call[h].pc = "insert" => call[h].previous = Len(checkpoints)

ChainInv ==
    /\ \A i \in DOMAIN checkpoints : CreatedAt(i) <= now
    /\ ~overlapped => IsOrderly

LEMMA CheckpointFacts ==
    ASSUME AuditInv
    PROVE  /\ checkpoints \in Seq(Checkpoint) /\ Len(checkpoints) \in Nat
           /\ DOMAIN checkpoints = 1..Len(checkpoints)
           /\ \A i \in DOMAIN checkpoints : CreatedAt(i) \in Nat
<1>1. checkpoints \in Seq(Checkpoint)
  BY DEF AuditInv, AuditTypeOK
<1>2. Len(checkpoints) \in Nat /\ DOMAIN checkpoints = 1..Len(checkpoints)
      /\ checkpoints \in [1..Len(checkpoints) -> Checkpoint]
  BY <1>1, LenProperties
<1>3. \A c \in Checkpoint : c.createdAt \in Nat
  BY TimeIsNat DEF Checkpoint
<1>4. QED
  BY <1>1, <1>2, <1>3 DEF CreatedAt

\* Calls stay or end and no checkpoint is made.
LEMMA ChainRests ==
    ASSUME AuditInv, ChainInv, UNCHANGED <<checkpoints, overlapped>>, now' \in Nat,
           now <= now', call' = call \/ call' = [h \in Handler |-> Idle]
    PROVE  ChainInv'
<1>1. now \in Nat /\ \A i \in DOMAIN checkpoints : CreatedAt(i) \in Nat
  BY CheckpointFacts, TimeIsNat DEF AuditInv, AuditTypeOK
<1>2. \A i \in DOMAIN checkpoints' : CreatedAt(i)' <= now'
  BY <1>1 DEF ChainInv, CreatedAt
<1>3. ASSUME IsOrderly PROVE IsOrderly'
  <2>1. CASE call' = call
    BY <1>3, <2>1 DEF IsOrderly, CreatedAt
  <2>2. CASE call' = [h \in Handler |-> Idle]
    BY <1>3, <2>2 DEF IsOrderly, CreatedAt, Idle
  <2>3. QED
    BY <2>1, <2>2
<1>4. QED
  BY <1>2, <1>3 DEF ChainInv

\* One call moves and makes no checkpoint.
LEMMA ChainMoves ==
    ASSUME AuditInv, ChainInv, NEW h \in Handler, NEW f \in Frame,
           call' = [call EXCEPT ![h] = f], UNCHANGED <<checkpoints, now>>,
           ~overlapped' => ~overlapped,
           \/ f.pc = "idle"
           \/ call[h].pc # "idle" /\ call[h].upTo <= f.upTo
           \/ f.upTo = now /\ (~overlapped' => \A g \in Handler : call[g].pc = "idle"),
           ~overlapped /\ f.pc = "insert" => f.previous = Len(checkpoints)
    PROVE  ChainInv'
<1>1. /\ now \in Nat /\ \A i \in DOMAIN checkpoints : CreatedAt(i) \in Nat
      /\ call[h].upTo \in Nat /\ f.upTo \in Nat
  BY CheckpointFacts, CallFacts, TimeIsNat DEF Frame
<1>2. \A g \in Handler : call'[g] = IF g = h THEN f ELSE call[g]
  BY DEF AuditInv, AuditTypeOK
<1>3. \A i \in DOMAIN checkpoints : CreatedAt(i) <= now
  BY DEF ChainInv
<1>4. ASSUME ~overlapped' PROVE IsOrderly'
  <2>1. IsOrderly
    BY <1>4 DEF ChainInv
  <2>2. ASSUME f.pc # "idle" PROVE \A i \in DOMAIN checkpoints : CreatedAt(i) <= f.upTo
    BY <1>1, <1>3, <1>4, <2>1, <2>2 DEF IsOrderly
  <2>3. \A a, b \in Handler : call'[a].pc # "idle" /\ call'[b].pc # "idle" => a = b
    BY <1>2, <1>4, <2>1 DEF IsOrderly
  <2>4. \A g \in Handler : call'[g].pc # "idle" =>
           \A i \in DOMAIN checkpoints : CreatedAt(i) <= call'[g].upTo
    BY <1>2, <2>1, <2>2 DEF IsOrderly
  <2>5. \A g \in Handler : call'[g].pc = "insert" => call'[g].previous = Len(checkpoints)
    BY <1>2, <1>4, <2>1 DEF IsOrderly
  <2>6. \A i : CreatedAt(i)' = CreatedAt(i)
    BY DEF CreatedAt
  <2>7. QED
    BY <2>1, <2>3, <2>4, <2>5, <2>6 DEF IsOrderly
<1>5. \A i \in DOMAIN checkpoints' : CreatedAt(i)' <= now'
  BY <1>3 DEF CreatedAt
<1>6. QED
  BY <1>4, <1>5 DEF ChainInv

LEMMA ChainCallEnds ==
    ASSUME AuditInv, ChainInv, NEW h \in Handler, call' = [call EXCEPT ![h] = Idle],
           UNCHANGED <<checkpoints, now, overlapped>>
    PROVE  ChainInv'
<1>1. Idle \in Frame /\ Idle.pc = "idle"
  BY IdleIsFrame DEF Idle
<1>2. QED
  BY <1>1, ChainMoves

LEMMA ChainBegins ==
    ASSUME AuditInv, ChainInv, NEW h \in Handler, NEW f \in Frame, Begin(h, f),
           f.upTo = now, f.pc # "insert"
    PROVE  ChainInv'
<1>1. call' = [call EXCEPT ![h] = f] /\ UNCHANGED <<checkpoints, now>>
  BY DEF Begin, Step
<1>2. overlapped' = (overlapped \/ \E g \in Handler : call[g].pc # "idle")
  BY DEF Begin
<1>3. ~overlapped' => ~overlapped /\ \A g \in Handler : call[g].pc = "idle"
  BY <1>2
<1>4. QED
  BY <1>1, <1>3, ChainMoves

\* The latest checkpoint is the last one.
LEMMA LatestIsLast ==
    ASSUME AuditInv, IsOrderly, NEW i \in DOMAIN checkpoints, LatestCheckpoint(i)
    PROVE  i = Len(checkpoints)
<1>1. /\ DOMAIN checkpoints = 1..Len(checkpoints) /\ Len(checkpoints) \in Nat
      /\ \A j \in DOMAIN checkpoints : CreatedAt(j) \in Nat
  BY CheckpointFacts
<1>2. Len(checkpoints) \in DOMAIN checkpoints /\ i <= Len(checkpoints)
  BY <1>1
<1>3. CreatedAt(i) = CreatedAt(Len(checkpoints))
  BY <1>1, <1>2 DEF IsOrderly, LatestCheckpoint, CreatedAt
<1>4. Len(checkpoints) <= i
  BY <1>2, <1>3 DEF LatestCheckpoint, CreatedAt
<1>5. QED
  BY <1>1, <1>2, <1>4

LEMMA ChainGrows ==
    ASSUME AuditInv, ChainInv, NEW h \in Handler, InsertCheckpoint(h)
    PROVE  ChainInv'
<1>1. /\ AuditTypeOK /\ call[h] \in Frame /\ call[h].upTo <= now /\ now \in Nat
      /\ call[h].read \in SUBSET Signed /\ call[h].previous \in Nat
      /\ call[h].upTo \in Time /\ call[h].upTo \in Nat
  BY CallFacts
<1>2. PICK e \in Event : checkpoints' = Append(checkpoints,
                  [events |-> call[h].read, previous |-> call[h].previous,
                   createdAt |-> call[h].upTo, through |-> e,
                   throughAt |-> log[e].createdAt])
  BY DEF InsertCheckpoint
<1> DEFINE c == [events |-> call[h].read, previous |-> call[h].previous,
                 createdAt |-> call[h].upTo, through |-> e, throughAt |-> log[e].createdAt]
<1>3. PICK n : n = Len(checkpoints)
  OBVIOUS
<1>4. c \in Checkpoint /\ c.previous = call[h].previous /\ c.createdAt = call[h].upTo
  BY <1>1 DEF Checkpoint, AuditTypeOK, Row
<1>5. checkpoints' = Append(checkpoints, c)
  BY <1>2
<1> HIDE DEF c
<1>6. /\ checkpoints \in Seq(Checkpoint) /\ n \in Nat /\ DOMAIN checkpoints = 1..n
      /\ \A i \in DOMAIN checkpoints : CreatedAt(i) \in Nat
  BY <1>3, CheckpointFacts
<1>7. /\ checkpoints' \in Seq(Checkpoint) /\ Len(checkpoints') = n + 1
      /\ \A i \in 1..n : checkpoints'[i] = checkpoints[i]
      /\ checkpoints'[n + 1] = c
  BY <1>4, <1>5, <1>6, <1>3, AppendProperties
<1>8. DOMAIN checkpoints' = 1..(n + 1)
  BY <1>6, <1>7, LenProperties
<1>9. \A i \in 1..n : CreatedAt(i)' = CreatedAt(i)
  BY <1>7 DEF CreatedAt
<1>10. CreatedAt(n + 1)' = call[h].upTo
  BY <1>4, <1>7 DEF CreatedAt
<1>11. call' = [call EXCEPT ![h] = Onwards(h)] /\ UNCHANGED <<now, overlapped>>
       /\ call[h].pc = "insert"
  BY DEF InsertCheckpoint, Step
<1>12. \A g \in Handler : call'[g] = IF g = h THEN Onwards(h) ELSE call[g]
  BY <1>1, <1>11 DEF AuditTypeOK
<1>13. \A i \in DOMAIN checkpoints' : i \in 1..n \/ i = n + 1
  BY <1>6, <1>8
<1>14. \A i \in DOMAIN checkpoints' : CreatedAt(i)' <= now'
  BY <1>1, <1>6, <1>9, <1>10, <1>11, <1>13 DEF ChainInv
<1>15. ASSUME ~overlapped' PROVE IsOrderly'
  <2>1. IsOrderly
    BY <1>11, <1>15 DEF ChainInv
  <2>2. \A g \in Handler : g # h => call[g].pc = "idle"
    BY <1>11, <2>1 DEF IsOrderly
  <2>3. \A a, b \in Handler : call'[a].pc # "idle" /\ call'[b].pc # "idle" => a = b
    BY <1>12, <2>2
  <2>4. \A i \in DOMAIN checkpoints' : checkpoints'[i].previous = i - 1
    <3>1. call[h].previous = n
      BY <1>11, <1>3, <2>1 DEF IsOrderly
    <3>2. \A i \in 1..n : checkpoints'[i].previous = i - 1
      BY <1>6, <1>7, <2>1 DEF IsOrderly
    <3>3. checkpoints'[n + 1].previous = (n + 1) - 1
      BY <1>4, <1>6, <1>7, <3>1
    <3>4. QED
      BY <1>13, <3>2, <3>3
  <2>5. \A i \in 1..n : CreatedAt(i) <= call[h].upTo
    BY <1>6, <1>11, <2>1 DEF IsOrderly
  <2>6. ASSUME NEW i \in DOMAIN checkpoints', NEW j \in DOMAIN checkpoints', i <= j
        PROVE  CreatedAt(i)' <= CreatedAt(j)'
    <3>1. CASE j = n + 1
      BY <1>1, <1>9, <1>10, <1>13, <2>5, <3>1
    <3>2. CASE j \in 1..n
      <4>1. i \in 1..n
        BY <1>6, <1>8, <2>6, <3>2
      <4>2. QED
        BY <1>6, <1>9, <2>1, <2>6, <3>2, <4>1 DEF IsOrderly
    <3>3. QED
      BY <1>13, <3>1, <3>2
  <2>7. ASSUME NEW g \in Handler, call'[g].pc # "idle", NEW i \in DOMAIN checkpoints'
        PROVE  CreatedAt(i)' <= call'[g].upTo
    <3>1. g = h /\ call'[g].upTo = call[h].upTo
      BY <1>12, <2>2, <2>7, OnwardsMoves
    <3>2. QED
      BY <1>1, <1>9, <1>10, <1>13, <2>5, <3>1
  <2>8. \A g \in Handler : call'[g].pc # "insert"
    BY <1>12, <2>2, OnwardsMoves
  <2>9. QED
    BY <2>3, <2>4, <2>6, <2>7, <2>8 DEF IsOrderly
<1>16. QED
  BY <1>14, <1>15 DEF ChainInv

LEMMA ChainChecks ==
    ASSUME AuditInv, ChainInv, NEW h \in Handler,
           CheckpointStep(h) \/ (h \in Run /\ FindLatest(h, "since", "pending"))
    PROVE  ChainInv'
<1>1. call[h] \in Frame /\ call[h].upTo \in Nat /\ Idle.pc = "idle"
  BY CallFacts DEF Idle
<1>2. ASSUME NEW upTo \in Time, FindThrough(h, upTo) PROVE ChainInv'
  <2> DEFINE read == {Version(e) : e \in {e \in Kept : log[e].createdAt <= upTo}}
             f == [call[h] EXCEPT !.pc = "latest", !.upTo = upTo, !.read = read]
  <2>1. /\ \/ call' = [call EXCEPT ![h] = Onwards(h)]
           \/ call' = [call EXCEPT ![h] = Idle]
           \/ call' = [call EXCEPT ![h] = f]
        /\ UNCHANGED <<checkpoints, now, overlapped>> /\ call[h].pc = "find"
    BY <1>2 DEF FindThrough, Step
  <2>2. upTo \in Nat /\ call[h].upTo <= upTo
    BY <1>1, <1>2, TimeIsNat, CallFacts DEF FindThrough, MayRead
  <2>3. read \in SUBSET Signed
    BY DEF Version, Signed, Kept, AuditInv, AuditTypeOK, Row
  <2> HIDE DEF read
  <2>4. f \in Frame
    BY <1>1, <2>3, FramesStay
  <2>5. f.pc = "latest" /\ f.upTo = upTo
    BY <1>1 DEF Frame
  <2> HIDE DEF f
  <2>6. CASE call' = [call EXCEPT ![h] = f]
    BY <2>1, <2>2, <2>4, <2>5, <2>6, ChainMoves
  <2>7. CASE call' = [call EXCEPT ![h] = Onwards(h)]
    <3>1. PICK g : g = Onwards(h)
      OBVIOUS
    <3>2. g \in Frame /\ g.pc # "insert" /\ (g.pc # "idle" => g.upTo = call[h].upTo)
      BY <3>1, OnwardsMoves
    <3>3. /\ g.pc = "idle" \/ (call[h].pc # "idle" /\ call[h].upTo <= g.upTo)
          /\ ~overlapped' => ~overlapped
      <4>1. call[h].upTo <= call[h].upTo
        BY <1>1
      <4>2. call[h].pc # "idle" /\ overlapped' = overlapped
        BY <2>1
      <4>3. g.pc = "idle" \/ g.upTo = call[h].upTo
        BY <3>2
      <4>4. g.pc = "idle" \/ (call[h].pc # "idle" /\ call[h].upTo <= g.upTo)
        BY <4>1, <4>2, <4>3
      <4>5. ~overlapped' => ~overlapped
        BY <4>2
      <4>6. QED
        BY <4>4, <4>5
    <3>4. call' = [call EXCEPT ![h] = g] /\ UNCHANGED <<checkpoints, now>>
      BY <2>1, <2>7, <3>1
    <3>5. QED
      BY <3>2, <3>3, <3>4, ChainMoves
  <2>8. QED
    BY <2>1, <2>6, <2>7, ChainCallEnds
<1>3. ASSUME NEW from, NEW to \in {"insert", "pending"}, from # "idle", FindLatest(h, from, to)
      PROVE  ChainInv'
  <2>1. PICK i \in Nat :
           /\ call' = [call EXCEPT ![h] = [call[h] EXCEPT !.pc = to, !.previous = i]]
           /\ \/ checkpoints = <<>> /\ i = 0
              \/ i \in DOMAIN checkpoints /\ LatestCheckpoint(i)
    <3>1. DOMAIN checkpoints \subseteq Nat
      BY CheckpointFacts
    <3>2. QED
      BY <1>3, <3>1 DEF FindLatest, Step
  <2>2. UNCHANGED <<checkpoints, now, overlapped>> /\ call[h].pc = from
    BY <1>3 DEF FindLatest, Step
  <2> DEFINE f == [call[h] EXCEPT !.pc = to, !.previous = i]
  <2>3. f \in Frame
    BY <1>1, FramesStay
  <2>4. f.pc = to /\ f.upTo = call[h].upTo /\ f.previous = i
    BY <1>1 DEF Frame
  <2>5. call' = [call EXCEPT ![h] = f]
    BY <2>1
  <2> HIDE DEF f
  <2>6. ~overlapped => i = Len(checkpoints)
    BY <2>1, LatestIsLast, EmptySeq DEF ChainInv
  <2>7. call[h].upTo <= f.upTo /\ (~overlapped' => ~overlapped) /\ call[h].pc # "idle"
        /\ (~overlapped /\ f.pc = "insert" => f.previous = Len(checkpoints))
    BY <1>1, <1>3, <2>2, <2>4, <2>6
  <2>8. QED
    BY <2>2, <2>3, <2>5, <2>7, ChainMoves
<1>4. QED
  BY <1>2, <1>3, ChainGrows DEF CheckpointStep

LEMMA ChainRuns ==
    ASSUME AuditInv, ChainInv, NEW r \in Run, StartRun(r) \/ RunStep(r)
    PROVE  ChainInv'
<1>1. r \in Handler /\ AuditTypeOK /\ now \in Time
  BY DEF Handler, AuditInv, AuditTypeOK
<1>2. call[r] \in Frame /\ call[r].upTo \in Nat
  BY <1>1, CallFacts
<1>3. CASE StartRun(r)
  <2> DEFINE f == [Idle EXCEPT !.pc = "count", !.upTo = now]
  <2>1. f \in Frame /\ f.pc = "count" /\ f.upTo = now
    BY <1>1, TimeIsNat DEF Idle, Frame
  <2>2. Begin(r, f)
    BY <1>3 DEF StartRun
  <2> HIDE DEF f
  <2>3. QED
    BY <1>1, <2>1, <2>2, ChainBegins
<1>4. ASSUME NEW f \in Frame, call' = [call EXCEPT ![r] = f], call[r].pc # "idle",
             UNCHANGED <<checkpoints, now, overlapped>>, f.upTo = call[r].upTo,
             f.pc # "insert"
      PROVE  ChainInv'
  <2>1. call[r].upTo <= f.upTo /\ (~overlapped' => ~overlapped)
    BY <1>2, <1>4
  <2>2. QED
    BY <1>1, <1>4, <2>1, ChainMoves
<1>5. CASE CountRetained(r)
  <2>1. PICK pc \in {"since", "find"} : call' = [call EXCEPT ![r] = [call[r] EXCEPT !.pc = pc]]
    BY <1>5 DEF CountRetained, Step
  <2> DEFINE f == [call[r] EXCEPT !.pc = pc]
  <2>2. f \in Frame
    BY <1>2, FramesStay
  <2>3. f.pc = pc /\ f.upTo = call[r].upTo /\ call' = [call EXCEPT ![r] = f]
    BY <1>2, <2>1 DEF Frame
  <2>4. UNCHANGED <<checkpoints, now, overlapped>> /\ call[r].pc # "idle"
    BY <1>5 DEF CountRetained, Step
  <2> HIDE DEF f
  <2>5. QED
    BY <1>4, <2>2, <2>3, <2>4
<1>6. CASE DeleteRetained(r)
  <2> DEFINE f == [call[r] EXCEPT !.pc = "since"]
  <2>1. call' = [call EXCEPT ![r] = f] \/ call' = [call EXCEPT ![r] = Idle]
    BY <1>6 DEF DeleteRetained, Step
  <2>2. f \in Frame
    BY <1>2, FramesStay
  <2>3. f.pc = "since" /\ f.upTo = call[r].upTo
    BY <1>2 DEF Frame
  <2>4. UNCHANGED <<checkpoints, now, overlapped>> /\ call[r].pc # "idle"
    BY <1>6 DEF DeleteRetained, Step
  <2> HIDE DEF f
  <2>5. QED
    BY <1>1, <1>4, <2>1, <2>2, <2>3, <2>4, ChainCallEnds
<1>7. CASE CountSince(r)
  <2> DEFINE f == [call[r] EXCEPT !.pc = "find", !.previous = 0, !.again = TRUE]
  <2>1. call' = [call EXCEPT ![r] = f] \/ call' = [call EXCEPT ![r] = Idle]
    BY <1>7 DEF CountSince, Step
  <2>2. f \in Frame
    BY <1>2, FramesStay
  <2>3. f.pc = "find" /\ f.upTo = call[r].upTo
    BY <1>2 DEF Frame
  <2>4. UNCHANGED <<checkpoints, now, overlapped>> /\ call[r].pc # "idle"
    BY <1>7 DEF CountSince, Step
  <2> HIDE DEF f
  <2>5. QED
    BY <1>1, <1>4, <2>1, <2>2, <2>3, <2>4, ChainCallEnds
<1>8. QED
  BY <1>1, <1>3, <1>5, <1>6, <1>7, ChainChecks DEF RunStep

LEMMA ChainWorkflows ==
    ASSUME AuditInv, ChainInv, NEW w \in Workflow,
           \/ \E s \in Subject : StartWorkflow(w, s)
           \/ CheckpointStep(w)
           \/ \E e \in Event : Rewrite(w, e)
           \/ RewriteThrows(w)
    PROVE  ChainInv'
<1>1. w \in Handler /\ AuditTypeOK /\ now \in Time
  BY DEF Handler, AuditInv, AuditTypeOK
<1>2. ASSUME NEW s \in Subject, StartWorkflow(w, s) PROVE ChainInv'
  <2> DEFINE named == {e \in Kept : s \in log[e].mentions}
             versions == {Version(e) : e \in named}
             f == [Idle EXCEPT !.pc = "find", !.upTo = now, !.subject = s,
                               !.snapshot = versions]
  <2>1. versions \in SUBSET Signed
    BY <1>1 DEF Version, Signed, Kept, AuditTypeOK, Row
  <2>2. Begin(w, f)
    BY <1>2 DEF StartWorkflow
  <2> HIDE DEF versions, named
  <2>3. f \in Frame /\ f.pc = "find" /\ f.upTo = now
    <3> HIDE DEF Signed, Time
    <3>1. QED
      BY <1>1, <2>1, TimeIsNat DEF Idle, Frame
  <2> HIDE DEF f
  <2>4. QED
    BY <1>1, <2>2, <2>3, ChainBegins
<1>3. CASE (\E e \in Event : Rewrite(w, e)) \/ RewriteThrows(w)
  <2>1. call' = [call EXCEPT ![w] = Idle] /\ UNCHANGED <<checkpoints, now, overlapped>>
    BY <1>3 DEF Rewrite, RewriteThrows, Step
  <2>2. QED
    BY <1>1, <2>1, ChainCallEnds
<1>4. QED
  BY <1>1, <1>2, <1>3, ChainChecks

LEMMA ChainKeeps == AuditInv /\ ChainInv /\ TrailNext => ChainInv'
<1> SUFFICES ASSUME AuditInv, ChainInv, TrailNext PROVE ChainInv'
  OBVIOUS
<1>1. now \in Nat
  BY TimeIsNat DEF AuditInv, AuditTypeOK
<1>2. ASSUME NEW h \in Handler, Fail(h) PROVE ChainInv'
  BY <1>2, ChainCallEnds DEF Fail, Fault
<1>3. ASSUME NEW e \in Event, (\E written \in Written : Log(e, written)) \/ LogEnds(e)
      PROVE  ChainInv'
  <2>1. UNCHANGED <<checkpoints, overlapped>> /\ call' = call /\ now' = now
    BY <1>3 DEF Log, LogEnds
  <2>2. now' \in Nat /\ now <= now'
    BY <1>1, <2>1
  <2>3. QED
    BY <2>1, <2>2, ChainRests
<1>4. CASE Tick
  BY <1>1, <1>4, ChainRests DEF Tick
<1>5. QED
  BY <1>2, <1>3, <1>4, ChainRuns, ChainWorkflows DEF TrailNext

-------------------------------------------------------------------------------
(* The trail: what is overwritten                                            *)

\* S has the event of v, and the same version of it unless calls overlapped.
Has(S, v) == \E x \in S : x[1] = v[1] /\ (overlapped \/ x = v)

\* What a workflow has read is what it checkpoints before it rewrites.
IsEvident(w) ==
    /\ call[w].pc = "idle" => call[w].snapshot = {}
    /\ \A v \in call[w].snapshot :
          /\ log[v[1]].status \in {"kept", "deleted"}
          /\ log[v[1]].createdAt <= call[w].upTo
          /\ log[v[1]].status = "kept" =>
                /\ overlapped \/ v = Version(v[1])
                /\ call[w].pc \in {"latest", "insert"} => Has(call[w].read, v)
                /\ call[w].pc = "rewrite" =>
                      \E i \in DOMAIN checkpoints : Has(checkpoints[i].events, v)

EvidenceInv ==
    /\ \A e \in Event : log[e].createdAt <= now
    /\ \A w \in Workflow : IsEvident(w)

\* What was committed stays committed, or is deleted for good.
RowsAge ==
    \A e \in Event : log[e].status \in {"kept", "deleted"} =>
        /\ log'[e].status \in {"kept", "deleted"}
        /\ log'[e].status = "kept" => log[e].status = "kept"
        /\ log'[e].createdAt = log[e].createdAt

MentionsStay == \A e \in Event : log[e].status = "kept" => log'[e].mentions = log[e].mentions

\* A workflow that does not move is not disturbed by the others.
LEMMA EvidentRests ==
    ASSUME AuditInv, NEW w \in Workflow, IsEvident(w), call'[w] = call[w],
           RowsAge, CheckpointsStay, overlapped => overlapped',
           call[w].snapshot = {} \/ overlapped' \/ MentionsStay
    PROVE  IsEvident(w)'
<1>1. \A v \in call[w].snapshot : v[1] \in Event
  BY DEF AuditInv, AuditTypeOK, Frame, Signed, Handler
<1>2. ASSUME NEW v \in call[w].snapshot
      PROVE  /\ log'[v[1]].status \in {"kept", "deleted"}
             /\ log'[v[1]].createdAt <= call[w].upTo
             /\ log'[v[1]].status = "kept" =>
                   /\ overlapped' \/ v = Version(v[1])'
                   /\ call[w].pc \in {"latest", "insert"} => Has(call[w].read, v)'
                   /\ call[w].pc = "rewrite" =>
                         \E i \in DOMAIN checkpoints' : Has(checkpoints[i].events, v)'
  <2>1. /\ log[v[1]].status \in {"kept", "deleted"}
        /\ log[v[1]].createdAt <= call[w].upTo
    BY <1>2 DEF IsEvident
  <2>2. /\ log'[v[1]].status \in {"kept", "deleted"}
        /\ log'[v[1]].createdAt = log[v[1]].createdAt
        /\ log'[v[1]].status = "kept" => log[v[1]].status = "kept"
    BY <1>1, <2>1 DEF RowsAge
  <2>3. ASSUME log'[v[1]].status = "kept"
        PROVE  /\ overlapped' \/ v = Version(v[1])'
               /\ call[w].pc \in {"latest", "insert"} => Has(call[w].read, v)'
               /\ call[w].pc = "rewrite" =>
                     \E i \in DOMAIN checkpoints' : Has(checkpoints[i].events, v)'
    <3>1. log[v[1]].status = "kept"
      BY <2>2, <2>3
    <3>2. overlapped' \/ v = Version(v[1])'
      BY <1>1, <1>2, <3>1 DEF IsEvident, MentionsStay, Version
    <3>3. call[w].pc \in {"latest", "insert"} => Has(call[w].read, v)'
      BY <1>2, <3>1 DEF IsEvident, Has
    <3>4. call[w].pc = "rewrite" =>
             \E i \in DOMAIN checkpoints' : Has(checkpoints[i].events, v)'
      BY <1>2, <3>1 DEF IsEvident, Has, CheckpointsStay
    <3>5. QED
      BY <3>2, <3>3, <3>4
  <2>4. QED
    BY <2>1, <2>2, <2>3
<1>3. call[w].pc = "idle" => call[w].snapshot = {}
  BY DEF IsEvident
<1>4. QED
  BY <1>2, <1>3 DEF IsEvident

\* What has to be shown of a step that rewrites nothing.
LEMMA EvidenceRests ==
    ASSUME AuditInv, EvidenceInv, RowsAge, MentionsStay, CheckpointsStay,
           overlapped => overlapped',
           \A e \in Event : log'[e].createdAt <= now',
           \A w \in Workflow : call'[w] = call[w] \/ IsEvident(w)'
    PROVE  EvidenceInv'
  BY EvidentRests DEF EvidenceInv

\* A call that ends holds nothing.
LEMMA IdleIsEvident ==
    ASSUME NEW w \in Workflow, call'[w] = Idle
    PROVE  IsEvident(w)'
  BY DEF IsEvident, Idle

\* A step of one call that leaves rows and checkpoints alone.
LEMMA EvidenceMoves ==
    ASSUME AuditInv, EvidenceInv, NEW h \in Handler, NEW f,
           call' = [call EXCEPT ![h] = f], UNCHANGED <<log, checkpoints, now>>,
           overlapped => overlapped', h \in Workflow => f = Idle \/ IsEvident(h)'
    PROVE  EvidenceInv'
<1>1. RowsAge /\ MentionsStay /\ CheckpointsStay
  BY DEF RowsAge, MentionsStay, CheckpointsStay
<1>2. call'[h] = f /\ \A g \in Handler : g # h => call'[g] = call[g]
  BY DEF AuditInv, AuditTypeOK
<1>3. \A w \in Workflow : call'[w] = call[w] \/ IsEvident(w)'
  BY <1>2, IdleIsEvident DEF Handler
<1>4. QED
  BY <1>1, <1>3, EvidenceRests DEF EvidenceInv

\* A checkpoint is added to the others, with all that its call has read.
LEMMA CheckpointGrows ==
    ASSUME AuditInv, NEW h \in Handler, InsertCheckpoint(h)
    PROVE  /\ CheckpointsStay
           /\ \E i \in DOMAIN checkpoints' : checkpoints'[i].events = call[h].read
<1>1. /\ AuditTypeOK /\ call[h].read \in SUBSET Signed /\ call[h].previous \in Nat
      /\ call[h].upTo \in Time
  BY CallFacts
<1>2. PICK e \in Event : checkpoints' = Append(checkpoints,
                  [events |-> call[h].read, previous |-> call[h].previous,
                   createdAt |-> call[h].upTo, through |-> e,
                   throughAt |-> log[e].createdAt])
  BY DEF InsertCheckpoint
<1> DEFINE c == [events |-> call[h].read, previous |-> call[h].previous,
                 createdAt |-> call[h].upTo, through |-> e, throughAt |-> log[e].createdAt]
<1>3. c \in Checkpoint /\ c.events = call[h].read
  BY <1>1 DEF Checkpoint, AuditTypeOK, Row
<1>4. checkpoints' = Append(checkpoints, c)
  BY <1>2
<1> HIDE DEF c
<1>5. /\ checkpoints \in Seq(Checkpoint) /\ checkpoints' \in Seq(Checkpoint)
      /\ Len(checkpoints') = Len(checkpoints) + 1
      /\ \A i \in 1..Len(checkpoints) : checkpoints'[i] = checkpoints[i]
      /\ checkpoints'[Len(checkpoints) + 1] = c
      /\ Len(checkpoints) \in Nat
  BY <1>1, <1>3, <1>4, AppendProperties, LenProperties DEF AuditTypeOK
<1>6. /\ DOMAIN checkpoints = 1..Len(checkpoints)
      /\ DOMAIN checkpoints' = 1..Len(checkpoints) + 1
  BY <1>5, LenProperties
<1>7. QED
  BY <1>3, <1>5, <1>6 DEF CheckpointsStay

\* Steps of a run move no workflow, and what they delete is gone for good.
LEMMA RunEvident ==
    ASSUME AuditInv, EvidenceInv, NEW r \in Run, StartRun(r) \/ RunStep(r)
    PROVE  EvidenceInv'
<1>1. r \in Handler /\ r \notin Workflow /\ overlapped \in BOOLEAN
  BY CallersAreDistinct DEF Handler, AuditInv, AuditTypeOK
<1>2. now' = now /\ (overlapped => overlapped') /\ \E f : call' = [call EXCEPT ![r] = f]
  <2>1. now' = now /\ (overlapped => overlapped')
    <3>1. CASE StartRun(r)
      BY <3>1 DEF StartRun, Begin, Step
    <3>2. CASE RunStep(r)
      <4>1. now' = now /\ overlapped' = overlapped
        BY <3>2 DEF RunStep, CountRetained, CheckpointStep, FindThrough, FindLatest,
               InsertCheckpoint, DeleteRetained, CountSince, Step
      <4>2. QED
        BY <4>1
    <3>3. QED
      BY <3>1, <3>2
  <2>2. ASSUME NEW f, Step(r, f) PROVE \E g : call' = [call EXCEPT ![r] = g]
    BY <2>2 DEF Step
  <2>3. StartRun(r) => \E f : Step(r, f)
    BY DEF StartRun, Begin
  <2>4. CountRetained(r) \/ CountSince(r) \/ DeleteRetained(r) => \E f : Step(r, f)
    BY DEF CountRetained, CountSince, DeleteRetained
  <2>5. CheckpointStep(r) \/ FindLatest(r, "since", "pending") => \E f : Step(r, f)
    BY DEF CheckpointStep, FindThrough, FindLatest, InsertCheckpoint
  <2>6. QED
    BY <2>1, <2>2, <2>3, <2>4, <2>5 DEF RunStep
<1>3. \A w \in Workflow : call'[w] = call[w]
  BY <1>1, <1>2 DEF Handler, AuditInv, AuditTypeOK
<1>4. CASE DeleteRetained(r)
  <2>1. ASSUME NEW e \in Event
        PROVE  /\ log'[e] = log[e] \/ (log[e].status = "kept" /\ log'[e].status = "deleted")
               /\ log'[e].createdAt = log[e].createdAt
               /\ log'[e].mentions = log[e].mentions
    <3>1. log'[e] = log[e] \/ (log[e].status = "kept" /\
                               log'[e] = [log[e] EXCEPT !.status = "deleted"])
      BY <1>4 DEF DeleteRetained, Expired, Kept
    <3>2. log[e] \in Row
      BY DEF AuditInv, AuditTypeOK
    <3>3. QED
      BY <3>1, <3>2 DEF Row
  <2>2. RowsAge /\ MentionsStay
    BY <2>1 DEF RowsAge, MentionsStay
  <2>3. CheckpointsStay
    BY <1>4 DEF DeleteRetained, CheckpointsStay
  <2>4. \A e \in Event : log'[e].createdAt <= now'
    BY <1>2, <2>1 DEF EvidenceInv
  <2>5. QED
    BY <1>2, <1>3, <2>2, <2>3, <2>4, EvidenceRests
<1>5. CASE log' = log
  <2>1. CheckpointsStay
    <3>1. CASE InsertCheckpoint(r)
      BY <1>1, <3>1, CheckpointGrows
    <3>2. CASE ~InsertCheckpoint(r)
      <4>1. checkpoints' = checkpoints
        BY <3>2 DEF StartRun, Begin, RunStep, CountRetained, CheckpointStep, FindThrough,
               FindLatest, DeleteRetained, CountSince
      <4>2. QED
        BY <4>1 DEF CheckpointsStay
    <3>3. QED
      BY <3>1, <3>2
  <2>2. RowsAge /\ MentionsStay
    BY <1>5 DEF RowsAge, MentionsStay
  <2>3. \A e \in Event : log'[e].createdAt <= now'
    BY <1>2, <1>5 DEF EvidenceInv
  <2>4. QED
    BY <1>2, <1>3, <2>1, <2>2, <2>3, EvidenceRests
<1>6. QED
  BY <1>4, <1>5 DEF StartRun, Begin, RunStep, CountRetained, CheckpointStep, FindThrough,
     FindLatest, InsertCheckpoint, CountSince

LEMMA WorkflowStarts ==
    ASSUME AuditInv, ChainInv, EvidenceInv, NEW w \in Workflow, NEW s \in Subject,
           StartWorkflow(w, s)
    PROVE  EvidenceInv'
<1> DEFINE named == {e \in Kept : s \in log[e].mentions}
           versions == {Version(e) : e \in named}
           f == [Idle EXCEPT !.pc = "find", !.upTo = now, !.subject = s,
                             !.snapshot = versions]
<1>1. /\ w \in Handler /\ call' = [call EXCEPT ![w] = f]
      /\ overlapped => overlapped'
      /\ UNCHANGED <<log, checkpoints, now>>
  BY DEF StartWorkflow, Begin, Step, Handler
<1>2. f.pc = "find" /\ f.upTo = now /\ f.snapshot = versions
  BY DEF Idle
<1>3. \A v \in versions : \E e \in Kept : v = Version(e)
  OBVIOUS
<1> HIDE DEF f, versions, named
<1>4. call'[w] = f
  BY <1>1 DEF AuditInv, AuditTypeOK
<1>5. ASSUME NEW v \in f.snapshot
      PROVE  /\ log[v[1]].status = "kept" /\ log[v[1]].createdAt <= now
             /\ v = Version(v[1])
  <2>1. PICK e \in Kept : v = Version(e)
    BY <1>2, <1>3, <1>5
  <2>2. v[1] = e /\ e \in Event /\ log[e].status = "kept"
    BY <2>1 DEF Version, Kept
  <2>3. QED
    BY <2>1, <2>2 DEF EvidenceInv
<1>6. \A e : Version(e)' = Version(e)
  BY <1>1 DEF Version
<1>7. IsEvident(w)'
  BY <1>1, <1>2, <1>4, <1>5, <1>6 DEF IsEvident
<1>8. QED
  BY <1>1, <1>7, EvidenceMoves

LEMMA WorkflowFinds ==
    ASSUME AuditInv, EvidenceInv, NEW w \in Workflow, NEW upTo \in Time,
           FindThrough(w, upTo)
    PROVE  EvidenceInv'
<1> DEFINE through == {e \in Kept : log[e].createdAt <= upTo}
           versions == {Version(e) : e \in through}
           f == [call[w] EXCEPT !.pc = "latest", !.upTo = upTo, !.read = versions]
           g == [call[w] EXCEPT !.pc = "rewrite", !.read = {}, !.previous = 0]
<1>1. /\ w \in Handler /\ call[w] \in Frame /\ UNCHANGED <<log, checkpoints, now, overlapped>>
      /\ call[w].pc = "find" /\ call[w].upTo <= upTo /\ call[w].upTo \in Nat /\ upTo \in Nat
  <2>1. w \in Handler
    BY DEF Handler
  <2>2. call[w] \in Frame /\ call[w].upTo \in Nat /\ now \in Nat
    BY <2>1, CallFacts
  <2>3. QED
    BY <2>1, <2>2, TimeIsNat DEF FindThrough, MayRead, Step
<1>2. /\ \/ call' = [call EXCEPT ![w] = Idle]
         \/ through = {} /\ call' = [call EXCEPT ![w] = g]
         \/ call' = [call EXCEPT ![w] = f]
  BY DEF FindThrough, Step, Onwards
<1>3. /\ f.pc = "latest" /\ f.upTo = upTo /\ f.read = versions
      /\ f.snapshot = call[w].snapshot
      /\ g.pc = "rewrite" /\ g.upTo = call[w].upTo /\ g.snapshot = call[w].snapshot
  BY <1>1 DEF Frame
<1>4. ASSUME NEW v \in call[w].snapshot
      PROVE  /\ v[1] \in Event
             /\ log[v[1]].status \in {"kept", "deleted"}
             /\ log[v[1]].createdAt <= call[w].upTo
             /\ log[v[1]].createdAt <= upTo
             /\ log[v[1]].status = "kept" =>
                   /\ overlapped \/ v = Version(v[1])
                   /\ v[1] \in through /\ Version(v[1]) \in versions
  <2>1. v[1] \in Event
    BY <1>1, <1>4 DEF Frame, Signed
  <2>2. log[v[1]].createdAt \in Nat
    BY <2>1, TimeIsNat DEF AuditInv, AuditTypeOK, Row
  <2>3. /\ log[v[1]].status \in {"kept", "deleted"}
        /\ log[v[1]].createdAt <= call[w].upTo
        /\ log[v[1]].status = "kept" => overlapped \/ v = Version(v[1])
    BY <1>4 DEF EvidenceInv, IsEvident
  <2>4. log[v[1]].createdAt <= upTo
    BY <1>1, <2>2, <2>3
  <2>5. log[v[1]].status = "kept" => v[1] \in through
    BY <2>1, <2>4 DEF Kept
  <2>6. QED
    BY <2>1, <2>3, <2>4, <2>5
<1> HIDE DEF f, g, versions, through
<1>5. \A e : Version(e)' = Version(e) /\ Version(e)[1] = e
  BY <1>1 DEF Version
<1>6. CASE call' = [call EXCEPT ![w] = f]
  <2>1. call'[w] = f
    BY <1>1, <1>6 DEF AuditInv, AuditTypeOK
  <2>2. ASSUME NEW v \in f.snapshot, log[v[1]].status = "kept"
        PROVE  \E x \in f.read : x[1] = v[1] /\ (overlapped' \/ x = v)
    <3>1. Version(v[1]) \in f.read /\ (overlapped \/ v = Version(v[1]))
      BY <1>3, <1>4, <2>2
    <3>2. QED
      BY <1>1, <1>5, <3>1
  <2>3. ASSUME NEW v \in f.snapshot
        PROVE  /\ log[v[1]].status \in {"kept", "deleted"} /\ log[v[1]].createdAt <= f.upTo
               /\ log[v[1]].status = "kept" => overlapped \/ v = Version(v[1])
    BY <1>3, <1>4, <2>3
  <2>4. IsEvident(w)'
    BY <1>1, <1>3, <1>5, <2>1, <2>2, <2>3 DEF IsEvident, Has
  <2>5. QED
    BY <1>1, <1>6, <2>4, EvidenceMoves
<1>7. CASE through = {} /\ call' = [call EXCEPT ![w] = g]
  <2>1. call'[w] = g
    BY <1>1, <1>7 DEF AuditInv, AuditTypeOK
  <2>2. \A v \in g.snapshot : /\ log[v[1]].status = "deleted"
                              /\ log[v[1]].createdAt <= g.upTo
    BY <1>3, <1>4, <1>7
  <2>3. IsEvident(w)'
    BY <1>1, <1>3, <2>1, <2>2 DEF IsEvident
  <2>4. QED
    BY <1>1, <1>7, <2>3, EvidenceMoves
<1>8. CASE call' = [call EXCEPT ![w] = Idle]
  BY <1>1, <1>8, EvidenceMoves
<1>9. QED
  BY <1>2, <1>6, <1>7, <1>8

LEMMA WorkflowFindsLatest ==
    ASSUME AuditInv, EvidenceInv, NEW w \in Workflow, FindLatest(w, "latest", "insert")
    PROVE  EvidenceInv'
<1>1. /\ w \in Handler /\ call[w] \in Frame /\ UNCHANGED <<log, checkpoints, now, overlapped>>
      /\ call[w].pc = "latest" /\ IsEvident(w)
  BY CallFacts DEF FindLatest, Step, Handler, EvidenceInv
<1>2. PICK i : call' = [call EXCEPT ![w] = [call[w] EXCEPT !.pc = "insert", !.previous = i]]
  BY DEF FindLatest, Step
<1> DEFINE f == [call[w] EXCEPT !.pc = "insert", !.previous = i]
<1>3. /\ f.pc = "insert" /\ f.upTo = call[w].upTo /\ f.read = call[w].read
      /\ f.snapshot = call[w].snapshot
  BY <1>1 DEF Frame
<1>4. call' = [call EXCEPT ![w] = f] /\ call'[w] = f
  BY <1>1, <1>2 DEF AuditInv, AuditTypeOK
<1> HIDE DEF f
<1>5. \A e : Version(e)' = Version(e)
  BY <1>1 DEF Version
<1>6. ASSUME NEW v \in f.snapshot
      PROVE  /\ log[v[1]].status \in {"kept", "deleted"} /\ log[v[1]].createdAt <= f.upTo
             /\ log[v[1]].status = "kept" =>
                   (overlapped \/ v = Version(v[1])) /\ Has(f.read, v)
  BY <1>1, <1>3, <1>6 DEF IsEvident
<1>7. IsEvident(w)'
  BY <1>1, <1>3, <1>4, <1>5, <1>6 DEF IsEvident, Has
<1>8. QED
  BY <1>1, <1>4, <1>7, EvidenceMoves

LEMMA WorkflowInserts ==
    ASSUME AuditInv, EvidenceInv, NEW w \in Workflow, InsertCheckpoint(w)
    PROVE  EvidenceInv'
<1>1. /\ w \in Handler /\ call[w] \in Frame /\ UNCHANGED <<log, now, overlapped>>
      /\ call[w].pc = "insert" /\ IsEvident(w) /\ call' = [call EXCEPT ![w] = Onwards(w)]
  BY CallFacts DEF InsertCheckpoint, Step, Handler, EvidenceInv
<1>2. /\ CheckpointsStay
      /\ \E i \in DOMAIN checkpoints' : checkpoints'[i].events = call[w].read
  BY <1>1, CheckpointGrows
<1>3. IsEvident(w)'
  <2> DEFINE g == [call[w] EXCEPT !.pc = "rewrite", !.read = {}, !.previous = 0]
  <2>1. call'[w] = Onwards(w) /\ (Onwards(w) = Idle \/ Onwards(w) = g)
    BY <1>1 DEF AuditInv, AuditTypeOK, Onwards
  <2>2. g.pc = "rewrite" /\ g.upTo = call[w].upTo /\ g.snapshot = call[w].snapshot
    BY <1>1 DEF Frame
  <2> HIDE DEF g
  <2>3. ASSUME NEW v \in g.snapshot
        PROVE  /\ log[v[1]].status \in {"kept", "deleted"} /\ log[v[1]].createdAt <= g.upTo
               /\ log[v[1]].status = "kept" =>
                     /\ overlapped \/ v = Version(v[1])
                     /\ \E i \in DOMAIN checkpoints' : Has(checkpoints[i].events, v)'
    <3>1. /\ log[v[1]].status \in {"kept", "deleted"} /\ log[v[1]].createdAt <= g.upTo
          /\ log[v[1]].status = "kept" =>
                (overlapped \/ v = Version(v[1])) /\ Has(call[w].read, v)
      BY <1>1, <2>2, <2>3 DEF IsEvident
    <3>2. Has(call[w].read, v) =>
             \E i \in DOMAIN checkpoints' : Has(checkpoints[i].events, v)'
      BY <1>1, <1>2 DEF Has
    <3>3. QED
      BY <3>1, <3>2
  <2>4. CASE Onwards(w) = g
    <3>1. \A e : Version(e)' = Version(e)
      BY <1>1 DEF Version
    <3>2. call'[w] = g
      BY <2>1, <2>4
    <3>3. QED
      BY <1>1, <2>2, <2>3, <3>1, <3>2 DEF IsEvident
  <2>5. QED
    BY <2>1, <2>4, IdleIsEvident
<1>4. \A h \in Workflow : call'[h] = call[h] \/ IsEvident(h)'
  BY <1>1, <1>3 DEF AuditInv, AuditTypeOK, Handler
<1>5. RowsAge /\ MentionsStay /\ \A e \in Event : log'[e].createdAt <= now'
  BY <1>1 DEF RowsAge, MentionsStay, EvidenceInv
<1>6. QED
  BY <1>1, <1>2, <1>4, <1>5, EvidenceRests

\* The calls that had read what is rewritten now overlapped this one.
LEMMA WorkflowRewrites ==
    ASSUME AuditInv, ChainInv, EvidenceInv, NEW w \in Workflow, NEW e \in Event,
           Rewrite(w, e)
    PROVE  EvidenceInv'
<1>1. /\ w \in Handler /\ call' = [call EXCEPT ![w] = Idle] /\ call[w].pc = "rewrite"
      /\ UNCHANGED <<checkpoints, now, overlapped>> /\ now \in Nat
  BY CallFacts DEF Rewrite, Step, Handler
<1>2. /\ log[e].status = "absent"
      /\ \A i \in Event : i # e => /\ log'[i].status = log[i].status
                                   /\ log'[i].createdAt = log[i].createdAt
  BY RewriteWrites
<1>3. RowsAge /\ CheckpointsStay
  BY <1>1, <1>2 DEF RowsAge, CheckpointsStay
<1>4. \A h \in Workflow : call[h].snapshot = {} \/ overlapped' \/ h = w
  <2> SUFFICES ASSUME NEW h \in Workflow, ~overlapped, h # w PROVE call[h].snapshot = {}
    BY <1>1
  <2>1. call[h].pc = "idle"
    BY <1>1 DEF ChainInv, IsOrderly, Handler
  <2>2. QED
    BY <2>1 DEF EvidenceInv, IsEvident
<1>5. ASSUME NEW h \in Workflow PROVE IsEvident(h)'
  <2>1. CASE h = w
    BY <1>1, <2>1, IdleIsEvident DEF AuditInv, AuditTypeOK
  <2>2. CASE h # w
    <3>1. call'[h] = call[h]
      BY <1>1, <2>2 DEF AuditInv, AuditTypeOK, Handler
    <3>2. QED
      BY <1>1, <1>3, <1>4, <2>2, <3>1, EvidentRests DEF EvidenceInv
  <2>3. QED
    BY <2>1, <2>2
<1>6. log'[e].createdAt = now
  BY <1>1 DEF Rewrite, NoRow, AuditInv, AuditTypeOK
<1>7. \A i \in Event : log'[i].createdAt <= now'
  BY <1>1, <1>2, <1>6 DEF EvidenceInv
<1>8. QED
  BY <1>5, <1>7 DEF EvidenceInv

LEMMA EventsAreEvident ==
    ASSUME AuditInv, EvidenceInv, NEW e \in Event,
           (\E written \in Written : Log(e, written)) \/ LogEnds(e)
    PROVE  EvidenceInv'
<1>1. /\ log \in [Event -> Row] /\ now \in Nat /\ log[e].status \in {"absent", "open"}
      /\ UNCHANGED <<checkpoints, now, call, overlapped>>
      /\ \A i \in Event : i # e => log'[i] = log[i]
  BY TimeIsNat DEF AuditInv, AuditTypeOK, Log, LogEnds
<1>2. RowsAge /\ MentionsStay /\ CheckpointsStay
  BY <1>1 DEF RowsAge, MentionsStay, CheckpointsStay
<1>3. log'[e].createdAt <= now
  <2>1. ASSUME NEW written \in Written, Log(e, written) PROVE log'[e].createdAt = now
    BY <1>1, <2>1 DEF Log, NoRow
  <2>2. ASSUME LogEnds(e) PROVE log'[e].createdAt \in {log[e].createdAt, 0}
    BY <1>1, <2>2 DEF LogEnds, NoRow, Row
  <2>3. QED
    BY <1>1, <2>1, <2>2 DEF EvidenceInv
<1>4. \A i \in Event : log'[i].createdAt <= now'
  BY <1>1, <1>3 DEF EvidenceInv
<1>5. QED
  BY <1>1, <1>2, <1>4, EvidenceRests

LEMMA TrailEvident == AuditInv /\ ChainInv /\ EvidenceInv /\ TrailNext => EvidenceInv'
<1> SUFFICES ASSUME AuditInv, ChainInv, EvidenceInv, TrailNext PROVE EvidenceInv'
  OBVIOUS
<1>1. CASE Tick
  <2>1. now \in Nat /\ now' = now + 1 /\ UNCHANGED <<log, checkpoints, call, overlapped>>
    BY <1>1, TimeIsNat DEF AuditInv, AuditTypeOK, Tick
  <2>2. \A e \in Event : log[e].createdAt \in Nat
    BY TimeIsNat DEF AuditInv, AuditTypeOK, Row
  <2>3. \A e \in Event : log'[e].createdAt <= now'
    BY <2>1, <2>2 DEF EvidenceInv
  <2>4. RowsAge /\ MentionsStay /\ CheckpointsStay
    BY <2>1 DEF RowsAge, MentionsStay, CheckpointsStay
  <2>5. QED
    BY <2>1, <2>3, <2>4, EvidenceRests
<1>2. ASSUME NEW h \in Handler, Fail(h) \/ (h \in Workflow /\ RewriteThrows(h))
      PROVE  EvidenceInv'
  BY <1>2, EvidenceMoves DEF Fail, Fault, RewriteThrows, Step
<1>3. ASSUME NEW w \in Workflow, CheckpointStep(w) PROVE EvidenceInv'
  BY <1>3, WorkflowFinds, WorkflowFindsLatest, WorkflowInserts DEF CheckpointStep
<1>4. QED
  BY <1>1, <1>2, <1>3, RunEvident, EventsAreEvident, WorkflowStarts, WorkflowRewrites
  DEF TrailNext, Handler

\* What a rewrite overwrites is under a checkpoint.
LEMMA RewriteIsCovered ==
    ASSUME AuditInv, EvidenceInv, TrailNext, NEW e \in Event,
           log[e].status = "kept", log'[e].mentions # log[e].mentions
    PROVE  \E i \in DOMAIN checkpoints :
              Covers(i, e) /\ (overlapped \/ Version(e) \in checkpoints[i].events)
<1>1. PICK w \in Workflow, i \in Event : Rewrite(w, i)
  <2>1. log \in [Event -> Row]
    BY DEF AuditInv, AuditTypeOK
  <2>2. ASSUME NEW i \in Event, (\E written \in Written : Log(i, written)) \/ LogEnds(i)
        PROVE  log'[e] = log[e]
    BY <2>1, <2>2 DEF Log, LogEnds
  <2>3. ASSUME NEW r \in Run, DeleteRetained(r)
        PROVE  log'[e].mentions = log[e].mentions
    BY <2>1, <2>3 DEF DeleteRetained, Row
  <2>4. \A h : CheckpointStep(h) => log' = log
    BY DEF CheckpointStep, FindThrough, FindLatest, InsertCheckpoint
  <2>5. \A r : StartRun(r) \/ RunStep(r) => log' = log \/ DeleteRetained(r)
    BY <2>4 DEF StartRun, Begin, RunStep, CountRetained, FindLatest, CountSince
  <2>6. \A w : /\ \A s : StartWorkflow(w, s) => log' = log
               /\ RewriteThrows(w) => log' = log
               /\ Fail(w) => log' = log
    BY DEF StartWorkflow, Begin, RewriteThrows, Fail
  <2>7. QED
    BY <2>2, <2>3, <2>4, <2>5, <2>6 DEF TrailNext, Tick
<1>2. PICK v \in call[w].snapshot : v[1] = e
  BY <1>1, RewriteWrites
<1>3. /\ overlapped \/ v = Version(e)
      /\ \E j \in DOMAIN checkpoints : Has(checkpoints[j].events, v)
  BY <1>1, <1>2 DEF EvidenceInv, IsEvident, Rewrite
<1>4. QED
  BY <1>2, <1>3 DEF Has, Covers

-------------------------------------------------------------------------------
(* The deployment                                                            *)

\* A row of before that is not in the trail has left no trace in it.
RowsHaveAPlace ==
    /\ source \cap staged = {}
    /\ \A e \in Legacy : IF e \in source \cup staged THEN log[e].status = "absent"
                         ELSE log[e].status = "kept" /\ log[e].class = "SECURITY"
    /\ ~complete /\ (schema = "legacy" \/ controls) => source \cup staged = Legacy

TablesHaveAPlace ==
    /\ live \cup parked \cup copied = Table
    /\ live \cap parked = {} /\ (live \cup parked) \cap copied = {}

\* What the steps behind the deployment have done.
StepsAreDone ==
    /\ ~controls \/ complete => staged = {}
    /\ complete => controls /\ schema = "final"
    /\ schema \in {"enveloped", "final"} \/ (controls /\ schema = "hardened") => source = {}
    /\ deploy \in {"restoreTables", "restoreAudit", "start", "up"} => schema = "final" /\ ~failed
    /\ copied # {} => failed
    /\ deploy \in {"restoreAudit", "start", "up"} => parked = {}
    /\ deploy \in {"start", "up"} => staged = {}

\* Neither a row nor what a workflow has read of it names others than its anchor.
AnchorsHold ==
    complete => \A e \in Legacy : \E a \in anchors :
        /\ a[1] = e /\ log[e].mentions \subseteq a[2]
        /\ \A h \in Handler : \A v \in call[h].snapshot : v[1] = e => v[2] \subseteq a[2]

DeployInv ==
    /\ DeployTypeOK
    /\ deploy # "up" => \A h \in Handler : call[h] = Idle
    /\ RowsHaveAPlace
    /\ TablesHaveAPlace
    /\ StepsAreDone
    /\ AnchorsHold

Inv == AuditInv /\ DeployInv

LEMMA Initially == Init => Inv
<1> SUFFICES ASSUME Init PROVE Inv
  OBVIOUS
<1>1. /\ AuditInit /\ schema \in {"legacy", "hardened"} /\ deploy = "down"
      /\ failed = FALSE /\ shipped \in BOOLEAN
      /\ source = Legacy /\ staged = {} /\ controls = FALSE
      /\ anchors = {} /\ complete = FALSE /\ live = Table /\ parked = {} /\ copied = {}
  BY DEF Init
<1>2. AuditInv
  BY <1>1, TrailInitially
<1>3. controls \in BOOLEAN /\ complete \in BOOLEAN /\ failed \in BOOLEAN
  BY <1>1
<1>4. DeployTypeOK
  BY <1>1, <1>3 DEF DeployTypeOK, Schema
<1>5. \A h \in Handler : call[h] = Idle
  BY <1>1 DEF AuditInit
<1>6. \A e \in Legacy : log[e].status = "absent"
  BY <1>1, LegacyRowsAreEvents DEF AuditInit, NoRow
<1>7. RowsHaveAPlace /\ TablesHaveAPlace
  BY <1>1, <1>6 DEF RowsHaveAPlace, TablesHaveAPlace
<1>8. StepsAreDone /\ AnchorsHold
  BY <1>1 DEF StepsAreDone, AnchorsHold
<1>9. QED
  BY <1>2, <1>4, <1>5, <1>7, <1>8 DEF Inv, DeployInv

\* The bot runs: all rows of before are in the trail, where they are evidence.
LEMMA BotKeeps == Inv /\ BotRuns => Inv'
<1> SUFFICES ASSUME Inv, BotRuns PROVE Inv'
  OBVIOUS
<1>1. /\ AuditInv /\ DeployInv /\ TrailNext /\ deploy = "up"
      /\ UNCHANGED deploy
      /\ UNCHANGED <<schema, failed, shipped, source, staged, controls, anchors, complete>>
      /\ UNCHANGED <<live, parked, copied>>
  BY DEF Inv, BotRuns, BotDoes, deployVars, databaseVars, rowVars, tableVars
<1>2. AuditInv'
  BY <1>1, TrailKeeps
<1>3. source = {} /\ staged = {}
  BY <1>1 DEF DeployInv, StepsAreDone
<1>4. \A e \in Legacy : e \in Event /\ log[e].status = "kept" /\ log[e].class = "SECURITY"
  BY <1>1, <1>3, LegacyRowsAreEvents DEF DeployInv, RowsHaveAPlace
<1>5. \A e \in Legacy :
         /\ log'[e].status = "kept" /\ log'[e].class = "SECURITY"
         /\ \/ log'[e] = log[e]
            \/ \E w \in Workflow : \E v \in call[w].snapshot :
                  v[1] = e /\ log'[e].mentions \subseteq v[2]
  BY <1>1, <1>4, EvidenceStays
<1>6. RowsHaveAPlace'
  BY <1>1, <1>3, <1>5 DEF DeployInv, RowsHaveAPlace
<1>7. AnchorsHold'
  <2> SUFFICES ASSUME complete, NEW e \in Legacy
               PROVE  \E a \in anchors :
                        /\ a[1] = e /\ log'[e].mentions \subseteq a[2]
                        /\ \A h \in Handler : \A v \in call'[h].snapshot :
                              v[1] = e => v[2] \subseteq a[2]
    BY <1>1 DEF AnchorsHold
  <2>1. PICK a \in anchors :
           /\ a[1] = e /\ log[e].mentions \subseteq a[2]
           /\ \A h \in Handler : \A v \in call[h].snapshot : v[1] = e => v[2] \subseteq a[2]
    BY <1>1 DEF DeployInv, AnchorsHold
  <2>2. log'[e].mentions \subseteq a[2]
    BY <1>5, <2>1 DEF Handler
  <2>3. ASSUME NEW h \in Handler, NEW v \in call'[h].snapshot, v[1] = e
        PROVE  v[2] \subseteq a[2]
    <3>1. CASE v \in call[h].snapshot
      BY <2>1, <2>3, <3>1
    <3>2. CASE v \notin call[h].snapshot
      <4>1. PICK i \in Kept : v = Version(i)
        BY <1>1, <2>3, <3>2, SnapshotsStay
      <4>2. i = e /\ v[2] = log[e].mentions
        BY <2>3, <4>1 DEF Version
      <4>3. QED
        BY <2>1, <4>2
    <3>3. QED
      BY <3>1, <3>2
  <2>4. QED
    BY <2>1, <2>2, <2>3
<1>8. DeployTypeOK' /\ TablesHaveAPlace' /\ StepsAreDone'
  BY <1>1 DEF DeployInv, DeployTypeOK, TablesHaveAPlace, StepsAreDone
<1>9. QED
  BY <1>1, <1>2, <1>6, <1>7, <1>8 DEF Inv, DeployInv

\* What is known of rows and anchors rests on these variables alone.
LEMMA TrailUntouched ==
    ASSUME DeployInv, UNCHANGED <<log, call, source, staged, controls, complete, anchors>>,
           schema' = "legacy" => schema = "legacy"
    PROVE  RowsHaveAPlace' /\ AnchorsHold'
<1>1. RowsHaveAPlace'
  BY DEF DeployInv, RowsHaveAPlace
<1>2. AnchorsHold'
  BY DEF DeployInv, AnchorsHold
<1>3. QED
  BY <1>1, <1>2

\* An await of the deployment throws, or its process is killed.
LEMMA DeathKeeps ==
    ASSUME AuditInv, Fault(call), UNCHANGED log
    PROVE  AuditInv'
<1>1. /\ UNCHANGED <<log, checkpoints, now, call, overlapped>> /\ faults' = faults + 1
      /\ faults < MaxFaults
  BY DEF Fault
<1>2. AuditTypeOK /\ log' \in [Event -> Row] /\ faults' \in 0..MaxFaults
      /\ overlapped' \in BOOLEAN
  BY <1>1, RetentionAssumption DEF AuditInv, AuditTypeOK
<1>3. QED
  BY <1>1, <1>2, RowsChange

\* What leaves the trail alone preserves what is known of it.
LEMMA TrailStutters == AuditInv /\ UNCHANGED auditVars => AuditInv'
<1> SUFFICES ASSUME AuditInv, UNCHANGED auditVars PROVE AuditInv'
  OBVIOUS
<1>1. UNCHANGED <<log, checkpoints, now, call, faults, overlapped>>
  BY DEF auditVars
<1>2. AuditTypeOK /\ log' \in [Event -> Row] /\ faults' \in 0..MaxFaults
      /\ overlapped' \in BOOLEAN
  BY <1>1 DEF AuditInv, AuditTypeOK
<1>3. QED
  BY <1>1, <1>2, RowsChange

LEMMA StopKeeps == Inv /\ StopBot => Inv'
<1> SUFFICES ASSUME Inv, StopBot PROVE Inv'
  OBVIOUS
<1>1. /\ AuditInv /\ DeployInv /\ ProcessEnds /\ deploy = "up" /\ deploy' = "down"
      /\ UNCHANGED <<schema, failed, shipped, source, staged, controls, anchors, complete>>
      /\ UNCHANGED <<live, parked, copied>>
  BY DEF Inv, StopBot, GoTo, databaseVars, rowVars, tableVars
<1>2. AuditInv'
  BY <1>1, EndKeeps
<1>3. call' = [h \in Handler |-> Idle] /\ Idle.snapshot = {}
  BY <1>1 DEF ProcessEnds, Fault, Idle
<1>4. \A e \in Legacy : log[e].status # "open" => log'[e] = log[e]
  BY <1>1, LegacyRowsAreEvents DEF ProcessEnds
<1>5. \A e \in Legacy : log'[e] = log[e]
  BY <1>1, <1>4 DEF DeployInv, RowsHaveAPlace
<1>6. RowsHaveAPlace'
  BY <1>1, <1>5 DEF DeployInv, RowsHaveAPlace
<1>7. AnchorsHold'
  BY <1>1, <1>3, <1>5 DEF DeployInv, AnchorsHold
<1>8. DeployTypeOK' /\ TablesHaveAPlace' /\ StepsAreDone'
  BY <1>1 DEF DeployInv, DeployTypeOK, TablesHaveAPlace, StepsAreDone
<1>9. QED
  BY <1>2, <1>3, <1>6, <1>7, <1>8 DEF Inv, DeployInv

LEMMA StagesKeep == Inv /\ (StageAudit \/ StageTables) => Inv'
<1> SUFFICES ASSUME Inv, StageAudit \/ StageTables PROVE Inv'
  OBVIOUS
<1>1. /\ AuditInv /\ DeployInv
      /\ UNCHANGED <<auditVars, log, call, schema, failed, shipped, anchors, complete, copied>>
  BY DEF Inv, StageAudit, StageTables, auditVars, rowVars, tableVars
<1>2. AuditInv'
  BY <1>1, TrailStutters
<1>3. CASE StageAudit
  <2>1. /\ deploy = "stageAudit" /\ deploy' = "stageTables" /\ UNCHANGED <<live, parked>>
    BY <1>3 DEF StageAudit, GoTo, tableVars
  <2>2. CASE complete \/ schema # "legacy"
    <3>1. UNCHANGED <<source, staged, controls>>
      BY <1>3, <2>2 DEF StageAudit
    <3>2. RowsHaveAPlace' /\ AnchorsHold'
      BY <1>1, <3>1, TrailUntouched
    <3>3. DeployTypeOK' /\ TablesHaveAPlace' /\ StepsAreDone'
      BY <1>1, <2>1, <3>1 DEF DeployInv, DeployTypeOK, TablesHaveAPlace, StepsAreDone
    <3>4. QED
      BY <1>1, <1>2, <2>1, <3>2, <3>3 DEF Inv, DeployInv
  <2>3. CASE ~complete /\ schema = "legacy"
    <3>1. staged' = staged \cup source /\ source' = {} /\ controls' = TRUE
      BY <1>3, <2>3 DEF StageAudit
    <3>2. RowsHaveAPlace'
      <4>1. source' \cup staged' = source \cup staged /\ source' \cap staged' = {}
        BY <3>1
      <4>2. RowsHaveAPlace
        BY <1>1 DEF DeployInv
      <4>3. source \cup staged = Legacy
        BY <2>3, <4>2 DEF RowsHaveAPlace
      <4>4. log' = log
        BY <1>1
      <4>5. \A e \in Legacy : IF e \in source' \cup staged' THEN log'[e].status = "absent"
                              ELSE log'[e].status = "kept" /\ log'[e].class = "SECURITY"
        BY <4>1, <4>2, <4>4 DEF RowsHaveAPlace
      <4>6. QED
        BY <4>1, <4>3, <4>5 DEF RowsHaveAPlace
    <3>3. AnchorsHold'
      BY <1>1, <2>3 DEF AnchorsHold
    <3>4. controls' \in BOOLEAN
      BY <3>1
    <3>5. DeployTypeOK'
      BY <1>1, <2>1, <3>1, <3>4 DEF DeployInv, DeployTypeOK
    <3>6. TablesHaveAPlace' /\ StepsAreDone'
      BY <1>1, <2>1, <2>3, <3>1 DEF DeployInv, TablesHaveAPlace, StepsAreDone
    <3>7. QED
      BY <1>1, <1>2, <2>1, <3>2, <3>3, <3>5, <3>6 DEF Inv, DeployInv
  <2>4. QED
    BY <2>2, <2>3
<1>4. CASE StageTables
  <2>1. /\ deploy = "stageTables" /\ deploy' = "migrate"
        /\ UNCHANGED <<source, staged, controls>>
        /\ \/ UNCHANGED <<live, parked>>
           \/ parked' = parked \cup (live \cap Staged) /\ live' = live \ Staged
    BY <1>4 DEF StageTables, GoTo, rowVars, tableVars
  <2>2. RowsHaveAPlace' /\ AnchorsHold'
    BY <1>1, <2>1, TrailUntouched
  <2>3. TablesHaveAPlace'
    BY <1>1, <2>1 DEF DeployInv, TablesHaveAPlace
  <2>4. DeployTypeOK'
    BY <1>1, <2>1 DEF DeployInv, DeployTypeOK
  <2>5. StepsAreDone'
    BY <1>1, <2>1 DEF DeployInv, StepsAreDone
  <2>6. QED
    BY <1>1, <1>2, <2>1, <2>2, <2>3, <2>4, <2>5 DEF Inv, DeployInv
<1>5. QED
  BY <1>3, <1>4

\* Rows that come from where they were into the trail, under Import.
LEMMA ImportedRows ==
    ASSUME Inv, NEW D \in SUBSET Legacy, NEW rows, DOMAIN rows = D, Import(rows)
    PROVE  /\ log' = [e \in Event |-> IF e \in D THEN rows[e] ELSE log[e]]
           /\ \A e \in Legacy : log'[e] = IF e \in D THEN rows[e] ELSE log[e]
           /\ \A e \in D : rows[e].status = "kept" /\ rows[e].class = "SECURITY"
           /\ UNCHANGED <<checkpoints, now, call, faults, overlapped>>
  BY LegacyRowsAreEvents DEF Import

\* What every migration leaves as it is.
LEMMA MigratesGently ==
    ASSUME Inv, NEW from \in Schema, NEW to \in Schema, Migrates(from, to)
    PROVE  /\ AuditInv /\ DeployInv /\ deploy = "migrate" /\ deploy' = "migrate"
           /\ schema = from /\ schema' = to /\ ~failed
           /\ UNCHANGED <<failed, shipped, live, parked, copied>>
  BY DEF Inv, Migrates, tableVars

LEMMA PlainMigrationsKeep == Inv /\ (Harden \/ CutOver \/ MigrateEnds) => Inv'
<1> SUFFICES ASSUME Inv, Harden \/ CutOver \/ MigrateEnds PROVE Inv'
  OBVIOUS
<1>1. /\ AuditInv /\ DeployInv /\ UNCHANGED <<auditVars, log, call>> /\ deploy = "migrate"
      /\ UNCHANGED <<failed, shipped, source, staged, controls, anchors, complete>>
      /\ UNCHANGED <<live, parked, copied>>
      /\ \/ /\ deploy' = "migrate" /\ schema = "legacy" /\ schema' = "hardened" /\ source = {}
         \/ deploy' = "migrate" /\ schema = "enveloped" /\ schema' = "final"
         \/ deploy' = "restoreTables" /\ schema = "final" /\ schema' = "final" /\ ~failed
  BY DEF Inv, Harden, CutOver, MigrateEnds, Migrates, GoTo, auditVars, databaseVars, rowVars,
     tableVars
<1>2. AuditInv'
  BY <1>1, TrailStutters
<1>3. RowsHaveAPlace' /\ AnchorsHold'
  BY <1>1, TrailUntouched
<1>4. DeployTypeOK' /\ TablesHaveAPlace'
  BY <1>1 DEF DeployInv, DeployTypeOK, TablesHaveAPlace, Schema
<1>5. StepsAreDone'
  BY <1>1 DEF DeployInv, StepsAreDone
<1>6. QED
  BY <1>1, <1>2, <1>3, <1>4, <1>5 DEF Inv, DeployInv

LEMMA EnvelopeKeeps == Inv /\ Envelope => Inv'
<1> SUFFICES ASSUME Inv, Envelope PROVE Inv'
  OBVIOUS
<1>1. /\ AuditInv /\ DeployInv /\ deploy = "migrate" /\ deploy' = "migrate"
      /\ schema = "hardened" /\ schema' = "enveloped" /\ source' = {}
      /\ UNCHANGED <<failed, shipped, staged, controls, anchors, complete, live, parked, copied>>
  BY MigratesGently DEF Envelope, Schema
<1> DEFINE Imported == {[NoRow EXCEPT !.status = "kept", !.mentions = mentions,
                                      !.verifies = FALSE] : mentions \in SUBSET Subject}
<1>2. PICK rows \in [source -> Imported] : Import(rows)
  BY DEF Envelope
<1>3. Imported \subseteq Row
  BY TimeIsNat DEF NoRow, Row
<1> HIDE DEF Imported
<1>4. source \in SUBSET Legacy /\ source \in SUBSET Event /\ rows \in [source -> Row]
  BY <1>1, <1>2, <1>3, LegacyRowsAreEvents DEF DeployInv, DeployTypeOK
<1>5. AuditInv'
  BY <1>1, <1>2, <1>4, ImportKeeps
<1>6. /\ \A e \in Legacy : log'[e] = IF e \in source THEN rows[e] ELSE log[e]
      /\ \A e \in source : rows[e].status = "kept" /\ rows[e].class = "SECURITY"
      /\ UNCHANGED call
  BY <1>2, <1>4, ImportedRows
<1>7. RowsHaveAPlace'
  <2>1. source' \cap staged' = {}
    BY <1>1
  <2>2. ASSUME NEW e \in Legacy
        PROVE  IF e \in source' \cup staged' THEN log'[e].status = "absent"
               ELSE log'[e].status = "kept" /\ log'[e].class = "SECURITY"
    BY <1>1, <1>6 DEF DeployInv, RowsHaveAPlace
  <2>3. ~complete /\ controls => source \cup staged = Legacy /\ source = {}
    BY <1>1 DEF DeployInv, RowsHaveAPlace, StepsAreDone, DeployTypeOK
  <2>4. QED
    BY <1>1, <2>1, <2>2, <2>3 DEF RowsHaveAPlace
<1>8. complete => source = {}
  BY <1>1 DEF DeployInv, StepsAreDone, DeployTypeOK
<1>9. AnchorsHold'
  BY <1>1, <1>6, <1>8 DEF DeployInv, AnchorsHold
<1>10. DeployTypeOK'
  BY <1>1 DEF DeployInv, DeployTypeOK, Schema
<1>11. TablesHaveAPlace' /\ StepsAreDone'
  BY <1>1 DEF DeployInv, TablesHaveAPlace, StepsAreDone
<1>12. QED
  BY <1>1, <1>5, <1>6, <1>7, <1>9, <1>10, <1>11 DEF Inv, DeployInv

LEMMA RestoreTablesKeeps == Inv /\ RestoreTables => Inv'
<1> SUFFICES ASSUME Inv, RestoreTables PROVE Inv'
  OBVIOUS
<1>1. /\ AuditInv /\ DeployInv /\ deploy = "restoreTables" /\ deploy' = "restoreAudit"
      /\ live' = live \cup parked /\ parked' = {}
      /\ UNCHANGED <<auditVars, log, call, schema, failed, shipped, copied>>
      /\ UNCHANGED <<source, staged, controls, anchors, complete>>
  BY DEF Inv, RestoreTables, GoTo, auditVars, rowVars
<1>2. AuditInv'
  BY <1>1, TrailStutters
<1>3. RowsHaveAPlace' /\ AnchorsHold'
  BY <1>1, TrailUntouched
<1>4. DeployTypeOK' /\ TablesHaveAPlace'
  BY <1>1 DEF DeployInv, DeployTypeOK, TablesHaveAPlace
<1>5. StepsAreDone'
  BY <1>1 DEF DeployInv, StepsAreDone
<1>6. QED
  BY <1>1, <1>2, <1>3, <1>4, <1>5 DEF Inv, DeployInv

LEMMA RestoreAuditKeeps == Inv /\ RestoreAudit => Inv'
<1> SUFFICES ASSUME Inv, RestoreAudit PROVE Inv'
  OBVIOUS
<1>1. /\ AuditInv /\ DeployInv /\ deploy = "restoreAudit" /\ deploy' = "start"
      /\ schema = "final" /\ source = {} /\ parked = {}
      /\ \A h \in Handler : call[h] = Idle
      /\ UNCHANGED <<schema, failed, shipped, source, controls, live, parked, copied>> /\ ~failed
  BY DEF Inv, RestoreAudit, GoTo, DeployInv, StepsAreDone, tableVars
<1>2. CASE complete \/ ~controls
  <2>1. UNCHANGED <<auditVars, log, call, anchors, staged, complete>>
    BY <1>2 DEF RestoreAudit, auditVars
  <2>2. AuditInv'
    BY <1>1, <2>1, TrailStutters
  <2>3. RowsHaveAPlace' /\ AnchorsHold'
    BY <1>1, <2>1, TrailUntouched
  <2>4. DeployTypeOK' /\ TablesHaveAPlace' /\ StepsAreDone'
    BY <1>1, <1>2, <2>1 DEF DeployInv, DeployTypeOK, TablesHaveAPlace, StepsAreDone
  <2>5. QED
    BY <1>1, <2>1, <2>2, <2>3, <2>4 DEF Inv, DeployInv
<1>3. CASE ~complete /\ controls
  <2>1. PICK rows \in [staged -> Restorable] :
           Import(rows) /\ anchors' = {<<e, rows[e].mentions>> : e \in staged}
    BY <1>3 DEF RestoreAudit
  <2>2. complete' = TRUE /\ staged' = {} /\ staged = Legacy
    BY <1>1, <1>3 DEF RestoreAudit, DeployInv, RowsHaveAPlace
  <2>3. Restorable \subseteq Row /\ \A row \in Restorable : row.mentions \in SUBSET Subject
    BY DEF Restorable, Row
  <2>4. staged \in SUBSET Event /\ staged \in SUBSET Legacy /\ rows \in [staged -> Row]
    BY <2>1, <2>2, <2>3, LegacyRowsAreEvents
  <2>5. AuditInv'
    BY <1>1, <2>1, <2>4, ImportKeeps
  <2>6. /\ \A e \in Legacy : log'[e] = rows[e]
        /\ \A e \in Legacy : rows[e].status = "kept" /\ rows[e].class = "SECURITY"
        /\ UNCHANGED call
    BY <2>1, <2>2, <2>4, ImportedRows
  <2>7. RowsHaveAPlace'
    BY <1>1, <2>2, <2>6 DEF RowsHaveAPlace
  <2>8. AnchorsHold'
    <3> SUFFICES ASSUME NEW e \in Legacy
                 PROVE  \E a \in anchors' :
                          /\ a[1] = e /\ log'[e].mentions \subseteq a[2]
                          /\ \A h \in Handler : \A v \in call'[h].snapshot :
                                v[1] = e => v[2] \subseteq a[2]
      BY DEF AnchorsHold
    <3>1. <<e, rows[e].mentions>> \in anchors'
      BY <2>1, <2>2
    <3>2. \A h \in Handler : call'[h].snapshot = {}
      BY <1>1, <2>6 DEF Idle
    <3>3. QED
      BY <2>6, <3>1, <3>2
  <2>9. anchors' \subseteq Anchor
    BY <2>1, <2>2, <2>3 DEF Anchor
  <2>10. complete' \in BOOLEAN
    BY <2>2
  <2>11. DeployTypeOK'
    BY <1>1, <2>2, <2>9, <2>10 DEF DeployInv, DeployTypeOK
  <2>12. TablesHaveAPlace' /\ StepsAreDone'
    BY <1>1, <1>3, <2>2 DEF DeployInv, TablesHaveAPlace, StepsAreDone
  <2>13. QED
    BY <1>1, <2>5, <2>6, <2>7, <2>8, <2>11, <2>12 DEF Inv, DeployInv
<1>4. QED
  BY <1>2, <1>3

LEMMA StopsKeep == Inv /\ (MigrateStops \/ DeployDies \/ Refuse) => Inv'
<1> SUFFICES ASSUME Inv, MigrateStops \/ DeployDies \/ Refuse PROVE Inv'
  OBVIOUS
<1>1. /\ AuditInv /\ DeployInv /\ deploy # "up" /\ deploy' = "down"
      /\ UNCHANGED <<log, call, schema, shipped, source, staged, controls, anchors, complete>>
      /\ UNCHANGED parked
  BY DEF Inv, MigrateStops, DeployDies, Refuse, GoTo, Fault, auditVars, databaseVars, rowVars,
     tableVars
<1>2. AuditInv'
  BY <1>1, DeathKeeps, TrailStutters DEF MigrateStops, DeployDies, Refuse
<1>3. \/ UNCHANGED <<failed, live, copied>>
      \/ failed' = TRUE /\ UNCHANGED <<live, copied>>
      \/ /\ failed' = TRUE
         /\ \E t \in live : live' = live \ {t} /\ copied' = copied \cup {t}
  BY DEF MigrateStops, DeployDies, Refuse, databaseVars, tableVars
<1>4. failed' \in BOOLEAN
  BY <1>1, <1>3 DEF DeployInv, DeployTypeOK
<1>5. RowsHaveAPlace' /\ AnchorsHold'
  BY <1>1, TrailUntouched
<1>6. TablesHaveAPlace'
  BY <1>1, <1>3 DEF DeployInv, TablesHaveAPlace
<1>7. DeployTypeOK'
  BY <1>1, <1>3, <1>4 DEF DeployInv, DeployTypeOK
<1>8. StepsAreDone'
  BY <1>1, <1>3 DEF DeployInv, StepsAreDone
<1>9. QED
  BY <1>1, <1>2, <1>5, <1>6, <1>7, <1>8 DEF Inv, DeployInv

LEMMA GoesKeep == Inv /\ (StartDeploy \/ StartBot \/ UNCHANGED vars) => Inv'
<1> SUFFICES ASSUME Inv, StartDeploy \/ StartBot \/ UNCHANGED vars PROVE Inv'
  OBVIOUS
<1>1. /\ AuditInv /\ DeployInv /\ UNCHANGED <<auditVars, log, call>>
      /\ UNCHANGED <<schema, failed, shipped, source, staged, controls, anchors, complete>>
      /\ UNCHANGED <<live, parked, copied>>
      /\ \/ deploy' = deploy
         \/ deploy = "down" /\ deploy' = "stageAudit"
         \/ deploy = "start" /\ deploy' = "up"
  BY DEF Inv, StartDeploy, StartBot, GoTo, vars, deployVars, databaseVars, auditVars, rowVars,
     tableVars
<1>2. AuditInv'
  BY <1>1, TrailStutters
<1>3. RowsHaveAPlace' /\ AnchorsHold'
  BY <1>1, TrailUntouched
<1>4. DeployTypeOK' /\ TablesHaveAPlace' /\ StepsAreDone'
  BY <1>1 DEF DeployInv, DeployTypeOK, TablesHaveAPlace, StepsAreDone
<1>5. QED
  BY <1>1, <1>2, <1>3, <1>4 DEF Inv, DeployInv

\* What every step of bot and deployment preserves.
LEMMA InvIsInductive == Inv /\ [Next]_vars => Inv'
  BY BotKeeps, StopKeeps, StagesKeep, PlainMigrationsKeep, EnvelopeKeeps, RestoreTablesKeeps,
     RestoreAuditKeeps, StopsKeep, GoesKeep DEF Next, DeployStep

\* The bot builds the chain; a deployment leaves it alone, or ends every call.
LEMMA ChainInitially == Init => ChainInv
<1> SUFFICES ASSUME Init PROVE ChainInv
  OBVIOUS
<1>1. checkpoints = <<>> /\ call = [h \in Handler |-> Idle]
  BY DEF Init, AuditInit
<1>2. DOMAIN checkpoints = {}
  BY <1>1
<1>3. \A h \in Handler : call[h].pc = "idle"
  BY <1>1 DEF Idle
<1>4. QED
  BY <1>2, <1>3 DEF ChainInv, IsOrderly

LEMMA ChainStays == Inv /\ ChainInv /\ [Next]_vars => ChainInv'
<1> SUFFICES ASSUME Inv, ChainInv, [Next]_vars PROVE ChainInv'
  OBVIOUS
<1>1. AuditInv
  BY DEF Inv
<1>2. CASE BotRuns
  BY <1>1, <1>2, ChainKeeps DEF BotRuns, BotDoes
<1>3. ASSUME UNCHANGED <<checkpoints, now, overlapped>>,
             call' = call \/ call' = [h \in Handler |-> Idle]
      PROVE  ChainInv'
  <2>1. now' \in Nat /\ now <= now'
    BY <1>1, <1>3, TimeIsNat DEF AuditInv, AuditTypeOK
  <2>2. QED
    BY <1>1, <1>3, <2>1, ChainRests
<1>4. CASE StopBot
  BY <1>3, <1>4 DEF StopBot, ProcessEnds, Fault
<1>5. CASE \/ StageAudit \/ StageTables \/ RestoreTables \/ Harden \/ CutOver \/ MigrateEnds
         \/ StartDeploy \/ StartBot \/ UNCHANGED vars
  BY <1>3, <1>5 DEF StageAudit, StageTables, RestoreTables, Harden, CutOver, MigrateEnds,
     StartDeploy, StartBot, vars, auditVars
<1>6. CASE Envelope
  BY <1>3, <1>6 DEF Envelope, Import
<1>7. CASE RestoreAudit
  BY <1>3, <1>7 DEF RestoreAudit, Import, auditVars
<1>8. CASE MigrateStops \/ DeployDies \/ Refuse
  BY <1>3, <1>8 DEF MigrateStops, DeployDies, Refuse, Fault, auditVars
<1>9. QED
  BY <1>2, <1>4, <1>5, <1>6, <1>7, <1>8 DEF Next, DeployStep

\* The bot rewrites; a deployment only adds rows, and calls under way end with it.
LEMMA EvidenceInitially == Init => EvidenceInv
<1> SUFFICES ASSUME Init PROVE EvidenceInv
  OBVIOUS
<1>1. /\ log = [e \in Event |-> NoRow] /\ now = 0 /\ call = [h \in Handler |-> Idle]
  BY DEF Init, AuditInit
<1>2. \A e \in Event : log[e].createdAt <= now
  BY <1>1 DEF NoRow
<1>3. \A w \in Workflow : IsEvident(w)
  BY <1>1 DEF IsEvident, Idle, Handler
<1>4. QED
  BY <1>2, <1>3 DEF EvidenceInv

LEMMA EvidencePersists == Inv /\ ChainInv /\ EvidenceInv /\ [Next]_vars => EvidenceInv'
<1> SUFFICES ASSUME Inv, ChainInv, EvidenceInv, [Next]_vars PROVE EvidenceInv'
  OBVIOUS
<1>1. AuditInv /\ log \in [Event -> Row] /\ now \in Nat
  BY TimeIsNat DEF Inv, AuditInv, AuditTypeOK
<1>2. CASE BotRuns
  BY <1>1, <1>2, TrailEvident DEF BotRuns, BotDoes
<1>3. ASSUME UNCHANGED <<log, checkpoints, now, overlapped>>,
             call' = call \/ call' = [h \in Handler |-> Idle]
      PROVE  EvidenceInv'
  <2>1. RowsAge /\ MentionsStay /\ CheckpointsStay
    BY <1>3 DEF RowsAge, MentionsStay, CheckpointsStay
  <2>2. \A w \in Workflow : call'[w] = call[w] \/ IsEvident(w)'
    BY <1>3, IdleIsEvident DEF Handler
  <2>3. QED
    BY <1>1, <1>3, <2>1, <2>2, EvidenceRests DEF EvidenceInv
<1>4. CASE StopBot
  <2>1. /\ UNCHANGED <<checkpoints, now, overlapped>> /\ call' = [h \in Handler |-> Idle]
        /\ log' = [e \in Event |-> IF log[e].status = "open" THEN NoRow ELSE log[e]]
    BY <1>4 DEF StopBot, ProcessEnds, Fault
  <2>2. RowsAge /\ MentionsStay /\ CheckpointsStay
    BY <2>1 DEF RowsAge, MentionsStay, CheckpointsStay
  <2>3. \A e \in Event : log'[e].createdAt <= now'
    BY <1>1, <2>1 DEF EvidenceInv, NoRow
  <2>4. \A w \in Workflow : IsEvident(w)'
    BY <2>1, IdleIsEvident DEF Handler
  <2>5. QED
    BY <2>3, <2>4 DEF EvidenceInv
<1>5. CASE \/ StageAudit \/ StageTables \/ RestoreTables \/ Harden \/ CutOver \/ MigrateEnds
         \/ StartDeploy \/ StartBot \/ UNCHANGED vars
  BY <1>3, <1>5 DEF StageAudit, StageTables, RestoreTables, Harden, CutOver, MigrateEnds,
     StartDeploy, StartBot, vars, auditVars
<1>6. ASSUME NEW rows, Import(rows) PROVE EvidenceInv'
  <2>1. /\ UNCHANGED <<checkpoints, now, call, overlapped>>
        /\ log' = [e \in Event |-> IF e \in DOMAIN rows THEN rows[e] ELSE log[e]]
        /\ \A e \in DOMAIN rows : log[e].status = "absent" /\ rows[e].createdAt <= now
    BY <1>6 DEF Import
  <2>2. RowsAge /\ MentionsStay /\ CheckpointsStay
    BY <2>1 DEF RowsAge, MentionsStay, CheckpointsStay
  <2>3. \A e \in Event : log'[e].createdAt <= now'
    BY <2>1 DEF EvidenceInv
  <2>4. QED
    BY <1>1, <2>1, <2>2, <2>3, EvidenceRests
<1>7. CASE Envelope \/ RestoreAudit
  BY <1>3, <1>6, <1>7 DEF Envelope, RestoreAudit, auditVars
<1>8. CASE MigrateStops \/ DeployDies \/ Refuse
  BY <1>3, <1>8 DEF MigrateStops, DeployDies, Refuse, Fault, auditVars
<1>9. QED
  BY <1>2, <1>4, <1>5, <1>7, <1>8 DEF Next, DeployStep

\* Only the bot changes whom a kept row mentions.
LEMMA OnlyTheBotRewrites ==
    ASSUME Inv, [Next]_vars, NEW e \in Event,
           log[e].status = "kept", log'[e].mentions # log[e].mentions
    PROVE  TrailNext
<1>1. CASE BotRuns
  BY <1>1 DEF BotRuns, BotDoes
<1>2. \A rows : Import(rows) => log'[e] = log[e]
  BY DEF Import
<1>3. CASE StopBot
  BY <1>3 DEF StopBot, ProcessEnds
<1>4. QED
  BY <1>1, <1>2, <1>3 DEF Next, DeployStep, StageAudit, StageTables, RestoreTables,
     StartDeploy, StartBot, Harden, Envelope, CutOver, MigrateEnds, RestoreAudit,
     MigrateStops, DeployDies, Refuse, vars, auditVars

-------------------------------------------------------------------------------
(* Theorems                                                                  *)

\* Whatever the bot, its maintenance and the deployments do, each variable of
\* the trail and of the deployment keeps its type.
THEOREM TypeCorrect == Spec => [](AuditTypeOK /\ DeployTypeOK)
<1>1. Inv => AuditTypeOK /\ DeployTypeOK
  BY DEF Inv, AuditInv, DeployInv
<1>2. QED
  BY <1>1, Initially, InvIsInductive, PTL DEF Spec

\* Whatever runs of executeRetention, workflows and deployments overlap or die,
\* an event that is gone was not SECURITY evidence and a checkpoint covers it.
THEOREM DeletionIsCovered == Spec => []DeletedUnderCheckpoint
<1>1. Inv => DeletedUnderCheckpoint
  BY DEF Inv, AuditInv
<1>2. QED
  BY <1>1, Initially, InvIsInductive, PTL DEF Spec

\* Wherever a run of deploy-migrations or a migration stops and however often it is
\* run again, each row of before is in one place, and so is each table: its own, its
\* stage, or the new_ table of a migration that was killed half-way.
THEOREM NothingIsEverLost == Spec => []NothingIsLost
<1>1. Inv => NothingIsLost
  BY DEF Inv, DeployInv, DeployTypeOK, RowsHaveAPlace, TablesHaveAPlace, NothingIsLost, Restored
<1>2. QED
  BY <1>1, Initially, InvIsInductive, PTL DEF Spec

\* The bot only runs when all of it is back, and what deploy-migrations anchored
\* stays: a row loses at most subjects.
THEOREM EvidenceAlwaysStands == Spec => []EvidenceStands
<1>1. Inv => EvidenceStands
  <2> SUFFICES ASSUME Inv PROVE EvidenceStands
    OBVIOUS
  <2>1. deploy = "up" => source \cup staged \cup parked \cup copied = {}
    BY DEF Inv, DeployInv, StepsAreDone
  <2>2. ASSUME complete, NEW e \in Legacy
        PROVE  \E a \in anchors :
                  a[1] = e /\ log[e].status = "kept" /\ log[e].mentions \subseteq a[2]
    <3>1. e \notin source \cup staged
      BY <2>2 DEF Inv, DeployInv, StepsAreDone, RowsHaveAPlace
    <3>2. log[e].status = "kept"
      BY <3>1 DEF Inv, DeployInv, RowsHaveAPlace
    <3>3. QED
      BY <2>2, <3>2 DEF Inv, DeployInv, AnchorsHold
  <2>3. QED
    BY <2>1, <2>2 DEF EvidenceStands
<1>2. QED
  BY <1>1, Initially, InvIsInductive, PTL DEF Spec

\* As long as no two calls overlap, each checkpoint names the one before it as its
\* predecessor, however many of the calls died and whatever was deployed.
THEOREM ChainIsAlwaysLinear == Spec => []ChainIsLinear
<1>1. ChainInv => ChainIsLinear
  BY DEF ChainInv, IsOrderly, ChainIsLinear
<1>2. QED
  BY <1>1, Initially, InvIsInductive, ChainInitially, ChainStays, PTL DEF Spec

\* Whatever workflows overlap, an event is not overwritten before a checkpoint
\* covers it; as long as no calls overlap it is covered as it stands.
THEOREM EvidenceIsAlwaysKept == Spec => EvidenceIsKept
<1>1. ASSUME Inv, EvidenceInv, [Next]_vars, NEW e \in Event,
             log[e].status = "kept", log'[e].mentions # log[e].mentions
      PROVE  \E i \in DOMAIN checkpoints :
                Covers(i, e) /\ (overlapped \/ Version(e) \in checkpoints[i].events)
  BY <1>1, OnlyTheBotRewrites, RewriteIsCovered DEF Inv
<1>2. Inv /\ EvidenceInv /\ [Next]_vars =>
        [\A e \in Event :
            log[e].status = "kept" /\ log'[e].mentions # log[e].mentions =>
                \E i \in DOMAIN checkpoints :
                    /\ Covers(i, e)
                    /\ overlapped \/ Version(e) \in checkpoints[i].events]_auditVars
  BY <1>1
<1>3. QED
  BY <1>2, Initially, InvIsInductive, ChainInitially, ChainStays, EvidenceInitially,
     EvidencePersists, PTL DEF Spec, EvidenceIsKept

================================================================================
