----------------------- MODULE ApprovalLifecycleProofs -----------------------
(***************************************************************************)
(* Proofs about ApprovalLifecycle for every set of users, requests and     *)
(* overlapping handlers and for every bound of the clock.                  *)
(***************************************************************************)
EXTENDS ApprovalLifecycle, TLAPS

\* An absent row is blank; a row that exists was opened by somebody.
RowsKnowRequester ==
    \A r \in Request :
        IF request[r].status = "absent"
          THEN request[r].requester = NoUser /\ request[r].resolvedBy = NoUser
          ELSE request[r].requester \in User

\* What a handler keeps across its awaits still describes rows that exist, and
\* only handlers that passed the self-approval test reach the transaction.
FramesAreFounded ==
    \A c \in Call :
        /\ call[c].pc = "create" => call[c].user \in User
        /\ call[c].pc \in {"authorize", "decide", "expire"} =>
             /\ call[c].req \in Request
             /\ call[c].user \in User
             /\ call[c].verdict \in Verdict
             /\ request[call[c].req].status # "absent"
        /\ call[c].pc = "decide" =>
             call[c].user # request[call[c].req].requester

IInv ==
    /\ TypeOK
    /\ RowsKnowRequester
    /\ FramesAreFounded
    /\ SingleDecision
    /\ CallbackAgrees
    /\ DecisionIsWhole
    /\ NoSelfApproval

USE DEF CallbackIdIsFree, Deadline, Verdict, Terminal, Status, Row, Frame, AbsentRow, IdleFrame

LEMMA InitIInv == Init => IInv
BY UserAssumption, RequestAssumption
DEF Init, IInv, TypeOK, RowsKnowRequester, FramesAreFounded, SingleDecision,
    CallbackAgrees, DecisionIsWhole, NoSelfApproval

\* Steps that leave the tables of requests and events alone keep every part of
\* the invariant that does not speak of handlers.
LEMMA TablesUnchanged ==
    ASSUME IInv, UNCHANGED <<request, callback, decisions>>
    PROVE  /\ RowsKnowRequester'
           /\ SingleDecision'
           /\ CallbackAgrees'
           /\ DecisionIsWhole'
           /\ NoSelfApproval'
BY DEF IInv, RowsKnowRequester, SingleDecision, CallbackAgrees,
       DecisionIsWhole, NoSelfApproval

LEMMA CheckDuplicateIInv ==
    ASSUME IInv, NEW c \in Call, NEW u \in User, NEW lifetime \in 1..MaxLifetime,
           CheckDuplicate(c, u, lifetime)
    PROVE  IInv'
<1>1. TypeOK'
  <2>1. now + lifetime \in Nat
    BY ClockAssumption DEF IInv, TypeOK
  <2>2. call' \in [Call -> Frame]
    BY <2>1 DEF IInv, TypeOK, CheckDuplicate
  <2> QED
    BY <2>2 DEF IInv, TypeOK, CheckDuplicate
<1>2. FramesAreFounded'
  BY DEF IInv, TypeOK, FramesAreFounded, CheckDuplicate
<1> QED
  BY <1>1, <1>2, TablesUnchanged DEF IInv, CheckDuplicate

LEMMA CommitCreateIInv ==
    ASSUME IInv, NEW c \in Call, NEW r \in Request, CommitCreate(c, r)
    PROVE  IInv'
<1>1. call[c] \in Frame /\ call[c].user \in User
  BY DEF IInv, TypeOK, FramesAreFounded, CommitCreate
<1>2. /\ request' \in [Request -> Row]
      /\ request'[r].status = "PENDING"
      /\ request'[r].requester = call[c].user
      /\ request'[r].resolvedBy = NoUser
      /\ \A s \in Request \ {r} : request'[s] = request[s]
  BY <1>1 DEF IInv, TypeOK, CommitCreate
<1>3. TypeOK'
  BY <1>2 DEF IInv, TypeOK, CommitCreate
<1>4. RowsKnowRequester'
  BY <1>1, <1>2 DEF IInv, RowsKnowRequester
<1>5. FramesAreFounded'
  <2>1. \A d \in Call : d # c => call'[d] = call[d]
    BY DEF IInv, TypeOK, CommitCreate
  <2>2. call'[c] = IdleFrame
    BY DEF IInv, TypeOK, CommitCreate
  <2>3. \A d \in Call : call[d].req \in Request /\
                        request[call[d].req].status # "absent" =>
                          request'[call[d].req] = request[call[d].req]
    BY <1>2 DEF CommitCreate
  <2> QED
    BY <2>1, <2>2, <2>3 DEF IInv, FramesAreFounded
<1>6. SingleDecision' /\ CallbackAgrees' /\ DecisionIsWhole' /\ NoSelfApproval'
  BY <1>2 DEF IInv, RowsKnowRequester, SingleDecision, CallbackAgrees,
              DecisionIsWhole, NoSelfApproval, CommitCreate
<1> QED
  BY <1>3, <1>4, <1>5, <1>6 DEF IInv

LEMMA ReadRequestIInv ==
    ASSUME IInv, NEW c \in Call, NEW u \in User, NEW r \in Request,
           NEW v \in Verdict, ReadRequest(c, u, r, v)
    PROVE  IInv'
<1>1. TypeOK'
  BY DEF IInv, TypeOK, ReadRequest
<1>2. FramesAreFounded'
  BY DEF IInv, TypeOK, FramesAreFounded, ReadRequest
<1> QED
  BY <1>1, <1>2, TablesUnchanged DEF IInv, ReadRequest

LEMMA AuthorizeIInv ==
    ASSUME IInv, NEW c \in Call, Authorize(c)
    PROVE  IInv'
<1>1. /\ call' \in [Call -> Frame]
      /\ \A d \in Call \ {c} : call'[d] = call[d]
      /\ \/ call'[c] = IdleFrame
         \/ /\ call'[c] = [call[c] EXCEPT !.pc = "decide"]
            /\ call[c].user # request[call[c].req].requester
  <2>1. CASE MayDecide(call[c].user, call[c].req)
    <3>1. call' = [call EXCEPT ![c] = [call[c] EXCEPT !.pc = "decide"]]
      BY <2>1 DEF Authorize
    <3>2. [call[c] EXCEPT !.pc = "decide"] \in Frame
      BY DEF IInv, TypeOK
    <3>3. call[c].user # request[call[c].req].requester
      BY <2>1 DEF MayDecide
    <3> QED
      BY <3>1, <3>2, <3>3 DEF IInv, TypeOK
  <2>2. CASE ~ MayDecide(call[c].user, call[c].req)
    BY <2>2 DEF IInv, TypeOK, Authorize
  <2> QED
    BY <2>1, <2>2
<1>2. TypeOK'
  BY <1>1 DEF IInv, TypeOK, Authorize
<1>3. FramesAreFounded'
  BY <1>1 DEF IInv, TypeOK, FramesAreFounded, Authorize
<1> QED
  BY <1>2, <1>3, TablesUnchanged DEF IInv, Authorize

LEMMA CommitDecisionIInv ==
    ASSUME IInv, NEW c \in Call, CommitDecision(c)
    PROVE  IInv'
<1> DEFINE r == call[c].req
<1>1. /\ r \in Request
      /\ call[c].user \in User
      /\ call[c].verdict \in Verdict
      /\ request[r].status # "absent"
      /\ call[c].user # request[r].requester
      /\ callback[r] = "none"
  BY DEF IInv, FramesAreFounded, CommitDecision
<1>2. /\ request' \in [Request -> Row]
      /\ request'[r].status = call[c].verdict
      /\ request'[r].resolvedBy = call[c].user
      /\ request'[r].requester = request[r].requester
      /\ \A s \in Request \ {r} : request'[s] = request[s]
  BY <1>1 DEF IInv, TypeOK, CommitDecision
<1>3. /\ callback' \in [Request -> Verdict \cup {"none"}]
      /\ callback'[r] = call[c].verdict
      /\ \A s \in Request \ {r} : callback'[s] = callback[s]
  BY <1>1 DEF IInv, TypeOK, CommitDecision
<1>4. /\ decisions' \in [Request -> Nat]
      /\ decisions'[r] = 1
      /\ \A s \in Request \ {r} : decisions'[s] = decisions[s]
  <2>1. decisions[r] = 0
    BY <1>1 DEF IInv, TypeOK, DecisionIsWhole
  <2> QED
    BY <1>1, <2>1 DEF IInv, TypeOK, CommitDecision
<1>5. /\ call' \in [Call -> Frame]
      /\ call'[c] = IdleFrame
      /\ \A d \in Call \ {c} : call'[d] = call[d]
  BY UserAssumption DEF IInv, TypeOK, CommitDecision
<1>6. TypeOK'
  BY <1>2, <1>3, <1>4, <1>5 DEF IInv, TypeOK, CommitDecision
<1>7. RowsKnowRequester'
  BY <1>1, <1>2 DEF IInv, RowsKnowRequester
<1>8. FramesAreFounded'
  BY <1>1, <1>2, <1>5 DEF IInv, FramesAreFounded
<1>9. SingleDecision'
  BY <1>4 DEF IInv, SingleDecision
<1>10. CallbackAgrees'
  BY <1>2, <1>3 DEF IInv, CallbackAgrees
<1>11. DecisionIsWhole'
  BY UserAssumption, <1>1, <1>2, <1>3, <1>4 DEF IInv, DecisionIsWhole
<1>12. NoSelfApproval'
  BY <1>1, <1>2 DEF IInv, NoSelfApproval
<1> QED
  BY <1>6, <1>7, <1>8, <1>9, <1>10, <1>11, <1>12 DEF IInv

\* Writing EXPIRED over some existing rows disturbs no part of the invariant.
LEMMA ExpireIInv ==
    ASSUME IInv,
           request' \in [Request -> Row],
           \A r \in Request :
              \/ request'[r] = request[r]
              \/ /\ request[r].status # "absent"
                 /\ request'[r] = [request[r] EXCEPT !.status = "EXPIRED"],
           UNCHANGED <<now, guardians, callback, decisions>>,
           call' \in [Call -> Frame],
           \A c \in Call : call'[c] = call[c] \/ call'[c] = IdleFrame
    PROVE  IInv'
<1>1. \A r \in Request :
        /\ request'[r].requester = request[r].requester
        /\ request'[r].resolvedBy = request[r].resolvedBy
        /\ \/ request'[r].status = request[r].status
           \/ request[r].status # "absent" /\ request'[r].status = "EXPIRED"
  BY DEF IInv, TypeOK
<1>2. TypeOK'
  BY DEF IInv, TypeOK
<1>3. RowsKnowRequester'
  BY <1>1 DEF IInv, RowsKnowRequester
<1>4. FramesAreFounded'
  BY <1>1 DEF IInv, FramesAreFounded
<1>5. SingleDecision' /\ CallbackAgrees' /\ DecisionIsWhole' /\ NoSelfApproval'
  BY <1>1 DEF IInv, SingleDecision, CallbackAgrees, DecisionIsWhole, NoSelfApproval
<1> QED
  BY <1>2, <1>3, <1>4, <1>5 DEF IInv

LEMMA CommitExpiryIInv ==
    ASSUME IInv, NEW c \in Call, CommitExpiry(c)
    PROVE  IInv'
<1>1. /\ call[c].req \in Request
      /\ request[call[c].req].status # "absent"
  BY DEF IInv, FramesAreFounded, CommitExpiry
<1>2. /\ request' \in [Request -> Row]
      /\ \A r \in Request :
           \/ request'[r] = request[r]
           \/ /\ request[r].status # "absent"
              /\ request'[r] = [request[r] EXCEPT !.status = "EXPIRED"]
  <2>1. [request[call[c].req] EXCEPT !.status = "EXPIRED"] \in Row
    BY <1>1 DEF IInv, TypeOK
  <2>2. request' = [request EXCEPT ![call[c].req] =
                      [request[call[c].req] EXCEPT !.status = "EXPIRED"]]
    BY DEF CommitExpiry
  <2> QED
    BY <1>1, <2>1, <2>2 DEF IInv, TypeOK
<1>3. /\ call' \in [Call -> Frame]
      /\ \A d \in Call : call'[d] = call[d] \/ call'[d] = IdleFrame
  BY DEF IInv, TypeOK, CommitExpiry
<1>4. UNCHANGED <<now, guardians, callback, decisions>>
  BY DEF CommitExpiry
<1> QED
  BY <1>2, <1>3, <1>4, ExpireIInv

LEMMA SweepIInv ==
    ASSUME IInv, Sweep
    PROVE  IInv'
<1>1. /\ request' \in [Request -> Row]
      /\ \A r \in Request :
           \/ request'[r] = request[r]
           \/ /\ request[r].status # "absent"
              /\ request'[r] = [request[r] EXCEPT !.status = "EXPIRED"]
  <2>1. \A r \in Request :
          request'[r] = IF Overdue(r)
                          THEN [request[r] EXCEPT !.status = "EXPIRED"]
                          ELSE request[r]
    BY DEF Sweep
  <2>2. \A r \in Request : request'[r] \in Row
    <3> SUFFICES ASSUME NEW r \in Request PROVE request'[r] \in Row
      OBVIOUS
    <3>1. request[r] \in Row
      BY DEF IInv, TypeOK
    <3>2. [request[r] EXCEPT !.status = "EXPIRED"] \in Row
      BY <3>1
    <3> HIDE DEF Row
    <3> QED
      BY <2>1, <3>1, <3>2
  <2>3. request' \in [Request -> Row]
    BY <2>2 DEF Sweep
  <2> QED
    BY <2>1, <2>3 DEF Overdue
<1>2. /\ call' \in [Call -> Frame]
      /\ \A c \in Call : call'[c] = call[c] \/ call'[c] = IdleFrame
  BY DEF IInv, TypeOK, Sweep
<1>3. UNCHANGED <<now, guardians, callback, decisions>>
  BY DEF Sweep
<1> QED
  BY <1>1, <1>2, <1>3, ExpireIInv

LEMMA NextIInv == IInv /\ [Next]_vars => IInv'
<1> SUFFICES ASSUME IInv, [Next]_vars PROVE IInv'
  OBVIOUS
<1>1. CASE UNCHANGED vars
  BY <1>1 DEF vars, IInv, TypeOK, RowsKnowRequester, FramesAreFounded,
     SingleDecision, CallbackAgrees, DecisionIsWhole, NoSelfApproval
<1>2. ASSUME NEW c \in Call, Handler(c) PROVE IInv'
  <2>1. CASE Rollback(c)
    <3>1. TypeOK'
      BY <2>1 DEF IInv, TypeOK, Rollback
    <3>2. FramesAreFounded'
      BY <2>1 DEF IInv, TypeOK, FramesAreFounded, Rollback
    <3> QED
      BY <2>1, <3>1, <3>2, TablesUnchanged DEF IInv, Rollback
  <2> QED
    BY <1>2, <2>1, CheckDuplicateIInv, CommitCreateIInv, ReadRequestIInv,
       AuthorizeIInv, CommitDecisionIInv, CommitExpiryIInv DEF Handler
<1>3. CASE Sweep
  BY <1>3, SweepIInv
<1>4. ASSUME NEW u \in User, AddGuardian(u) \/ RemoveGuardian(u) PROVE IInv'
  <2>1. TypeOK'
    BY <1>4 DEF IInv, TypeOK, AddGuardian, RemoveGuardian
  <2>2. FramesAreFounded'
    BY <1>4 DEF IInv, FramesAreFounded, AddGuardian, RemoveGuardian
  <2> QED
    BY <1>4, <2>1, <2>2, TablesUnchanged DEF IInv, AddGuardian, RemoveGuardian
<1>5. CASE Tick
  <2>1. TypeOK'
    BY <1>5 DEF IInv, TypeOK, Tick
  <2>2. FramesAreFounded'
    BY <1>5 DEF IInv, FramesAreFounded, Tick
  <2> QED
    BY <1>5, <2>1, <2>2, TablesUnchanged DEF IInv, Tick
<1> QED
  BY <1>1, <1>2, <1>3, <1>4, <1>5 DEF Next

LEMMA Invariance == Spec => []IInv
BY InitIInv, NextIInv, PTL DEF Spec

\* Every state variable keeps its type, for every value of the constants.
THEOREM TypeCorrect == Spec => []TypeOK
BY Invariance, PTL DEF IInv

\* However recordDecision handlers overlap, one decision of a request commits.
THEOREM DecisionIsSingle == Spec => []SingleDecision
BY Invariance, PTL DEF IInv

\* The verdict a callback carries is the verdict of the row.
THEOREM CallbackAgreement == Spec => []CallbackAgrees
BY Invariance, PTL DEF IInv

\* Status, resolver, callback event and audit row are written together.
THEOREM DecisionAtomicity == Spec => []DecisionIsWhole
BY Invariance, PTL DEF IInv

\* The self-approval test, made before the transaction, cannot go stale.
THEOREM SelfApprovalExcluded == Spec => []NoSelfApproval
BY Invariance, PTL DEF IInv

-------------------------------------------------------------------------------
(* The detailed specification implements the abstract one                    *)

requesterBar == [r \in Request |-> request[r].requester]
resolutionBar == [r \in Request |->
                    [by |-> request[r].resolvedBy, verdict |-> callback[r]]]

LEMMA InitRefines == Init => Resolution!Init
BY DEF Init, Resolution!Init, Resolution!Unresolved

LEMMA CommitCreateRefines ==
    ASSUME IInv, NEW c \in Call, NEW r \in Request, CommitCreate(c, r)
    PROVE  \E u \in User : Resolution!Open(r, u)
<1>1. PICK u \in User : u = call[c].user
  BY DEF IInv, FramesAreFounded, CommitCreate
<1>2. request[r].requester = NoUser /\ request[r].resolvedBy = NoUser
  BY DEF IInv, RowsKnowRequester, CommitCreate
<1>3. /\ request'[r].requester = u
      /\ request'[r].resolvedBy = NoUser
      /\ \A s \in Request \ {r} : request'[s] = request[s]
  BY <1>1 DEF IInv, TypeOK, CommitCreate
<1>4. requesterBar' = [requesterBar EXCEPT ![r] = u]
  BY <1>3 DEF requesterBar
<1>5. resolutionBar' = resolutionBar
  BY <1>2, <1>3 DEF resolutionBar, CommitCreate
<1>6. Resolution!Open(r, u)
  BY <1>2, <1>4, <1>5 DEF Resolution!Open, requesterBar, resolutionBar
<1> QED
  BY <1>6

LEMMA CommitDecisionRefines ==
    ASSUME IInv, NEW c \in Call, CommitDecision(c)
    PROVE  \E r \in Request, u \in User, v \in Verdict : Resolution!Resolve(r, u, v)
<1>1. /\ call[c].req \in Request
      /\ call[c].user \in User
      /\ call[c].verdict \in Verdict
      /\ call[c].user # request[call[c].req].requester
      /\ request[call[c].req].requester \in User
  BY DEF IInv, FramesAreFounded, RowsKnowRequester, CommitDecision
<1>2. PICK r \in Request : r = call[c].req
  BY <1>1
<1>3. PICK u \in User : u = call[c].user
  BY <1>1
<1>4. PICK v \in Verdict : v = call[c].verdict
  BY <1>1
<1>5. callback[r] = "none" /\ request[r].resolvedBy = NoUser
  BY <1>2 DEF IInv, DecisionIsWhole, CommitDecision
<1>6. /\ request'[r].resolvedBy = u
      /\ request'[r].requester = request[r].requester
      /\ \A s \in Request \ {r} : request'[s] = request[s]
      /\ callback'[r] = v
      /\ \A s \in Request \ {r} : callback'[s] = callback[s]
  BY <1>2, <1>3, <1>4 DEF IInv, TypeOK, CommitDecision
<1>7. requesterBar' = requesterBar
  BY <1>6 DEF requesterBar
<1>8. resolutionBar' = [resolutionBar EXCEPT ![r] = [by |-> u, verdict |-> v]]
  BY <1>6 DEF resolutionBar
<1>9. Resolution!Resolve(r, u, v)
  BY <1>1, <1>2, <1>3, <1>5, <1>7, <1>8
  DEF Resolution!Resolve, Resolution!Unresolved, requesterBar, resolutionBar
<1> QED
  BY <1>9

\* The steps that open or resolve a request.
Visible == \E c \in Call :
    \/ \E r \in Request : CommitCreate(c, r)
    \/ CommitDecision(c)

\* Every other step leaves what the abstract specification sees alone.
LEMMA OtherStepsStutter ==
    ASSUME IInv, [Next]_vars, ~ Visible
    PROVE  /\ \A r \in Request :
                /\ request'[r].requester = request[r].requester
                /\ request'[r].resolvedBy = request[r].resolvedBy
           /\ callback' = callback
<1>1. CASE UNCHANGED <<request, callback>>
  BY <1>1
<1>2. CASE Sweep
  BY <1>2 DEF IInv, TypeOK, Sweep
<1>3. ASSUME NEW c \in Call, CommitExpiry(c)
      PROVE  /\ \A r \in Request :
                  /\ request'[r].requester = request[r].requester
                  /\ request'[r].resolvedBy = request[r].resolvedBy
             /\ callback' = callback
  <2>1. call[c].req \in Request
    BY <1>3 DEF IInv, FramesAreFounded, CommitExpiry
  <2> QED
    BY <1>3, <2>1 DEF IInv, TypeOK, CommitExpiry
<1>4. \/ UNCHANGED <<request, callback>>
      \/ Sweep
      \/ \E c \in Call : CommitExpiry(c)
  BY DEF Next, Handler, Visible, vars, Tick, AddGuardian, RemoveGuardian,
         CheckDuplicate, ReadRequest, Authorize, Rollback
<1> QED
  BY <1>1, <1>2, <1>3, <1>4

LEMMA StepRefines ==
    IInv /\ [Next]_vars => [Resolution!Next]_(Resolution!vars)
<1> SUFFICES ASSUME IInv, [Next]_vars
             PROVE  Resolution!Next \/ UNCHANGED Resolution!vars
  OBVIOUS
<1>1. ASSUME NEW r \in Request, NEW u \in User, Resolution!Open(r, u)
      PROVE  Resolution!Next
  BY <1>1 DEF Resolution!Next, Resolution!Open
<1>2. ASSUME NEW r \in Request, NEW u \in User, NEW v \in Verdict,
             Resolution!Resolve(r, u, v)
      PROVE  Resolution!Next
  BY <1>2 DEF Resolution!Next, Resolution!Resolve
<1>3. CASE Visible
  BY <1>1, <1>2, <1>3, CommitCreateRefines, CommitDecisionRefines DEF Visible
<1>4. CASE ~ Visible
  <2>1. /\ requesterBar' = requesterBar
        /\ resolutionBar' = resolutionBar
    BY <1>4, OtherStepsStutter DEF requesterBar, resolutionBar
  <2> QED
    BY <2>1 DEF Resolution!vars, requesterBar, resolutionBar
<1> QED
  BY <1>3, <1>4

\* ApprovalLifecycle implements SingleResolution: reads, stale checks, sweeps
\* and rollbacks are invisible to whoever looks only at who resolved a request
\* and with which verdict.
THEOREM LifecycleImplementsSingleResolution == Spec => ImplementsSingleResolution
BY InitRefines, StepRefines, Invariance, PTL
DEF Spec, ImplementsSingleResolution, Resolution!Spec

\* A resolver and the verdict that was sent out are never replaced.
LEMMA StepKeepsResolution ==
    ASSUME IInv, [Next]_vars, NEW r \in Request, request[r].resolvedBy # NoUser
    PROVE  /\ request'[r].resolvedBy = request[r].resolvedBy
           /\ callback'[r] = callback[r]
<1>1. ASSUME NEW c \in Call, NEW s \in Request, CommitCreate(c, s)
      PROVE  request'[r] = request[r] /\ callback'[r] = callback[r]
  <2>1. s # r
    BY <1>1 DEF IInv, RowsKnowRequester, CommitCreate
  <2> QED
    BY <1>1, <2>1 DEF IInv, TypeOK, CommitCreate
<1>2. ASSUME NEW c \in Call, CommitDecision(c)
      PROVE  request'[r] = request[r] /\ callback'[r] = callback[r]
  <2>1. call[c].req # r
    BY <1>2 DEF IInv, DecisionIsWhole, CommitDecision
  <2> QED
    BY <1>2, <2>1 DEF IInv, TypeOK, CommitDecision
<1>3. CASE ~ Visible
  BY <1>3, OtherStepsStutter
<1> QED
  BY <1>1, <1>2, <1>3 DEF Visible

\* A decision, once committed, is never replaced by another one, whatever the
\* handlers that read the request before it do afterwards.
THEOREM ResolutionFinality == Spec => ResolutionIsFinal
<1>1. IInv /\ [Next]_vars =>
        [\A r \in Request :
           request[r].resolvedBy # NoUser =>
             /\ request'[r].resolvedBy = request[r].resolvedBy
             /\ callback'[r] = callback[r]]_vars
  BY StepKeepsResolution
<1> QED
  BY <1>1, Invariance, PTL DEF Spec, ResolutionIsFinal
===============================================================================
