--------------------------- MODULE DeviceFlowProofs ---------------------------
(***************************************************************************)
(* Proofs about DeviceFlow for every set of sessions and users, every      *)
(* lifetime and every budget of attempts.                                  *)
(***************************************************************************)
EXTENDS DeviceFlow, TLAPS

\* No row before the CLI asks for one.
OffMeansAbsent == \A s \in Session : cli[s].pc = "off" => session[s].status = "absent"

\* What the audit trail and the credentials say of a session in each status.
Ungranted(s) == approvals[s] = {} /\ tokens[s] = 0 /\ subject[s] = NoUser

GrantedTo(s, u) == approvals[s] = {u} /\ tokens[s] = 0 /\ subject[s] = NoUser

SpentBy(s, u) == approvals[s] = {u} /\ tokens[s] = 1 /\ subject[s] = u

Founded(s) ==
    /\ session[s].status \in {"absent", "PENDING", "EXPIRED"} => Ungranted(s)
    /\ session[s].status = "APPROVED" =>
         session[s].user \in User /\ GrantedTo(s, session[s].user)
    /\ session[s].status \in {"CONSUMED", "deleted"} =>
         Ungranted(s) \/ \E u \in User : GrantedTo(s, u) \/ SpentBy(s, u)

StatusIsFounded == \A s \in Session : Founded(s)

IInv == TypeOK /\ OffMeansAbsent /\ StatusIsFounded

USE DEF HasApprovalBudget, Open, Status, Reply, Row, Run, NoRow

LEMMA InitIInv == Init => IInv
BY NoUserAssumption, BoundAssumption
DEF Init, IInv, TypeOK, OffMeansAbsent, StatusIsFounded, Founded, Ungranted

\* What Founded depends on.
LEMMA FoundedFrame ==
    ASSUME NEW s \in Session, Founded(s),
           session'[s].status = session[s].status,
           session'[s].user = session[s].user,
           approvals'[s] = approvals[s],
           tokens'[s] = tokens[s],
           subject'[s] = subject[s]
    PROVE  Founded(s)'
BY DEF Founded, Ungranted, GrantedTo, SpentBy

\* Steps of the client alone: they move a run that has begun.
LEMMA ClientStep ==
    ASSUME IInv, UNCHANGED server, now' \in Nat,
           cli' \in [Session -> Run],
           abandoned' \in [Session -> 0..MaxAbandoned],
           lost' \in [Session -> BOOLEAN],
           \A s \in Session : cli'[s].pc = "off" => cli[s].pc = "off"
    PROVE  IInv'
<1>1. TypeOK'
  BY DEF IInv, TypeOK, server
<1>2. OffMeansAbsent'
  BY DEF IInv, OffMeansAbsent, server
<1>3. StatusIsFounded'
  BY FoundedFrame DEF IInv, StatusIsFounded, server
<1> QED
  BY <1>1, <1>2, <1>3 DEF IInv

LEMMA InitiateIInv ==
    ASSUME IInv, NEW s \in Session, Initiate(s)
    PROVE  IInv'
<1>1. session[s].status = "absent" /\ Ungranted(s)
  BY DEF IInv, OffMeansAbsent, StatusIsFounded, Founded, Initiate
<1>2. TypeOK'
  <2>1. now + Lifetime \in Nat
    BY BoundAssumption DEF IInv, TypeOK
  <2>2. [NoRow EXCEPT !.status = "PENDING", !.expiresAt = now + Lifetime] \in Row
    <3>1. 0 \in 0..MaxApprovals /\ 0 \in 0..MaxPolls
      BY BoundAssumption
    <3> QED
      BY <2>1, <3>1
  <2>3. session' \in [Session -> Row]
    BY <2>2 DEF IInv, TypeOK, Initiate
  <2>4. cli' \in [Session -> Run]
    BY DEF IInv, TypeOK, Initiate
  <2> QED
    BY <2>3, <2>4 DEF IInv, TypeOK, Initiate
<1>3. OffMeansAbsent'
  BY DEF IInv, TypeOK, OffMeansAbsent, Initiate
<1>4. StatusIsFounded'
  <2>1. session'[s].status = "PENDING" /\ \A t \in Session \ {s} : session'[t] = session[t]
    BY DEF IInv, TypeOK, Initiate
  <2>2. UNCHANGED <<approvals, tokens, subject>>
    BY DEF Initiate
  <2> QED
    <3>1. Founded(s)'
      BY <1>1, <2>1, <2>2 DEF Founded, Ungranted
    <3> QED
      BY <2>1, <2>2, <3>1, FoundedFrame DEF IInv, StatusIsFounded
<1> QED
  BY <1>2, <1>3, <1>4 DEF IInv

LEMMA ApproveIInv ==
    ASSUME IInv, NEW s \in Session, NEW u \in User, Approve(s, u)
    PROVE  IInv'
<1> DEFINE counted == [session[s] EXCEPT !.approvalAttempts = @ + 1]
           granted == session[s].status = "PENDING" /\ ~ Overdue(s)
<1>1. counted \in Row /\ counted.status = session[s].status /\ counted.user = session[s].user
  <2>1. session[s] \in Row /\ session[s].approvalAttempts < MaxApprovals
    BY DEF IInv, TypeOK, Approve
  <2>2. session[s].approvalAttempts + 1 \in 0..MaxApprovals
    BY <2>1, BoundAssumption
  <2> QED
    BY <2>1, <2>2
<1>2. /\ session' \in [Session -> Row]
      /\ \A t \in Session \ {s} : session'[t] = session[t]
      /\ session'[s] = IF session[s].status # "PENDING" THEN counted
                       ELSE IF Overdue(s) THEN [counted EXCEPT !.status = "EXPIRED"]
                       ELSE [counted EXCEPT !.status = "APPROVED", !.user = u]
  <2>1. session' = [session EXCEPT ![s] =
                      IF session[s].status # "PENDING" THEN counted
                      ELSE IF Overdue(s) THEN [counted EXCEPT !.status = "EXPIRED"]
                      ELSE [counted EXCEPT !.status = "APPROVED", !.user = u]]
    BY DEF Approve
  <2>2. /\ [counted EXCEPT !.status = "EXPIRED"] \in Row
        /\ [counted EXCEPT !.status = "APPROVED", !.user = u] \in Row
    BY <1>1
  <2> HIDE DEF counted
  <2> QED
    BY <1>1, <2>1, <2>2 DEF IInv, TypeOK
<1>3. /\ approvals' \in [Session -> SUBSET User]
      /\ \A t \in Session \ {s} : approvals'[t] = approvals[t]
      /\ approvals'[s] = IF granted THEN approvals[s] \cup {u} ELSE approvals[s]
  BY DEF IInv, TypeOK, Approve
<1>4. UNCHANGED <<now, tokens, subject, cli, abandoned, lost>>
  BY DEF Approve, client
<1>5. TypeOK'
  BY <1>2, <1>3, <1>4 DEF IInv, TypeOK
<1>6. OffMeansAbsent'
  <2>1. cli[s].pc # "off"
    BY DEF IInv, OffMeansAbsent, Approve, Exists
  <2> QED
    BY <1>2, <1>4, <2>1 DEF IInv, OffMeansAbsent
<1>7. StatusIsFounded'
  <2>1. CASE granted
    <3>1. session'[s].status = "APPROVED" /\ session'[s].user = u
      BY <1>1, <1>2, <2>1
    <3>2. approvals'[s] = {u} /\ tokens[s] = 0 /\ subject[s] = NoUser
      BY <1>3, <2>1 DEF IInv, StatusIsFounded, Founded, Ungranted
    <3>3. Founded(s)'
      BY <1>4, <3>1, <3>2 DEF Founded, GrantedTo
    <3> QED
      BY <1>2, <1>3, <1>4, <3>3, FoundedFrame DEF IInv, StatusIsFounded
  <2>2. CASE ~ granted
    <3>1. \/ session'[s].status = session[s].status /\ session'[s].user = session[s].user
          \/ session'[s].status = "EXPIRED" /\ session[s].status = "PENDING"
      BY <1>1, <1>2, <2>2
    <3>2. approvals'[s] = approvals[s]
      BY <1>3, <2>2
    <3>3. Founded(s)'
      <4>1. CASE session'[s].status = session[s].status /\ session'[s].user = session[s].user
        BY <1>4, <3>2, <4>1, FoundedFrame DEF IInv, StatusIsFounded
      <4>2. CASE session'[s].status = "EXPIRED" /\ session[s].status = "PENDING"
        BY <1>4, <3>2, <4>2 DEF IInv, StatusIsFounded, Founded, Ungranted
      <4> QED
        BY <3>1, <4>1, <4>2
    <3> QED
      BY <1>2, <1>3, <1>4, <3>3, FoundedFrame DEF IInv, StatusIsFounded
  <2> QED
    BY <2>1, <2>2
<1> QED
  BY <1>5, <1>6, <1>7 DEF IInv

\* A verdict with an effect says what the row is like.
LEMMA VerdictReads ==
    ASSUME TypeOK, NEW s \in Session
    PROVE  /\ Verdict(s) \in Reply \ {"none"}
           /\ Verdict(s) = "authorization_pending" =>
                session[s].status = "PENDING" /\ session[s].pollAttempts < MaxPolls
           /\ Verdict(s) = "token" =>
                /\ session[s].status = "APPROVED"
                /\ session[s].pollAttempts < MaxPolls
                /\ ~ Overdue(s)
<1>1. session[s] \in Row
  BY DEF TypeOK
<1>2. CASE ~ Exists(s)
  BY <1>2 DEF Verdict
<1>3. CASE Exists(s) /\ session[s].pollAttempts >= MaxPolls
  BY <1>3 DEF Verdict
<1>4. CASE Exists(s) /\ ~ (session[s].pollAttempts >= MaxPolls)
  <2>1. session[s].pollAttempts < MaxPolls
    BY <1>1, <1>4, BoundAssumption
  <2> QED
    BY <1>1, <1>4, <2>1 DEF Verdict, Exists
<1> QED
  BY <1>2, <1>3, <1>4

\* A token goes to an approved session, which it consumes.
LEMMA MintStep ==
    ASSUME IInv, NEW s \in Session, ExchangeTo(s, "token"), Verdict(s) = "token"
    PROVE  /\ session[s].user \in User
           /\ GrantedTo(s, session[s].user)
           /\ session' \in [Session -> Row]
           /\ session'[s].status = "CONSUMED"
           /\ \A t \in Session \ {s} : session'[t] = session[t]
           /\ tokens' \in [Session -> Nat]
           /\ tokens'[s] = 1
           /\ \A t \in Session \ {s} : tokens'[t] = tokens[t]
           /\ subject' \in [Session -> User \cup {NoUser}]
           /\ subject'[s] = session[s].user
           /\ \A t \in Session \ {s} : subject'[t] = subject[t]
           /\ approvals' = approvals
<1>1. session[s].status = "APPROVED" /\ session[s].pollAttempts < MaxPolls
  BY VerdictReads DEF IInv
<1>2. session[s].user \in User /\ GrantedTo(s, session[s].user)
  BY <1>1 DEF IInv, StatusIsFounded, Founded
<1>3. [session[s] EXCEPT !.pollAttempts = @ + 1, !.status = "CONSUMED"] \in Row
  <2>1. session[s] \in Row
    BY DEF IInv, TypeOK
  <2>2. session[s].pollAttempts + 1 \in 0..MaxPolls
    BY <1>1, <2>1, BoundAssumption
  <2> QED
    BY <2>1, <2>2
<1>4. session' = [session EXCEPT ![s] =
                    [session[s] EXCEPT !.pollAttempts = @ + 1, !.status = "CONSUMED"]]
  BY DEF ExchangeTo, IInv, TypeOK
<1>5. /\ session' \in [Session -> Row]
      /\ session'[s].status = "CONSUMED"
      /\ \A t \in Session \ {s} : session'[t] = session[t]
  BY <1>3, <1>4 DEF IInv, TypeOK
<1>6. /\ tokens' \in [Session -> Nat]
      /\ tokens'[s] = 1
      /\ \A t \in Session \ {s} : tokens'[t] = tokens[t]
  BY <1>2 DEF ExchangeTo, IInv, TypeOK, GrantedTo
<1>7. /\ subject' \in [Session -> User \cup {NoUser}]
      /\ subject'[s] = session[s].user
      /\ \A t \in Session \ {s} : subject'[t] = subject[t]
      /\ approvals' = approvals
  BY <1>2 DEF ExchangeTo, IInv, TypeOK
<1> QED
  BY <1>2, <1>5, <1>6, <1>7

\* Any other verdict leaves everything but the poll counter alone.
LEMMA OtherVerdictStep ==
    ASSUME IInv, NEW s \in Session, ExchangeTo(s, Verdict(s)), Verdict(s) # "token"
    PROVE  /\ session' \in [Session -> Row]
           /\ \A t \in Session : /\ session'[t].status = session[t].status
                                 /\ session'[t].user = session[t].user
           /\ UNCHANGED <<tokens, subject, approvals>>
<1>1. CASE Verdict(s) = "authorization_pending"
  <2>1. session[s].pollAttempts < MaxPolls
    BY <1>1, VerdictReads DEF IInv
  <2>2. [session[s] EXCEPT !.pollAttempts = @ + 1] \in Row
    <3>1. session[s] \in Row
      BY DEF IInv, TypeOK
    <3>2. session[s].pollAttempts + 1 \in 0..MaxPolls
      BY <2>1, <3>1, BoundAssumption
    <3> QED
      BY <3>1, <3>2
  <2>3. session' = [session EXCEPT ![s] = [session[s] EXCEPT !.pollAttempts = @ + 1]]
    BY <1>1 DEF ExchangeTo, IInv, TypeOK
  <2> QED
    BY <1>1, <2>2, <2>3 DEF IInv, TypeOK, ExchangeTo
<1>2. CASE Verdict(s) # "authorization_pending"
  BY <1>2 DEF ExchangeTo, IInv, TypeOK
<1> QED
  BY <1>1, <1>2

LEMMA ExchangeToIInv ==
    ASSUME IInv, NEW s \in Session, ExchangeTo(s, Verdict(s)), now' = now,
           cli[s].pc # "off" \/ session[s].status # "APPROVED",
           cli' \in [Session -> Run],
           abandoned' \in [Session -> 0..MaxAbandoned],
           lost' \in [Session -> BOOLEAN],
           \A t \in Session : cli'[t].pc = "off" => cli[t].pc = "off"
    PROVE  IInv'
<1>1. CASE Verdict(s) = "token"
  <2>1. cli[s].pc # "off"
    BY <1>1, VerdictReads DEF IInv
  <2>2. TypeOK'
    BY <1>1, MintStep DEF IInv, TypeOK
  <2>3. OffMeansAbsent'
    BY <1>1, <2>1, MintStep DEF IInv, OffMeansAbsent
  <2>4. StatusIsFounded'
    <3>1. Founded(s)'
      BY <1>1, MintStep DEF Founded, GrantedTo, SpentBy
    <3>2. \A t \in Session \ {s} : Founded(t)'
      BY <1>1, MintStep, FoundedFrame DEF IInv, StatusIsFounded
    <3> QED
      BY <3>1, <3>2 DEF StatusIsFounded
  <2> QED
    BY <2>2, <2>3, <2>4 DEF IInv
<1>2. CASE Verdict(s) # "token"
  <2>1. TypeOK'
    BY <1>2, OtherVerdictStep DEF IInv, TypeOK
  <2>2. OffMeansAbsent'
    BY <1>2, OtherVerdictStep DEF IInv, OffMeansAbsent
  <2>3. StatusIsFounded'
    BY <1>2, OtherVerdictStep, FoundedFrame DEF IInv, StatusIsFounded
  <2> QED
    BY <2>1, <2>2, <2>3 DEF IInv
<1> QED
  BY <1>1, <1>2

LEMMA CleanupIInv ==
    ASSUME IInv, Cleanup
    PROVE  IInv'
<1>1. /\ session' \in [Session -> Row]
      /\ \A s \in Session :
           \/ session'[s] = session[s]
           \/ session[s].status # "absent" /\ session'[s].status = "deleted"
  <2>1. [NoRow EXCEPT !.status = "deleted"] \in Row
    BY BoundAssumption
  <2>2. \A s \in Session :
          \/ session'[s] = session[s]
          \/ Exists(s) /\ session'[s] = [NoRow EXCEPT !.status = "deleted"]
    BY DEF Cleanup, IsStale
  <2>3. session' = [s \in Session |-> session'[s]]
    BY DEF Cleanup
  <2>4. \A s \in Session : session'[s] \in Row
    BY <2>1, <2>2 DEF IInv, TypeOK
  <2> QED
    BY <2>2, <2>3, <2>4 DEF Exists
<1>2. UNCHANGED <<now, approvals, tokens, subject, cli, abandoned, lost>>
  BY DEF Cleanup, client
<1>3. TypeOK'
  BY <1>1, <1>2 DEF IInv, TypeOK
<1>4. OffMeansAbsent'
  BY <1>1, <1>2 DEF IInv, OffMeansAbsent
<1>5. StatusIsFounded'
  <2> SUFFICES ASSUME NEW s \in Session PROVE Founded(s)'
    BY DEF StatusIsFounded
  <2>1. CASE session'[s] = session[s]
    BY <1>2, <2>1, FoundedFrame DEF IInv, StatusIsFounded
  <2>2. CASE session[s].status # "absent" /\ session'[s].status = "deleted"
    <3>1. Ungranted(s) \/ \E u \in User : GrantedTo(s, u) \/ SpentBy(s, u)
      BY <2>2 DEF IInv, TypeOK, StatusIsFounded, Founded
    <3> QED
      BY <1>2, <2>2, <3>1 DEF Founded, Ungranted, GrantedTo, SpentBy
  <2> QED
    BY <1>1, <2>1, <2>2
<1> QED
  BY <1>3, <1>4, <1>5 DEF IInv

\* The actions of the CLI and the network that do not reach the service.
ClientMove(s) ==
    \/ InitiateFails(s) \/ Started(s) \/ StartBreaks(s)
    \/ Poll(s) \/ ExchangeRefused(s)
    \/ Receive(s) \/ Break(s) \/ Interrupt(s)

LEMMA ClientMoveTypes ==
    ASSUME IInv, NEW s \in Session, ClientMove(s)
    PROVE  /\ UNCHANGED server
           /\ now' = now
           /\ cli' \in [Session -> Run]
           /\ abandoned' \in [Session -> 0..MaxAbandoned]
           /\ lost' \in [Session -> BOOLEAN]
           /\ \A t \in Session : cli'[t].pc = "off" => cli[t].pc = "off"
<1>1. now \in Nat /\ now + Lifetime \in Nat
  BY BoundAssumption DEF IInv, TypeOK
<1>2. CASE Started(s)
  BY <1>1, <1>2, ZenonT(60) DEF IInv, TypeOK, Started
<1>3. CASE InitiateFails(s) \/ StartBreaks(s) \/ Poll(s) \/ Interrupt(s)
  <2>1. UNCHANGED <<now, server, abandoned, lost>>
    BY <1>3 DEF InitiateFails, StartBreaks, Poll, Interrupt
  <2>2. \/ Fails(s)
        \/ cli' = [cli EXCEPT ![s].pc = "polling"]
    BY <1>3 DEF InitiateFails, StartBreaks, Poll, Interrupt
  <2>3. CASE Fails(s)
    <3>1. cli' = [cli EXCEPT ![s] = [cli[s] EXCEPT !.pc = "failed", !.reply = "none"]]
      BY <2>3 DEF Fails, IInv, TypeOK
    <3>2. [cli[s] EXCEPT !.pc = "failed", !.reply = "none"] \in Run
      BY DEF IInv, TypeOK
    <3>3. cli' \in [Session -> Run]
      BY <3>1, <3>2 DEF IInv, TypeOK
    <3>4. \A t \in Session : cli'[t].pc = "off" => cli[t].pc = "off"
      BY <3>1 DEF IInv, TypeOK
    <3> QED
      BY <2>1, <3>3, <3>4 DEF IInv, TypeOK
  <2>4. CASE cli' = [cli EXCEPT ![s].pc = "polling"]
    BY <2>1, <2>4 DEF IInv, TypeOK
  <2> QED
    BY <2>2, <2>3, <2>4
<1>4. CASE ExchangeRefused(s)
  BY <1>4 DEF IInv, TypeOK, ExchangeRefused
<1>5. CASE Receive(s)
  <2> DEFINE pc == CASE cli[s].reply = "token" -> "authenticated"
                     [] cli[s].reply \in {"authorization_pending",
                                          "slow_down"} -> "waiting"
                     [] OTHER -> "failed"
  <2>1. pc \in {"authenticated", "waiting", "failed"}
    BY DEF pc
  <2>2. cli' = [cli EXCEPT ![s].pc = pc, ![s].reply = "none"]
    BY <1>5 DEF Receive
  <2>3. UNCHANGED <<now, server, abandoned, lost>>
    BY <1>5 DEF Receive
  <2> HIDE DEF pc
  <2>4. cli' = [cli EXCEPT ![s] = [cli[s] EXCEPT !.pc = pc, !.reply = "none"]]
    BY <2>2 DEF IInv, TypeOK
  <2>5. [cli[s] EXCEPT !.pc = pc, !.reply = "none"] \in Run
    BY <2>1 DEF IInv, TypeOK
  <2>6. cli' \in [Session -> Run]
    BY <2>4, <2>5 DEF IInv, TypeOK
  <2>7. \A t \in Session : cli'[t].pc = "off" => cli[t].pc = "off"
    BY <2>1, <2>4 DEF IInv, TypeOK
  <2> QED
    BY <2>3, <2>6, <2>7 DEF IInv, TypeOK
<1>6. CASE Break(s)
  <2>1. cli' \in [Session -> Run] /\ cli'[s].pc = "waiting" /\
        \A t \in Session \ {s} : cli'[t] = cli[t]
    BY <1>6 DEF IInv, TypeOK, Break
  <2>2. abandoned' \in [Session -> 0..MaxAbandoned]
    BY <1>6, BoundAssumption, SMTT(30) DEF IInv, TypeOK, Break
  <2>3. lost' \in [Session -> BOOLEAN]
    BY <1>6 DEF IInv, TypeOK, Break
  <2>4. UNCHANGED <<now, server>>
    BY <1>6 DEF Break
  <2>5. \A t \in Session : cli'[t].pc = "off" => cli[t].pc = "off"
    BY <2>1
  <2> QED
    BY <2>1, <2>2, <2>3, <2>4, <2>5
<1> QED
  BY <1>2, <1>3, <1>4, <1>5, <1>6 DEF ClientMove

LEMMA ExchangeIInv ==
    ASSUME IInv, NEW s \in Session, Exchange(s) \/ ExchangeAbandoned(s)
    PROVE  IInv'
<1>1. ExchangeTo(s, Verdict(s)) /\ now' = now
  BY DEF Exchange, ExchangeAbandoned
<1>2. cli[s].pc # "off" \/ session[s].status # "APPROVED"
  BY DEF IInv, OffMeansAbsent
<1>3. /\ cli' \in [Session -> Run]
      /\ \A t \in Session : cli'[t].pc = "off" => cli[t].pc = "off"
  <2>1. Verdict(s) \in Reply
    BY VerdictReads DEF IInv
  <2>2. CASE Exchange(s)
    <3>1. cli' = [cli EXCEPT ![s].reply = Verdict(s)]
      BY <2>2 DEF Exchange
    <3>2. cli' = [cli EXCEPT ![s] = [cli[s] EXCEPT !.reply = Verdict(s)]]
      BY <3>1 DEF IInv, TypeOK
    <3>3. [cli[s] EXCEPT !.reply = Verdict(s)] \in Run
      BY <2>1 DEF IInv, TypeOK
    <3>4. cli' \in [Session -> Run]
      BY <3>2, <3>3 DEF IInv, TypeOK
    <3>5. \A t \in Session : cli'[t].pc = cli[t].pc
      BY <3>2 DEF IInv, TypeOK
    <3> QED
      BY <3>4, <3>5
  <2>3. CASE ExchangeAbandoned(s)
    BY <2>3 DEF IInv, TypeOK, ExchangeAbandoned
  <2> QED
    BY <2>2, <2>3
<1>4. abandoned' \in [Session -> 0..MaxAbandoned]
  <2>1. \/ abandoned' = abandoned
        \/ abandoned[s] > 0 /\ abandoned' = [abandoned EXCEPT ![s] = @ - 1]
    BY DEF Exchange, ExchangeAbandoned
  <2>2. abandoned[s] > 0 => abandoned[s] - 1 \in 0..MaxAbandoned
    BY BoundAssumption DEF IInv, TypeOK
  <2> QED
    BY <2>1, <2>2 DEF IInv, TypeOK
<1>5. lost' \in [Session -> BOOLEAN]
  BY DEF IInv, TypeOK, Exchange, ExchangeAbandoned
<1> QED
  BY <1>1, <1>2, <1>3, <1>4, <1>5, ExchangeToIInv

LEMMA NextIInv == IInv /\ [Next]_vars => IInv'
<1> SUFFICES ASSUME IInv, [Next]_vars PROVE IInv'
  OBVIOUS
<1>1. CASE UNCHANGED vars \/ Tick
  <2>1. now' \in Nat /\ UNCHANGED <<server, client>>
    BY <1>1 DEF IInv, TypeOK, vars, Tick
  <2> QED
    BY <2>1, ClientStep DEF IInv, TypeOK, client
<1>2. CASE Cleanup
  BY <1>2, CleanupIInv
<1>3. ASSUME NEW s \in Session, ClientMove(s) PROVE IInv'
  <2>1. now' \in Nat
    BY <1>3, ClientMoveTypes DEF IInv, TypeOK
  <2> QED
    BY <1>3, <2>1, ClientMoveTypes, ClientStep
<1> QED
  BY <1>1, <1>2, <1>3, InitiateIInv, ApproveIInv, ExchangeIInv
  DEF Next, ClientMove

LEMMA Invariance == Spec => []IInv
BY InitIInv, NextIInv, PTL DEF Spec

\* Every variable keeps its type and no attempt counter passes its maximum.
THEOREM TypeCorrect == Spec => []TypeOK
BY Invariance, PTL DEF IInv

\* One login attempt yields at most one token, however often it is polled.
THEOREM TokenIsSingle == Spec => []OneTokenPerSession
<1>1. ASSUME IInv, NEW s \in Session
      PROVE  tokens[s] <= 1
  <2>1. session[s].status \in Status
    BY <1>1 DEF IInv, TypeOK
  <2>2. tokens[s] = 0 \/ tokens[s] = 1
    BY <1>1, <2>1 DEF IInv, StatusIsFounded, Founded, Ungranted, GrantedTo, SpentBy
  <2> QED
    BY <2>2
<1>2. IInv => OneTokenPerSession
  BY <1>1 DEF OneTokenPerSession
<1> QED
  BY <1>2, Invariance, PTL

\* A token belongs to the only user whose approval was audited.
THEOREM TokenApproval == Spec => []TokenIsApproved
<1>1. IInv => TokenIsApproved
  BY DEF IInv, TypeOK, TokenIsApproved, StatusIsFounded, Founded, Ungranted,
         GrantedTo, SpentBy
<1> QED
  BY <1>1, Invariance, PTL

\* Approvals and mints happen within the lifetime of the session.
THEOREM ExpiryIsRespected == Spec => NothingAfterExpiry
<1>1. ASSUME IInv, [Next]_vars, NEW s \in Session,
             tokens'[s] # tokens[s] \/ approvals'[s] # approvals[s]
      PROVE  now <= session[s].expiresAt
  <2>1. now \in Nat /\ session[s].expiresAt \in Nat
    BY <1>1 DEF IInv, TypeOK
  <2>2. ASSUME NEW u \in User, NEW t \in Session, Approve(t, u)
        PROVE  now <= session[s].expiresAt
    <3>1. t = s /\ ~ Overdue(s)
      BY <1>1, <2>2 DEF IInv, TypeOK, Approve, client
    <3> QED
      BY <2>1, <3>1 DEF Overdue
  <2>3. ASSUME NEW t \in Session, ExchangeTo(t, Verdict(t))
        PROVE  now <= session[s].expiresAt
    <3>1. Verdict(t) = "token" /\ t = s
      BY <1>1, <2>3 DEF IInv, TypeOK, ExchangeTo
    <3> QED
      BY <1>1, <2>1, <3>1, VerdictReads DEF IInv, Overdue
  <2>4. ~ UNCHANGED <<tokens, approvals>>
    BY <1>1
  <2>5. \/ \E u \in User, t \in Session : Approve(t, u)
        \/ \E t \in Session : ExchangeTo(t, Verdict(t))
    BY <1>1, <2>4 DEF Next, vars, server, client, Tick, Cleanup, Initiate, InitiateFails, Started,
                StartBreaks, Poll, Exchange, ExchangeRefused, ExchangeAbandoned,
                Receive, Break, Interrupt
  <2> QED
    BY <2>2, <2>3, <2>5
<1>2. IInv /\ [Next]_vars =>
        [\A s \in Session :
           tokens'[s] # tokens[s] \/ approvals'[s] # approvals[s] =>
             now <= session[s].expiresAt]_vars
  BY <1>1
<1> QED
  BY <1>2, Invariance, PTL DEF Spec, NothingAfterExpiry

-------------------------------------------------------------------------------
(* Where the tokens are                                                      *)

\* A reply is in transit only to a CLI that waits for it, a request that nobody
\* waits for was given up, and whatever was minted is held, in transit or lost.
Accounted(s) ==
    /\ cli[s].reply # "none" => cli[s].pc = "polling"
    /\ abandoned[s] > 0 => lost[s]
    /\ cli[s].pc = "authenticated" \/ cli[s].reply = "token" => tokens[s] = 1
    /\ tokens[s] > 0 =>
         cli[s].pc = "authenticated" \/ cli[s].reply = "token" \/ lost[s]

TokensAreAccounted == \A s \in Session : Accounted(s)

LEMMA InitAccounted == Init => TokensAreAccounted
<1> SUFFICES ASSUME Init, NEW s \in Session PROVE Accounted(s)
  BY DEF TokensAreAccounted
<1>1. cli[s].pc = "off" /\ cli[s].reply = "none"
  BY DEF Init
<1>2. abandoned[s] = 0 /\ tokens[s] = 0
  BY DEF Init
<1> QED
  BY <1>1, <1>2 DEF Accounted

\* What Accounted depends on.
LEMMA AccountedFrame ==
    ASSUME NEW s \in Session, Accounted(s),
           cli'[s] = cli[s], tokens'[s] = tokens[s],
           abandoned'[s] = abandoned[s], lost'[s] = lost[s]
    PROVE  Accounted(s)'
BY DEF Accounted

\* A run that leaves nothing in transit holds nothing new.
LEMMA MovesOn ==
    ASSUME IInv, TokensAreAccounted, NEW s \in Session,
           UNCHANGED <<tokens, abandoned, lost>>,
           cli[s].pc # "authenticated", cli[s].reply = "none",
           NEW run \in Run, cli' = [cli EXCEPT ![s] = run],
           run.pc # "authenticated", run.reply \notin {"token"},
           run.reply = "none" \/ run.pc = "polling"
    PROVE  TokensAreAccounted'
<1>1. cli'[s] = run /\ \A t \in Session \ {s} : cli'[t] = cli[t]
  BY DEF IInv, TypeOK
<1>2. Accounted(s)'
  BY <1>1 DEF TokensAreAccounted, Accounted
<1> QED
  BY <1>1, <1>2, AccountedFrame DEF TokensAreAccounted

LEMMA ClientMoveAccounted ==
    ASSUME IInv, TokensAreAccounted, NEW s \in Session, ClientMove(s)
    PROVE  TokensAreAccounted'
<1>1. cli[s] \in Run /\ Accounted(s)
  BY DEF IInv, TypeOK, TokensAreAccounted
<1>2. CASE InitiateFails(s) \/ StartBreaks(s) \/ Interrupt(s) \/ Started(s) \/ Poll(s)
  <2>1. /\ UNCHANGED <<tokens, abandoned, lost>>
        /\ cli[s].pc \in {"off", "starting", "waiting"}
    BY <1>2 DEF InitiateFails, StartBreaks, Interrupt, Started, Poll, server
  <2>2. cli[s].reply = "none"
    BY <1>1, <2>1 DEF Accounted
  <2>3. PICK run \in Run :
          /\ cli' = [cli EXCEPT ![s] = run]
          /\ run.pc # "authenticated" /\ run.reply = "none"
    <3>1. CASE Fails(s)
      <4> DEFINE ended == [cli[s] EXCEPT !.pc = "failed", !.reply = "none"]
      <4>1. cli' = [cli EXCEPT ![s] = ended]
        BY <3>1 DEF Fails, IInv, TypeOK
      <4>2. ended \in Run /\ ended.pc = "failed" /\ ended.reply = "none"
        BY <1>1
      <4> HIDE DEF ended
      <4> QED
        BY <4>1, <4>2
    <3>2. CASE Started(s)
      <4>1. now + Lifetime \in Nat
        BY BoundAssumption DEF IInv, TypeOK
      <4> DEFINE begun == [cli[s] EXCEPT !.pc = "waiting", !.deadline = now + Lifetime]
      <4>2. cli' = [cli EXCEPT ![s] = begun]
        BY <3>2 DEF Started, IInv, TypeOK
      <4>3. begun \in Run /\ begun.pc = "waiting" /\ begun.reply = "none"
        BY <1>1, <2>2, <4>1
      <4> HIDE DEF begun
      <4> QED
        BY <4>2, <4>3
    <3>3. CASE cli' = [cli EXCEPT ![s].pc = "polling"]
      <4>1. cli' = [cli EXCEPT ![s] = [cli[s] EXCEPT !.pc = "polling"]]
        BY <3>3 DEF IInv, TypeOK
      <4> QED
        BY <1>1, <2>2, <4>1
    <3> QED
      BY <1>2, <3>1, <3>2, <3>3 DEF InitiateFails, StartBreaks, Interrupt, Poll
  <2> QED
    BY <2>1, <2>2, <2>3, MovesOn
<1>3. CASE ExchangeRefused(s)
  <2>1. PICK reply \in {"slow_down", "server_error"} :
          cli' = [cli EXCEPT ![s].reply = reply]
    BY <1>3 DEF ExchangeRefused
  <2>2. cli' = [cli EXCEPT ![s] = [cli[s] EXCEPT !.reply = reply]]
    BY <2>1 DEF IInv, TypeOK
  <2>3. [cli[s] EXCEPT !.reply = reply] \in Run
    BY <1>1
  <2>4. UNCHANGED <<tokens, abandoned, lost>> /\ cli[s].pc = "polling" /\ cli[s].reply = "none"
    BY <1>3 DEF ExchangeRefused, server
  <2> QED
    BY <1>1, <2>2, <2>3, <2>4, MovesOn
<1>4. CASE Receive(s)
  <2> DEFINE pc == CASE cli[s].reply = "token" -> "authenticated"
                     [] cli[s].reply \in {"authorization_pending",
                                          "slow_down"} -> "waiting"
                     [] OTHER -> "failed"
  <2>1. (pc = "authenticated") <=> (cli[s].reply = "token")
    BY DEF pc
  <2>2. cli' = [cli EXCEPT ![s].pc = pc, ![s].reply = "none"]
    BY <1>4 DEF Receive
  <2>3. UNCHANGED <<tokens, abandoned, lost>> /\ cli[s].pc = "polling"
    BY <1>4 DEF Receive, server
  <2> HIDE DEF pc
  <2>4. /\ cli'[s].pc = pc /\ cli'[s].reply = "none"
        /\ \A t \in Session \ {s} : cli'[t] = cli[t]
    BY <2>2 DEF IInv, TypeOK
  <2>5. Accounted(s)'
    BY <1>1, <2>1, <2>3, <2>4 DEF Accounted
  <2> QED
    BY <2>3, <2>4, <2>5, AccountedFrame DEF TokensAreAccounted
<1>5. CASE Break(s)
  <2>1. /\ cli'[s].pc = "waiting" /\ cli'[s].reply = "none"
        /\ \A t \in Session \ {s} : cli'[t] = cli[t]
    BY <1>5 DEF Break, IInv, TypeOK
  <2>2. /\ \A t \in Session \ {s} : lost'[t] = lost[t] /\ abandoned'[t] = abandoned[t]
        /\ \/ lost'[s] = TRUE
           \/ lost'[s] = lost[s] /\ abandoned'[s] = abandoned[s] /\ cli[s].reply = "none"
    BY <1>5 DEF Break, IInv, TypeOK
  <2>3. tokens' = tokens /\ cli[s].pc = "polling"
    BY <1>5 DEF Break, server
  <2>4. Accounted(s)'
    BY <1>1, <2>1, <2>2, <2>3 DEF Accounted
  <2> QED
    BY <2>1, <2>2, <2>3, <2>4, AccountedFrame DEF TokensAreAccounted
<1> QED
  BY <1>2, <1>3, <1>4, <1>5 DEF ClientMove

LEMMA ExchangeAccounted ==
    ASSUME IInv, TokensAreAccounted, NEW s \in Session, Exchange(s) \/ ExchangeAbandoned(s)
    PROVE  TokensAreAccounted'
<1>1. Accounted(s) /\ abandoned[s] \in Nat /\ tokens[s] \in Nat
  BY DEF IInv, TypeOK, TokensAreAccounted
<1>2. /\ Verdict(s) = "token" => tokens'[s] = 1
      /\ Verdict(s) # "token" => tokens'[s] = tokens[s]
      /\ \A t \in Session \ {s} : tokens'[t] = tokens[t]
  BY MintStep, OtherVerdictStep DEF Exchange, ExchangeAbandoned
<1>3. CASE Exchange(s)
  <2>1. /\ cli'[s].pc = "polling" /\ cli'[s].reply = Verdict(s)
        /\ \A t \in Session \ {s} : cli'[t] = cli[t]
    BY <1>3 DEF Exchange, IInv, TypeOK
  <2>2. UNCHANGED <<abandoned, lost>> /\ cli[s].pc = "polling" /\ cli[s].reply = "none"
    BY <1>3 DEF Exchange
  <2>3. Accounted(s)'
    BY <1>1, <1>2, <2>1, <2>2 DEF Accounted
  <2> QED
    BY <1>2, <2>1, <2>2, <2>3, AccountedFrame DEF TokensAreAccounted
<1>4. CASE ExchangeAbandoned(s)
  <2>1. /\ UNCHANGED <<cli, lost>> /\ abandoned[s] > 0
        /\ \A t \in Session \ {s} : abandoned'[t] = abandoned[t]
    BY <1>1, <1>4 DEF ExchangeAbandoned, IInv, TypeOK
  <2>2. Accounted(s)'
    BY <1>1, <1>2, <2>1 DEF Accounted
  <2> QED
    BY <1>2, <2>1, <2>2, AccountedFrame DEF TokensAreAccounted
<1> QED
  BY <1>3, <1>4

LEMMA NextAccounted == IInv /\ TokensAreAccounted /\ [Next]_vars => TokensAreAccounted'
<1> SUFFICES ASSUME IInv, TokensAreAccounted, [Next]_vars PROVE TokensAreAccounted'
  OBVIOUS
<1>1. CASE UNCHANGED <<tokens, client>>
  BY <1>1, AccountedFrame DEF TokensAreAccounted, client
<1>2. ASSUME NEW s \in Session, Initiate(s) PROVE TokensAreAccounted'
  <2>1. cli[s] \in Run /\ cli[s].pc = "off" /\ UNCHANGED <<tokens, abandoned, lost>>
    BY <1>2 DEF IInv, TypeOK, Initiate
  <2>2. cli[s].reply = "none"
    BY <2>1 DEF TokensAreAccounted, Accounted
  <2>3. cli' = [cli EXCEPT ![s] = [cli[s] EXCEPT !.pc = "starting"]]
    BY <1>2 DEF IInv, TypeOK, Initiate
  <2>4. [cli[s] EXCEPT !.pc = "starting"] \in Run
    BY <2>1
  <2> QED
    BY <2>1, <2>2, <2>3, <2>4, MovesOn
<1>3. CASE UNCHANGED vars \/ Tick \/ Cleanup \/ \E s \in Session, u \in User : Approve(s, u)
  <2>1. UNCHANGED <<tokens, client>>
    BY <1>3 DEF vars, server, Tick, Cleanup, Approve
  <2> QED
    BY <1>1, <2>1
<1> QED
  BY <1>2, <1>3, ClientMoveAccounted, ExchangeAccounted DEF Next, ClientMove

\* A CLI that reports success holds the one token of its session, and a token
\* that no CLI has or will be sent was lost by a connection that broke.
THEOREM TokensArePlaced == Spec => []NoTokenAstray
<1>1. TokensAreAccounted => NoTokenAstray
  BY DEF TokensAreAccounted, Accounted, NoTokenAstray
<1>2. Spec => []TokensAreAccounted
  BY InitAccounted, NextAccounted, Invariance, PTL DEF Spec
<1> QED
  BY <1>1, <1>2, PTL

-------------------------------------------------------------------------------
(* The device flow implements TokenIssue                                     *)

LEMMA ApproverIs ==
    ASSUME NEW s \in Session, NEW u \in User, approvals[s] = {u}
    PROVE  Approver(s) = u
BY DEF Approver

LEMMA InitRefines == Init => Issuing!Init
BY DEF Init, Issuing!Init, Approver

LEMMA ApproveRefines ==
    ASSUME IInv, NEW s \in Session, NEW u \in User, Approve(s, u)
    PROVE  Issuing!Grant(s, u) \/ UNCHANGED <<approvals, subject>>
<1>1. CASE session[s].status = "PENDING" /\ ~ Overdue(s)
  <2>1. approvals[s] = {}
    BY <1>1 DEF IInv, StatusIsFounded, Founded, Ungranted
  <2>2. approvals' = [approvals EXCEPT ![s] = {u}]
    BY <1>1, <2>1 DEF Approve, IInv, TypeOK
  <2>3. Approver(s) = NoUser
    BY <2>1 DEF Approver
  <2>4. Approver(s)' = u
    <3>1. approvals'[s] = {u}
      BY <2>2 DEF IInv, TypeOK
    <3> QED
      BY <3>1 DEF Approver
  <2>5. \A t \in Session \ {s} : Approver(t)' = Approver(t)
    BY <2>2 DEF IInv, TypeOK, Approver
  <2>6. [t \in Session |-> Approver(t)'] =
          [[t \in Session |-> Approver(t)] EXCEPT ![s] = u]
    BY <2>4, <2>5
  <2> QED
    BY <2>3, <2>6 DEF Issuing!Grant, Approve
<1>2. CASE ~ (session[s].status = "PENDING" /\ ~ Overdue(s))
  BY <1>2 DEF Approve
<1> QED
  BY <1>1, <1>2

LEMMA ExchangeRefines ==
    ASSUME IInv, NEW s \in Session, ExchangeTo(s, Verdict(s))
    PROVE  Issuing!Issue(s) \/ UNCHANGED <<approvals, subject>>
<1>1. CASE Verdict(s) = "token"
  <2>1. session[s].user \in User /\ approvals[s] = {session[s].user}
    BY <1>1, MintStep DEF GrantedTo
  <2>2. Approver(s) = session[s].user /\ Approver(s) # NoUser
    BY <2>1, ApproverIs, NoUserAssumption
  <2>3. subject[s] = NoUser
    BY <1>1, MintStep DEF GrantedTo
  <2>4. subject' = [subject EXCEPT ![s] = Approver(s)] /\ approvals' = approvals
    BY <1>1, <2>2 DEF ExchangeTo
  <2>5. [t \in Session |-> Approver(t)]' = [t \in Session |-> Approver(t)]
    BY <2>4 DEF Approver
  <2> QED
    BY <2>2, <2>3, <2>4, <2>5 DEF Issuing!Issue
<1>2. CASE Verdict(s) # "token"
  BY <1>2, OtherVerdictStep
<1> QED
  BY <1>1, <1>2

LEMMA StepRefines == IInv /\ [Next]_vars => [Issuing!Next]_(Issuing!vars)
<1> SUFFICES ASSUME IInv, [Next]_vars
             PROVE  Issuing!Next \/ UNCHANGED Issuing!vars
  OBVIOUS
<1>1. ASSUME NEW s \in Session, NEW u \in User, Issuing!Grant(s, u)
      PROVE  Issuing!Next
  BY <1>1 DEF Issuing!Next, Issuing!Grant
<1>2. ASSUME NEW s \in Session, Issuing!Issue(s)
      PROVE  Issuing!Next
  BY <1>2 DEF Issuing!Next, Issuing!Issue
<1>3. CASE UNCHANGED <<approvals, subject>>
  <2>1. [t \in Session |-> Approver(t)]' = [t \in Session |-> Approver(t)]
    BY <1>3 DEF Approver
  <2> QED
    BY <1>3, <2>1 DEF Issuing!vars
<1>4. \/ UNCHANGED <<approvals, subject>>
      \/ \E s \in Session, u \in User : Approve(s, u)
      \/ \E s \in Session : ExchangeTo(s, Verdict(s))
  BY DEF Next, vars, server, client, Tick, Cleanup, Initiate, InitiateFails, Started,
         StartBreaks, Poll, Exchange, ExchangeRefused, ExchangeAbandoned,
         Receive, Break, Interrupt
<1> QED
  BY <1>1, <1>2, <1>3, <1>4, ApproveRefines, ExchangeRefines

\* The service, with its clock, its budgets, its rollbacks and its sweep, and a
\* CLI on an unreliable network, keeps the promise of TokenIssue.
THEOREM DeviceFlowImplementsTokenIssue == Spec => ImplementsTokenIssue
BY InitRefines, StepRefines, Invariance, PTL
DEF Spec, ImplementsTokenIssue, Issuing!Spec
===============================================================================
