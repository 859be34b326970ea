------------------------------ MODULE DeviceFlow ------------------------------
(***************************************************************************)
(* The device login: AuthService.initiateDeviceFlow, approveSession,       *)
(* exchangeCodeForToken and cleanupExpiredSessions of domain/auth.ts, the  *)
(* /api/auth routes, and the login command of the pawthy CLI that polls    *)
(* them over a network that loses requests and replies.                    *)
(*                                                                         *)
(* Each service call is one transaction and so one step.  The transaction  *)
(* of an exchange that throws is rolled back, its writes included.          *)
(***************************************************************************)
EXTENDS Naturals

CONSTANTS
    Session,       \* device codes that may be drawn, one per CLI run
    User,          \* Discord users who may type a user code
    NoUser,        \* a null user column
    Lifetime,      \* expiresIn, in clock ticks
    MaxApprovals,  \* MAX_APPROVAL_ATTEMPTS
    MaxPolls,      \* MAX_POLL_ATTEMPTS
    MaxAbandoned,  \* bound of the model: requests a CLI gave up on
    Horizon        \* bound of the model: the clock stops there

ASSUME NoUserAssumption == NoUser \notin User
ASSUME BoundAssumption ==
    /\ Lifetime \in Nat /\ MaxApprovals \in Nat /\ MaxPolls \in Nat
    /\ MaxAbandoned \in Nat /\ Horizon \in Nat

VARIABLES
    now,        \* the clock
    session,    \* AuthSession rows
    approvals,  \* approvals[s]: users with an AUTH_SESSION_APPROVE audit row
    tokens,     \* tokens[s]: number of PAWTHY_TOKEN credentials minted
    subject,    \* subject[s]: subjectId of the latest one
    cli,        \* the CLI run of s
    abandoned,  \* abandoned[s]: requests in transit that nobody waits for
    lost        \* lost[s]: the CLI has stopped waiting for some reply

server == <<session, approvals, tokens, subject>>
client == <<cli, abandoned, lost>>
vars == <<now, server, client>>

Status == {"absent", "PENDING", "APPROVED", "EXPIRED", "CONSUMED", "deleted"}
Reply == {"none", "authorization_pending", "slow_down", "expired_token",
          "access_denied", "invalid_grant", "server_error", "token"}

Row == [status : Status, user : User \cup {NoUser}, expiresAt : Nat,
        approvalAttempts : 0..MaxApprovals, pollAttempts : 0..MaxPolls]

Run == [pc : {"off", "starting", "waiting", "polling", "authenticated", "failed"},
        deadline : Nat, reply : Reply]

NoRow == [status |-> "absent", user |-> NoUser, expiresAt |-> 0,
          approvalAttempts |-> 0, pollAttempts |-> 0]

TypeOK ==
    /\ now \in Nat
    /\ session \in [Session -> Row]
    /\ approvals \in [Session -> SUBSET User]
    /\ tokens \in [Session -> Nat]
    /\ subject \in [Session -> User \cup {NoUser}]
    /\ cli \in [Session -> Run]
    /\ abandoned \in [Session -> 0..MaxAbandoned]
    /\ lost \in [Session -> BOOLEAN]

Init ==
    /\ now = 0
    /\ session = [s \in Session |-> NoRow]
    /\ approvals = [s \in Session |-> {}]
    /\ tokens = [s \in Session |-> 0]
    /\ subject = [s \in Session |-> NoUser]
    /\ cli = [s \in Session |-> [pc |-> "off", deadline |-> 0, reply |-> "none"]]
    /\ abandoned = [s \in Session |-> 0]
    /\ lost = [s \in Session |-> FALSE]

-------------------------------------------------------------------------------
(* The service                                                               *)

Exists(s) == session[s].status \notin {"absent", "deleted"}

\* Mutant: a session stays usable for one more tick.
OverdueWithLeeway(s) == session[s].expiresAt + 1 < now

Overdue(s) == session[s].expiresAt < now

\* The CLI asks for a code: initiateDeviceFlow creates the session.
Initiate(s) ==
    /\ cli[s].pc = "off"
    /\ now + 2 * Lifetime < Horizon
    /\ session' = [session EXCEPT ![s] = [NoRow EXCEPT !.status = "PENDING",
                                             !.expiresAt = now + Lifetime]]
    /\ cli' = [cli EXCEPT ![s].pc = "starting"]
    /\ UNCHANGED <<now, approvals, tokens, subject, abandoned, lost>>

\* incrementSessionAttempts
HasApprovalBudget(s) == session[s].approvalAttempts < MaxApprovals

\* Mutant: the transition to APPROVED does not test the status it leaves.
OpenUntilExpired(s) == session[s].status \in {"PENDING", "APPROVED", "CONSUMED"}

Open(s) == session[s].status = "PENDING"

\* approveSession.  Every call that is not rate limited uses up an attempt,
\* also on a session that is approved, expired or consumed already.
Approve(s, u) ==
    LET counted == [session[s] EXCEPT !.approvalAttempts = @ + 1] IN
    /\ Exists(s)
    /\ HasApprovalBudget(s)
    /\ session' = [session EXCEPT ![s] =
                     IF ~ Open(s) THEN counted
                     ELSE IF Overdue(s) THEN [counted EXCEPT !.status = "EXPIRED"]
                     ELSE [counted EXCEPT !.status = "APPROVED", !.user = u]]
    /\ approvals' = IF Open(s) /\ ~ Overdue(s)
                      THEN [approvals EXCEPT ![s] = @ \cup {u}]
                      ELSE approvals
    /\ UNCHANGED <<now, tokens, subject, client>>

\* What exchangeCodeForToken makes of a session.
Verdict(s) ==
    IF ~ Exists(s) THEN "invalid_grant"
    ELSE IF session[s].pollAttempts >= MaxPolls THEN "slow_down"
    ELSE IF session[s].status = "CONSUMED" THEN "invalid_grant"
    ELSE IF Overdue(s) THEN "expired_token"
    ELSE CASE session[s].status = "PENDING"  -> "authorization_pending"
           [] session[s].status = "APPROVED" -> "token"
           [] session[s].status = "EXPIRED"  -> "access_denied"

\* Mutant: the mint does not consume the session.
ExchangeToUnconsumed(s, verdict) ==
    /\ session' = IF verdict \in {"authorization_pending", "token"}
                    THEN [session EXCEPT ![s].pollAttempts = @ + 1] ELSE session
    /\ tokens' = IF verdict = "token" THEN [tokens EXCEPT ![s] = @ + 1] ELSE tokens
    /\ subject' = IF verdict = "token"
                    THEN [subject EXCEPT ![s] = session[s].user] ELSE subject
    /\ UNCHANGED approvals

\* Only a call that returns commits: a poll of a pending session, counted, or
\* the mint.  The other verdicts are thrown and leave no trace.
ExchangeTo(s, verdict) ==
    /\ session' =
         CASE verdict = "authorization_pending" ->
                [session EXCEPT ![s].pollAttempts = @ + 1]
           [] verdict = "token" ->
                [session EXCEPT ![s].pollAttempts = @ + 1,
                                ![s].status = "CONSUMED"]
           [] OTHER -> session
    /\ tokens' = IF verdict = "token" THEN [tokens EXCEPT ![s] = @ + 1] ELSE tokens
    /\ subject' = IF verdict = "token"
                    THEN [subject EXCEPT ![s] = session[s].user] ELSE subject
    /\ UNCHANGED approvals

\* The condition of deleteExpiredSessions
IsStale(s) == Exists(s) /\ (session[s].status \in {"EXPIRED", "CONSUMED"} \/ Overdue(s))

\* cleanupExpiredSessions
Cleanup ==
    /\ \E s \in Session : IsStale(s)
    /\ session' = [s \in Session |->
                     IF IsStale(s) THEN [NoRow EXCEPT !.status = "deleted"]
                                    ELSE session[s]]
    /\ UNCHANGED <<now, approvals, tokens, subject, client>>

-------------------------------------------------------------------------------
(* The CLI and the network                                                   *)

Fails(s) == cli' = [cli EXCEPT ![s].pc = "failed", ![s].reply = "none"]

\* The service refuses or cannot create a session, or is not reached.
InitiateFails(s) ==
    /\ cli[s].pc = "off"
    /\ Fails(s)
    /\ UNCHANGED <<now, server, abandoned, lost>>

\* The reply with the codes arrives and the local timeout starts.
Started(s) ==
    /\ cli[s].pc = "starting"
    /\ now + Lifetime < Horizon
    /\ cli' = [cli EXCEPT ![s].pc = "waiting", ![s].deadline = now + Lifetime]
    /\ UNCHANGED <<now, server, abandoned, lost>>

StartBreaks(s) ==
    /\ cli[s].pc = "starting"
    /\ Fails(s)
    /\ UNCHANGED <<now, server, abandoned, lost>>

\* Mutant: the CLI forgets its own timeout.
PollForever(s) ==
    /\ cli[s].pc = "waiting"
    /\ cli' = [cli EXCEPT ![s].pc = "polling"]
    /\ UNCHANGED <<now, server, abandoned, lost>>

\* The timer of the CLI: give up or send the next poll.
Poll(s) ==
    /\ cli[s].pc = "waiting"
    /\ IF now > cli[s].deadline THEN Fails(s)
                                ELSE cli' = [cli EXCEPT ![s].pc = "polling"]
    /\ UNCHANGED <<now, server, abandoned, lost>>

\* The route handles the poll the CLI waits for ...
Exchange(s) ==
    /\ cli[s].pc = "polling"
    /\ cli[s].reply = "none"
    /\ ExchangeTo(s, Verdict(s))
    /\ cli' = [cli EXCEPT ![s].reply = Verdict(s)]
    /\ UNCHANGED <<now, abandoned, lost>>

\* Mutant: the rate limiter is asked after the transaction.
ExchangeRefusedLate(s) ==
    /\ cli[s].pc = "polling"
    /\ cli[s].reply = "none"
    /\ ExchangeTo(s, Verdict(s))
    /\ cli' = [cli EXCEPT ![s].reply = "slow_down"]
    /\ UNCHANGED <<now, abandoned, lost>>

\* ... or its rate limiter refuses it before the transaction, or the
\* transaction throws something of its own (storage, audit) ...
ExchangeRefused(s) ==
    /\ cli[s].pc = "polling"
    /\ cli[s].reply = "none"
    /\ \E reply \in {"slow_down", "server_error"} :
         cli' = [cli EXCEPT ![s].reply = reply]
    /\ UNCHANGED <<now, server, abandoned, lost>>

\* ... or it handles one the CLI took for lost.
ExchangeAbandoned(s) ==
    /\ abandoned[s] > 0
    /\ abandoned' = [abandoned EXCEPT ![s] = @ - 1]
    /\ ExchangeTo(s, Verdict(s))
    /\ UNCHANGED <<now, cli, lost>>

\* The reply arrives: a token ends the run, some errors do, others poll again.
Receive(s) ==
    /\ cli[s].pc = "polling"
    /\ cli[s].reply # "none"
    /\ cli' = [cli EXCEPT
                 ![s].pc = CASE cli[s].reply = "token" -> "authenticated"
                             [] cli[s].reply \in {"authorization_pending",
                                                  "slow_down"} -> "waiting"
                             [] OTHER -> "failed",
                 ![s].reply = "none"]
    /\ UNCHANGED <<now, server, abandoned, lost>>

\* The connection breaks: before the service saw the poll, which may or may
\* not still get there, or after.  "Network error during polling. Retrying..."
\* The CLI says the same when it cannot save the token it has received.
Break(s) ==
    /\ cli[s].pc = "polling"
    /\ cli' = [cli EXCEPT ![s].pc = "waiting", ![s].reply = "none"]
    /\ \/ /\ cli[s].reply # "none"
          /\ lost' = [lost EXCEPT ![s] = TRUE]
          /\ UNCHANGED abandoned
       \/ /\ cli[s].reply = "none"
          /\ abandoned[s] < MaxAbandoned
          /\ abandoned' = [abandoned EXCEPT ![s] = @ + 1]
          /\ lost' = [lost EXCEPT ![s] = TRUE]
       \/ /\ cli[s].reply = "none"
          /\ UNCHANGED <<abandoned, lost>>
    /\ UNCHANGED <<now, server>>

\* The user interrupts the CLI; while a poll is in flight its connection breaks
\* first.
Interrupt(s) ==
    /\ cli[s].pc = "waiting"
    /\ Fails(s)
    /\ UNCHANGED <<now, server, abandoned, lost>>

Tick ==
    /\ now < Horizon
    /\ now' = now + 1
    /\ UNCHANGED <<server, client>>

Next ==
    \/ Tick
    \/ Cleanup
    \/ \E s \in Session :
         \/ Initiate(s) \/ InitiateFails(s) \/ Started(s) \/ StartBreaks(s)
         \/ Poll(s)
         \/ Exchange(s) \/ ExchangeRefused(s) \/ ExchangeAbandoned(s)
         \/ Receive(s) \/ Break(s) \/ Interrupt(s)
         \/ \E u \in User : Approve(s, u)

Spec == Init /\ [][Next]_vars

\* Time passes, the sweep of index.ts runs, the timers of the CLI fire, and a
\* request is answered or its connection breaks.
FairSpec ==
    /\ Spec
    /\ WF_vars(Tick)
    /\ WF_vars(Cleanup)
    /\ \A s \in Session :
         /\ WF_vars(Started(s) \/ StartBreaks(s))
         /\ WF_vars(Poll(s))
         /\ WF_vars(Exchange(s) \/ ExchangeRefused(s) \/ Receive(s) \/ Break(s))

-------------------------------------------------------------------------------
(* Properties                                                                *)

\* However often the CLI polls, and however many abandoned polls still reach
\* the service, a session yields at most one token.
OneTokenPerSession == \A s \in Session : tokens[s] <= 1

\* The token belongs to the one user whose approval is in the audit trail.
TokenIsApproved ==
    \A s \in Session : tokens[s] > 0 => approvals[s] = {subject[s]}

\* A CLI that reports success holds a token of its session; a token that no CLI
\* holds was lost with a reply.
NoTokenAstray ==
    \A s \in Session :
        /\ cli[s].pc = "authenticated" => tokens[s] = 1
        /\ tokens[s] > 0 =>
             \/ cli[s].pc = "authenticated"
             \/ cli[s].reply = "token"
             \/ lost[s]

\* Neither an approval nor a mint happens after the deadline of the session.
NothingAfterExpiry ==
    [][\A s \in Session :
         tokens'[s] # tokens[s] \/ approvals'[s] # approvals[s] =>
             now <= session[s].expiresAt]_vars

\* Whatever the user, the network and the limiter do, the CLI ends.
LoginEnds ==
    \A s \in Session :
        cli[s].pc # "off" ~> cli[s].pc \in {"authenticated", "failed"}

\* The promise of TokenIssue, read off the audit trail and the credentials.
Approver(s) == IF approvals[s] = {} THEN NoUser
                                    ELSE CHOOSE u \in User : u \in approvals[s]

Issuing == INSTANCE TokenIssue WITH
    granted <- [s \in Session |-> Approver(s)],
    issued <- subject

ImplementsTokenIssue == Issuing!Spec
===============================================================================
