-------------------------- MODULE ApprovalLifecycle --------------------------
(***************************************************************************)
(* The life of the approval requests of one resource, for one action and   *)
(* target: ApprovalService in domain/services.ts over the SQLite tables    *)
(* ApprovalRequest, Guardian, OutboxEvent and AuditLog.                     *)
(*                                                                         *)
(* Handlers (HTTP calls, Discord buttons and slash commands) run           *)
(* concurrently in one Node process.  Each transaction is one atomic step; *)
(* every read that a handler makes before its transaction is a step of its *)
(* own, and what it saw is kept in call[c] until the transaction.           *)
(***************************************************************************)
EXTENDS Naturals

CONSTANTS
    Request,      \* identifiers that crypto.randomUUID() may draw
    User,         \* Discord users: requesters, guardians, the owner
    Owner,        \* the effective owner of the resource
    NoUser,       \* a null user column
    NoRequest,    \* a handler that works on no request yet
    Call,         \* handler invocations that may overlap
    MaxLifetime,  \* bound on expiresInMs, in clock ticks
    Horizon       \* bound of the model: the clock stops there

ASSUME UserAssumption == Owner \in User /\ NoUser \notin User
ASSUME RequestAssumption == NoRequest \notin Request
ASSUME ClockAssumption == MaxLifetime \in Nat /\ Horizon \in Nat

VARIABLES
    now,        \* the wall clock
    request,    \* ApprovalRequest rows
    guardians,  \* users with an explicit GUARDIAN row on the resource
    callback,   \* the OutboxEvent row with the id of r's APPROVAL_CALLBACK
    decisions,  \* number of APPROVAL_DECISION audit rows of r
    call        \* local variables of the running handlers

vars == <<now, request, guardians, callback, decisions, call>>

Verdict == {"APPROVED", "DENIED"}
Terminal == Verdict \cup {"EXPIRED"}
Status == {"absent", "PENDING"} \cup Terminal

Row == [status : Status, requester : User \cup {NoUser},
        resolvedBy : User \cup {NoUser}, expiresAt : Nat]

AbsentRow == [status |-> "absent", requester |-> NoUser,
              resolvedBy |-> NoUser, expiresAt |-> 0]

Frame == [pc : {"idle", "create", "authorize", "decide", "expire"},
          user : User \cup {NoUser}, req : Request \cup {NoRequest},
          verdict : Verdict \cup {"none"}, expiresAt : Nat]

IdleFrame == [pc |-> "idle", user |-> NoUser, req |-> NoRequest,
              verdict |-> "none", expiresAt |-> 0]

TypeOK ==
    /\ now \in Nat
    /\ request \in [Request -> Row]
    /\ guardians \in SUBSET User
    /\ callback \in [Request -> Verdict \cup {"none"}]
    /\ decisions \in [Request -> Nat]
    /\ call \in [Call -> Frame]

Init ==
    /\ now = 0
    /\ request = [r \in Request |-> AbsentRow]
    /\ guardians = {}
    /\ callback = [r \in Request |-> "none"]
    /\ decisions = [r \in Request |-> 0]
    /\ call = [c \in Call |-> IdleFrame]

-------------------------------------------------------------------------------
(* Creating a request                                                        *)

\* findPending: strictly younger than its deadline
Active(r) == request[r].status = "PENDING" /\ now < request[r].expiresAt

Deadline(lifetime) == now + lifetime

\* createApprovalRequest up to its transaction.  When an active request of the
\* same requester exists it is returned instead and nothing changes.
CheckDuplicate(c, u, lifetime) ==
    /\ call[c].pc = "idle"
    /\ lifetime > 0
    /\ now + lifetime < Horizon
    /\ ~ \E r \in Request : Active(r) /\ request[r].requester = u
    /\ call' = [call EXCEPT ![c] =
                  [IdleFrame EXCEPT !.pc = "create", !.user = u,
                                    !.expiresAt = Deadline(lifetime)]]
    /\ UNCHANGED <<now, request, guardians, callback, decisions>>

\* The transaction: request row, REQUEST_CREATED event and their audit rows.
CommitCreate(c, r) ==
    /\ call[c].pc = "create"
    /\ request[r].status = "absent"
    /\ request' = [request EXCEPT ![r] =
                     [status |-> "PENDING", requester |-> call[c].user,
                      resolvedBy |-> NoUser, expiresAt |-> call[c].expiresAt]]
    /\ call' = [call EXCEPT ![c] = IdleFrame]
    /\ UNCHANGED <<now, guardians, callback, decisions>>

-------------------------------------------------------------------------------
(* Deciding a request                                                        *)

\* Mutant: the sweep looks for decided rows.
OverdueOnceApproved(r) == request[r].status = "APPROVED" /\ request[r].expiresAt < now

Overdue(r) == request[r].status = "PENDING" /\ request[r].expiresAt < now

\* recordDecision reads the row; a row that is not PENDING ends the call.
ReadRequest(c, u, r, v) ==
    /\ call[c].pc = "idle"
    /\ request[r].status = "PENDING"
    /\ call' = [call EXCEPT ![c] =
                  [IdleFrame EXCEPT !.user = u, !.req = r, !.verdict = v,
                     !.pc = IF Overdue(r) THEN "expire" ELSE "authorize"]]
    /\ UNCHANGED <<now, request, guardians, callback, decisions>>

\* Mutant: guardians may decide requests of their own.
MayDecideOwn(u, r) == u \in guardians \cup {Owner}

\* hasCapability(request.decide): not one's own request; owner or guardian.
MayDecide(u, r) ==
    /\ u # request[r].requester
    /\ u \in guardians \cup {Owner}

Authorize(c) ==
    /\ call[c].pc = "authorize"
    /\ call' = [call EXCEPT ![c] =
                  IF MayDecide(call[c].user, call[c].req)
                    THEN [call[c] EXCEPT !.pc = "decide"]
                    ELSE IdleFrame]
    /\ UNCHANGED <<now, request, guardians, callback, decisions>>

\* Mutant: the id of a callback event is drawn at random.
AnyIdIsFree(r) == TRUE

\* The callback event has an id derived from the request: a second insert
\* violates the primary key.
CallbackIdIsFree(r) == callback[r] = "none"

\* Mutant: a second callback event is skipped instead of refused.
CommitDecisionSkipping(c) ==
    LET r == call[c].req IN
    /\ call[c].pc = "decide"
    /\ request' = [request EXCEPT ![r].status = call[c].verdict,
                                  ![r].resolvedBy = call[c].user]
    /\ callback' = IF CallbackIdIsFree(r)
                     THEN [callback EXCEPT ![r] = call[c].verdict] ELSE callback
    /\ decisions' = [decisions EXCEPT ![r] = @ + 1]
    /\ call' = [call EXCEPT ![c] = IdleFrame]
    /\ UNCHANGED <<now, guardians>>

\* The decision transaction.  The status is written whatever it is by now; a
\* callback event that exists already rolls the whole transaction back.
CommitDecision(c) ==
    LET r == call[c].req IN
    /\ call[c].pc = "decide"
    /\ CallbackIdIsFree(r)
    /\ request' = [request EXCEPT ![r].status = call[c].verdict,
                                  ![r].resolvedBy = call[c].user]
    /\ callback' = [callback EXCEPT ![r] = call[c].verdict]
    /\ decisions' = [decisions EXCEPT ![r] = @ + 1]
    /\ call' = [call EXCEPT ![c] = IdleFrame]
    /\ UNCHANGED <<now, guardians>>

\* The transaction of a handler that read an overdue PENDING row.
CommitExpiry(c) ==
    /\ call[c].pc = "expire"
    /\ request' = [request EXCEPT ![call[c].req].status = "EXPIRED"]
    /\ call' = [call EXCEPT ![c] = IdleFrame]
    /\ UNCHANGED <<now, guardians, callback, decisions>>

\* The transaction throws (audit failure, duplicate callback id, lost
\* database) or the process dies: all its writes are rolled back.
Rollback(c) ==
    /\ call[c].pc # "idle"
    /\ call' = [call EXCEPT ![c] = IdleFrame]
    /\ UNCHANGED <<now, request, guardians, callback, decisions>>

-------------------------------------------------------------------------------
(* The periodic sweep, the guardians and the clock                           *)

Sweep ==
    /\ \E r \in Request : Overdue(r)
    /\ request' = [r \in Request |->
                     IF Overdue(r) THEN [request[r] EXCEPT !.status = "EXPIRED"]
                                   ELSE request[r]]
    /\ UNCHANGED <<now, guardians, callback, decisions, call>>

AddGuardian(u) ==
    /\ u \notin guardians \cup {Owner}
    /\ guardians' = guardians \cup {u}
    /\ UNCHANGED <<now, request, callback, decisions, call>>

RemoveGuardian(u) ==
    /\ u \in guardians
    /\ guardians' = guardians \ {u}
    /\ UNCHANGED <<now, request, callback, decisions, call>>

Tick ==
    /\ now < Horizon
    /\ now' = now + 1
    /\ UNCHANGED <<request, guardians, callback, decisions, call>>

Handler(c) ==
    \/ \E u \in User, lifetime \in 1..MaxLifetime : CheckDuplicate(c, u, lifetime)
    \/ \E r \in Request : CommitCreate(c, r)
    \/ \E u \in User, r \in Request, v \in Verdict : ReadRequest(c, u, r, v)
    \/ Authorize(c)
    \/ CommitDecision(c)
    \/ CommitExpiry(c)
    \/ Rollback(c)

Next ==
    \/ \E c \in Call : Handler(c)
    \/ Sweep
    \/ \E u \in User : AddGuardian(u) \/ RemoveGuardian(u)
    \/ Tick

Spec == Init /\ [][Next]_vars

\* index.ts sweeps at startup and every 15 minutes for as long as the process
\* runs; nothing obliges users to answer or handlers to finish.
FairSpec == Spec /\ WF_vars(Sweep) /\ WF_vars(Tick)

-------------------------------------------------------------------------------
(* Properties                                                                *)

\* However many people press a button at once, at most one decision of a
\* request commits (recordDecision writes the status without testing it).
SingleDecision == \A r \in Request : decisions[r] <= 1

\* A row that says APPROVED or DENIED has a callback event with that same
\* verdict: what the requester's service is told is what the row says.
CallbackAgrees ==
    \A r \in Request :
        request[r].status \in Verdict => callback[r] = request[r].status

\* A callback event exists exactly when a decision was audited and the row
\* names its resolver: the four writes of a decision stand or fall together.
DecisionIsWhole ==
    \A r \in Request :
        /\ callback[r] # "none" <=> decisions[r] > 0
        /\ callback[r] # "none" <=> request[r].resolvedBy # NoUser

\* Nobody resolves a request of their own.
NoSelfApproval ==
    \A r \in Request :
        request[r].resolvedBy # NoUser =>
            request[r].resolvedBy # request[r].requester

\* Once a request has a resolver, neither the resolver nor the verdict in the
\* callback is ever replaced, not even by an expiry that overwrites the status.
ResolutionIsFinal ==
    [][\A r \in Request :
         request[r].resolvedBy # NoUser =>
           /\ request'[r].resolvedBy = request[r].resolvedBy
           /\ callback'[r] = callback[r]]_vars

\* No request stays PENDING for ever: somebody decides or the sweep expires it.
PendingEnds ==
    \A r \in Request :
        request[r].status = "PENDING" ~> request[r].status # "PENDING"

\* The promise of SingleResolution, read off the rows and the callback events.
Resolution == INSTANCE SingleResolution WITH
    requester <- [r \in Request |-> request[r].requester],
    resolution <- [r \in Request |->
                     [by |-> request[r].resolvedBy, verdict |-> callback[r]]]

ImplementsSingleResolution == Resolution!Spec

-------------------------------------------------------------------------------
(* What the knowledgebase asks for (docs/design/rbac-dashboard-              *)
(* knowledgebase.md, section 6.9) and the code does not do                   *)

\* "Exactly one transition to APPROVED, DENIED, CANCELLED, or EXPIRED wins."
OneTransitionWins ==
    [][\A r \in Request :
         request[r].status \in Terminal =>
             request'[r].status = request[r].status]_vars
===============================================================================
