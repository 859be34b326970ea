--------------------------- MODULE SingleResolution ---------------------------
(***************************************************************************)
(* What an approval request promises to everybody who sees it: it is       *)
(* opened once, by one requester, and it is resolved at most once, by      *)
(* somebody else.  How the service gets there (reads, checks, transactions,*)
(* expiry) is the business of ApprovalLifecycle, which implements this.    *)
(***************************************************************************)
CONSTANTS
    Request,    \* identifiers of approval requests
    User,       \* people
    NoUser,     \* "nobody", not a member of User
    Verdict     \* what a resolver may decide

VARIABLES
    requester,  \* requester[r]: who opened r, NoUser before that
    resolution  \* resolution[r]: who resolved r, and how

Unresolved == [by |-> NoUser, verdict |-> "none"]

Init ==
    /\ requester = [r \in Request |-> NoUser]
    /\ resolution = [r \in Request |-> Unresolved]

Open(r, u) ==
    /\ requester[r] = NoUser
    /\ requester' = [requester EXCEPT ![r] = u]
    /\ UNCHANGED resolution

Resolve(r, u, v) ==
    /\ requester[r] \in User \ {u}
    /\ resolution[r] = Unresolved
    /\ resolution' = [resolution EXCEPT ![r] = [by |-> u, verdict |-> v]]
    /\ UNCHANGED requester

Next ==
    \E r \in Request, u \in User :
        \/ Open(r, u)
        \/ \E v \in Verdict : Resolve(r, u, v)

vars == <<requester, resolution>>

Spec == Init /\ [][Next]_vars
===============================================================================
