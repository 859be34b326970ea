------------------------------ MODULE TokenIssue ------------------------------
(***************************************************************************)
(* What a device login promises: a login attempt is granted by at most one *)
(* person, and gives rise to at most one token, that person's.             *)
(***************************************************************************)
CONSTANTS
    Session,  \* login attempts
    User,     \* people who may grant one
    NoUser    \* not a member of User

VARIABLES
    granted,  \* granted[s]: who granted s, NoUser before that
    issued    \* issued[s]: the subject of the token of s, NoUser before that

Init ==
    /\ granted = [s \in Session |-> NoUser]
    /\ issued = [s \in Session |-> NoUser]

Grant(s, u) ==
    /\ granted[s] = NoUser
    /\ granted' = [granted EXCEPT ![s] = u]
    /\ UNCHANGED issued

Issue(s) ==
    /\ granted[s] # NoUser
    /\ issued[s] = NoUser
    /\ issued' = [issued EXCEPT ![s] = granted[s]]
    /\ UNCHANGED granted

Next == \E s \in Session : Issue(s) \/ \E u \in User : Grant(s, u)

vars == <<granted, issued>>

Spec == Init /\ [][Next]_vars
===============================================================================
