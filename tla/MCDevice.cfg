\* The clock stops at the horizon.
CHECK_DEADLOCK FALSE
SPECIFICATION FairSpec
CONSTANTS
    Session = {s1}
    User = {ann, bob}
    NoUser = NoUser
    Lifetime = 2
    MaxApprovals = 2
    MaxPolls = 3
    MaxAbandoned = 2
    Horizon = 6
INVARIANT OneTokenPerSession
INVARIANT NoTokenAstray
PROPERTY NothingAfterExpiry
PROPERTY ImplementsTokenIssue
PROPERTY LoginEnds
