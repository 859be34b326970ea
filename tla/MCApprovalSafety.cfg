SPECIFICATION FairSpec
CONSTANTS
    Request = {r1}
    User = {owner, ann, bob}
    Owner = owner
    NoUser = NoUser
    NoRequest = NoRequest
    Call = {c1, c2, c3}
    MaxLifetime = 1
    Horizon = 2
INVARIANT SingleDecision
INVARIANT CallbackAgrees
PROPERTY ImplementsSingleResolution
PROPERTY PendingEnds
