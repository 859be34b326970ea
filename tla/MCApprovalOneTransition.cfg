SPECIFICATION Spec
CONSTANTS
    Request = {r1}
    User = {owner, ann, bob}
    Owner = owner
    NoUser = NoUser
    NoRequest = NoRequest
    Call = {c1, c2}
    MaxLifetime = 1
    Horizon = 3
SYMMETRY HandlerSymmetry
PROPERTY OneTransitionWins
