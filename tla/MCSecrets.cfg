SPECIFICATION Spec
CONSTANTS
    ann = ann
    bob = bob
    p1 = p1
    p2 = p2
    r1 = r1
    None = None
    User = {ann, bob}
    Project = {p1, p2}
    Resource = {r1}
    Name = {n1, n2}
    Value = {v1, v2}
    RowId = {1, 2}
    Principal <- BobsPrincipals
    Call = {k1}
    MaxVersion = 3
    BatchSize = 1
SYMMETRY NamesAndValues
CONSTRAINT TwoOwners
ACTION_CONSTRAINT RolesRest
CHECK_DEADLOCK FALSE
INVARIANT AuthoritiesAgree
INVARIANT AccessWasAuthorised
INVARIANT RotationIsComplete
PROPERTY VersionsTellChanges
