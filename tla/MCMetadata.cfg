SPECIFICATION MCSpec
CONSTANTS
    ann = ann
    bob = bob
    p1 = p1
    p2 = p2
    r1 = r1
    r2 = r2
    n1 = n1
    n2 = n2
    n3 = n3
    MaxChanges = 3
    None = None
    User = {ann, bob}
    Project = {p1, p2}
    Resource = {r1, r2}
    Name = {n1, n2, n3}
    Value = {v1}
    RowId = {1, 2, 3}
    Principal <- Owners
    Call = {k1}
    MaxVersion = 3
    RequestId = {1, 2}
    Rank <- Places
    Reader <- Readers
    PageLimit = 1
CONSTRAINT Bounded
ACTION_CONSTRAINT ReadsWhatChanges
CHECK_DEADLOCK FALSE
INVARIANT WalkIsComplete
INVARIANT ListedWasVisible
