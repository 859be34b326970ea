SPECIFICATION Spec
CONSTRAINT Bounded
SYMMETRY Symmetry
CONSTANTS
    LimiterKey = {ip}
    maxRequests = 1
    windowMs = 2
    MaxTime = 6
    Id = {i1, i2, i3}
    Type = {"PAWTHY_TOKEN", "RESOURCE_API_KEY"}
    Subject = {s1}
    Key = {k1, k2}
    Ring <- RingDef
    Handler = {h1, h2}
    None = None
INVARIANT AuthenticatedWasLive
INVARIANT ReplacedOnceAndDead
INVARIANT RejectedWasRaced
INVARIANT FailuresAreBounded
INVARIANT SpanIsBounded
PROPERTY RevocationIsFinal
PROPERTY CleanupIsInvisible
