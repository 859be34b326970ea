SPECIFICATION FairSpec
ACTION_CONSTRAINT Narrowed
CONSTANTS
    Event = {1, 2, 3}
    Legacy = {1}
    resource = resource
    request = request
    outbox = outbox
    Table = {resource, request, outbox}
    Staged = {resource}
    Rebuilt <- RebuiltDef
    Subject = {ann}
    ann = ann
    Written <- WrittenDef
    Run = {r1}
    Workflow = {w1}
    retention = 1
    lag = 1
    checkpointInterval = 2
    MaxTime = 2
    MaxFaults = 1
    None = None
INVARIANT DeletedUnderCheckpoint
INVARIANT ChainIsLinear
INVARIANT NothingIsLost
INVARIANT EvidenceStands
PROPERTY EvidenceIsKept
 
PROPERTY RetentionHappens
CHECK_DEADLOCK FALSE
