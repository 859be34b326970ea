SPECIFICATION FairSpec
ACTION_CONSTRAINT ChangesMatter
CONSTANTS
    Event = {c1, n1}
    Notice = {n1}
    Destination = {d1, d2}
    Inbox = inbox
    None = None
    MaxAttempts = 2
INVARIANT ClosedIsExplained
INVARIANT SendsAreAudited
INVARIANT ResendOnlyKnown
PROPERTY QueueIsLeftForGood
PROPERTY QueueDrains
