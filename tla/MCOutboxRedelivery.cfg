SPECIFICATION Spec
CONSTANTS
    Event = {c1}
    Notice = {}
    Destination = {d1}
    Inbox = inbox
    None = None
    MaxAttempts = 2
INVARIANT NeverRedelivered
