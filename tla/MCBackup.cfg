SPECIFICATION Spec
CONSTANTS
    Run = {h1, h2}
    Package = {1, 2, 3, 4}
    Key = {k1, k2}
    None = None
    MinimumCopies = 2
    Retention = 2
    MaximumAge = 1
    Patience = 1
    Horizon = 3
SYMMETRY Symmetric
ACTION_CONSTRAINT Narrowed
PROPERTY CopiesSuffice
PROPERTY SuccessIsRecoverable
\* The clock stops at the horizon, and packages run out.
CHECK_DEADLOCK FALSE
