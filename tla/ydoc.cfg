SPECIFICATION YdocSpec
CONSTANTS
    Session = {x1, x2}
    Update = {u1, u2}
    Modes = {TRUE, FALSE}
    Carries = {TRUE, FALSE}
    RedisCalls = 3
    MaxJoins = 1
    NoOne = NoOne
    NoUpdate = NoUpdate
INVARIANT TypeOK
INVARIANT Synced
PROPERTY Implements
PROPERTY LatestSaved
CHECK_DEADLOCK FALSE
