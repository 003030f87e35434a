SPECIFICATION Spec
CONSTANTS
    Session = {x1, x2}
    Update = {u1, u2}
    Modes = {TRUE}
    Carries = {TRUE}
    RedisCalls = 4
    MaxJoins = 1
    NoOne = NoOne
    NoUpdate = NoUpdate
PROPERTY CleanedUpWhenUnused
CHECK_DEADLOCK FALSE
