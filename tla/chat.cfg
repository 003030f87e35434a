SPECIFICATION Spec
CONSTANTS
    m1 = m1
    m2 = m2
    Message = {m1, m2}
    MaxToolRounds = 1
    MaxCodeRounds = 1
    MaxPosts = 1
    Modes = {TRUE, FALSE}
INVARIANT TypeOK
INVARIANT StoredWhenOver
INVARIANT RealtimeKeepsUp
PROPERTY Ends
CHECK_DEADLOCK FALSE
