SPECIFICATION Spec
CONSTANTS
    Worker = {w1, w2}
    Model = {m1}
    Sid = {s1}
    Free = Free
    Dead = Dead
    MaxStalls = 1
    MaxCrashes = 0
    MaxReports = 0
SYMMETRY Symmetry
PROPERTY LostLockExits
CHECK_DEADLOCK FALSE
