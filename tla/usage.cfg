SPECIFICATION UsageSpec
CONSTANTS
    Worker = {w1, w2}
    Model = {m1}
    Sid = {s1, s2}
    Free = Free
    Dead = Dead
    MaxStalls = 1
    MaxCrashes = 1
    MaxReports = 2
INVARIANT TypeOK
INVARIANT OneCleanerPerStall
INVARIANT CleanupSurvives
PROPERTY SeenFreshStays
PROPERTY CleanerComesBack
PROPERTY StaleRemoved
CHECK_DEADLOCK FALSE
