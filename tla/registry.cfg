SPECIFICATION FairSpec
CONSTANTS
    Instance = {w1, w2}
    Task = {t1, t2}
    Item = {i1}
    NoInstance = NoInstance
    NoItem = NoItem
    MaxStops = 1
    MaxFaults = 1
INVARIANT TypeOK
INVARIANT ActiveListed
INVARIANT ActiveReachable
PROPERTY ItemStopTakesEffect
PROPERTY LocalDrains
PROPERTY RegistryDrains
CHECK_DEADLOCK FALSE
