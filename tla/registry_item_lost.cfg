SPECIFICATION Spec
CONSTANTS
    Instance = {w1, w2}
    Task = {t1, t2}
    Item = {i1}
    NoInstance = NoInstance
    NoItem = NoItem
    MaxStops = 0
    MaxFaults = 0
SYMMETRY Symmetry
INVARIANT ItemListComplete
CHECK_DEADLOCK FALSE
