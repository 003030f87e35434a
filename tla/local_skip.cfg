SPECIFICATION Spec
CONSTANTS
    Task = {t1, t2, t3}
    Item = {i1}
    Stopper = {s1}
    NoTask = NoTask
    NoItem = NoItem
SYMMETRY Symmetry
INVARIANT AllMeansAll
CHECK_DEADLOCK FALSE
