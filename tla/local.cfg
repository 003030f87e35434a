SPECIFICATION FairSpec
CONSTANTS
    Task = {t1, t2}
    Item = {i1, i2}
    Stopper = {s1, s2}
    NoTask = NoTask
    NoItem = NoItem
INVARIANT TypeOK
INVARIANT RunningTracked
INVARIANT OneAwaiter
INVARIANT PairStopped
PROPERTY OnlyItsItem
PROPERTY Answered
PROPERTY DictionariesDrain
CHECK_DEADLOCK FALSE
