SPECIFICATION CasesSpec
CONSTANTS
    Request = {r1, r2, r3}
    MaxNodes = 4
    MaxValue = 1
    Modes = {TRUE, FALSE}
    MaxEdits = 2
    MaxCrashes = 1
SYMMETRY Symmetry
INVARIANT TypeOK
INVARIANT DeletedIsGone
INVARIANT ProcessingIsWorkedOn
PROPERTY RatingSurvives
CHECK_DEADLOCK FALSE
