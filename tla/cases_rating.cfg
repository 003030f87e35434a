SPECIFICATION Spec
CONSTANTS
    Request = {r1}
    MaxNodes = 2
    MaxValue = 2
    Modes = {FALSE}
    MaxEdits = 2
    MaxCrashes = 0
INVARIANT AcknowledgedIsStored
CHECK_DEADLOCK FALSE
