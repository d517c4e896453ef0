SPECIFICATION Spec
CONSTANTS
    MaxIndex = 4
    Interval = 2
INVARIANT ApplyInRange
CHECK_DEADLOCK FALSE
