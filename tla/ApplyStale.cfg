SPECIFICATION Spec
CONSTANTS
    MaxIndex = 4
    Interval = 2
INVARIANT NoStaleMessage
CHECK_DEADLOCK FALSE
