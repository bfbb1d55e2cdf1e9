CONSTANTS
    v1 = v1
    v2 = v2
    None = None
    Keys <- MCKeys
    Values <- MCValues
SPECIFICATION Spec
\* diffTries returns.
CHECK_DEADLOCK FALSE
INVARIANT NilMeansEqual
