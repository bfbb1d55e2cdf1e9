CONSTANTS
    NodeCounts = {4}
    MockerTypes = {"probabilistic"}
    MaxStartFailures = 0
SPECIFICATION Spec
CHECK_DEADLOCK FALSE
INVARIANT NoRuntimePanic
