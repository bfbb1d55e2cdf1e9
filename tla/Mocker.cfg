\* Four nodes: rounds that stop one and two nodes, the round of equal draws
\* that runs past the slice, and one net.Start that fails, so that a later
\* net.Stop fails too.  Eleven nodes: the draws reach 9, both rounds of equal
\* draws stop nodes 0 to 8, and no index leaves the slice.
CONSTANTS
    NodeCounts = {4, 11}
    MockerTypes = {"boot", "startStop", "probabilistic"}
    MaxStartFailures = 1
SPECIFICATION FairSpec
\* A mocker that has returned takes no further step.
CHECK_DEADLOCK FALSE
INVARIANT TypeOK
INVARIANT RoundStartsSettled
INVARIANT AtMostOneDown
PROPERTY QuitTerminates
