CONSTANTS
    c1 = c1
    c2 = c2
    None = None
    Callers <- MCCallers
    BlockNumbers <- MCBlockNumbers
    Backends = {"full", "light"}
    UintWidth = 4
    MaxHeight = 2
    MaxBlocks = 3
SYMMETRY CallerSymmetry
SPECIFICATION Spec
PROPERTY NoRewindUnderSync
