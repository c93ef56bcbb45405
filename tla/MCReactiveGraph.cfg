SPECIFICATION FairSpec
CONSTANTS
    Execs = {a, b, c}
    Walkers = {w1, w2}
    MaxChanges = 3
INVARIANTS
    TypeOK
    Mirrored
    LoopInvariant
    WalkResult
    DrawnWhole
PROPERTIES
    WalkEnds
