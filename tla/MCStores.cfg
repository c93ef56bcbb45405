SPECIFICATION MCSpec
CONSTANTS
    NoTask = NoTask
    Procs = {p, q, r, s}
    Ids <- MCIds
    Handlers = {h1, h2}
    Emails = {x, y}
    MaxCalls = 3
SYMMETRY Symmetric
INVARIANTS
    IdsUnique
    KeptUnlessTorn
    OneUnlessReplaced
    ReadsUnlessReplaced
PROPERTIES
    StaysBroken
    StorageSettles
CHECK_DEADLOCK FALSE
