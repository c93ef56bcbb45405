SPECIFICATION MCSpec
CONSTANTS
    NoTask = NoTask
    Procs = {p}
    Ids <- MCIds
    Handlers = {h1, h2}
    Emails = {x}
    MaxCalls = 3
SYMMETRY Symmetric
INVARIANTS
    OneStorage
CHECK_DEADLOCK FALSE
