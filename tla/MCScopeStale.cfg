SPECIFICATION Spec
CONSTANTS
    src = src
    mid = mid
    top = top
    side = side
    alt = alt
    Execs = {src, mid, top}
    Procs = {p, q}
    Eager <- ChainEager
    Reads <- ChainEager
    Reactive <- ChainReactive
    ValuePresets = {}
    Replacement <- NoReplacement
    Closers = {}
    Faulty = {}
    Updatable = {src}
    FlowDeps = {}
    Calls = {"Get", "Update"}
    Overlap = TRUE
    Cancellable = FALSE
    MaxCalls = 3
INVARIANTS
    FreshWhenQuiet
