SPECIFICATION FairSpec
CONSTANTS
    src = src
    mid = mid
    top = top
    side = side
    alt = alt
    Execs = {src, mid, top}
    Procs = {p}
    Eager <- ChainEager
    Reads <- ChainEager
    Reactive <- ChainReactive
    ValuePresets = {}
    Replacement <- NoReplacement
    Closers = {src}
    Faulty = {}
    Updatable = {src, mid}
    FlowDeps = {}
    Calls = {"Get", "Dispose"}
    Overlap = FALSE
    Cancellable = FALSE
    MaxCalls = 2
PROPERTIES
    DisposeCleansAll
