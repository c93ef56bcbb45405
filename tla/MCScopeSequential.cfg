SPECIFICATION Spec
CONSTANTS
    src = src
    mid = mid
    top = top
    side = side
    alt = alt
    Execs = {src, mid, top, side}
    Procs = {p}
    Eager <- DiamondEager
    Reads <- DiamondEager
    Reactive <- DiamondReactive
    ValuePresets = {}
    Replacement <- NoReplacement
    Closers = {src, mid, top}
    Faulty = {side}
    Updatable = {src, mid}
    FlowDeps = {mid}
    Calls = {"Get", "Exec", "Update"}
    Overlap = FALSE
    Cancellable = FALSE
    MaxCalls = 5
INVARIANTS
    FreshWhenQuiet
    UsableWhenQuiet
    RootsRegistered
