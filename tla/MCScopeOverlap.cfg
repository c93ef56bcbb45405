SPECIFICATION Spec
CONSTANTS
    src = src
    mid = mid
    top = top
    side = side
    alt = alt
    Execs = {src, mid, top, side, alt}
    Procs = {p, q}
    Eager <- PresetEager
    Reads <- PresetEager
    Reactive <- PresetReactive
    ValuePresets = {side}
    Replacement <- PresetReplacement
    Closers = {src, mid}
    Faulty = {src}
    Updatable = {src, mid}
    FlowDeps = {}
    Calls = {"Get", "Exec", "Update", "Release", "Reload", "Dispose"}
    Overlap = TRUE
    Cancellable = TRUE
    MaxCalls = 3
SYMMETRY Symmetric
INVARIANTS
    ScopeTypeOK
    Linked
    CleanedOnce
    PresetHolds
