SPECIFICATION MCSpec
CONSTANTS
    src = src
    mid = mid
    top = top
    side = side
    alt = alt
    Execs = {src, mid, top}
    Procs = {p, q}
    Eager <- ChainEager
    Reads <- ChainEager
    Reactive <- ChainReactive
    ValuePresets = {}
    Replacement <- NoReplacement
    Closers = {}
    Faulty = {mid}
    Updatable = {src}
    FlowDeps = {mid}
    Calls = {"Get", "Exec", "Update"}
    Overlap = FALSE
    Cancellable = FALSE
    MaxCalls = 5
    Ids <- MCIds
    Limit = 1
    Statuses <- MCStatuses
    Clients = {c}
    Helpers = {h}
    Endings = {"cancelled", "deadline"}
    HooksFail = TRUE
INVARIANTS
    StoreFresh
PROPERTIES
    ImplementsStore
    CallsReturn
    CancelReturns
    Exec1Returns
