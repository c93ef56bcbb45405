SPECIFICATION Spec
CONSTANTS
    Ids <- MCIds
    Limit = 1
    Statuses <- MCStatuses
    Clients = {c, d}
    Helpers = {}
    Endings = {"cancelled"}
    HooksFail = TRUE
SYMMETRY Symmetric
INVARIANTS
    TypeOK
    ChildrenFirst
    NoOrphans
    StatusHonest
    WithinLimit
    RootsAreNodes
PROPERTIES
    TreeSpec
