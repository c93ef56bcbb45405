SPECIFICATION Spec
CONSTANTS
    Ids <- MCIds
    Limit = 1
    Statuses <- MCStatuses
    Clients = {c}
    Helpers = {}
    Endings = {"cancelled", "deadline"}
    HooksFail = FALSE
INVARIANTS
    NoDataRace
