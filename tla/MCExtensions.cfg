SPECIFICATION Spec
CONSTANTS
    e1 = e1
    e2 = e2
    e3 = e3
    e4 = e4
    Exts = {e1, e2, e3, e4}
    Order <- MCOrder
    Procs = {p, q, r}
    MaxFirst = 3
    NoProc = NoProc
    NoExt = NoExt
    Torn = Torn
SYMMETRY Symmetric
INVARIANTS
    HooksPaired
    ReadsWhole
CHECK_DEADLOCK FALSE
