CONSTANTS
    u1 = u1
    u2 = u2
    Users = {u1, u2}
    None = None
    PageSize = 1
    Backlog = 2
    MaxNew = 1
    MaxAsk = 2
    MaxSelect = 2
    MaxLogin = 1
SPECIFICATION Spec
SYMMETRY Symmetry
INVARIANTS OnlyMergesLoseMessages BacklogIsARange ListIsOfTarget
CHECK_DEADLOCK FALSE
