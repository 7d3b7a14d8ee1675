SPECIFICATION Spec
CONSTANTS
    Attempts = {l1, l2}
    Verdicts = {TRUE, FALSE}
    MaxConn = 2
    MaxRelogin = 1
    MaxOut = 1
SYMMETRY Symmetry
INVARIANTS
    CallbackAtMostOnce
    StaleSessionIsDoomed
    LiveSessionIsBeating
    SilentConnectionIsLate
CHECK_DEADLOCK FALSE
