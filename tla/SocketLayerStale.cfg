SPECIFICATION Spec
CONSTANTS
    Attempts = {l1, l2}
    Verdicts = {TRUE}
    MaxConn = 2
    MaxRelogin = 1
    MaxOut = 2
INVARIANT HeartbeatOnlyAfterLogin
CHECK_DEADLOCK FALSE
