CONSTANTS
    Attempts = {l1, l2}
    Verdicts = {TRUE}
    MaxConn = 1
    MaxRelogin = 1
    MaxOut = 1
    u1 = u1
    u2 = u2
    None = None
SPECIFICATION LiveParts
INVARIANT PartsTypeOK
PROPERTIES AttemptsEnd RefreshEnds RegistrationEnds PushArrives WalletEnds
CHECK_DEADLOCK FALSE
