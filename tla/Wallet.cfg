CONSTANTS
    w1 = w1
    w2 = w2
    Wallet = {w1, w2}
    None = None
    MaxRequest = 2
    MaxChange = 1
    MaxMake = 2
    MaxEdit = 1
    MaxStart = 2
    Payees = {"a", "b"}
    Invalid = "invalid"
    Token = FALSE
    Balance = 2
    Fee = 2
    MaxSend = 2
    MaxTyped = 3
    MaxAsk = 2
SPECIFICATION Parts
SYMMETRY Wallets
INVARIANTS WalletsKept PaymentsRight
PROPERTY RequestsRight
CHECK_DEADLOCK FALSE
