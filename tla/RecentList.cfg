CONSTANTS
    a = a
    b = b
    Friend = {a, b}
    Small = {b}
    Order <- AB
    NoOne = NoOne
    MaxEvents = 4
SPECIFICATION Spec
INVARIANTS OpenChatIsFirst NoTwins ListedStays RemovedIsGone
CHECK_DEADLOCK FALSE
