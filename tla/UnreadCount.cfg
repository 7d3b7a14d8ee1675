CONSTANTS
    Users = {u1, u2}
    None = none
    MaxOffline = 1
    MaxPush = 2
    MaxOpen = 2
    MaxAppear = 2
SPECIFICATION UnreadSpec
INVARIANTS MarkIsEarned DotShowsUnread
PROPERTY KeepsPromise
CHECK_DEADLOCK FALSE
