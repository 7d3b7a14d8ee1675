CONSTANTS
    Letters = {a, delete}
    Modifiers = {shift}
    Delete = delete
    Nothing = nothing
    MaxTouch = 2
SPECIFICATION Parts
INVARIANTS PressFiresAtMostOnce NoLetterIsLost PendingIsOfCurrentTouch TableRight
CHECK_DEADLOCK FALSE
