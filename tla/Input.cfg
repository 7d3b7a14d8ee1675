CONSTANTS
    MaxKey = 3
    MaxTap = 2
    Pressable = {"letter", "delete", "space", "return", "punctuation"}
    Searchers = {keys1, main1}
    Calling <- Searches
    MaxCall = 2
    Learned = {p1, p2}
    NoPair = NoPair
    MaxTask = 4
SPECIFICATION Parts
SYMMETRY Symmetry
INVARIANTS BufferKept SearchRight LearnedRight
CHECK_DEADLOCK FALSE
