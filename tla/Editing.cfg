SPECIFICATION MCSpec
CONSTANTS
    p1 = p1
    p2 = p2
    Pages = {p1, p2}
    NoHash = NoHash
    Documents = {}
    Happens = {}
    LoadMayFail = FALSE
    MaxTyped = 2
    MaxFaults = 0
PROPERTIES   PagesCatchUp
CHECK_DEADLOCK FALSE
