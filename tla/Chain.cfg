SPECIFICATION MCSpec
CONSTANTS
    e1 = e1
    e2 = e2
    s1 = s1
    s2 = s2
    None = None
    Run = {e1, e2}
    Sweep = {s1}
    NotMatchesNull = FALSE
    MaxSends = 3
    MaxSweeps = 2
    MaxFaults = 2
INVARIANTS BroadcastOnce ExecutedIsFinal
PROPERTIES AnchorsStand BroadcastsSettle
CHECK_DEADLOCK FALSE
