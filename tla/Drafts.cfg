SPECIFICATION MCSpec
CONSTANTS
    c1 = c1
    c2 = c2
    Clients = {c1, c2}
    Free = Free
    MaxRounds = 2
    MaxVersion = 3
    MaxEdits = 2
    Windows <- ThreeTemplates
    MaxTime = 6
    Skew = 1
 
PROPERTIES DecisionsStand DueDraftsAreLocked
CHECK_DEADLOCK FALSE
