SPECIFICATION MCSpec
CONSTANTS
    w1 = w1
    w2 = w2
    m1 = m1
    Members = {w1, w2, w3}
    Moderators = {}
    Workers = {k1}
    Strategy = "queue"
    MaxSpeakers = 1
    Allowed = {TRUE}
    Commands = {}
    Reloads = FALSE
    ReuseGrants = FALSE
    InOrder = TRUE
    MaxHooks = 1
    MaxRequests = 6
CONSTRAINT NoExcuse
SYMMETRY Symmetry
  
PROPERTY QueueServedInOrder
CHECK_DEADLOCK FALSE
