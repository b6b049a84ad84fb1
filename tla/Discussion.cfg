SPECIFICATION MCSpec
CONSTANTS
    m1 = m1
    m2 = m2
    a = a
    b = b
    c = c
    p1 = p1
    p2 = p2
    Deployments = {a, b, c}
    Envelopes = {m1, m2}
    Targets <- Pairs
    Processes = {p1, p2}
    PullLimit = 1
    MaxBatches = 2
    MaxDeletes = 1
    MaxFailures = 1
    ReplayLimit = 1
    SyncLimit = 1
    MaxOpen = 2
    MaxTombstones = 0
    MaxLost = 1
    MaxDrops = 1
    MaxQueue = 1
CONSTRAINT FeedBound
INVARIANTS  NothingSkipped
PROPERTY EverythingArrives
CHECK_DEADLOCK FALSE
