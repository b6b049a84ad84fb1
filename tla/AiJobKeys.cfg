SPECIFICATION Spec
CONSTANTS
    None = None
    Backoff <- MCBackoff
    MaxJobs = 2
    Worker = {w1, w2}
    Requester = {r1, r2}
    Key = {k1}
    Kinds = {"trigger", "analyze"}
    MaxAttempts = 2
    Lease = 2
    RenewEvery = 1
    MaxBackoff = 1
    MaxStall = 0
    MaxFaults = 1
INVARIANT OneJobPerKey
SYMMETRY Interchangeable
CONSTRAINT EveryJobHasKey
