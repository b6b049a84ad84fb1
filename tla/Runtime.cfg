SPECIFICATION MCSpec
CONSTANTS
    r1 = r1
    r2 = r2
    r3 = r3
    None = None
    NoLease = NoLease
    Backoff <- MCBackoff
    MaxJobs = 1
    Worker = {w1, w2}
    Requester = {q1}
    Key = {}
    Kinds = {"other"}
    MaxAttempts = 2
    Lease = 3
    RenewEvery = 1
    MaxBackoff = 1
    MaxStall = 1
    MaxFaults = 2
    Runner = {r1, r2, r3}
    Owner <- MCOwner
    TaskLease = 3
    HeartbeatEvery = 1
    MinInterval = 2
    TxTimeout = 0
    Transactional = FALSE
    MaxTaskFaults = 5
INVARIANT WorkIsUndisturbed
PROPERTIES  RanAlone RunsArePaced TransactionsToo WorkGoesOn
