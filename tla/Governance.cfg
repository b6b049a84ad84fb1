SPECIFICATION MCSpec
CONSTANTS
    m1 = m1
    m2 = m2
    m3 = m3
    out = out
    n1 = n1
    n2 = n2
    r1 = r1
    r2 = r2
    c1 = c1
    Eligible = {m1, m2, m3}
    Outsiders = {}
    Choices = {"approve", "reject", "abstain"}
    Nonces = {n1}
    Threshold = 2
    Mechanism = "threshold"
    Mode = "stage"
    Subject = "binding"
    Deadline = 1
    Horizon = 2
    MaxInFlight = 2
    MaxCrashes = 1
    None = None
    Runs = {r1, r2}
    Posters = {c1}
    Posts <- OtherReceipts
    Provider = TRUE
    MaxFaults = 2
    Funders = {m1, m2}
    NProjects = 3
    Amounts = {0, 1, 3, 4}
    Caps = {1, 3, 6}
    Pool = 7
INVARIANTS VerdictIsTheVote EffectsFollowVerdict PlanIsFair
PROPERTIES PollImplemented LegacyStands ActsOncePerFault RequestsEnd
CHECK_DEADLOCK FALSE
