SPECIFICATION Spec
CONSTANTS
    Mints = {m1}
    Policies = {p1}
    Cases = {c1, c2}
    Receipts = {r1, r2}
    None = None
    LockSeconds = 1
    MaxAmount = 2
    MaxDeposits = 3
    MaxTime = 2
SYMMETRY Interchangeable
INVARIANT BooksBalance
PROPERTIES
    DepositsAreLockedIn
    ImplementsEscrow
