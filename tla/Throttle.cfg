SPECIFICATION FairSpec
CONSTANTS
    c1 = c1
    c2 = c2
    c3 = c3
    Clients = {c1, c2}
    Threshold = 2
    LockoutTicks = 2
    MaxFailures = 3
INVARIANT TypeOK
INVARIANT FailuresAreCharged
PROPERTY LockoutExpires
