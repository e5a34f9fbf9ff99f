\* Claims that are violated, one at a time: TLC stops at the first, so comment
\* out the others.
SPECIFICATION Spec
CONSTANTS
    c1 = c1
    c2 = c2
    c3 = c3
    Clients = {c1, c2}
    Threshold = 2
    LockoutTicks = 1
    MaxFailures = 3
INVARIANT SuccessClearsLockout
PROPERTY LockoutNeverShortened
INVARIANT ThrottledAttemptsLogged
