\* Claims that are violated, one at a time: TLC stops at the first, so comment
\* out the others.
SPECIFICATION Spec
CONSTANTS
    t1 = t1
    t2 = t2
    x1 = x1
    x2 = x2
    None = None
    Threads = {t1, t2}
    Attempts = {x1}
    MaxVersion = 1
    MaxLines = 2
    LogReadable = TRUE
    FaultKinds = {}
SYMMETRY Interchangeable
INVARIANT LockdownIsShown
INVARIANT EveryAttemptShown
INVARIANT ListIsKnown
