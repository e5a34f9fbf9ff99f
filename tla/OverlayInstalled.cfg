SPECIFICATION Spec
CONSTANTS
    t1 = t1
    t2 = t2
    x1 = x1
    x2 = x2
    None = None
    Threads = {t1, t2}
    Attempts = {x1, x2}
    MaxVersion = 0
    MaxLines = 1
    LogReadable = FALSE
    FaultKinds = {"os_error", "daemon"}
SYMMETRY Interchangeable
INVARIANT ReattachedTimelineComplete
