SPECIFICATION Spec
CONSTANTS
    t1 = t1
    t2 = t2
    x1 = x1
    x2 = x2
    None = None
    Threads = {t1, t2}
    Attempts = {x1}
    MaxVersion = 1
    MaxLines = 1
    LogReadable = TRUE
    FaultKinds = {"os_error", "daemon"}
SYMMETRY Interchangeable
INVARIANT TypeOK
INVARIANT OverlayFollows
INVARIANT ListFollows
INVARIANT ReattachedTimelineComplete
