SPECIFICATION Spec
CONSTANTS
    t1 = t1
    t2 = t2
    w1 = w1
    w2 = w2
    w3 = w3
    v1 = v1
    v2 = v2
    v3 = v3
    None = None
    Main = Main
    Workers = {t1, t2}
    Watchers = {w1, w2}
    VTs = {v1, v2}
    FaultKinds = {"slow", "os_error", "daemon"}
INVARIANT TypeOK
INVARIANT WatchedIffLocked
PROPERTY ReportedOnce
PROPERTY LastingSwitchReported
