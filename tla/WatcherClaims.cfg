\* Claims that are violated, one at a time: TLC stops at the first, so comment
\* out the others.
SPECIFICATION Spec
CONSTANTS
    t1 = t1
    t2 = t2
    w1 = w1
    w2 = w2
    w3 = w3
    v1 = v1
    v2 = v2
    v3 = v3
    None = None
    Main = Main
    Workers = {t1}
    Watchers = {w1, w2, w3}
    VTs = {v1, v2}
    FaultKinds = {"slow", "os_error"}
INVARIANT NeverTwo
INVARIANT BaselineIsFromTheStart
INVARIANT EveryLockdownWatched
