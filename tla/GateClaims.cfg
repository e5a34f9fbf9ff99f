\* Claims that are violated, one at a time: TLC stops at the first, so comment
\* out the others.
SPECIFICATION Spec
CONSTANTS
    None = None
    d1 = d1
    d2 = d2
    d3 = d3
    p1 = p1
    p2 = p2
    p3 = p3
    blank = blank
    Devices = {d1, d2}
    Fingerprint <- Distinct
    Listing <- Distinct
    Ruled = {}
    Enrollable = {p1}
    MaxPlugs = 2
    WatchdogSec = 1
    AutoBlock = {TRUE}
    FaultKinds = {"hang", "deaf", "daemon"}
PROPERTY HangIsDetected
PROPERTY EveryUnknownLocks
INVARIANT PolicyIsTheList
