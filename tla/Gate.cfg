SPECIFICATION Spec
CONSTANTS
    None = None
    d1 = d1
    d2 = d2
    d3 = d3
    p1 = p1
    p2 = p2
    p3 = p3
    blank = blank
    Devices = {d1, d2, d3}
    Fingerprint <- Three
    Listing <- ThirdBlank
    Ruled = {d2, d3}
    Enrollable = {p1}
    MaxPlugs = 2
    WatchdogSec = 1
    AutoBlock = {TRUE, FALSE}
    FaultKinds = {"late", "error", "raise", "hang", "deaf", "freeze", "daemon"}
INVARIANT TypeOK
INVARIANT SettledPolicy
PROPERTY UnknownInsertionLocks
PROPERTY FreezeEnds
