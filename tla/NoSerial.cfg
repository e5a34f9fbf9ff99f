SPECIFICATION Spec
CONSTANTS
    None = None
    d1 = d1
    d2 = d2
    d3 = d3
    p1 = p1
    p2 = p2
    p3 = p3
    blank = blank
    Devices = {d1, d2}
    Fingerprint <- Distinct
    Listing <- SecondBlank
    Ruled = {}
    Enrollable = {p1, p2}
    MaxPlugs = 2
    WatchdogSec = 1
    AutoBlock = {TRUE}
    FaultKinds = {}
INVARIANT ListedMounts
