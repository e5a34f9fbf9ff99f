\* Claims that are violated, one at a time: TLC stops at the first, so comment
\* out the others.
SPECIFICATION Spec
CONSTANTS
    c1 = c1
    c2 = c2
    i1 = i1
    i2 = i2
    i3 = i3
    d1 = d1
    d2 = d2
    None = None
    Clients = {c1, c2}
    Ids = {i1, i2}
    Devices = {d1, d2}
    Chattr = TRUE
    FaultKinds = {"daemon"}
SYMMETRY Interchangeable
INVARIANT QuietIsSigned
INVARIANT EnrolledIsListed
INVARIANT EnrolledMatches
INVARIANT NoFalseAlarm
