SPECIFICATION Spec
CONSTANTS
    c1 = c1
    c2 = c2
    i1 = i1
    i2 = i2
    i3 = i3
    d1 = d1
    d2 = d2
    None = None
    Clients = {c1}
    Ids = {i1, i2, i3}
    Devices = {d1, d2}
    Chattr = TRUE
    FaultKinds = {"write", "daemon"}
SYMMETRY Interchangeable
INVARIANT TypeOK
INVARIANT RemovedStaysRemoved
INVARIANT OneEntryPerDevice
