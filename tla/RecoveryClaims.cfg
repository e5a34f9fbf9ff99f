\* Claims that are violated, one at a time: TLC stops at the first, so comment
\* out the others.
SPECIFICATION Spec
CONSTANTS
    c1 = c1
    c2 = c2
    k1 = k1
    k2 = k2
    k3 = k3
    None = None
    Clients = {c1, c2}
    Codes = {k1, k2, k3}
    FaultKinds = {"daemon"}
SYMMETRY Interchangeable
INVARIANT OneUse
INVARIANT UnusedPaperWorks
PROPERTY UseUnlocks
INVARIANT AdminTold
