SPECIFICATION Spec
CONSTANTS
    c1 = c1
    c2 = c2
    k1 = k1
    k2 = k2
    k3 = k3
    None = None
    Clients = {c1, c2}
    Codes = {k1, k2, k3}
    FaultKinds = {"unlink", "daemon", "power"}
SYMMETRY Interchangeable
INVARIANT TypeOK
INVARIANT ReplayRefused
INVARIANT OncePerConnection
INVARIANT PaperIsCurrent
