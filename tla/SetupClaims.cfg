\* Claims that are violated, one at a time: TLC stops at the first, so comment
\* out the others.
SPECIFICATION Spec
CONSTANTS
    s1 = s1
    s2 = s2
    p1 = p1
    p2 = p2
    d1 = d1
    d2 = d2
    None = None
    Daemon = Daemon
    Wizards = {s1, s2}
    Passwords = {p1, p2}
    Devices = {d1}
    MaxKeys = 2
PROPERTY ListLoadsAfterCeremony
PROPERTY CanRunAgain
INVARIANT FailsClosed
