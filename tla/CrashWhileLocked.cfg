SPECIFICATION Spec
CONSTANTS
    Main = Main
    Monitor = Monitor
    None = None
    c1 = c1
    c2 = c2
    d1 = d1
    d2 = d2
    t1 = t1
    getty = getty
    autovt = autovt
    drop_in = drop_in
    Clients <- OneClient
    Devices <- OneDevice
    Units = {getty}
    InstalledMasks = {}
    DropIns = {drop_in}
    Instants = {t1}
    Configs <- ShippedOnly
    FaultKinds <- NoFaults
INVARIANT CrashWhileLockedRelocks
