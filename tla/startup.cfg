SPECIFICATION FairSpec
CONSTANTS
    mv = mv
    bk1 = bk1
    bk2 = bk2
    py = py
    nt = nt
    gw = gw
    Pods = {mv, bk1, bk2, py, nt, gw}
    ServiceOf <- Deployment
    MaxFaults = 1
INVARIANTS
    TypeOK
    ServesWithTables
    NoEventIsDropped
PROPERTIES
    EverythingIsReady
CHECK_DEADLOCK FALSE
