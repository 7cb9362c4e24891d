CONSTANTS
    h1 = h1
    h2 = h2
    d1 = d1
    d2 = d2
    Hosts = {h1, h2}
    Devices = {d1, d2}
    MaxAttempts = 2
    QueueCap = 1
    Faults = {"crash", "off", "finish", "slow", "early"}
    MaxFaults = 1
    MaxLost <- MCMaxLost
SPECIFICATION Spec
INVARIANTS TypeOK OncePerFault RecordsDeliveries StuckMeansLost
PROPERTIES EveryMessageEnds
CHECK_DEADLOCK FALSE
