CONSTANTS
    Views = {v1, v2}
    Records = {r1}
    Handlers = {h1, h2}
    Nobody = Nobody
    Slots = 4
    RoundItems = 2
    MaxEvents = 2
    MaxRequests = 3
    Faults = {"meta", "write", "cleanup"}
    MaxFaults = 1
SPECIFICATION Spec
INVARIANTS TypeOK EdgesFollow
PROPERTIES EveryViewIsServed
CHECK_DEADLOCK FALSE
