CONSTANTS
    MaxEvents = 3
    Logged = 1
    MaxSeq = 3
    MaxDrains = 1
    Faults = {"crash", "busy", "commit", "held", "post", "slow"}
    MaxFaults = 1
SPECIFICATION Spec
INVARIANTS TypeOK OneScheduler BacklogKept SspMissesNothing
PROPERTIES RequestsEnd SomeoneServes
CHECK_DEADLOCK FALSE
