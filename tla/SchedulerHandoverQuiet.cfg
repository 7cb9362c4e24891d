CONSTANTS
    MaxEvents = 1
    Logged = 0
    MaxSeq = 1
    MaxDrains = 0
    Faults = {"quiet"}
    MaxFaults = 0
SPECIFICATION Spec
INVARIANT BacklogKept
CHECK_DEADLOCK FALSE
