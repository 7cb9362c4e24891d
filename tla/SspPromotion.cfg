SPECIFICATION Spec
CONSTANTS
    Views = {v1}
    Old = {}
    MaxEvents = 2
    Faults = {"drop", "retire", "refuse", "shadow", "died", "release"}
    MaxFaults = 1
INVARIANTS TypeOK OneWriter
PROPERTIES EventsInOrder EdgesConverge GateReopens
CHECK_DEADLOCK FALSE
