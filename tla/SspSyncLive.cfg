CONSTANTS
    s1 = s1
    s2 = s2
    r1 = r1
    r2 = r2
    Ssps = {s1}
    Rows = {r1, r2}
    Poison = {}
    MaxBuffer = 1
    RecloneAfter = 1
    AdmitAfter = 2
    MaxBatch = 1
    MaxSeq = 2
    MaxGen = 4
    Faults = {"post", "crash", "timeout", "sweep"}
    MaxFaults = 1
    Slots = {1}
SPECIFICATION Spec
PROPERTY EverySspCatchesUp
