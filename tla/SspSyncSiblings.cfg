CONSTANTS
    s1 = s1
    s2 = s2
    r1 = r1
    r2 = r2
    Ssps = {s1, s2}
    Rows = {r1, r2}
    Poison = {2}
    MaxBuffer = 2
    RecloneAfter = 1
    AdmitAfter = 2
    MaxBatch = 0
    MaxSeq = 2
    MaxGen = 2
    Faults = {"clone"}
    MaxFaults = 1
    Slots = {1}
SPECIFICATION Spec
INVARIANTS SnapshotHeld
SYMMETRY MCSymmetry
