CONSTANTS
    MaxSeq = 4
    SegmentFrames = 2
    FailedWriteLeavesBytes = FALSE
SPECIFICATION Spec
INVARIANTS TypeOK AcknowledgedIsRecoverable
PROPERTIES ImplementsDurableLog
CHECK_DEADLOCK FALSE
