CONSTANTS
    MaxUevents = 3
    QueueCap = 2
    DrmFdEvents <- MC_DrmActive
SPECIFICATION DrmSpec
CHECK_DEADLOCK FALSE
INVARIANT
    ExitOnlyOnFault
