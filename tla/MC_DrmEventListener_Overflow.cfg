CONSTANTS
    MaxUevents = 3
    QueueCap = 1
    DrmFdEvents <- MC_DrmQuiet
SPECIFICATION DrmSpec
CHECK_DEADLOCK FALSE
PROPERTY
    HotplugDelivered
