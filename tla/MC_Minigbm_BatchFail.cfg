CONSTANTS
    b1 = b1
    b2 = b2
    b3 = b3
    b4 = b4
    Bufs <- MC_Bufs
    BufStream <- MC_BufStream
    StreamConfigs <- MC_TwoDelayedConfigs
    SessionParams <- MC_SessionParams
    RequestUpdates <- MC_RequestUpdates
    SerializeOutcomes <- MC_SerializeOk
    Settle = 2
SPECIFICATION Spec
INVARIANT
    AccountedFor
