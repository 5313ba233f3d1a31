CONSTANTS
    b1 = b1
    b2 = b2
    b3 = b3
    b4 = b4
    Bufs <- MC_Bufs4
    BufStream <- MC_BufStream4
    StreamConfigs <- MC_OneDelayedConfigs
    SessionParams <- MC_SessionParams
    RequestUpdates <- MC_RequestUpdates
    SerializeOutcomes <- MC_SerializeOk
    Settle = 2
SPECIFICATION Spec
INVARIANTS
    TypeOK
    NoDoubleFinish
    AccountedFor
    SurfaceOwnership
    NoPhantomFrame
    TriggerSingleShot
    StoredTracksAf
