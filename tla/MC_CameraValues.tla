-------------------------- MODULE MC_CameraValues --------------------------
(***************************************************************************)
(* Constant values shared by the model-checking instances of the camera   *)
(* back-ends: three buffers, one per stream id 1..3, and the stream       *)
(* configurations and settings the caller may use; b4 is a second buffer *)
(* of stream 2 for the larger instance.                                   *)
(***************************************************************************)
EXTENDS BaseQemuCamera, TLC

CONSTANTS b1, b2, b3, b4

MC_Bufs == {b1, b2, b3}
MC_BufStream == (b1 :> 1) @@ (b2 :> 2) @@ (b3 :> 3)

\* A second buffer of stream 2: a JPEG request can be submitted while the
\* closure of the previous one is still with the caller.
MC_Bufs4 == MC_Bufs \cup {b4}
MC_BufStream4 == MC_BufStream @@ (b4 :> 2)

S(id, fmt, video, ds) == [id |-> id, format |-> fmt, video |-> video, dataspace |-> ds]

\* Preview plus JPEG, then a reconfiguration that drops stream 2 (its
\* buffer then misses in mStreams): at most one closure per request.
MC_OneDelayedConfigs ==
    { {S(1, "IMPLEMENTATION_DEFINED", FALSE, "UNKNOWN"), S(2, "BLOB", FALSE, "JFIF")},
      {S(1, "IMPLEMENTATION_DEFINED", TRUE, "UNKNOWN"), S(3, "RGBA_8888", FALSE, "UNKNOWN")} }

\* Preview, JPEG and RAW16 at once (getMaxNumOutputStreams allows one raw,
\* two processed and one JPEG stream): two closures per request.
MC_TwoDelayedConfigs ==
    { {S(1, "YCBCR_420_888", FALSE, "JFIF"), S(2, "BLOB", FALSE, "JFIF"),
       S(3, "RAW16", FALSE, "UNKNOWN")} }

\* Both of the above.
MC_AllConfigs == MC_OneDelayedConfigs \cup MC_TwoDelayedConfigs

\* A settings buffer with the given AF entries and sensor entries.
U(mode, trig, fd, exp, iso) ==
    [afMode |-> mode, afTrigger |-> trig, frameDuration |-> fd,
     exposure |-> exp, sensitivity |-> iso]

\* Sensor entries absent from a request.
X == NoEntry

\* Session parameters: continuous AF, the sensor left to its defaults.
MC_SessionParams == {U("AUTO", Absent, X, X, X)}

\* A repeat, an AF start with default sensor settings, and an AF cancel
\* at 30 fps with a 20 ms exposure at ISO 400 (all within the ranges
\* the static metadata advertises).
MC_RequestUpdates ==
    {EmptyUpdate, U("AUTO", "START", X, X, X),
                  U("AUTO", "CANCEL", <<33333333>>, <<20000000>>, <<400>>)}

\* As above, with the cancel asking for a 1 s exposure: longer than the
\* 0.5 s maximum of getSensorExposureTimeRange.
MC_LongExposureUpdates ==
    {EmptyUpdate, U("AUTO", "START", X, X, X),
                  U("AUTO", "CANCEL", <<33333333>>, <<1000000000>>, <<400>>)}

\* serializeCameraMetadataMap always succeeds, or may also fail.
MC_SerializeOk      == {TRUE}
MC_SerializeMayFail == BOOLEAN

=============================================================================
