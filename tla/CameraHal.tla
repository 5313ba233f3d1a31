------------------------------ MODULE CameraHal ------------------------------
(***************************************************************************)
(* State shared by both camera back-ends (BaseQemuCamera subclasses) and  *)
(* by the caller that drives them: the configured streams, the host       *)
(* channel, the metadata state of BaseQemuCamera, the caller's buffers    *)
(* (CachedStreamBuffer) and the DelayedStreamBuffer closures handed back  *)
(* to the caller.  The back-end modules define configure, close,          *)
(* processCaptureRequest and the closures' bodies over this state.        *)
(*                                                                         *)
(* One camera instance processes one call at a time (spec.md section 5),  *)
(* so each of its calls is one atomic step.  The caller resolves the      *)
(* closures later, on its own thread; a closure touches only its own csb, *)
(* its own surface and the copies it captured, so each resolution is one  *)
(* atomic step interleaved with the instance's calls.                     *)
(***************************************************************************)
EXTENDS BaseQemuCamera, FiniteSets

CONSTANTS
    Bufs,            \* the caller's CachedStreamBuffer handles (model values)
    BufStream,       \* the stream id each handle belongs to (getStreamId)
    StreamConfigs,   \* stream sets the framework may configure
    SessionParams,   \* settings passed to configure
    RequestUpdates,  \* metadata updates a request may carry
    SerializeOutcomes \* results serializeCameraMetadataMap may have

ASSUME BufStream \in [Bufs -> Nat]
ASSUME SessionParams \subseteq Settings
ASSUME RequestUpdates \subseteq Settings \cup {EmptyUpdate}
ASSUME SerializeOutcomes \subseteq BOOLEAN /\ TRUE \in SerializeOutcomes

VARIABLES
    channel,      \* mQemuChannel.ok()
    streams,      \* mStreams: set of [id, format]
    af,           \* the AF state machine's memory
    sensor,       \* mFrameDurationNs, mSensorExposureDurationNs, mSensorSensitivity
    stored,       \* mCaptureResultMetadata
    result,       \* result metadata returned by the last request (history)
    reported,     \* the frame and exposure durations it returned (history)
    lastUpdate,   \* the metadata update of the last request (history)
    owner,        \* owner[b]: "caller", or "hal" while submitted and unfinished
    finishes,     \* csb->finish calls on b since it was last submitted
    outcome,      \* the flag b was last finished with: "none", "ok", "failed"
    accepted,     \* the host accepted a query naming b's surface (history)
    imgs,         \* intermediate surfaces allocated for b and not yet freed
    pending,      \* DelayedStreamBuffer closures held by the caller
    configured    \* the caller's session: its last configure succeeded

vars == <<channel, streams, af, sensor, stored, result, reported, lastUpdate,
          owner, finishes, outcome, accepted, imgs, pending, configured>>

DelayedFormats == {"RAW16", "BLOB"}

\* An mStreams entry; the size and blob buffer size are not modelled.
StreamInfo == [id : Nat, format : PixelFormats]

\* What a closure captures: its csb, the format (convert or compress), a
\* copy of mCaptureResultMetadata taken at dispatch, and whether it holds
\* an intermediate surface (GasQemuCamera may capture a null image).
Delayed == [csb : Bufs, kind : DelayedFormats, meta : Snapshots, image : BOOLEAN]

TypeOK ==
    /\ channel \in BOOLEAN
    /\ streams \subseteq StreamInfo
    /\ af \in AfRecords
    /\ sensor \in SensorValues
    /\ stored \in Snapshots
    /\ result \in Snapshots
    /\ reported \in [frameDuration : Int, exposure : Nat]
    /\ lastUpdate \in RequestUpdates \cup {EmptyUpdate}
    /\ owner \in [Bufs -> {"caller", "hal"}]
    /\ finishes \in [Bufs -> Nat]
    /\ outcome \in [Bufs -> {"none", "ok", "failed"}]
    /\ accepted \in [Bufs -> BOOLEAN]
    /\ imgs \in [Bufs -> Int]
    /\ pending \subseteq Delayed
    /\ configured \in BOOLEAN

Init ==
    /\ channel = FALSE
    /\ streams = {}
    /\ af = AfInit
    /\ sensor = InitialSensor
    /\ stored = EmptyMetadata
    /\ result = EmptyMetadata
    /\ reported = [frameDuration |-> 0, exposure |-> 0]
    /\ lastUpdate = EmptyUpdate
    /\ owner = [b \in Bufs |-> "caller"]
    /\ finishes = [b \in Bufs |-> 0]
    /\ outcome = [b \in Bufs |-> "none"]
    /\ accepted = [b \in Bufs |-> FALSE]
    /\ imgs = [b \in Bufs |-> 0]
    /\ pending = {}
    /\ configured = FALSE

\* mStreams entries built from the framework's streams and overrideFormat.
ConfiguredStreams(req) ==
    {[id |-> s.id, format |-> overrideStreamParams(s)] : s \in req}

\* The stream lookup: csb->getStreamInfo, else find_if over mStreams by id.
StreamOf(b) == {s \in streams : s.id = BufStream[b]}

FormatOf(b) == (CHOOSE s \in StreamOf(b) : TRUE).format

\* How many times a loop over the set S finishes b.
Times(b, S) == IF b \in S THEN 1 ELSE 0

\* The sensor members after the metadata step: applyMetadata sets them,
\* updateCaptureResultMetadata leaves them alone.
SensorAfter(m) == IF "sensor" \in DOMAIN m THEN m.sensor ELSE sensor

\* FAILURE(-1): the frame duration returned while the channel is closed.
FAILURE == -1

(***************************************************************************)
(* The bookkeeping of one processCaptureRequest over the buffers R: the   *)
(* result metadata m, finish(true) and finish(false) counts per buffer,  *)
(* the buffers whose surface the host accepted, the surfaces each buffer *)
(* still holds and the closures returned.                                *)
(***************************************************************************)
RequestEffect(R, md, m, okN, failN, acc, surf, returned) ==
    /\ af' = m.af
    /\ sensor' = SensorAfter(m)
    /\ stored' = m.stored
    /\ result' = m.result
    /\ reported' = [frameDuration |-> IF channel THEN sensor'.frameDuration ELSE FAILURE,
                    exposure |-> sensor'.exposure]
    /\ lastUpdate' = md
    /\ finishes' = [b \in Bufs |-> IF b \in R THEN okN[b] + failN[b] ELSE finishes[b]]
    /\ owner' = [b \in Bufs |->
                   IF b \notin R THEN owner[b]
                   ELSE IF okN[b] + failN[b] > 0 THEN "caller" ELSE "hal"]
    /\ outcome' = [b \in Bufs |->
                     IF b \notin R THEN outcome[b]
                     ELSE IF okN[b] > 0 THEN "ok"
                     ELSE IF failN[b] > 0 THEN "failed" ELSE "none"]
    /\ accepted' = [b \in Bufs |-> IF b \in R THEN b \in acc ELSE accepted[b]]
    /\ imgs' = [b \in Bufs |-> imgs[b] + (IF b \in R THEN surf[b] ELSE 0)]
    /\ pending' = pending \cup returned
    /\ UNCHANGED <<channel, streams, configured>>

\* A closure finishes its csb with success and frees `freed` surfaces.
DelayedEffect(d, success, freed) ==
    /\ pending' = pending \ {d}
    /\ owner' = [owner EXCEPT ![d.csb] = "caller"]
    /\ finishes' = [finishes EXCEPT ![d.csb] = @ + 1]
    /\ outcome' = [outcome EXCEPT ![d.csb] = IF success THEN "ok" ELSE "failed"]
    /\ imgs' = [imgs EXCEPT ![d.csb] = @ - freed]
    /\ UNCHANGED <<channel, streams, af, sensor, stored, result, reported,
                   lastUpdate, accepted, configured>>

(***************************************************************************)
(* The caller submits requests of buffers it owns, at most one per        *)
(* stream as the camera framework does, only while its last configure     *)
(* succeeded.                                                              *)
(***************************************************************************)
CallerBufs == {b \in Bufs : owner[b] = "caller"}

Requests ==
    {R \in SUBSET CallerBufs :
        R # {} /\ \A b1, b2 \in R : b1 # b2 => BufStream[b1] # BufStream[b2]}

(***************************************************************************)
(* Properties.                                                             *)
(***************************************************************************)

\* A buffer handed to processCaptureRequest is finished at most once before
\* it is handed in again, whichever of the immediate path, a failure loop or
\* a later closure finishes it.
NoDoubleFinish == \A b \in Bufs : finishes[b] <= 1

\* Every buffer the HAL still holds once processCaptureRequest has returned
\* is held by a closure the caller received: none is silently dropped.
AccountedFor ==
    \A b \in Bufs : owner[b] = "hal" => \E d \in pending : d.csb = b

\* The intermediate surface allocated for a RAW16/BLOB buffer is live
\* exactly while a closure the caller holds owns it: never leaked, never
\* freed twice.
SurfaceOwnership ==
    \A b \in Bufs :
        imgs[b] = IF \E d \in pending : d.csb = b /\ d.image THEN 1 ELSE 0

\* A buffer is only reported filled (finish(true)) if the host accepted a
\* query that named it (directly or through its intermediate surface) in
\* the request that carried it.
NoPhantomFrame == \A b \in Bufs : outcome[b] = "ok" => accepted[b]

\* The AF trigger is single-shot: the result of a request that carries no
\* metadata update (updateCaptureResultMetadata) never reports the START or
\* CANCEL trigger of an earlier request.
TriggerSingleShot ==
    lastUpdate = EmptyUpdate => result.afTrigger \in {Absent, "IDLE"}

\* mCaptureResultMetadata, which later requests refresh in place and which
\* closures copy, always reports the AF state the state machine is in,
\* across configure, applyMetadata and updateCaptureResultMetadata.
StoredTracksAf ==
    stored.afState # Absent => stored.afState = af.state

\* spec.md 4.2 and 8: applyMetadata resets the AF trigger to IDLE in the
\* snapshot it produces, even when the request set it to START.
AppliedResultTriggerIdle ==
    lastUpdate \in Settings => result.afTrigger \in {Absent, "IDLE"}

\* spec.md 3 and 4.4: the snapshot a request returns embeds the frame
\* duration and exposure time that processCaptureRequest returns beside
\* it in its tuple (line 279 of MinigbmQemuCamera.cpp), whether the
\* request rebuilt the metadata (applyMetadata) or repeated it
\* (updateCaptureResultMetadata after the configure-time applyMetadata).
\* applyMetadata sets the members (lines 166-180) before it serializes
\* the snapshot, and keeps the previous snapshot when serialization fails
\* (line 231).
ReportedMatchesResult ==
    result.frameDuration # NoEntry =>
        /\ result.frameDuration = <<reported.frameDuration>>
        /\ result.exposure = <<reported.exposure>>

\* spec.md 2: the result's exposure time and sensitivity are derived from
\* clamped ranges, those getSensorExposureTimeRange and
\* getSensorSensitivityRange advertise.
ReportedSettingsInRange ==
    result.exposure # NoEntry =>
        /\ result.exposure[1] \in getSensorExposureTimeRange
        /\ result.sensitivity[1] \in getSensorSensitivityRange

=============================================================================
