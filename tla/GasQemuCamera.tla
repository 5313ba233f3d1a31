--------------------------- MODULE GasQemuCamera ---------------------------
(***************************************************************************)
(* src/hals/camera/GasQemuCamera.cpp: the camera back-end with the        *)
(* per-buffer host-query strategy.  configure opens the channel with a    *)
(* "connect" and "start" handshake; processCaptureRequest issues one      *)
(* "frame" query per buffer.  YUV and RGBA buffers are filled in place    *)
(* and finished at once; RAW16 and BLOB buffers are captured into an      *)
(* intermediate surface and finished by a closure the caller invokes.     *)
(* Host, allocator, fence and mapper results are nondeterministic.        *)
(***************************************************************************)
EXTENDS CameraHal

(***************************************************************************)
(* configure: when the channel is not open, open it and run "connect" and *)
(* "start" on it; any failure returns false and the unopened channel is   *)
(* dropped.  An open channel is reused without a handshake.  Then         *)
(* mStreams is rebuilt and applyMetadata(sessionParams) runs.             *)
(***************************************************************************)
configure(req, sp) ==
    /\ \A s \in req : overrideStreamParams(s) # "FAILURE"
    /\ \/ /\ ~channel                 \* open, "connect" or "start" fails
          /\ configured' = FALSE
          /\ UNCHANGED <<channel, streams, af, sensor, stored, result, reported, lastUpdate, owner,
                         finishes, outcome, accepted, imgs, pending>>
       \/ \E ser \in SerializeOutcomes :
          LET m == applyMetadata(af, stored, sp, ser) IN
          /\ channel' = TRUE
          /\ streams' = ConfiguredStreams(req)
          /\ af' = m.af
          /\ sensor' = m.sensor
          /\ stored' = m.stored
          /\ configured' = TRUE
          /\ UNCHANGED <<result, reported, lastUpdate, owner, finishes, outcome,
                         accepted, imgs, pending>>

\* close: "stop" and "disconnect" on an open channel (results ignored),
\* reset it, forget the streams.
close ==
    /\ channel' = FALSE
    /\ streams' = {}
    /\ configured' = FALSE
    /\ UNCHANGED <<af, sensor, stored, result, reported, lastUpdate, owner, finishes, outcome,
                   accepted, imgs, pending>>

(***************************************************************************)
(* captureFrameForCompressing: allocate a surface, query a frame into it; *)
(* on a failed query the surface is freed and null returned.  Result:     *)
(* whether an image is returned and how many surfaces stay allocated.    *)
(***************************************************************************)

\* A slip: the surface is not freed when the frame query fails.
captureFrameForCompressingLeak(allocOk, queryOk) ==
    [image |-> allocOk /\ queryOk, surfaces |-> IF allocOk THEN 1 ELSE 0]

captureFrameForCompressing(allocOk, queryOk) ==
    [image |-> allocOk /\ queryOk, surfaces |-> IF allocOk /\ queryOk THEN 1 ELSE 0]

(***************************************************************************)
(* captureFrame for one buffer whose stream was found.  YCBCR_420_888 and *)
(* RGBA_8888 (captureFrameYUV / captureFrameRGBA): wait the fence, lock,  *)
(* one "frame" query, unlock, finish with the query's result; queryOk     *)
(* already folds in the fence, cb and lock checks.  RAW16 and BLOB        *)
(* (captureFrameRAW16 / captureFrameJpeg): a closure is returned whether  *)
(* or not an image was captured.  Result: finish(true) and finish(false)  *)
(* counts, closures, surfaces held, and whether the host took a query.   *)
(***************************************************************************)
Frame(okN, failN, closures, surfaces, acc) ==
    [okN |-> okN, failN |-> failN, closures |-> closures,
     surfaces |-> surfaces, acc |-> acc]

\* A slip: a failed capture for compression is finished false at once as
\* well as handed to the caller in its closure.
captureFrameFailTwice(b, fmt, meta, allocOk, queryOk) ==
    IF fmt \in DelayedFormats
    THEN LET img == captureFrameForCompressing(allocOk, queryOk) IN
         Frame(0, IF img.image THEN 0 ELSE 1,
               {[csb |-> b, kind |-> fmt, meta |-> meta, image |-> img.image]},
               img.surfaces, img.image)
    ELSE Frame(IF queryOk THEN 1 ELSE 0, IF queryOk THEN 0 ELSE 1, {}, 0, queryOk)

\* A slip: no closure is returned when no image was captured.
captureFrameDropNull(b, fmt, meta, allocOk, queryOk) ==
    IF fmt \in DelayedFormats
    THEN LET img == captureFrameForCompressing(allocOk, queryOk) IN
         Frame(0, 0,
               IF img.image
               THEN {[csb |-> b, kind |-> fmt, meta |-> meta, image |-> TRUE]}
               ELSE {},
               img.surfaces, img.image)
    ELSE Frame(IF queryOk THEN 1 ELSE 0, IF queryOk THEN 0 ELSE 1, {}, 0, queryOk)

captureFrame(b, fmt, meta, allocOk, queryOk) ==
    IF fmt \in DelayedFormats
    THEN LET img == captureFrameForCompressing(allocOk, queryOk) IN
         Frame(0, 0, {[csb |-> b, kind |-> fmt, meta |-> meta, image |-> img.image]},
               img.surfaces, img.image)
    ELSE Frame(IF queryOk THEN 1 ELSE 0, IF queryOk THEN 0 ELSE 1, {}, 0, queryOk)

(***************************************************************************)
(* processCaptureRequest: result metadata first, then for each buffer the *)
(* stream lookup (a miss finishes it false) and captureFrame.  Every      *)
(* query fails when the channel is not open.  `good` are the buffers whose*)
(* fence, mapping and host query succeed; `allocated` the RAW16/BLOB      *)
(* buffers whose surface allocation succeeds.                             *)
(***************************************************************************)
processCaptureRequest(R, md) ==
    \E ser \in SerializeOutcomes :
    LET m       == ResultMetadataFor(af, stored, md, ser)
        missing == {b \in R : StreamOf(b) = {}}
        found   == R \ missing
    IN
    \E good \in SUBSET found,
       allocated \in SUBSET {b \in found : FormatOf(b) \in DelayedFormats} :
      LET fr[b \in found] ==
              captureFrame(b, FormatOf(b), m.stored, b \in allocated,
                           channel /\ b \in good)
      IN
      RequestEffect(R, md, m,
          [b \in R |-> IF b \in found THEN fr[b].okN ELSE 0],
          [b \in R |-> IF b \in found THEN fr[b].failN ELSE 1],
          {b \in found : fr[b].acc},
          [b \in R |-> IF b \in found THEN fr[b].surfaces ELSE 0],
          UNION {fr[b].closures : b \in found})

(***************************************************************************)
(* A returned closure, invoked by the caller with ok.  With ok, an image  *)
(* and the csb's fence signalled within the captured frame duration, it   *)
(* locks the image, converts or compresses into the csb and unlocks; any  *)
(* failure finishes the csb false.  The image is freed if there is one.   *)
(***************************************************************************)

\* A slip: the closure does not check that an image was captured.
resolveDelayedNoImageCheck(d, ok) ==
    \E fenceOk, lockOk, encodeOk \in BOOLEAN :
      DelayedEffect(d, ok /\ fenceOk /\ lockOk /\ encodeOk,
                    IF d.image THEN 1 ELSE 0)

resolveDelayed(d, ok) ==
    \E fenceOk, lockOk, encodeOk \in BOOLEAN :
      DelayedEffect(d, ok /\ d.image /\ fenceOk /\ lockOk /\ encodeOk,
                    IF d.image THEN 1 ELSE 0)

(***************************************************************************)
(* The specification: the caller's calls and the closures it invokes.     *)
(***************************************************************************)
Configure == \E req \in StreamConfigs, sp \in SessionParams : configure(req, sp)

Close == close

ProcessCaptureRequest ==
    configured /\ \E R \in Requests, md \in RequestUpdates : processCaptureRequest(R, md)

ResolveDelayed(b) ==
    \E d \in pending, ok \in BOOLEAN : d.csb = b /\ resolveDelayed(d, ok)

Next ==
    \/ Configure
    \/ Close
    \/ ProcessCaptureRequest
    \/ \E b \in Bufs : ResolveDelayed(b)

Spec == Init /\ [][Next]_vars

=============================================================================
