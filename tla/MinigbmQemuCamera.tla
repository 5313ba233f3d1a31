------------------------- MODULE MinigbmQemuCamera -------------------------
(***************************************************************************)
(* src/hals/camera/MinigbmQemuCamera.cpp: the camera back-end with the    *)
(* batched host-query strategy.  configure sends one "configure streams=" *)
(* query; processCaptureRequest sends one "capture bufs=" query naming    *)
(* the host handle of every buffer of a request.  RAW16 and BLOB buffers  *)
(* are captured into an intermediate surface and finished later by a      *)
(* DelayedStreamBuffer closure that the caller invokes with a flag.       *)
(* Host, allocator, fence and mapper results are nondeterministic.        *)
(***************************************************************************)
EXTENDS CameraHal

(***************************************************************************)
(* configure: build the stream list, open the channel if it is not open   *)
(* (returning false if that fails), run the query (resetting the channel *)
(* and returning false if the host refuses), then replace mStreams and    *)
(* applyMetadata(sessionParams).  The framework only passes streams whose *)
(* overrideStreamParams succeeded.                                        *)
(***************************************************************************)
configure(req, sp) ==
    /\ \A s \in req : overrideStreamParams(s) # "FAILURE"
    /\ \/ /\ ~channel                        \* qemuOpenChannel fails
          /\ configured' = FALSE
          /\ UNCHANGED <<channel, streams, af, sensor, stored, result, reported, lastUpdate, owner,
                         finishes, outcome, accepted, imgs, pending>>
       \/ /\ channel' = FALSE                \* the configure query is refused
          /\ configured' = FALSE
          /\ UNCHANGED <<streams, af, sensor, stored, result, reported, lastUpdate, owner,
                         finishes, outcome, accepted, imgs, pending>>
       \/ \E ser \in SerializeOutcomes :             \* the configure query is accepted
          LET m == applyMetadata(af, stored, sp, ser) IN
          /\ channel' = TRUE
          /\ streams' = ConfiguredStreams(req)
          /\ af' = m.af
          /\ sensor' = m.sensor
          /\ stored' = m.stored
          /\ configured' = TRUE
          /\ UNCHANGED <<result, reported, lastUpdate, owner, finishes, outcome,
                         accepted, imgs, pending>>

\* close: reset the channel and forget the streams.
close ==
    /\ channel' = FALSE
    /\ streams' = {}
    /\ configured' = FALSE
    /\ UNCHANGED <<af, sensor, stored, result, reported, lastUpdate, owner, finishes, outcome,
                   accepted, imgs, pending>>

(***************************************************************************)
(* After the per-buffer loop, one "capture bufs=" query decides the fate  *)
(* of the immediate buffers and of the closures built for the request.    *)
(* Each alternative is an outcome record: buffers finished true, finished *)
(* false, closures returned to the caller, closures run inside the call   *)
(* (each finishes its csb false and frees its surface), closures lost.    *)
(***************************************************************************)

\* A slip: the delayed list is not handed back to the caller.
BatchSucceededDropClosures(failCsb, immediate, closures) ==
    {[ok |-> immediate, failed |-> failCsb, returned |-> {},
      ran |-> {}, lost |-> {}]}

\* The query was accepted: immediates finish true, closures are returned.
BatchSucceeded(failCsb, immediate, closures) ==
    {[ok |-> immediate, failed |-> failCsb, returned |-> closures,
      ran |-> {}, lost |-> {}]}

\* A slip: the failure loop finishes every csb of the request, not just
\* the immediate ones, before running the closures.
BatchFailedAllCsbs(failCsb, immediate, closures) ==
    {[ok |-> {}, failed |-> failCsb \cup immediate \cup {d.csb : d \in closures},
      returned |-> {}, ran |-> {d.csb : d \in closures}, lost |-> {}]}

\* A slip: the two loops after the query are swapped for immediates.
BatchFailedImmediatesTrue(failCsb, immediate, closures) ==
    {[ok |-> immediate, failed |-> failCsb, returned |-> {},
      ran |-> {d.csb : d \in closures}, lost |-> {}]}

(***************************************************************************)
(* The query failed (refused, or the channel is not open).  Immediates    *)
(* finish false.  The range-for over delayedOutputBuffers runs the first  *)
(* closure with false and then calls delayedOutputBuffers.clear() inside  *)
(* its body: nothing is returned, and the loop goes on over destroyed     *)
(* closures.  Calling a destroyed std::function is undefined behaviour:   *)
(* each later closure may still run or may not run at all.               *)
(***************************************************************************)
BatchFailed(failCsb, immediate, closures) ==
    IF closures = {}
    THEN {[ok |-> {}, failed |-> failCsb \cup immediate, returned |-> {},
           ran |-> {}, lost |-> {}]}
    ELSE UNION {
          {[ok |-> {}, failed |-> failCsb \cup immediate, returned |-> {},
            ran |-> {first.csb} \cup {d.csb : d \in later},
            lost |-> {d.csb : d \in closures \ ({first} \cup later)}]
           : later \in SUBSET (closures \ {first})}
          : first \in closures}

(***************************************************************************)
(* processCaptureRequest: result metadata first (refresh or apply), then  *)
(* the per-buffer loop: a buffer whose stream id is not in mStreams goes  *)
(* to failCsb; a RAW16 or BLOB buffer gets an intermediate surface (or    *)
(* failCsb if allocation fails) and a closure capturing a copy of         *)
(* mCaptureResultMetadata; any other format is an immediate buffer.  Then *)
(* the batch query.                                                        *)
(***************************************************************************)
processCaptureRequest(R, md) ==
    \E ser \in SerializeOutcomes :
    LET m          == ResultMetadataFor(af, stored, md, ser)
        missing    == {b \in R : StreamOf(b) = {}}
        delayedFmt == {b \in R \ missing : FormatOf(b) \in DelayedFormats}
        immediate  == R \ (missing \cup delayedFmt)
    IN
    \E allocated \in SUBSET delayedFmt, hostOk \in BOOLEAN :
      LET failCsb  == R \ (immediate \cup allocated)
          closures == {[csb |-> b, kind |-> FormatOf(b), meta |-> m.stored,
                        image |-> TRUE] : b \in allocated}
          queryOk  == channel /\ hostOk
          Outcomes == IF queryOk THEN BatchSucceeded(failCsb, immediate, closures)
                                 ELSE BatchFailed(failCsb, immediate, closures)
      IN
      \E o \in Outcomes :
        RequestEffect(R, md, m,
            [b \in R |-> Times(b, o.ok)],
            [b \in R |-> Times(b, o.failed) + Times(b, o.ran)],
            IF queryOk THEN immediate \cup allocated ELSE {},
            [b \in R |-> Times(b, allocated) - Times(b, o.ran)],
            o.returned)

(***************************************************************************)
(* A returned closure, invoked by the caller with ok.  On ok it waits the *)
(* csb's acquire fence (100 ms), locks the surface, converts (RAW16) or    *)
(* compresses (BLOB) into the csb and unlocks; any failure finishes the    *)
(* csb false.  The surface is freed on every path.                        *)
(***************************************************************************)

\* A slip: the surface is freed only on the success path.
resolveDelayedFreeOnSuccess(d, ok) ==
    \E fenceOk, lockOk, encodeOk \in BOOLEAN :
      LET success == ok /\ fenceOk /\ lockOk /\ encodeOk IN
      DelayedEffect(d, success, IF success THEN 1 ELSE 0)

resolveDelayed(d, ok) ==
    \E fenceOk, lockOk, encodeOk \in BOOLEAN :
      DelayedEffect(d, ok /\ fenceOk /\ lockOk /\ encodeOk, 1)

(***************************************************************************)
(* The specification: the caller's calls and the closures it invokes.     *)
(***************************************************************************)
Configure == \E req \in StreamConfigs, sp \in SessionParams : configure(req, sp)

Close == close

ProcessCaptureRequest ==
    configured /\ \E R \in Requests, md \in RequestUpdates : processCaptureRequest(R, md)

ResolveDelayed(b) ==
    \E d \in pending, ok \in BOOLEAN : d.csb = b /\ resolveDelayed(d, ok)

Next ==
    \/ Configure
    \/ Close
    \/ ProcessCaptureRequest
    \/ \E b \in Bufs : ResolveDelayed(b)

Spec == Init /\ [][Next]_vars

=============================================================================
