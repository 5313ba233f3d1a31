--------------------------- MODULE BaseQemuCamera ---------------------------
(***************************************************************************)
(* The part of src/hals/camera/BaseQemuCamera.cpp that both camera        *)
(* back-ends share: the stream format override chosen at configuration   *)
(* time, and the capture-result metadata builder (applyMetadata and      *)
(* updateCaptureResultMetadata) with the autofocus state it drives.      *)
(*                                                                         *)
(* Everything here is a pure operator over the camera's base state; the   *)
(* back-end modules (MinigbmQemuCamera, GasQemuCamera) call them inside   *)
(* their configure and processCaptureRequest actions.                    *)
(*                                                                         *)
(* Metadata is abstracted to the entries the properties tell apart: the  *)
(* AF mode and AF trigger a request carries, and the AF state and AF     *)
(* trigger a result snapshot carries, plus the sensor's frame duration,  *)
(* exposure time and sensitivity (integers, in ns and ISO).  "ABSENT" is *)
(* an entry that the metadata buffer does not contain                    *)
(* (find_camera_metadata_ro_entry fails).  The aperture and exposure     *)
(* compensation are floats, and the static entries constants; they are   *)
(* left out.                                                              *)
(***************************************************************************)
EXTENDS AFStateMachine, Integers, Sequences

Absent == "ABSENT"

(***************************************************************************)
(* The sensor limits of the anonymous namespace at the top of the file,  *)
(* with C++ integer division.  getSensorExposureTimeRange,               *)
(* getSensorSensitivityRange and getMinFrameDurationNs advertise them.   *)
(***************************************************************************)
kOneSecondNs                 == 1000000000
kMinFrameDurationNs          == kOneSecondNs \div 30
kMaxFrameDurationNs          == kOneSecondNs \div 2
kDefaultFrameDurationNs      == kOneSecondNs \div 15
kMinSensorExposureTimeNs     == kOneSecondNs \div 20000
kMaxSensorExposureTimeNs     == kOneSecondNs \div 2
kDefaultSensorExposureTimeNs == kOneSecondNs \div 100
kMinSensorSensitivity        == 25
kMaxSensorSensitivity        == 1600
kDefaultSensorSensitivity    == 200

\* The ranges the static metadata advertises.
getSensorExposureTimeRange == kMinSensorExposureTimeNs .. kMaxSensorExposureTimeNs
getSensorSensitivityRange  == kMinSensorSensitivity .. kMaxSensorSensitivity

\* A numeric entry: <<v>> for a value v, NoEntry when the buffer has none.
Entry == {e \in Seq(Nat) : Len(e) <= 1}
NoEntry == <<>>

PixelFormats == {"IMPLEMENTATION_DEFINED", "YCBCR_420_888", "RGBA_8888",
                 "RAW16", "BLOB"}
Dataspaces   == {"JFIF", "UNKNOWN"}

\* A stream as the framework asks for it: its id, format, whether its
\* usage has VIDEO_ENCODER set and its dataspace.
RequestedStreams(Ids) ==
    [id : Ids, format : PixelFormats, video : BOOLEAN, dataspace : Dataspaces]

(***************************************************************************)
(* overrideStreamParams: the format the HAL really produces for a stream, *)
(* or "FAILURE" for a format or dataspace it refuses.  Usage, dataspace   *)
(* and buffer counts it also returns are not modelled.                   *)
(***************************************************************************)
overrideStreamParams(s) ==
    CASE s.format = "IMPLEMENTATION_DEFINED" ->
              IF s.video THEN "YCBCR_420_888" ELSE "RGBA_8888"
      [] s.format \in {"YCBCR_420_888", "RAW16", "RGBA_8888"} -> s.format
      [] s.format = "BLOB" ->
              IF s.dataspace = "JFIF" THEN "BLOB" ELSE "FAILURE"
      [] OTHER -> "FAILURE"

(***************************************************************************)
(* Metadata.  A request's metadata update is either EmptyUpdate (the      *)
(* request repeats the previous settings) or a settings buffer with an   *)
(* optional AF mode, AF trigger, frame duration, exposure time and       *)
(* sensitivity.  A result snapshot records the AF state, the AF trigger  *)
(* and the three sensor entries it carries.                             *)
(***************************************************************************)
Settings  == [afMode : AfModes \cup {Absent}, afTrigger : AfTriggers \cup {Absent},
              frameDuration : Entry, exposure : Entry, sensitivity : Entry]
Snapshots == [afState : AfStates \cup {Absent}, afTrigger : AfTriggers \cup {Absent},
              frameDuration : Entry, exposure : Entry, sensitivity : Entry]

\* mFrameDurationNs, mSensorExposureDurationNs and mSensorSensitivity.
SensorValues == [frameDuration : Nat, exposure : Nat, sensitivity : Nat]

\* A request whose settings buffer is empty (metadataUpdate.metadata.empty()).
EmptyUpdate == [afMode |-> "EMPTY", afTrigger |-> "EMPTY", frameDuration |-> NoEntry,
                exposure |-> NoEntry, sensitivity |-> NoEntry]

\* mCaptureResultMetadata before any applyMetadata: an empty buffer.
EmptyMetadata == [afState |-> Absent, afTrigger |-> Absent, frameDuration |-> NoEntry,
                  exposure |-> NoEntry, sensitivity |-> NoEntry]

\* The members before the first applyMetadata.  They are declared in
\* BaseQemuCamera.h, which is not in this tree; nothing reads them before
\* configure has run applyMetadata, so any value serves.
InitialSensor == [frameDuration |-> 0, exposure |-> 0, sensitivity |-> 0]

\* getFrameDuration (camera metadata utilities, not in this tree): the
\* request's SENSOR_FRAME_DURATION within [lo, hi], the default if absent.
getFrameDuration(e, default, lo, hi) ==
    IF e = NoEntry THEN default
    ELSE IF e[1] < lo THEN lo ELSE IF e[1] > hi THEN hi ELSE e[1]

\* The sensor settings applyMetadata derives from a request: frame
\* duration through getFrameDuration; exposure and sensitivity as the
\* request gives them, defaults when absent.
SensorSettings(md) ==
    LET fd == getFrameDuration(md.frameDuration, kDefaultFrameDurationNs,
                               kMinFrameDurationNs, kMaxFrameDurationNs)
    IN  [frameDuration |-> fd,
         exposure      |-> IF md.exposure = NoEntry
                           THEN IF fd < kDefaultSensorExposureTimeNs
                                THEN fd ELSE kDefaultSensorExposureTimeNs
                           ELSE md.exposure[1],
         sensitivity   |-> IF md.sensitivity = NoEntry
                           THEN kDefaultSensorSensitivity ELSE md.sensitivity[1]]

(***************************************************************************)
(* applyMetadata(metadata): evaluate the AF machine with the request's    *)
(* mode and trigger (OFF and IDLE when absent), set the sensor members   *)
(* from the request, and build the map from the request's own entries    *)
(* plus the computed ones.  If the map serializes,                       *)
(* it becomes mCaptureResultMetadata; if not, the previous                *)
(* mCaptureResultMetadata is kept.  The stored AF trigger is then         *)
(* rewritten to IDLE, and the value returned is the copy taken before     *)
(* that rewrite.  Result: the new AF memory, the sensor members, the     *)
(* stored snapshot and the returned one.                                  *)
(***************************************************************************)
\* A slip: the block that resets the stored AF trigger to IDLE is missing.
applyMetadataNoReset(af, stored, md, serialized) ==
    LET afMode    == IF md.afMode = Absent THEN "OFF" ELSE md.afMode
        afTrigger == IF md.afTrigger = Absent THEN "IDLE" ELSE md.afTrigger
        newAf     == Evaluate(af, afMode, afTrigger)
        sensor    == SensorSettings(md)
        built     == [afState |-> newAf.state, afTrigger |-> md.afTrigger,
                      frameDuration |-> <<sensor.frameDuration>>,
                      exposure |-> <<sensor.exposure>>, sensitivity |-> <<sensor.sensitivity>>]
        m         == IF serialized THEN built ELSE stored
    IN  [af |-> newAf, sensor |-> sensor, stored |-> m, result |-> m]

applyMetadata(af, stored, md, serialized) ==
    LET afMode    == IF md.afMode = Absent THEN "OFF" ELSE md.afMode
        afTrigger == IF md.afTrigger = Absent THEN "IDLE" ELSE md.afTrigger
        newAf     == Evaluate(af, afMode, afTrigger)
        sensor    == SensorSettings(md)
        built     == [afState |-> newAf.state, afTrigger |-> md.afTrigger,
                      frameDuration |-> <<sensor.frameDuration>>,
                      exposure |-> <<sensor.exposure>>, sensitivity |-> <<sensor.sensitivity>>]
        m         == IF serialized THEN built ELSE stored
        reset     == IF m.afTrigger \in {Absent, "IDLE"}
                     THEN m
                     ELSE [m EXCEPT !.afTrigger = "IDLE"]
    IN  [af |-> newAf, sensor |-> sensor, stored |-> reset, result |-> m]

(***************************************************************************)
(* updateCaptureResultMetadata(): re-evaluate AF with no new input and    *)
(* patch the AF state into the stored snapshot in place when that entry  *)
(* exists (otherwise it only logs); return the patched snapshot.         *)
(***************************************************************************)
\* A slip: the AF state is re-evaluated but not written into the snapshot.
updateCaptureResultMetadataNoPatch(af, stored) ==
    [af |-> Reevaluate(af), stored |-> stored, result |-> stored]

updateCaptureResultMetadata(af, stored) ==
    LET newAf   == Reevaluate(af)
        patched == IF stored.afState = Absent
                   THEN stored
                   ELSE [stored EXCEPT !.afState = newAf.state]
    IN  [af |-> newAf, stored |-> patched, result |-> patched]

\* The first step of both processCaptureRequest implementations.
ResultMetadataFor(af, stored, md, serialized) ==
    IF md = EmptyUpdate THEN updateCaptureResultMetadata(af, stored)
                    ELSE applyMetadata(af, stored, md, serialized)

(***************************************************************************)
(* Static characteristics: the getters the static metadata and the       *)
(* default request templates are built from.  Apertures are f-numbers    *)
(* times ten (1.4 is 14): the float literals are compared only with one  *)
(* another, so the scaling keeps their order and equalities.             *)
(***************************************************************************)
kMinFPS == 2
kMedFPS == 15
kMaxFPS == 30

kMinAperture     == 14
kMaxAperture     == 160
kDefaultAperture == 40

\* The camera's request templates (RequestTemplate).
RequestTemplates == {"PREVIEW", "STILL_CAPTURE", "VIDEO_RECORD",
                     "VIDEO_SNAPSHOT", "ZERO_SHUTTER_LAG", "MANUAL"}

\* getTargetFpsRanges: the advertised AE target fps ranges, [lo, hi].
getTargetFpsRanges == {<<kMinFPS, kMedFPS>>, <<kMedFPS, kMedFPS>>,
                       <<kMinFPS, kMaxFPS>>, <<kMaxFPS, kMaxFPS>>}

getAvailableApertures == {14, 20, 28, 40, 56, 80, 110, 160}

getMinFrameDurationNs == kMinFrameDurationNs

\* getSensorMaxFrameDuration returns the longest exposure time.
getSensorMaxFrameDuration == kMaxSensorExposureTimeNs

getDefaultTargetFpsRange(tpl) ==
    IF tpl \in {"PREVIEW", "VIDEO_RECORD", "VIDEO_SNAPSHOT"}
    THEN <<kMaxFPS, kMaxFPS>>
    ELSE <<kMinFPS, kMaxFPS>>

getDefaultAperture == kDefaultAperture

getDefaultSensorExpTime == kDefaultSensorExposureTimeNs

getDefaultSensorFrameDuration == kMinFrameDurationNs

getDefaultSensorSensitivity == kDefaultSensorSensitivity

\* The shortest and longest frame an fps range [lo, hi] allows, in ns.
ShortestFrame(r) == kOneSecondNs \div r[2]
LongestFrame(r)  == kOneSecondNs \div r[1]

(***************************************************************************)
(* The static metadata and the default templates agree with one another: *)
(* every template's default fps range is advertised; every advertised    *)
(* range's frame durations lie between getMinFrameDurationNs and         *)
(* getSensorMaxFrameDuration; the default frame duration is one every    *)
(* template's default range allows (PREVIEW's is the single 30 fps one); *)
(* the default exposure fits in the advertised exposure range and in the *)
(* default frame; the default sensitivity and aperture are advertised.   *)
(* A default template violating these is refused by the framework's     *)
(* request checks, which no unit test of the HAL exercises.  Every run  *)
(* of a camera module checks it as an assumption (it is a relation of    *)
(* constants); getDefaultSensorFrameDuration returning the 15 fps         *)
(* kDefaultFrameDurationNs, for one, breaks it for PREVIEW.              *)
(***************************************************************************)
CharacteristicsConsistent ==
    /\ \A tpl \in RequestTemplates : getDefaultTargetFpsRange(tpl) \in getTargetFpsRanges
    /\ \A r \in getTargetFpsRanges :
          /\ r[1] <= r[2]
          /\ getMinFrameDurationNs <= ShortestFrame(r)
          /\ LongestFrame(r) <= getSensorMaxFrameDuration
    /\ \A tpl \in RequestTemplates :
          LET r == getDefaultTargetFpsRange(tpl)
          IN  ShortestFrame(r) <= getDefaultSensorFrameDuration
              /\ getDefaultSensorFrameDuration <= LongestFrame(r)
    /\ kMinSensorExposureTimeNs <= getDefaultSensorExpTime
    /\ getDefaultSensorExpTime <= getDefaultSensorFrameDuration
    /\ getDefaultSensorSensitivity \in getSensorSensitivityRange
    /\ getDefaultAperture \in getAvailableApertures
    /\ \A a \in getAvailableApertures : kMinAperture <= a /\ a <= kMaxAperture

ASSUME CharacteristicsConsistent

=============================================================================
