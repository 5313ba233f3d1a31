# TLA+ models of the goldfish emulator HALs

These modules model the behaviour of the code under `src/`. Their centre is
the emulated camera HAL (`src/hals/camera`). Each module is written from the
source, and `PROJECT.json` maps every definition to the lines it stands for.

## Inventory of the system

| Part | Source | State | Operations | Modelled in |
|---|---|---|---|---|
| Autofocus state machine | used by `BaseQemuCamera.cpp:104-107`; implementation not in `src/` | state, mode, settle countdown | `evaluate(mode, trigger)`, `reevaluate()` | `AFStateMachine` (from spec.md 4.1) |
| Stream negotiation | `BaseQemuCamera.cpp:109-150` | none (pure) | `overrideStreamParams` | `BaseQemuCamera` |
| Result metadata builder | `BaseQemuCamera.cpp:161-284` | `mCaptureResultMetadata`, AF machine, `mFrameDurationNs`, `mSensorExposureDurationNs`, `mSensorSensitivity` | `applyMetadata`, `updateCaptureResultMetadata` | `BaseQemuCamera` |
| Minigbm back-end | `MinigbmQemuCamera.cpp` | `mQemuChannel`, `mStreams` | `configure`, `close`, `processCaptureRequest`, with one batched `capture bufs=` query | `MinigbmQemuCamera` |
| Gas back-end | `GasQemuCamera.cpp` | `mQemuChannel`, `mStreams` | `configure` (`connect`/`start`), `close` (`stop`/`disconnect`), `processCaptureRequest`, with one `frame` query per buffer | `GasQemuCamera` |
| Deferred completions | closures in both back-ends | captured csb, surface, metadata copy | a closure invoked with `ok` | `CameraHal` + back-ends |
| Caller (camera framework) | not in `src/` | which buffers it owns, closures it holds | submit a request, invoke a closure | `CameraHal` (caller assumptions) |
| DRM hotplug listener | `hwc3/DrmEventListener.cpp` | uevent socket, monitored fds, thread | `create`/`init`, `threadLoop` (one select, then a read loop), callback | `DrmEventListener` |
| Static characteristics | `BaseQemuCamera.cpp:40-59, 288-315, 344-398` | constants | sensor ranges, fps ranges, apertures, and the default getters per request template | `BaseQemuCamera` (assumption `CharacteristicsConsistent`) |
| IMS media stub | `radio/ImsMedia.cpp` | `mMediaListener`, each session's `mSessionListener` | `setListener`, `openSession`, `closeSession`; session `setListener`, `modifySession` and seven no-ops | not modelled |
| Codec headers | `codecs/c2/...` | declarations only | none | not modelled |

How the camera parts interact:

1. The framework calls `configure`. The back-end opens the host channel if
   it is not open, tells the host about the streams, rebuilds `mStreams`
   and runs `applyMetadata` on the session parameters.
2. For each request, `processCaptureRequest` first builds the result
   metadata: `applyMetadata` if the request carries settings, otherwise
   `updateCaptureResultMetadata`.
3. It then handles every buffer:
   - YUV and RGBA buffers are filled by the host and finished at once.
   - RAW16 and BLOB buffers are captured into an intermediate surface. A
     closure that converts or compresses them later goes back to the
     framework.
   - The framework invokes each closure with a flag, on its own thread.
     This interleaves with later requests, reconfiguration and `close`.

## Modules

- `AFStateMachine`: pure operators `Evaluate` and `Reevaluate` over
  `[state, mode, left]`. The constant `Settle` is the number of
  re-evaluations a scan takes. It is modelled from spec.md because the
  implementation is not in `src/`.
- `BaseQemuCamera`: `overrideStreamParams`, `applyMetadata`,
  `updateCaptureResultMetadata` and `ResultMetadataFor`, as pure operators
  returning the new AF memory, the sensor members, the stored snapshot and
  the returned one.
  - Metadata is abstracted to the entries the properties read: AF mode and
    trigger in, AF state and trigger out, and frame duration, exposure time
    and sensitivity both ways, in ns and ISO as the code has them.
  - `"ABSENT"` stands for an AF entry the buffer lacks. A numeric entry is
    `<<v>>`, or `NoEntry` when absent.
  - `SensorSettings` is the top of `applyMetadata` (lines 166-180). The frame
    duration goes through `getFrameDuration`, which is not in `src/` and is
    modelled as spec.md 2 describes it: clamped to the advertised range,
    default when absent. Exposure and sensitivity are taken from the request
    as they are, defaults when absent.
  - The static getters are operators with the source's names: the fps
    constants, `getTargetFpsRanges`, `getAvailableApertures` (f-numbers
    times ten), `getMinFrameDurationNs`, `getSensorMaxFrameDuration`,
    `getDefaultTargetFpsRange(tpl)` and the `getDefault*` getters.
    `ASSUME CharacteristicsConsistent` relates them, and TLC checks it at
    the start of every camera run. It says that each template's default
    fps range is advertised, and that every advertised range lies within
    [min frame duration, max frame duration]. It also says that the
    default frame duration (30 fps) suits every template's default range,
    including PREVIEW's fixed 30 fps. Finally, the default exposure,
    sensitivity and aperture must be advertised, and the exposure must
    fit the default frame. A default of 15 fps, the `kDefaultFrameDurationNs`
    that `applyMetadata` falls back to, would break it.
- `CameraHal`: the state both back-ends share, and the bookkeeping of a
  request (`RequestEffect`) and of a closure (`DelayedEffect`).
  - `channel` is `mQemuChannel.ok()` and `streams` is `mStreams`.
  - `af` and `stored` are the AF machine and `mCaptureResultMetadata`.
  - `sensor` holds the three sensor members. `reported` holds the frame
    duration and exposure time the last request returned in its tuple
    (`FAILURE` = -1 for the frame duration if the channel is closed).
  - For every caller buffer there is `owner`, `finishes` (finish calls since
    the buffer was submitted), `outcome`, `accepted` (the host took a query
    naming it) and `imgs` (intermediate surfaces held).
  - `pending` holds the closures the caller has and has not yet invoked.
  - The properties are stated here.
- `MinigbmQemuCamera`:
  - `configure` has three outcomes: the open fails, the query is refused
    (the channel is reset), or the query is accepted.
  - `close`.
  - `processCaptureRequest`: the per-buffer loop, then `BatchSucceeded` or
    `BatchFailed`.
  - `resolveDelayed`: the BLOB and RAW16 closure bodies.
- `GasQemuCamera`:
  - `configure`: the handshake fails, or the channel is open or reused.
  - `close`.
  - `captureFrame` per buffer, built on `captureFrameForCompressing` and
    `queryFrame`.
  - `resolveDelayed`: the RAW16 and JPEG closure bodies.
- `DrmEventListener`: the hotplug listener of the composer HAL.
  - `init` covers `create` and `init`: a socket or bind failure returns
    nullptr, or the thread starts.
  - `threadSelect`: the single `select` (line 66). The thread leaves when
    `mEventFd` is not ready (line 69).
  - `threadRead`: one `read`. An error ends the thread. A message runs the
    callback if it carries both `DEVTYPE=drm_minor` and `HOTPLUG=1`
    (`IsHotplug`, lines 90-92).
  - The kernel is the environment. `KernelUevent` queues a uevent on the
    socket, at most `QueueCap` of them. One that does not fit is dropped:
    it sets `overflow`, and the next read then fails with ENOBUFS (the
    kernel reports the socket error before any queued message). It also
    sets the history flag `dropped`. `hotplugs` counts only the hotplug
    uevents that were queued. A dropped one could never be delivered by
    any listener, so it is not counted. `DrmFdReadable` makes the DRM fd
    readable.
- `MC_CameraValues`, `MC_Minigbm`, `MC_Gas` and `MC_DrmEventListener`
  give the constants for TLC.
- `SerializeOutcomes` is the set of results `serializeCameraMetadataMap`
  may have. The passing camera runs use `{TRUE}`, so they do not check
  what a failed serialization does. `minigbm_serialize_failure` and
  `minigbm_serialize_report` use `BOOLEAN`, and both find a property
  violated there.
  - On failure, `applyMetadata` keeps the previous `mCaptureResultMetadata`
    (`BaseQemuCamera.cpp:231-233`). It then returns the same snapshot and
    resets its trigger, exactly as on success.

Each HAL call is one atomic step, because a camera instance serves one call
at a time (spec.md 5). A closure touches only its own csb, its own surface
and the copies it captured, so each invocation is one step interleaved with
the calls.

Host, allocator, fence, mapper and encoder results are nondeterministic
booleans chosen with `\E`.

### Undefined behaviour

`MinigbmQemuCamera.cpp:273-276` clears `delayedOutputBuffers` inside the
range-for over it. `BatchFailed` models this as a choice: the first closure
runs, and every later one either runs or is lost.

### Caller assumptions

These come from the HAL contract, not from `src/`:

- requests are made only after a successful `configure`. So a request on
  the channel that a refused `configure` reset
  (`MinigbmQemuCamera.cpp:106`) is never made, and the `FAILURE(-1)` frame
  duration it would return is not checked;
- a request holds buffers the caller owns, at most one per stream;
- every closure is invoked once, with either flag.

## Runs

| Run | cfg | Expect | What it shows |
|---|---|---|---|
| minigbm_pipeline | `MC_Minigbm.cfg` | pass (about 45k states, about 25 s) | Four buffers, with `b4` a second buffer on the JPEG stream, so a JPEG buffer can be submitted while the previous one's closure is still with the caller. Under all host, allocation and closure orderings, with one BLOB stream per configuration: buffers are finished at most once and never dropped, surfaces are owned exactly while a closure holds them, no buffer is reported filled without an accepted query, the AF trigger is single-shot, and the stored AF state tracks the machine. Serialization always succeeds here. |
| minigbm_batch_failure | `MC_Minigbm_BatchFail.cfg` | violation of `AccountedFor` | A request with a BLOB and a RAW16 buffer whose batch query fails: the clear inside the loop loses the second closure. Its buffer is never finished and its surface leaks (`MinigbmQemuCamera.cpp:275`). |
| minigbm_trigger_result | `MC_Minigbm_Trigger.cfg` | violation of `AppliedResultTriggerIdle` | The result of a request with AF trigger START still says START, while spec.md 4.2 says the snapshot is reset to IDLE. Only the stored copy is reset (`BaseQemuCamera.cpp:247`). |
| gas_pipeline | `MC_Gas.cfg` | pass (about 26k states, about 50 s) | The buffer and surface invariants (`TypeOK`, `NoDoubleFinish`, `AccountedFor`, `SurfaceOwnership`, `NoPhantomFrame`) for the Gas back-end. The configurations use all four output formats, including null images from failed allocation or query. The metadata properties are not repeated here: Gas runs the same `BaseQemuCamera` step as Minigbm. |
| minigbm_serialize_failure | `MC_Minigbm_SerializeFail.cfg` | violation of `StoredTracksAf` | When the serialization of a START request's metadata fails, the AF machine is SCANNING. The result and the stored snapshot still say INACTIVE, with no trigger. |
| minigbm_serialize_report | `MC_Minigbm_SerializeReport.cfg` | violation of `ReportedMatchesResult` | A CANCEL request asks for 30 fps and 20 ms, and its serialization fails. The tuple returns 33 ms and 20 ms (the members, set before serialization), while the result beside it is the previous snapshot with 66 ms and 10 ms (`BaseQemuCamera.cpp:231`, `MinigbmQemuCamera.cpp:279`). |
| minigbm_long_exposure | `MC_Minigbm_LongExposure.cfg` | violation of `ReportedSettingsInRange` | A request asks for a 1 s exposure and its result reports 1 s. That is above the 0.5 s maximum of `getSensorExposureTimeRange`, while spec.md 2 says exposure comes from clamped ranges. Only the frame duration is clamped (`BaseQemuCamera.cpp:172`). |
| drm_listener_faults | `MC_DrmEventListener.cfg` | pass (339 states) | With a DRM fd that may become readable and an overflow possible, the thread exits only after one of those two faults (`ExitOnlyOnFault`). No sequence of queued uevents, hotplug or not, ends the read loop. |
| drm_listener_liveness | `MC_DrmEventListener_Live.cfg` | pass | With a quiet DRM fd and no overflow, every hotplug uevent is eventually reported. |
| drm_listener_drm_fd | `MC_DrmEventListener_DrmFd.cfg` | violation of `HotplugDelivered` | A DRM event pending before any uevent makes `select` return without `mEventFd`. The thread returns and hotplug detection stops for good (`DrmEventListener.cpp:69`). |
| drm_listener_overflow | `MC_DrmEventListener_Overflow.cfg` | violation of `HotplugDelivered` | A hotplug is queued, and a later uevent overflows the one-message buffer. The next read fails with ENOBUFS and the thread returns (`DrmEventListener.cpp:79`). The queued hotplug, which the socket did receive, is never read. |

Every property of a passing run has a mutant in `PROJECT.json`: a
plausible slip in a mapped definition, which TLC must catch.

### Bounds

- There are three buffers, one per stream id, plus in `minigbm_pipeline` a
  fourth on stream 2. That allows requests of one, two or three buffers, a
  buffer re-submitted while another is still held by a closure, and two
  JPEG buffers in flight at once.
- The Minigbm configurations have at most one delayed stream, so that its
  passing run does not just repeat the known batch-failure bug. The
  batch-failure run configures two delayed streams.
- The Gas configurations cover YUV+BLOB, RGBA (from IMPLEMENTATION_DEFINED
  with and without video usage) and YUV+BLOB+RAW16.
- `Settle = 2`, so a scan lasts across several requests. A repeating
  request can then meet SCANNING and then FOCUSED.
- Request updates are EMPTY, START and CANCEL in AUTO mode. START leaves
  the sensor at its defaults. CANCEL asks for 30 fps, 20 ms and ISO 400,
  all inside the advertised ranges. The session parameters are AUTO with no
  trigger and no sensor entries.
  - The long-exposure run replaces the 20 ms with 1 s.
- The fourth buffer's Minigbm configurations still have one delayed
  stream, so two closures are never in one request (that case is the
  batch-failure finding).
- The DRM runs let the kernel send 3 uevents, of all four kinds:
  drm/non-drm times hotplug/no hotplug. That allows a hotplug after a
  non-hotplug message and two hotplugs in a row.
  - `QueueCap` is 3 in the liveness run (no overflow), 2 in the fault run
    and 1 in the overflow run.

### Fairness

- The camera runs check invariants only and assume no fairness. The
  framework may stop sending requests, and stop invoking closures, at any
  time.
- `DrmSpec` has weak fairness on `threadSelect` and `threadRead`. The
  listener runs on its own `std::thread`, which blocks only in `select`
  and `read`, so it runs whenever its fd is ready.
- The kernel gets no fairness.
- `CHECK_DEADLOCK FALSE` in the DRM runs: once the kernel has sent its
  uevents, the thread legitimately blocks in `read` (or has exited) and
  nothing else happens.

## Plan

1. (done) AF machine, metadata builder, both back-ends, and the shared
   buffer and closure bookkeeping, with the safety invariants.
2. (done) Serialization failure in `applyMetadata`, and `DrmEventListener`
   with its two ways of stopping. A refinement of a buffer-lifecycle
   specification was tried and dropped, because it said no more than
   `NoDoubleFinish` and `AccountedFor`.
3. Next: AF liveness (spec.md 8). A START in AUTO mode followed by
   repeating requests reaches FOCUSED and stays there. This needs a caller
   that keeps sending repeating requests, which is a stronger caller than
   the framework guarantees. It will be a conditional property
   (`[]<>` repeating requests `=>` FOCUSED).
4. (done) A second buffer on one stream (in `minigbm_pipeline`), the sensor
   members of `applyMetadata` with the advertised ranges.
5. The four-buffer instance for Gas does not finish within 10 minutes
   with all its configurations. It needs a smaller configuration set.
6. (done) The static getters, checked by `CharacteristicsConsistent`.
7. The stream-info cache of `CachedStreamBuffer`, if its behaviour on
   reconfiguration can be pinned down from the code that calls
   `configure`.

## Not modelled

- Exposure compensation and the aperture: floating point that only feeds
  query strings and one result entry.
- The static getters that return `mParams` fields or fixed enums (sensor
  size, resolutions, thumbnail sizes, capability bitmap, colour filter,
  maximum output streams). Nothing in the model reads them, and they
  relate to nothing the code checks.
- Pixel conversion and JPEG encoding: outside `src/`, modelled only by
  their success flag.
- `CachedStreamBuffer`'s stream-info cache: outside `src/`. The model looks
  the stream up afresh. A pointer cached before reconfiguration is listed
  as a hazard.
- The codec headers: declarations only.
- The IMS media stub (`radio/ImsMedia.cpp`): two listener stores and
  callbacks through `NOT_NULL`. In any call order it crashes exactly when a
  listener is used before it is set, which is what `NOT_NULL` states. A
  model of it has no property that says more than the code does.
- A null `getBuffer()` for a passthrough buffer
  (`MinigbmQemuCamera.cpp:246`) would be finished at line 260 and again
  at 266 or 270. `getBuffer` is outside `src/`, and spec.md 7 makes a null
  buffer handle a precondition violation, so the model's buffers are
  never null.
- `DrmEventListener`'s destructor and thread join live in
  `DrmEventListener.h`, which is not under `src/`.
- A read returning 0 (`DrmEventListener.cpp:77`) cannot happen on a
  datagram socket that carries only non-empty uevents. The read error that
  can happen is the ENOBUFS after overflow, which is modelled.
