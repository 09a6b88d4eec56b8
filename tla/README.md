# TLA+ models of android_hardware_ti_omap4xxx

This directory holds TLA+ models of the OMAP4 camera HAL's OMX adapter and of the
hardware composer. It also holds the TLC configurations that check them.
`PROJECT.json` lists each component, the runs and the hazards, and maps every
modelled definition to the source lines it translates.

## 1. Inventory

### Camera: `src/camera/OMXCameraAdapter/OMXCameraAdapter.cpp`

Five threads touch the adapter's state.

- **The camera service thread** calls the adapter in the order CameraHal's state
  machine allows:
  - `initialize` (47-294);
  - `useBuffers` → `UseBuffersPreview` (1501-1766);
  - `startPreview` (1768-1924);
  - `stopPreview` (1926-2121), which calls `flushBuffers` (961-1040) and
    `switchToLoaded` (1314-1499);
  - the destructor (3524-3591).
- **The OMX callback thread** runs `OMXCameraAdapterEventHandler` (2625-2736)
  for every event the camera component reports.
- **The command handler thread** (`CommandHandler::Handler`, 3382-3430) takes
  requests from `mCommandMsgQ` one at a time. For `CAMERA_SWITCH_TO_EXECUTING`,
  posted by `switchToExecuting` (1197-1212), it runs `doSwitchToExecuting`
  (1214-1310). `switchToExecuting` locks `mStateSwitchLock` on the calling
  thread; `doSwitchToExecuting` unlocks it on the handler thread, on every
  return path. The destructor clears the queue, posts `COMMAND_EXIT` and
  waits for the thread (3566-3576).
- **The OMXCallbackHandler thread** (3432-3462) takes `CAMERA_FILL_BUFFER_DONE`
  messages, which the component's FillBufferDone callback (2914-2935) posts,
  and runs `OMXCameraAdapterFillBufferDone` (2940-3199). On the preview port
  it drops the frame unless `PREVIEW_ACTIVE` is set; otherwise
  `sendCallBacks` hands the frame to the display. The destructor clears its
  queue, posts `COMMAND_EXIT` and waits for it (3578-3588).
- **The display thread** gives each frame back through `fillThisBuffer`
  (337-408). It returns `NO_INIT` unless `PREVIEW_ACTIVE`, finds the header
  by its buffer and calls `OMX_FillThisBuffer`. On an error it runs
  `performCleanupAfterError` and `errorNotify` on that thread.

Every state change follows one pattern:
1. `RegisterForEvent(event, cmd, param, sem)` appends an entry to
   `mEventSignalQ` under `mEventLock`.
2. `OMX_SendCommand` sends the command.
3. `sem.WaitTimeout(OMX_CMD_TIMEOUT)` waits.
4. If `mComponentState == OMX_StateInvalid`, the code goes to `EXIT`.
5. On expiry, `RemoveEvent` removes the entry and the code goes to `EXIT`.
6. `EXIT` calls `performCleanupAfterError` (296-308), which does `OMX_FreeHandle`
   if there is a handle, then `OMX_Deinit`, then sets the state to Invalid.

The callback thread's `SignalEvent` (2738-2782) removes the *first* entry
accepted by the test at 2758-2761. In that test a stored zero is a wildcard. An
`OMX_ErrorHardware` event (2671-2694) marks the adapter Invalid. It then signals
and clears every entry, without `mEventLock`.

State:
- `mComponentState`;
- `mCameraAdapterParameters.mHandleComp`;
- `mOmxInitialized`;
- `mEventSignalQ`;
- the semaphores (`mInitSem`, `mUsePreviewSem`, `mStartPreviewSem`,
  `mStopPreviewSem`, `mFlushSem`, `mSwitchToLoadedSem`, `mSwitchToExecSem`);
- `mStateSwitchLock`.

Hard behaviours:
- the two threads interleave between `SendCommand` and the state assignment;
- an expiry races a late completion;
- a hardware failure arrives mid-call;
- a failed send leaves its registration behind;
- cleanup runs on several paths;
- the lock is kept on error paths;
- the destructor must always finish.

Properties these need:
- the recorded state agrees with the component after success;
- no stale registration or signal is left between calls;
- no call is made through a freed handle;
- no double unlock;
- a failure is reported as a failure (the freedhandle trace starts where it is not);
- Invalid is never overwritten;
- the destructor terminates.

Further parts of the same file:
- the capability query (3640-3998): `CameraAdapter_Capabilities` calls
  `OMX_Init`, then for each sensor gets a fresh component
  (`OMXCameraGetHandle`), lets a `CapabilitiesHandler` disable its ports,
  select the sensor, switch to Idle, read the capabilities and switch back
  to Loaded, frees the component, and finally calls `OMX_Deinit`. The
  handler waits on `mCondition` under `mLock`; `processEvent` runs on the
  component's callback thread and wakes it;
- settings and format code, which is data conversion.

### Hardware composer: `src/hwc/`, `src/hwc-moto/`

- `hwc_dss.cpp`:
  - `prepare_dss_layers` assigns up to three video pipelines (VID1..VID3) to
    layers. It maps RGB buffers through the cache. Its map-failure retry is
    `goto parse_layers_again`.
  - `set_dss_layers` walks `g_pipelines` until it reaches a NULL layer and
    issues `OMAPDSS_HWC_SET`.
  - State: `g_pipelines`, `g_top_vid_pipe`, `g_force_rgb_to_fb` (constant 1).
- `hwc-moto/hwc_buffers.cpp` is a six-entry LRU cache of Tiler-1D mappings,
  kept as a singly linked list inside a static array. Its operations are
  `get_cached_buffer` (a hit moves the entry to the head), `map_cached_buffer`
  (reuses the tail) and `init_cached_buffers`.
- `hwc.cpp` has the entry points SurfaceFlinger calls for every frame,
  `ti_hwc_prepare` and then `ti_hwc_set`, on its one composition thread.
  `hwc-moto/hwc_init.cpp` opens the device, which runs `init_hwc_dss`.
- `hwc_hdmi.cpp` is compiled only under `HDMI_DEMO`.

### Not behaviour

- `src/test/libskiahw/SkLibTiJpeg_Test.h` is test vectors.
- `ti_hwc_ioctl.h` and `hwc_priv.h` are declarations.

## 2. Plan

| order | module | models | status |
|---|---|---|---|
| 1 | `OMXEventSignalQ` | the registry: `RegisterForEvent`, the wildcard test, the first-match scan (RECURSIVE, the loop it translates), `RemoveEvent`, the drain | done |
| 2 | `OMXCameraAdapter` | the service thread's preview life cycle, the callback thread, and an abstract camera component, composed | done |
| 3 | `HwcBufferCache` | the linked-list cache, with its map failure path | done |
| 4 | the command handler thread | `CommandHandler::Handler`, `switchToExecuting` and `doSwitchToExecuting` as a further thread of `OMXCameraAdapter`, sharing `mStateSwitchLock` and the registry. `switchToExecuting` is called from OMXCapture.cpp, which is not in this repository; when it is called is modelled from spec.md 4.4 (`SwitchCalls`) | done |
| 5 | `HwcDss` | the prepare/set pipeline assignment over the cache | done |
| 6 | the frame path in `OMXCameraAdapter` | the preview buffers between the component, the callback thread and the display thread | done |
| 7 | capability query | `CapabilitiesHandler` | done |

## 3. Modules

### `OMXEventSignalQ.tla` (operators only)

`mEventSignalQ` is a sequence of records `[command, arg1, arg2, arg3]`, where
`arg3` is the semaphore.

| definition | what it models |
|---|---|
| `RegisterForEvent` | appends an entry |
| `EventMatches` | the test at 2758-2761, zero acting as a wildcard |
| `ScanFrom` / `MatchIndex` | the scan loop |
| `WithoutMatch` | `removeAt` of the matching entry |
| `SignalledSem` | the semaphore `SignalEvent` signals |
| `DrainCount` | the signals the fatal drain and the destructor give each semaphore |

The OMX enum values are those of OMX_Core.h, because the test compares them
with 0. `0x80001009` and `0x80001017` exceed TLC's integers. They are replaced
by distinct nonzero stand-ins; the code only tests them for equality.

### `OMXCameraAdapter.tla`

The service thread is a program counter `pc` with one action per basic block
of each function. Action `f_X` is step X of function `f`; the map gives its
lines.

- `call` and `phase` are the camera service's state machine.
- `Call(f)` starts a call. The caller advances only on `NO_ERROR`. With
  `RetryAfterError` it calls again after an error.
- `Destroy` runs the destructor.
- The shared steps are:
  - `RegisterAndSend`: register, then send;
  - `WaitSignalled` and `WaitTimedOut`: the `WaitTimeout`;
  - `CheckWait`: the Invalid test and the expiry path;
  - `performCleanupAfterError`: every `EXIT`.
- `mStateSwitchLock` is `"free"` or `"app"`. `UnlockStateSwitch` records an
  unlock of a lock that is not held.
- With `CaptureSwitch`, the service may call `switchToExecuting` while in the
  `loaded` phase, as the capture path does with the component back in Loaded.
  It returns `NO_ERROR` at once, and preview resumes with `useBuffers`.

The command handler thread has its own program counter `hpc` and the queue
`cmdQ` (`mCommandMsgQ`):
- `hpc` is `"none"` until `initialize` gets past the sensor select, where it
  starts the thread (219-240). It is `"gone"` after `COMMAND_EXIT`.
- `CommandHandler_Switch` and `CommandHandler_Exit` are the cases of
  `Handler()`. The status of a task is dropped, as spec.md 4.4 says.
- `doSwitchToExecuting_X` are the blocks of `doSwitchToExecuting`.
  - `HandlerRegisterAndSend` registers on `mSwitchToExecSem` and sends.
  - `doSwitchToExecuting_Signalled` and `doSwitchToExecuting_TimedOut` are its
    waits. `HandlerWait` gives where each wait goes next. The port disable
    expiry goes on to the Idle switch. No expiry removes its entry, and no
    wait is followed by an Invalid check.
- `switchToExecuting` with a NULL `mCommandHandler` (the thread was never
  started) is recorded in `nullCall`, like a call through the NULL handle.
- `Quiescent`, used by `StateAgreement` and `NothingLeftBehind`, holds when the
  service is between calls and no switch is queued or running.

The callback thread is `OMXCameraAdapterEventHandler`. It takes the oldest
undelivered event, then either runs the fatal drain or calls `SignalEvent`.

The camera component is the environment, not code of this repository. It has:
- a command queue `hwCmds`;
- an event queue `hwEvents`;
- `hwState`;
- whether the preview port is enabled and populated.

It behaves as follows:
- `HwCompleteCommand` completes the head command once it can run, in order.
  Loaded→Idle waits for buffers, Idle→Loaded and port disable wait for them to
  be freed, and an OMX_ALL port command completes once per port.
- An illegal `StateSet` is reported as `OMX_ErrorIncorrectStateTransition`.
- `HwFail` is a hardware failure. It drops the queued commands and reports
  `OMX_ErrorHardware`.

History variables record what the properties need:
- `nullCall`: an OMX call through the NULL handle;
- `badUnlock`: an unlock of a lock nobody holds.

Abstractions:
- Settings, orientation, focus and the sensor-select `SetConfig` are reduced to
  "an OMX call that needs a live handle".
- `disableImagePort` (OMXCapture.cpp, not in this repository) returns
  `NO_ERROR` in preview.
- `OMX_Init` succeeds; `OMXCameraGetHandle` may fail.
- The bounded first-frame wait in `stopPreview` is a no-op.
- Measurement buffers are off (`mMeasurementEnabled` is false).
- The allocation failure inside `RegisterForEvent` is left out.
- The fatal drain, which runs without `mEventLock`, is one atomic step.
- After `OMX_FreeHandle` the component delivers no more events.

The frame path follows each buffer of `FrameBufs` (the preview port's
`mBufferHeader[i]->pBuffer`). `bufAt[b]` says who holds it: the HAL
(`"cam"`), the component (`"ducati"`), the callback queue (`"msg"`), or the
display (`"display"`).
- `fbdQ` is the OMXCallbackHandler's queue, and `cbpc` that thread's state.
  `dpc` is the buffer the display thread is inside `fillThisBuffer` with.
- `startPreview_Queue` queues the buffers; `startPreview_Config` is the
  ancillary-data `SetConfig`.
- `HwFillBufferDone` is the component filling a frame in Executing. A Flush
  or PortDisable of the preview port, or Executing→Idle, returns every held
  buffer (`ReturnsBuffers`) before its completion event. The component
  accepts `OMX_FillThisBuffer` only on an enabled port in Idle or Executing
  (`AcceptsFill`).
- `OMXCallbackHandler_FillBufferDone` and `fillThisBuffer_Check`/`_Queue` are
  the two consumers. Both read the header first.
- `PREVIEW_ACTIVE` belongs to BaseCameraAdapter, which is not in this
  repository. It is set when `startPreview` has returned `NO_ERROR` and
  cleared when `stopPreview` has (`PreviewActive`, after spec.md).
- `HeaderLive` is whether the headers are allocated: from `OMX_UseBuffer`
  until the `OMX_FreeBuffer` loop of `stopPreview` (2031-2040), and only
  while the component exists.
- `staleHeader` records a read of a header that is not live. When the header
  is freed, the scan in `fillThisBuffer` may or may not find the buffer.
- The OMXCallbackHandler's and the CommandHandler's `COMMAND_EXIT` come from
  the class header, which is not in this repository. As in the TI CameraHal
  header they are taken to be equal, so the handler's switch ends the thread.
- Left out: the measurement port, the snapshot, recording and face-detection
  branches of `OMXCameraAdapterFillBufferDone`, image and raw frames, and the
  debug counters (`mFramesWithDucati` and the like).
- `startPreview` queues every header. The model queues only the buffers the HAL
  holds, and leaves a buffer that the display or the callback queue still has
  from the last preview where it is. Whether that can happen depends on
  CameraHal (a hazard).

### `HwcBufferCache.tla`

The concrete cache keeps the code's data structure:
- `l_next`, `layer_buffer` and `mapped_ptr` are functions over the array slots;
- `g_head` is the head slot;
- `tiler` is the set of mappings MemMgr holds;
- `last` is the result of the last call.

The functions of hwc_buffers.cpp are operators on one value `c`, a record of
the five variables (`CacheOf`), and return the new cache; `StoreCache` writes it
back. This is what lets `HwcDss` make several cache calls in one step.

The walk from `g_head` is `WalkFrom`, which is RECURSIVE. It is bounded by the
number of slots plus one, so a cycle would show as a walk that long.

The operations keep the code's names: `find_buf`, `get_lru`, `swap_head`,
`init_cached_buffers`, `get_cached_buffer` and `map_cached_buffer`.
`MapAfterMiss` is the caller's discipline (hwc_dss.cpp 407-408): it maps a
buffer only after a miss.

The build is 32-bit ARM, so `bzero(cbuf, sizeof(cbuf))` clears 4 bytes: only
`l.next`. On a map failure this leaves the evicted handle in `layer_buffer`.

No abstract cache is checked against it. The header and spec.md 4.5 promise
two things an abstraction would state: least recently used eviction, and a hit
that always gives the buffer's mapping. The code breaks both:
`map_cached_buffer` leaves a new mapping at the LRU tail, so the next map
evicts it while other slots are free, and after a failed map the evicted
handle stays in its slot with a NULL mapping, which `get_cached_buffer`
returns as a hit. What is left, a bounded set of cached buffers, says less
than `MappingsAccounted`. Both defects need `g_force_rgb_to_fb` = 0, and this
source always sets it to 1, so `prepare_dss_layers` never maps: they are kept
as hazards, not runs.

The cache runs use 4 buffers and 3 slots (the code has 6). The policy does not
depend on the size. 3 slots with 4 buffers reach both eviction from a full
cache and eviction while slots are still free.

Left out:
- the NV12 bypass and `use_cnt`, which change no cache state;
- device close and reopen in one process, which SurfaceFlinger does not do:
  it opens the composer once.

### `HwcDss.tla`, `MCHwcDss.tla`

SurfaceFlinger's composition thread calls `ti_hwc_prepare` and then `ti_hwc_set`
for every frame, and nothing else touches `g_pipelines` or the cache. Each call
is therefore one step, `pc` says which call comes next, and each step runs the
whole of `prepare_dss_layers` or `set_dss_layers`:

| definition | code |
|---|---|
| `Eligible` | the skip tests of the parse loop (296-334) |
| `ParseFrom` | the parse loop (288-350), with its restart at 336-338 when the pipes are used up |
| `ParseThenMap` | `parse_layers_again`: parse, reset the pipes from `next_pipe` on (352-358), map |
| `MapFrom` | the mapping loop (401-428); a failed map while RGB is still allowed goes back to `ParseThenMap` with `next_pipe` where it failed |
| `SetFrom` | the walk of `set_dss_layers` (474-498) |
| `update_buffer` | the staging record: pipe, layer and address |
| `OMAPDSS_HWC_SET` | the ioctl (500-509), as ti_hwc_ioctl.h 199-212 describes it |
| `Prepare`, `PrepareNullList`, `Set`, `SetNullList` | the two calls, with their NULL-list returns |

The three functions call each other, so they are RECURSIVE operators over a
record `st` holding the pipes, `next_pipe`, `state_ignore_rgb`, the cache, the
compositionTypes and the map calls made so far. `oks[i]` says whether the i-th
`MemMgr_Map` of the call succeeds; `MapOutcomes` lets at most `MaxMapFailures`
fail over the whole run. The cache is `HwcBufferCache`, taken with `INSTANCE`.

Layers are records of what the code tests: handle (NULL or a buffer),
`HWC_SKIP_LAYER`, the number of visible rectangles and the format. A frame
without `HWC_GEOMETRY_CHANGED` keeps the layers of the last one and may change
their buffers (`SameGeometry`); on a geometry change SurfaceFlinger resets every
compositionType to framebuffer. `dss` is what each video pipeline scans out.

Two things need a decision the code does not make:
- The loop test of `set_dss_layers` reads `g_pipelines[HWCIMPL_PIPE_MAX]` when all
  three video pipes are used. That word is outside the array. The model follows
  the outcome where it is NULL and records the read in `overrun`.
- `OMAPDSS_HWC_SET` sets up the overlays of the composition and leaves the others
  as they were, which is what the header says it does. No call is made when the
  composition is empty.

The build sets `g_force_rgb_to_fb = 1`, so only NV12 layers reach an overlay and
the cache is never called. `ForceRgbToFb` is a constant so that the RGB path,
which the code has, can be checked as well.

Left out: the GFX pipeline (its only write, at 431, tests a flag that is 0),
`flags`, `layer_no`, `z` and the staging fields other than pipe and address,
the `HDMI_DEMO` code, `eglSwapBuffers` and the FPS log.

### `CapabilitiesHandler.tla`

It extends `OMXEventSignalQ` only for the OMX constants. The state is:
- `qpc`: the query thread's place in `CameraAdapter_Capabilities`;
- `omxInit` (unmatched `OMX_Init` calls), `num_cameras_supported`, `err`;
- the handler: `mComponent` (the handle is non-NULL), `mState`, `mIsAborted`,
  `mIsOk`, `mPortsLeftToDisable`, and `signalled` (the condition was signalled
  while the thread waited);
- the component: `hwState`, the `enabled` ports, queues of commands
  (`hwCmds`) and events (`hwEvents`), and `hung`.

The actions follow the code: `disableAllPorts_Send`/`_Wait`,
`fetchCapabilitiesForSensor_Select`, `switchToState_Send`/`_Wait`,
`fetchCapabilitiesForSensor_GetCaps`, `CameraAdapter_Capabilities_Cleanup`
(free the handle, count the camera or break) and `_Exit`. The stretch of
`disableAllPorts` or `switchToState` from taking `mLock` to its wait, and from
waking to returning, makes no blocking call, so each is one step, and
`processEvent`, which takes the same lock, runs between them. A signal while
the thread is not waiting is lost (`Signal`). `processEvent` does nothing once
the wait has been given up (`mIsAborted`), which an expiry does not set: late
completions of an earlier wait are still counted.

The component completes an `OMX_ALL` port disable one port at a time, lowest
first, and refuses a Loaded to Idle switch while a port is enabled. It may fail
with `OMX_ErrorHardware` (Invalid, an error event) or stop answering (`hung`).
`OMXCameraGetHandle`'s five attempts are one outcome: a fresh component or a
NULL handle. `getCaps` only reads parameters, so it is a step without state.

## 4. Runs

Each cfg gives `PrevPort = 2` and the camera ports `{1..5}`, so an OMX_ALL
command produces several completions.

| run | cfg | expect | shows |
|---|---|---|---|
| safety | `MCOMXCameraAdapter_safety.cfg` | pass | `TypeOK`, `StateAgreement`, `NothingLeftBehind` with a caller that stops after an error: 2 expiries, 1 hardware failure, 8 calls. Two preview buffers circulate, and the display thread's `fillThisBuffer` error cleanup races the service thread |
| retry | `MCOMXCameraAdapter_retry.cfg` | pass | The caller calls again after an error, reaching the `NO_INIT` early returns. There are 2 hardware failures, and the capture path's `switchToExecuting` is called. `SwitchSerialized`: while a switch is queued or running, the service thread is between calls or blocked on `mStateSwitchLock`. `SwitchReleasesLock`: every posted switch is run, and the lock it took is released (liveness) |
| switch | `MCOMXCameraAdapter_switch.cfg` | violation | `StateAgreement`: one expiry of the port disable wait in `doSwitchToExecuting` leaves its entry. The late completion ends the Idle wait, and the Idle completion ends the Executing wait. Executing is recorded while the component is in Idle |
| freedhandle | `MCOMXCameraAdapter_freedhandle.cfg` | violation | `NoCallOnFreedHandle`: `initialize` returns `NO_ERROR` after cleanup, and `UseBuffersPreview` uses the NULL handle |
| invalid | `MCOMXCameraAdapter_invalid.cfg` | violation | `InvalidIsFinal`: line 1618 overwrites the Invalid the callback thread just set |
| destroy | `MCOMXCameraAdapter_destroy.cfg` | violation | `DestroyCompletes`: `UseBuffersPreview` keeps `mStateSwitchLock` on failure, and the destructor blocks in `switchToLoaded` |
| frame | `MCOMXCameraAdapter_frame.cfg` | violation | `HeaderUsedWhileAllocated`: the flush in `stopPreview` returns the buffer through the callback queue, `stopPreview` frees the headers (2031-2040) before the thread has run, and `OMXCameraAdapterFillBufferDone` reads the freed header (2963) and, with `PREVIEW_ACTIVE` still set, sends the frame to the display |
| cache_safety | `HwcBufferCache_safety.cfg` | pass | With one `MemMgr_Map` failure: `TypeOK`, `ListWellFormed` (one NULL-terminated list through every slot), `MappingsAccounted` (every Tiler mapping owned by exactly one slot, unmapped on eviction, none leaked by the failure path) |
| caps | `CapabilitiesHandler_safety.cfg` | pass | `TypeOK`; `AdvancesOnlyOnConfirmation`: past `disableAllPorts` every port is disabled, and capabilities are read only from a component that completed the switch to Idle; `QueryLeavesNothing`: the query returns with every component freed and `OMX_Init` matched; `QueryTerminates`: it always returns, even when the component fails or stops answering |
| dss_safety | `MCHwcDss_safety.cfg` | pass | `TypeOK`, `PresentsCurrentFrame`: with RGB allowed and no map failures, every overlay set programs is a layer of this frame marked `HWC_OVERLAY`, shown from its own buffer through a live mapping |
| dss_oob | `MCHwcDss_oob.cfg` | violation | `NoReadPastPipelines`: in the shipped configuration three NV12 layers fill VID1-VID3, and `set_dss_layers` reads past `g_pipelines` |
| dss_stale | `MCHwcDss_stale.cfg` | violation | `OverlaysShowCurrentFrame`: a video layer leaves the list, no `OMAPDSS_HWC_SET` is issued, and VID1 keeps showing its last buffer |

More code behaviours were confirmed by TLC while modelling. They have no run
of their own, because each shares its cause with a run above or cannot happen
in the shipped build (`PROJECT.json` "hazards" has each one):
- `SignalEvent` treats a stored 0 as a wildcard, and `OMX_CommandStateSet`
  is 0, so a Flush or PortDisable completion on port 2 matches a
  `StateSet Idle` entry. On the modelled paths an earlier entry always takes
  such a completion first, so `StateAgreement` holds. The capture paths that
  could reach the wildcard are not in this repository.
- `doSwitchToExecuting` makes no Invalid check after its waits. When the fatal
  drain ends its Idle wait, line 1274 overwrites Invalid with Idle. The
  invalid run reaches this, but reports the shorter instance at 1618.
- After the `initialize` expiry path, the command handler was never started.
  `switchToExecuting` then puts its request through a NULL `mCommandHandler`.
  The freedhandle run reaches this, but reports the equally short
  `UseBuffersPreview` instance.
- With `RetryAfterError = TRUE`, `NothingLeftBehind` fails. A send failure
  leaves its registration, and the registration survives re-initialisation.
- `initialize` returns `NO_ERROR` after the port enable expiry tears the
  component down. This is the first half of the freedhandle trace.
- `performCleanupAfterError` calls `OMX_Deinit` and leaves `mOmxInitialized`
  set, so the destructor calls it a second time.
- `startPreview` unlocks `mStateSwitchLock` at 1845 before queueing the
  buffers, and its EXIT unlocks it again at 1919 when `OMX_FillThisBuffer`
  fails (`NoUnlockOfFreeLock` in the adapter model; a single-thread error
  path, so it has no run).
- A timeout or a component failure while the capability query handles
  sensor k ends the enumeration: `CameraAdapter_Capabilities` returns
  `NO_ERROR` with k cameras.
- After a `MemMgr_Map` failure the evicted buffer is still in its slot with a
  NULL mapping (the 4-byte `bzero`), and `get_cached_buffer` returns 0 for it.
  This is against hwc_buffers.h:57-64, and latent: the shipped build never
  maps.
- A frame filled between `startPreview`'s queueing and the commit of
  `PREVIEW_ACTIVE` is dropped at 2972 and never queued again during that
  preview.
- `map_cached_buffer` leaves a new mapping at the LRU tail, which breaks the
  LRU order the header promises (latent, as above).

The violations are code behaviours. `PROJECT.json` "findings" gives the line
and the trace for each one.

### Bounds

- `MaxTimeouts` bounds only the expiries that happen while the component still
  owes a completion. An expiry with nothing due is what always happens and is
  not bounded.
- `MaxFatal` bounds hardware failures.
- `MaxCalls` bounds the service calls before destruction. With 8 calls, the
  safety run reaches every function twice, including a full
  start/stop/restart cycle.
- `FrameBufs` is 2 buffers in safety, so one buffer can be with the component
  while the other is with the display or queued for the callback thread. It
  is 1 in frame, and empty in the other adapter runs, whose defects do not
  involve frames.
- The violation runs use smaller bounds so that their traces are short.
- `caps` has 5 ports (so a port disable takes five completions), 2 sensors,
  room for 3 cameras (the sensors run out first), 1 expiry while an answer
  is due and 1 component failure. Expiries with nothing due are unbounded.
- `cache_safety` has 4 buffers, 3 slots (so maps evict) and one map failure,
  which runs the failure path at 146-150.
- `dss_safety` has 3 layers, each a NULL layer, an NV12 layer or an RGB565
  layer with one of 2 buffers, 1 cache slot, and `ForceRgbToFb = FALSE`. This
  reaches full and partly used pipes, a pipe kept or freed between frames,
  cache hits, misses and evictions, and NULL lists. Symmetry over the buffers
  is sound because nothing compares them except for equality. A fourth layer
  (needed for the restart on full pipes) takes the run past three minutes.
  It has no map failures, for the reason given under the runs.
- `dss_oob` and `dss_stale` use the shipped `ForceRgbToFb = TRUE` with 3 layers
  of every kind, including skipped, hidden and multi-rectangle ones.
- `CaptureSwitch` is off in safety and destroy. In safety,
  `StateAgreement` and `NothingLeftBehind` would fail through the switch run's
  defect. In destroy, the first trace would go through the NULL
  `mCommandHandler` instead of the lock leak. It is on in the other adapter
  runs. With 8 calls, retry posts a second switch after the first, and that
  second switch takes the early return in Executing or Invalid.

### Fairness and deadlock

Weak fairness applies to:
- the service thread's steps;
- the command handler thread's steps, because it is a dedicated thread whose
  only blocking calls are `waitForMsg` and `WaitTimeout`, which is bounded;
- `Destroy`, because CameraHal always destroys the adapter;
- `HwCompleteCommand`;
- the callback thread;
- the OMXCallbackHandler thread and the display thread, which only wait on
  their queues.

In caps, the query thread, `processEvent` (the component's callback thread)
and the component's progress on its command queue are weakly fair; a failure
or a hang is not, and a hung component answers nothing, which
`QueryTerminates` covers through the bounded waits. The run uses
`CHECK_DEADLOCK FALSE` because the query really stops once it returns.

Filling a frame (`HwFillBufferDone`) is not fair: a sensor may stop producing
frames.

`HwFail` is not fair. All adapter runs use `CHECK_DEADLOCK FALSE`, because the system
really stops. After destruction (`pc = "gone"`) nothing is left to run. The
lock-leak self-deadlock is a real stop too, and the destroy run reports it as a
liveness violation.

The cache runs check deadlock: a `get_cached_buffer` is always possible. They
check no liveness. The DSS runs check deadlock too: SurfaceFlinger can always
start another frame.

### Mutants

Each property of a passing run is broken by a plausible slip in the code:

| property | run | slip |
|---|---|---|
| `TypeOK` | safety | `WaitTimeout` is taken without a signal |
| `SwitchSerialized` | retry | `switchToExecuting` posts without taking `mStateSwitchLock` |
| `SwitchReleasesLock` | retry | the early return of `doSwitchToExecuting` in Executing or Invalid does not unlock |
| `StateAgreement` | safety | the entry test ignores the command |
| `NothingLeftBehind` | safety | `SignalEvent` signals without removing the entry |
| `TypeOK` | cache_safety | `init_cached_buffers` links the tail past the array |
| `ListWellFormed` | cache_safety | `swap_head` does not unlink the entry from its predecessor |
| `MappingsAccounted` | cache_safety | eviction does not call `MemMgr_UnMap` |
| `TypeOK` | caps | the port count starts one higher, as if `OMX_ALL` were a port |
| `AdvancesOnlyOnConfirmation` | caps | `switchToState` leaves out the `!mIsOk` test after the wait |
| `QueryLeavesNothing` | caps | the error test moves above the clean up and leaks the component |
| `QueryTerminates` | caps | the wait has no time limit |
| `PresentsCurrentFrame` | dss_safety | the reset of the unused pipes (352-358) is left out |

## 5. Not modelled (yet)

- The `CAMERA_START_IMAGE_CAPTURE` and `CAMERA_PERFORM_AUTOFOCUS` tasks of the
  command handler. Their bodies, `startImageCapture` and `doAutoFocus`, are
  in OMXCapture.cpp and OMXFocus.cpp, which are not in this repository.
- The Init/Deinit reference count of the OMX core, so the double `OMX_Deinit`
  is recorded as a hazard, not checked.
- Device close and reopen of the composer in one process.
- A refinement of the cache to the header's contract, which the code breaks
  in two places (see `HwcBufferCache.tla` above).
- The frame path's measurement port, capture and face-detection branches, and
  the debug frame counters.
- `hwc_hdmi.cpp`, which is demo-only I/O.
- Format, parameter and settings conversion, and logging.
