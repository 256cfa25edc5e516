# Verification of the e-paper node

The repository holds the firmware of a battery-powered ESP32-C6 node that drives a
7.3-inch six-colour e-paper panel, the web application with which a user dithers and
uploads pictures, an administration console, and the tools around them.  This directory
models the parts of the firmware whose correctness depends on concurrency, crashes and
failing writes, and the parts of the two web applications whose correctness depends on the
order of answers, on superseded work and on pixel arithmetic.  TLC checks the models on
small instances, and TLAPS proves the main theorems about the firmware, and about the
browser's panel operation, device link, Wi-Fi settings, calibration, editor and crop tool
and the administration console's routes and snapshots, for every value of the constants.
The correspondence of each definition with lines of the source is in `PROJECT.json` under
`map`.

Contents: 1 the system, 2 the modules, 3 what the runs show, 4 what is proved,
5 observations, 6 abstractions and what is not modelled, 7 the plan.

## 1. The system

### 1.1 Components of the firmware

Paths are relative to `src/src/modules/` unless they start with `src/`.

| Component | State it keeps | Operations | Hard behaviour | What makes it correct |
|---|---|---|---|---|
| E-paper service (`epaper/EpaperService`) | operation state, ids, drains, marker clear, image metadata, draw queue of depth one | uploads, draw requests, metadata refresh, downloads, `poll`, restart and sleep requests; a worker task | clients, main loop and worker share one mutex but do all I/O outside it | one owner per accepted operation; a restart or sleep only with a safe panel; every draw ends |
| Panel protection (`EpaperSafetyStore`, `EpaperShutdownCoordinator`, `EpaperCooldown`) | durable marker, its RAM copy, "may be active", 180 s rest | mark, confirm, clear, recover, finish an operation, approve a restart | a reset at any step; writes that fail with or without effect; a wrapping clock | a powered panel always has an active marker; it is woken only when rested |
| Panel driver, CPU guard (`Epd7In3E`, `CpuFrequencyGuard`) | panel stage, clock | initialise, transfer, refresh, shut down; 80 MHz and back | partial SPI failures, BUSY timeouts, a clock that does not come back | failures are reported, the shutdown is tried on every path |
| Image pipeline (`EpaperImageFormat`, `EpaperGzip*`, `EpaperFrameSource`) | decoder, CRC, row band | validate, stream a frame | chunk boundaries, truncated input | invalid images never reach the panel |
| Userdata storage (`storage/UserDataStorage`) | operation gate, upload and download sessions | upload, download, list, delete, reserve for restart or sleep | one gate for all users; atomic replacement; late calls with old session ids | the gate never leaks; a file is the old one or the new one |
| Storage lifecycle (`storage/StorageLifecycle`, `FlashStorage`) | persistent reset intent | request a reset, carry it out at boot | a crash in the middle of a reset | resets finish, and are not repeated on new data |
| Sleep (`sleep/SleepCoordinator`, `SleepStore`, `SleepSchedule`, `SleepRtcRecord`, `WakeClassifier`) | agenda, schedule, RTC record, prepare step | update, request, poll, agenda actions, wake classification | checks before a drain and commits after it; jumping clocks | never sleeps over work; a slot recorded as handled is not run again |
| Configuration (`config/`) | active configuration, two slots and a selector | begin, four kinds of update, snapshot | torn writes; concurrent field-group updates | the committed configuration or the new one survives |
| Calibration (`epaper/calibration/`) | colour profile, two slots and a selector | begin, update, reset | as configuration; newer schemas | as configuration; an unsupported profile is kept |
| Wi-Fi (`wifi/WifiManager`, `WifiScanner`) | mode, connection test, scan session | apply, test, roll back, scan | a test owns the radio while the access point must stay up | a failed change returns to the committed one |
| Runtime actions (`runtime/RuntimeActionScheduler`, restart coordinators) | pending Wi-Fi, TX-power and reset actions | schedule, poll | coalescing, deferral and retry of timed actions | a reset is never held up; nothing accepted is dropped |
| Authentication (`auth/AuthService`) | one session token | log in, authorise, change password | password change against live sessions | old sessions end |
| HTTP (`http/`, `src/src/api/`) | pending responses, streaming sessions | route, stream, defer | async task against main loop | one response per request, no leaked session |
| Console (`console/`) | line buffer, staged edits | edit, commit by group | staged edits over concurrent updates | only staged fields are written |
| Time, battery, LED, pins, buses, mDNS, captive DNS | small caches | sample, claim, drive | little | |

### 1.2 Components of the browser

Product UI (`src/user-web-project/src/`, written `U/`) and administration console
(`src/builtin-web/assets/js/`, written `B/`).

| Component | State it keeps | Operations | Hard behaviour | What makes it correct |
|---|---|---|---|---|
| Panel operation (`U/device/device-epaper.js` and the pages that draw) | discovery, one shared status request, one operation with run id and stage, waiting callers | begin, submit, poll, hold, release | an answer that arrives after its operation ended; other clients' draws; outages | only own accepted draws are adopted; the page is unlocked in the end |
| Device link (`U/device/device-live.js`, `device-features.js`, `device-sleep.js`) | reachability, features, sleep status, clock synchronisation, epochs | check, discover, keep awake, save, hide and show the tab | late answers of an earlier epoch | nothing shown is older than a noticed outage |
| Wi-Fi settings (`U/pages/device-network/`, `U/device/device-auth.js`) | form, draft, baseline, a save and its transition, session token, dialogs | edit, save, follow the transition, scan, log in, mount | the save changes the connection it is answered over | no false success, no lost draft, every save ends |
| Dither editor (`U/pages/dither-editor/controller.js`, `page.js`, `editor-mode-state-machine.js`, `worker/`) | mode, tools, image, preview, one job, debounce timers | load, change, preview, export, draw, cancel, mount | superseded jobs share one worker; results after a change | no stale preview; a worker that serves the job in force; a claimed panel operation is released |
| Crop and resize tools (`U/pages/dither-editor/features/`, `viewport/pointer-mapper.js`) | crop and resize settings; the fingers down, a drag or a pinch | change a setting, flip, turn, drag, pinch, load, build the panel | rounding and limits; fingers lifted in any order | the frame stays in the picture, nothing set is lost, sizes agree and keep their ratio |
| Project files (`U/core/storage/project-file.js`, `project-workspace.js`) | | classify, write, read, restore | limits on both sides; damaged and foreign files | what is written opens again as what it was |
| Pipeline and dithering (`U/pages/dither-editor/operations/`, `features/`, `dither/`, `U/core/`) | stage cache, worker, GPU and their fallbacks | run the stages, map colours, diffuse, encode the panel frame | shared buffers, superseded runs, mirrored rows, borders | a result equals a run without cache and worker |
| Calibration (`U/device/device-epaper-calibration.js`, `U/pages/device-epaper-test/`) | shared colours, request serial; the editor's draft and baseline | load, save, reset, edit, mount | one serial for all requests; new colours while editing | Save only over what was seen; edits are kept |
| Administration console (`B/`) | route, session, Wi-Fi snapshot and form, a save and its poll, dialogs | navigate, log in, save, scan, reset | answers of an earlier route or of before a save | settings only for a confirmed session; snapshots advance |
| Shell, i18n, storage browser, information pages | what they fetched | show | little | |
| Mock device, preview API (`U/device/device-mock.js`, `B/preview/mockApi.js`) | a simulated device | the HTTP API | | the device side of the browser modules follows them |

### 1.3 How they interact

- HTTP handlers (async task) and the sleep agenda (main loop) are the *clients* of the
  e-paper service; the console does not call it.
- `loop()` in `src/src/main.cpp` polls scheduler, coordinators and the service every
  10 ms.  The worker task takes a draw from the queue or, after 10 ms without one, runs
  `processControl()`.
- `UserDataStorage` has one gate for everybody: uploads, downloads, validations, the
  worker's frame source, restart, sleep and generic file operations.
- A software restart goes through `requestRestart`/`pollRestart`; the worker approves it
  and calls `restartNow`.  Sleep goes through `beginPrepare`, `pollPrepare` and
  `requestSleep`, which use the same admission flag.
- What survives a reset is the marker, the stored image, the NVS records, the RTC record
  and the panel itself.
- In the browser, `device-live.js` is the only judge of reachability; features, sleep,
  panel, calibration and pages subscribe to it, in the order `main.js` starts them.  A save
  of the Wi-Fi settings suppresses its judgement while the connection changes.
- The editor claims the panel operation of `device-epaper.js` for a draw, runs the pipeline
  in the job it owns, and hands the frame over; the operation covers the whole console
  until it ends.  Calibration colours change the editor's target and palette.

The hazards of each part are listed, at their lines, in `PROJECT.json` under `hazards`,
with the properties that cover them or the reason why none does.

## 2. The modules

| Module | Models | Uses |
|---|---|---|
| `EpaperService` | service, protection, driver stages, storage gate, prepare step of sleep, boot and resets | |
| `EpaperRest` | what becomes of the panel's rest when the main loop lags | `EpaperService` |
| `PanelProtection` | abstract: what the service promises to the panel | instantiated by `EpaperRest` |
| `EpaperInvariant` | the inductive invariant and what three theorems add to it | `EpaperRest` |
| `EpaperProofs` | theorems: type and inductive invariant, safety properties, refinement | `EpaperInvariant` |
| `SlotStore` | configuration and calibration in two slots and a selector | |
| `DurableRecord` | abstract: a record that survives crashes | instantiated by `SlotStore` |
| `SlotStoreProofs` | theorems | `SlotStore` |
| `SleepCoordinator` | agenda, schedule, entry into deep sleep, requests, wake | |
| `SleepInvariant` | the inductive invariant | `SleepCoordinator` |
| `SleepProofs` | a lemma for each action; theorems | `SleepInvariant` |
| `PanelClient` | the browser's panel operation, composed with a device that draws | |
| `LiveMonitor` | the browser's connection monitor, as operators | |
| `DeviceLink` | monitor, features, sleep service and clock against a device | `LiveMonitor` |
| `DeviceLinkProofs` | inductive invariant, theorem | `DeviceLink` |
| `WifiSetup` | the network page, its saves and transitions, login and scan | `LiveMonitor` |
| `WifiSetupProofs` | inductive invariant, theorems | `WifiSetup` |
| `ProjectFile` | writing and reading project files, as operators | |
| `DitherEditor` | modes, tools, jobs, previews, loads, exports, draws | `ProjectFile` |
| `CropTool` | geometry of the crop tool, fingers on its overlay, sizes of the resize tool, as operators | |
| `ClientProofs` | theorems on the panel client, the editor (with its inductive invariant) and the crop tool | `PanelClient`, `DitherEditor`, `CropTool` |
| `AdminConsole` | the administration console against the preview API | |
| `AdminConsoleProofs` | inductive invariant, theorems | `AdminConsole` |
| `Dithering` | colour mapping, error, dot and pattern diffusion, ordered dithering, as operators | |
| `ImagePipeline` | stages, stage cache, worker, GPU fallback, panel encoder | `Dithering` |
| `CalibrationClient` | the shared calibration service and its editor | |
| `CalibrationProofs` | inductive invariant, theorems | `CalibrationClient` |
| `MC...` | instances for TLC | the module they name |

The device side of a browser module is the smallest device that gives every answer the
mock gives; it is deliberately not the firmware model, whose steps the browser cannot see.

### 2.1 EpaperService

The unit of atomicity is a section of code under the service's mutex, or one call that
changes flash, the panel or the gate.  Program counters (`worker`, `client`, `sleep`) say
which section comes next, so every other actor, and a reset, may act in between.

| Variable | Code |
|---|---|
| `device`, `panel` | the chip (reset reason, length of the last sleep) and the physical panel: its power and the rest it still owes (`debt`) |
| `flash` | the marker of `EpaperSafetyStore` and `/files/epaper-current.epd.gz` |
| `hw` | RAM of the safety store (`stage`), of the shutdown coordinator (`coord`, `unavailable`), of the driver (`mayBeActive`), clock and guard (`cpu`, `held`) |
| `svc` | the published state: `state_`, `panelState_`, `recoveryRequired_`, `operationGeneration_`, `completedOperationId_`, and the id of the draw that is under way (`draw`, recorded for the property only) |
| `drain` | `admissionClosed_`, `sleepDraining_`, `sleepReady_`, restart progress and its two deadlines |
| `clear` | the marker clear (pending, running, retry), `EpaperCooldown`, and what the time read at the start of a pass of `loop()` says of it (`seen`) |
| `image` | `stored_`, and the operation id a running validation publishes it for |
| `gate`, `queue` | the operation gate of `UserDataStorage`; the FreeRTOS queue |

Actions follow the code's functions: `BeginUpload`, `OpenUpload`, `CommitUpload`,
`QueueUpload`, `RequestDraw`, `SendDraw`, `RefreshMetadata`, `BeginDownload`, ... for the
clients; `StartPass`, `MainPoll`, `RequestRestart`, `PollRestart`, `RequestSleep`, `ReserveSleep`,
`CancelSleep`, `DeepSleep` for the main loop; `Control`, `RestartNow`, `ClearMarker` and
the stages of a draw (`OpenForDraw` ... `MarkActive`, `Prewake`, `PowerOn`, `Transfer`,
`Refresh`, `ShutdownPanel`, `ConfirmShutdown`, `FinishDraw`) with their failures for the
worker; `Boot`, `Crash`, `PowerCycle`, `Wake` and `Tick` for the world.

- A failed flash write may have taken effect (`Written`); RAM follows only a verified
  result (`Stage`), as `writeAndVerify` does.
- A reset gives all RAM its initial value; `Boot` then does what `setup()`,
  `startEpaperHardware()` and `begin()` do, before any task exists.  The worker may be
  created before or after the first poll.
- `PowerCycle` is the loss of the 3.3 V supply MCU and panel share.  The firmware's rule
  that a power-on reset proves a rested panel (`docs/SPEC_TECHNICAL.md`, marker recovery)
  is built in: supply loss clears the debt of a panel whose marker was active.  For a
  confirmed marker the debt remains, and the code waits again.
- A failed SPI write is taken to have sent nothing, so `mayBeActive` is exact for Power ON.
- `loop()` reads `millis()` once per pass, and the worker may begin a cooldown at a later
  millisecond.  `BeginCooldown` therefore leaves it open whether the loop's present time
  takes the cooldown for elapsed (`seen`).  `EpaperRest` adds a history variable `rest`, on
  which no step depends: `hasty` when a cooldown began that way, `lost` when a reset then
  finds its marker already cleared while rest is owed, and `kept` otherwise.  The abstract
  `PanelProtection` has the same three steps (`Hasten`, `Clear`, `Forget`) as the only way
  to wake a panel that still owes rest.

### 2.2 SlotStore

One module for both records; `store` says which one a behaviour is about, and the two
places where the code differs (`NoFallback`, `Refuses`) are named operators.  A slot
holds a value, nothing, something torn, or a newer schema.  `WriteSlot`, `Verify` and
`Select` are the three steps of `save()`; `Boot` is `begin()` with `load()`; `Reset` and
its three steps are the calibration's `reset()`.  `Crash` may come between any two.
A write that fails is one action whose outcomes (`Partial`) include all that clearing a
slot and writing its fields can leave, the schema marker being last; so they also cover
a reset in the middle of `writeSlot()`.  A write that reports success may have stored
something torn, which is what the read-back is for.  Both services run their calls under
one mutex, therefore `call` is one record and not one per caller.

### 2.3 SleepCoordinator

`poll()` of the main loop is cut where another task can act: `pc` says where the loop is,
and every HTTP step (lease, keep-awake, each step of a PUT), a finished panel operation, a
deadline or a reset may come in between.

| Variable | Code |
|---|---|
| `disk`, `record` | `SleepStore` and its state Error; `record_`.  A record is its generation, whether the schedule is on, and the last handled slot |
| `time`, `due` | `TimeSource` (synced, revision not yet observed); `due_` and `relativeDueClock_` |
| `mode`, `agenda`, `late` | `mode_` with `checkpointWake_`; `agenda_`, its generation and result; a passed deadline |
| `idle`, `request` | the idle timer is armed; a pending sleep-now request |
| `gate` | what `mux_` protects: admission, keep-awake, leases, time update, activity since admission closed |
| `prepare`, `panel`, `hw` | `prepare_`; the e-paper service as seen from here; timer, pins, storage, services, and what could not be given back |
| `rtc`, `device` | `SleepRtcRecord`; running or in deep sleep |
| `cand`, `put`, `lock`, `acked` | locals of `finishAgenda` and of a PUT, `writeMutex_`, and the schedule last answered with success (for the property only) |

- One pass: `LoopRecover` or `LoopGate`, then `LoopDecide`, `LoopAgenda` or `LoopPrepare`;
  `LoopBegin`, `LoopDraw`, `LoopFinish`, `LoopSave`, `LoopClose`, `LoopCommit` and
  `LoopTeardown` are the places at which a decision taken earlier in the pass is used.
- `CancelPrepare` is the whole rollback, with any set of its operations failing; it is used
  by every step that can fail, with the hardware as that step left it.
- Calendar time is abstracted to the three phases the code compares a due with: more than
  60 s ahead, at most 60 s, reached.  The last 5 s, in which no sleep begins, lie in the
  second phase: blockers may refuse at any time.  A clock that is set moves the phases
  anywhere.  Retry delay, response grace and the idle timeout may be over at any time.
- Blockers whose owners are not in this module (USB, Wi-Fi, runtime actions, a panel to be
  recovered, a busy storage) may appear at any time.
- A save writes the old or the new record when it fails, and the store then refuses until
  the next boot, as `SleepStore::save` does.

### 2.4 The browser modules

Each keeps the client's state in one record `c` (in `DitherEditor`, `e`), whose fields are
named in the head of the module with the variable of the code they stand for.  A request
is three steps: sent by a client action, handled by the device, and delivered or failed by
another client action; so answers come in any order.  A step runs everything that runs in
one event of the browser: the handler and the promise continuations it resolves.

- **PanelClient**: `BeginOperation`, `SubmitUpload`, `Compressed`, `Accepted`, `Refused`,
  `PrepareFails`, `RequestFails` for an operation; `AskStatus` from the status timer, the
  poll or a page, `DeliverStatus`, `StatusFails`; `HoldFires` (700 ms after a success) and
  `CooldownTick`; capability discovery; outages and a reflashed device.  The device
  reserves the panel for a request (`Reserve`, state `uploading` or `queued`), queues the
  draw (202) or gives the panel back (`ReservationFails`), draws, rejects a stored image,
  fails its shutdown, rests, does the same for other clients, closes admission while a
  restart or sleep drains it, and is reset, which forgets the last result.  `can` is
  `can_draw`: open admission in state idle.
- **LiveMonitor, DeviceLink**: the monitor is a set of functions on its fields.  An epoch
  (`generation`) is no number: a new one disowns the requests of the old (`own`).  The
  flag `fresh` on a message is history, for the property only.
- **WifiSetup**: a save is a flow of its own (`flows[i]`) through PUT, transition, poll
  and deadline; several can be under way after a re-mount.  A load takes over from one
  that is still out (the code's generation), so there is one GET.  What a save that is over
  no longer needs is forgotten (`Over`).  Of the device's transition it is kept whose save
  it is (`for`), and which saves it took up late, for the property only.
- **DitherEditor**: the job owner of `createJobOwner` is the record `job`: kind, whether
  its version is the current one (`ok`), what it was computed from and where it is.
  `Invalidate`, `SupersedePreview`, `TerminateWorker` are the code's helpers and the
  actions are built from them.  Pixels are replaced by what they were computed from
  (`ContentOf`), so that "stale" is a comparison.
- **ProjectFile**: a file is its PNG chunks; checksum, type, order and what follows are
  kept, sizes are units.  A feature's settings are their nesting depth, whether they are in
  the feature's ranges, and the lengths of the palette's lists.  `ProjectOf` is an export
  (`Manifest`, then `CreateProject`); it, `Classify`, `ReadProject` and `Restore` follow
  the code's checks one by one.
- **CropTool**: `Normalized` is `normalizedCrop`, which every change goes through, on exact
  fractions, rounded where the code rounds.  A tool (`t`) is the picture, its crop settings
  and what `CropPointerMapper` keeps: `at` is `activePointers`, `drag` and `pinch` are sets
  of at most one record.  `PointerDown`, `PointerMove` and `PointerEnd` are its handlers,
  `Controls` what panel, wheel and toolbar ask for, `ImageLoaded` and `ProjectOpened` what
  replaces the picture under the fingers.  The sizes of the resize tool keep their ratio as a
  pair.  The properties are about every tool and every request in the constants; the theorems
  about all there are.
- **AdminConsole**: `handleRoute` is a record of what it waits for (`nav`); reads of the
  Wi-Fi resource carry the reason they were sent for; `acked` and `proven` are history.  The
  settings page reads this resource alone, so that its commit and the filling of its form
  (`main.js:27-45`) are one step, `SnapshotRead`.
- **Dithering, ImagePipeline**: the arithmetic is the code's, on levels 0..`Full` and
  ratios in 1/`One`, rounded down where the code divides.  `Run` takes one step of the
  run: a stage from the cache, a stage computed, one pixel diffused, or the encoding of the
  frame.  Changes, loads, previews, draws, cancels, prepare runs and a lost worker come in
  between.  Jobs are those of `createJobOwner`: one run, and one preview waiting for its end
  (`pending`).  A change or a second preview only makes the run's version old (`cancelled`):
  its worker goes on, keeps its offset caches, and the run ends at its next check.  A draw
  or a cancel drops the run and terminates the worker (`Terminated`).
- **CalibrationClient**: one serial for the requests (`last`), the page's variables that
  outlive it (`draft`, `base`, `dirty`, `external`, `local`), and what was last rendered
  (`locked`, `editable`), for a button shows what was true then.  A load asks only a
  reachable device with a supported panel, and a second one joins the first; `reload` says
  that the page waits for it.  `GoOnline` tells the service and the gate of the page in the
  order in which they subscribed, which depends on whether the page was mounted before the
  services started (`early`).  A write that fails may have been carried out, and an answer
  that comes after an outage brings the device online before it is used.

## 3. What the runs show

| Run | Instance | States | Properties |
|---|---|---|---|
| `service` | two symmetric clients, 2 operations per boot, every image, Cool 2, ClockMod 4, a lagging loop | 1,029,614 | `ServiceInv`, `AcceptedWorkOwned`, `MarkerCoversPower`, `IdleMeansRested`, `ApprovedIsSafe`, `CompletesItsDraw`, `ProtectionSpec` |
| `drains` | one client, 1 operation, `FairSpec`, a lagging loop | 66,467 | `DrawCompletes`, `DrainEnds`, `CooldownEnds` |
| `slots` | three values, reads succeed | 3,747 | `RecordSpec`, `Acknowledged` |
| `sleep_entry` | one lease, generations 1 and 2, hardware faults | 492,790 | `SleepsQuiet`, `KeepAwakeHonoured`, `OpenIsWhole`, `WakeIsRecognised`, `EntryEnds` |
| `sleep_schedules` | the same, failing saves | 2,073,934 | `AckedSurvives`, `DueIsFresh` |
| `panel_client` | 2 runs, 1 event, 1 hold | 852,246 | `PanelInv`, `ProgressNeverFalls`, `OperationEnds` |
| `device_link` | 2 events | 239,007 | `LinkInv`, `LinkSettles` |
| `wifi_setup` | 2 saves, 2 acts, 1 event | 273,078 | `SetupInv`, `DraftKept`, `SaveEnds` |
| `editor` | 2 loads, 1 change, 1 revision | 262,012 | `EditorInv`, `ProjectsOpen`, `CropInv`, `FreshCommit`, `OperationReleased` |
| `admin` | 4 acts | 214,120 | `SettingsGuarded`, `SnapshotAdvances` |
| `image` | small pictures, 2 runs, 1 change, load and failure | 253,439 | `PipelineInv`, `ResultIsFresh`, `ErrorGoesForward` |
| `calibration` | 3 levels, 2 of each act | 575,403 | `CalibrationInv`, `DraftKept`, `SyncsAgain` |

The configuration of a run is the `.cfg` of its module's name (`EpaperService.cfg` with
`MCEpaperRest` for `service`, `EpaperDrains.cfg`, `SleepEntry.cfg`, `SleepSchedules.cfg`), its module `MC...`.

What each property says, and of which code, is in the comment above its definition.

- *Protection*: `MarkerCoversPower`, `IdleMeansRested`, `ClearAlone` (a part of `ServiceInv`), and
  together the refinement `ProtectionSpec`: whatever fails or is reset, the panel has power only under a
  durable active marker, is woken only when it owes no rest, and loses its marker only
  when it is off and rested.  The one exception is stated in both properties and takes three
  steps: a cooldown that begins ahead of the loop's time, the early clear of its marker, and
  a reset or deep sleep before the rest is over.  Without the reset admission waits all the same.
- *Drains and work*: `ApprovedIsSafe` (`RestartApproved`, `SleepApproved`) holds from the worker's approval
  to the reset or the sleep, which happen later and on another task; `AcceptedWorkOwned`,
  `CompletesItsDraw`; `ServiceInv` (metadata true, gate released, admission flag accounted
  for, marker cleared alone); `DrawCompletes`, `DrainEnds`, `CooldownEnds`.
- *Records*: `RecordSpec` (refinement of `DurableRecord`: after any crash or failure the
  next boot loads the committed value or the one being saved) and `Acknowledged`.
- *Deep sleep*: `SleepsQuiet`, `KeepAwakeHonoured`, `OpenIsWhole`, `WakeIsRecognised` and
  `EntryEnds` follow one attempt to sleep from the closing of admission to the wake or to
  the rollback, against requests that arrive at each step and operations that fail.
- *Schedules*: `AckedSurvives`, `DueIsFresh`: the agenda's end and a PUT save the same
  record from two tasks.  A planned slot is later than the last one the flash record names as
  handled.  That is not once-only drawing: a slot whose save failed is not recorded, and is
  drawn again (section 5).
- *Browser, what is shown*: `PanelInv` (only an own, accepted run is adopted, and it is
  polled), `ProgressNeverFalls`, `LinkInv` (nothing older than a noticed outage),
  `SetupInv` (no save reported that was not applied), `SettingsGuarded`, `SnapshotAdvances`,
  `CalibrationInv` (Save only over the newest colours; what is shown is stored).
- *Browser, what the user made*: `DraftKept` of `WifiSetup` and of `CalibrationClient`,
  `EditorInv` (the worker serves the job in force), `FreshCommit`, `ProjectsOpen`
  (a project that can be exported opens again, as what it was, exactly when its picture's
  declared type is that of its bytes and its Original palette is not a single colour, and
  is refused otherwise; damaged ones do not open, foreign ones are refused).
- *Browser, the crop*: `CropInv`, of four parts: `CropFits` (what is stored is a crop of
  the picture, a project holding it opens again, and its size is the one the operation
  gives), `CropSettles` (storing it again, two flips, a quarter turn lose nothing),
  `ToolKeeps` (no lifted finger keeps a drag or a pinch; whatever is asked, of whatever
  settings a project brought, gives a crop), `ResizeFits` (sizes keep the ratio up to
  the limits, and a new picture is not resampled).
- *Browser, what must end*: `OperationEnds`, `LinkSettles`, `SaveEnds`,
  `OperationReleased`, `SyncsAgain`.  `OperationEnds` states the one case in which the page
  stays covered (`NoResult`): the device is idle and has no last result, because it was reset
  or because what the page observes was a reservation that came to nothing, and no draw ends
  any more (section 5, item 6).
- *Pixels*: `ResultIsFresh` compares every result with a reference that has no cache, no
  ring of rows, no worker and no GPU; at threshold strength 0 of a pair mix, the one setting
  the GPU ignores (section 5, item 11), the result may be that of full strength; `ErrorGoesForward`; `PipelineInv` (the cache's
  accounts, nothing of an old picture in it, and a frame that shows the picture).

For every property there is a version of the model in which it fails: the definitions
marked as variants are plausible mistakes in the code (a missing read-back, a wrong
deadline, a dropped epoch check, a limit off by one), listed under `mutants` in
`PROJECT.json`.

### Bounds

Firmware:

- *Clients*: two callers give every race for admission, the gate and the metadata; a third
  would meet the same closed doors.  `Clients` is a symmetry set in `service`, which checks
  no liveness property.
- *MaxOps* bounds the operations admitted per boot, not the boots.  Two let an upload, a
  draw or a validation follow or overlap the other's late steps; `drains` has one.
- *Time*: a Tick has no fixed length; only the order of the limits matters.  `UploadDrain`
  1 < `RestartDrain` 2 stand for 30 s < 150 s; `Cool` 2 with `ClockMod` 4 lets a cooldown be
  half over when something happens and lets the clock wrap past it.  The proofs need only
  0 < Cool < ClockMod and 0 < UploadDrain < RestartDrain.
- *FirstImages*: what the first boot finds stored; later boots find what operations left.
- *MaxRequests* 1: the coordinator compares the number of leases with zero, and with one
  for the request that asks to sleep now; a second lease behaves like the first held longer.
- *MaxGen* 2, *MaxSlot* 0: one replacement of the schedule and one handled slot per schedule
  are what a late save can undo.  `sleep_entry` has every fault but `timer`, `save` and `clock`:
  with a failing save, the wake may not be recognised (section 5).  `sleep_schedules` has the saves.
- *Values*: three records tell the committed one, the one being saved and the defaults
  apart; the proofs are for every set of values.

Browser.  Every bound is on what the user, other clients or the network may do, never on
what the code does in response, so each behaviour is followed to its end:

- `PanelClient`: two runs, so that an answer of the first meets the second; one event (an
  outage, another client's reservation, the closing of admission, or a reset; what follows
  it, a restart among it, costs none) and one pending hold.  With two events and one run
  (365,088 states) the properties hold as well.
- `DeviceLink`: two events, so that an outage and a session or feature change overlap.
- `WifiSetup`: two saves (the second begins while the first's transition runs), two other
  acts of the user, one event of the device.  With a third act the user can edit, leave the
  page while the PUT is out, come back, edit and save again, and the second save meets the
  first one's late request (2,415,475 states, too many for `SaveEnds` in a run); for
  `SetupInv` and `DraftKept` the theorems cover it.
- `DitherEditor`: two loads, one change, one calibration revision: each can supersede a
  job of each kind, and a load a load.
- `ProjectFile`: 18432 workspaces on both sides of the limits 2 (source), 1 (manifest),
  5 (file), 6 (a side), 4 (the working picture's long edge), 12 and 16 (nesting, the real
  ones), 2 and 32 (palette, the real ones), of which 3072 can be exported and 1152 of them
  imported (the others are misnamed or of a single colour); every single loss,
  duplication, exchange and damage of a chunk; 22 kinds of foreign content.  It is a
  constant formula, which TLC evaluates once, like the properties of the crop tool.
- `CropTool`: pictures with sides 1, 2, 3 and 5, which round both ways at both ends; the
  tool's ratios with panels of 5:1, 3:7 and 1:2; zooms below, in and above the range, whole
  percents and not; pans inside and far outside; a ratio nobody registered; three fingers
  (two can pinch, a third comes or stays) on two places, with every drag and every pinch, and
  a crop as stored and as a project may bring it; sides at 1, around 4096 and above.
- `AdminConsole`: four acts of user or device, among them any mix of routes, logins, saves
  and other clients' changes.
- `ImagePipeline`: two initial settings, an error diffusion and an ordered mix; two runs,
  one change (among them strength 0, the other mix, another palette and each kind of
  algorithm), one load, one failure, any number of cancels, a cache of 4 entries and 15
  bytes, which a run and a half fills; pictures of a few pixels, at least as wide and high
  as the reach of the matrices' error; `Full` 15 and `One` 32.
- `CalibrationClient`: three colour levels and one text that is no channel, two each of
  edits, writes, mounts and events.

### Fairness

`Fairness` of the service assumes what the FreeRTOS configuration gives: time passes
(`Tick`), the worker is a task of its own that waits at most 10 ms for a draw, a client's
call runs to its end (an upload to its last byte, its failure or its idle timeout), and the
main loop polls a drain that it started.  Nothing is assumed about resets, new requests,
failures, or the radio being free.  `CooldownEnds` needs two more things, and `FairSpec`
has them: a pass of the 10 ms loop is shorter than a Tick (`PromptNext`), so that the loop
sees the cooldown elapsed before the 32-bit clock wraps, and a marker clear that is retried
for ever succeeds at last (strong fairness).  Without the last assumption the code rightly
retries for ever.  All liveness properties allow a reset as an outcome (`~Running`).

For the sleep coordinator: the loop comes round again (`WF(Loop)`), the deadlines of agenda
and prepare pass, and a restore that is tried again in every pass does not fail for ever.
No request is assumed to come, and none to end.  `EntryEnds` leaves out a schedule that is
switched off, for which it does not hold (section 5, item 5).

For the browser: timers fire, a request ends by its answer or its `AbortController`'s
timeout, and a deadline that is met again and again between polls is met at last (strong
fairness in `AdminConsole`, and in `PanelClient` for the status requests that are sent
again and again).  `OperationEnds` also needs the connection back and a device that
finishes what it started: an upload by its last byte or its idle timeout, a draw, and a
drain unless the panel is unavailable.  The browser has no time limit for a draw; `LinkSettles` and
`SyncsAgain` say so in their premises.  Nobody has to act.

Deadlock is checked in the firmware runs and `device_link`.  The other browser runs end
when the bounds are used up and nothing is out, which is no error.

## 4. What is proved

TLAPS proves the theorems for every set of clients, every `MaxOps` and image set, and all
limits that satisfy `ConstantsAssumption`; `SlotStore`'s for every set of values; the sleep
coordinator's for every number of requests, schedules and slots, and every `Faults`; the
panel client's for every number of runs, events and hold timers; the editor's for every
number of loads, changes and revisions; the crop tool's for every set of pictures, panel
ratios, settings asked, tools, sides and fingers; the device link's for every number of events; the administration console's for every number of acts; the network
page's for every number of saves, acts and events; the
calibration's for every palette of colours, every set of colours other clients store, and
every number of acts and events.

| Theorem | Property |
|---|---|
| `EpaperProofs!TypeCorrect` | `TypeOK` |
| `EpaperProofs!Invariance` | `Inductive` |
| `EpaperProofs!PoweredOnlyUnderMarker` | `MarkerCoversPower` |
| `EpaperProofs!AdmissionOnlyRested` | `IdleMeansRested` |
| `EpaperProofs!AcceptedWorkHasOneOwner` | `AcceptedWorkOwned` |
| `EpaperProofs!MarkerClearedAlone` | `ClearAlone` |
| `EpaperProofs!RestartOnlySafe`, `SleepOnlySafe` | `RestartApproved`, `SleepApproved`, and `ApprovedIsSafe` (`ApprovalsHold`) |
| `EpaperProofs!AdmissionFlagAccounted`, `GateNeverLeaks` | `AdmissionAccounted`, `GateReleased` |
| `EpaperProofs!ServiceWellFormed` | `ServiceInv`: the type, `MetadataTrue`, `ClearAlone` and the two above |
| `EpaperProofs!DrawKeepsItsId` | `CompletesItsDraw` |
| `EpaperProofs!ProtectsThePanel` | `ProtectionSpec` |
| `SlotStoreProofs!TypeCorrect` | `TypeOK` |
| `SlotStoreProofs!RecordsAreDurable` | `RecordSpec`, when reads succeed |
| `SlotStoreProofs!UpdatesAcknowledged`, `UnsupportedSurvives` | `Acknowledged`, `UnsupportedKept`, when reads succeed |
| `SleepProofs!Invariance`, `StaysTyped` | `Inductive`, `TypeOK` |
| `SleepProofs!QuietSleep`, `HonouredKeepAwake`, `WholeWhenOpen` | `SleepsQuiet`, `KeepAwakeHonoured`, `OpenIsWhole` |
| `SleepProofs!SurvivingAck`, `FreshDue`, `GrowingRecord` | `AckedSurvives`, `DueIsFresh`, `HandledOnlyGrows` |
| `SleepProofs!RecognisedWake` | `WakeIsRecognised`, when no save fails |
| `ClientProofs!PanelSafe` | `PanelInv`: the type, `AcceptedIsOwn` and `AcceptedIsPolled` |
| `ClientProofs!ProgressOnlyGrows` | `ProgressNeverFalls` |
| `ClientProofs!EditorSafe` | `EditorInv`: the type and `WorkerServesActive` |
| `ClientProofs!CommitsFresh` | `FreshCommit` |
| `ClientProofs!CropSafe` | `CropInv`, from the four that follow |
| `ClientProofs!CropAlwaysFits`, `CropStays` | `CropFits`, `CropSettles` |
| `ClientProofs!FingersKeep` | `ToolKeeps` |
| `ClientProofs!ResizeKeepsRatio` | `ResizeFits` |
| `DeviceLinkProofs!LinkSafe` | `LinkInv`: the type and `KnowledgeIsFresh` |
| `WifiSetupProofs!SetupSafe` | `SetupInv`: the type and `SavedWasApplied` |
| `WifiSetupProofs!DraftStays` | `DraftKept` |
| `CalibrationProofs!CalibrationSafe` | `CalibrationInv`: the type, `CleanIsBaseline`, `SaveKnowsNewest`, `ShownIsStored` |
| `CalibrationProofs!DraftSurvives` | `DraftKept` |
| `AdminConsoleProofs!ConsoleTyped` | `TypeOK` |
| `AdminConsoleProofs!SettingsSafe` | `SettingsGuarded` |
| `AdminConsoleProofs!SnapshotsAdvance` | `SnapshotAdvances` |

**The e-paper service.**  None of the safety properties is inductive.  That a powered panel
has an active marker, for instance, depends on which step of the draw the worker is at,
that nobody else clears the marker meanwhile, and that a boot recovers it only after a
power-on reset.  `Inductive` (module `EpaperInvariant`) is the conjunction of `TypeOK` and:
`DeviceKnown` (RAM is fresh while the device boots or sleeps, and what a sleep proves),
`OwnerKnown` and `BusyKnown` (each owner of accepted work has its own busy state, and each
busy state an owner), `GateKnown`, `DrainKnown` (the two drains exclude each other),
`CooldownKnown` (a running cooldown bounds the rest owed), `PanelKnown` and `DrawKnown`
(panel, flash and RAM agree at each step of a draw, or recovery is required), and
`ApprovalKnown` (an approval stays true until it is used).  `EpaperProofs` has a
lemma for each part and group of actions; `Invariance` puts them together; the safety
theorems are consequences.  The refinement proof shows, action by action, that a step of
the service is one of the steps of `PanelProtection` or leaves the panel alone, using
`Inductive` in both states.  Three properties need a part of
their own, kept beside `Inductive` because no other part depends on it.  For
`IdleMeansRested` and the refinement, `RestKnown` says what `rest` is worth: a marker is
cleared, or found missing, only for a rested panel or one whose cooldown was hasty; a hasty
cooldown is still running in this boot; and a panel that is about to be woken owes nothing
or has lost its rest.  `AdmissionOnlyRested` and `ProtectsThePanel` are about `RestSpec`,
whose steps are those of `Spec` (`RestRefines`).  For `MetadataTrue`,
`ImageKnown` says that what is published names the image in flash, except while the client
that has just committed an upload is still to publish it, and that this image is good.  For
`CompletesItsDraw`, `DrawIdKnown` says that a draw in the queue or in the worker carries the
operation id that is published.

**The stores.**  `Inv` (module `SlotStoreProofs`) says that a call runs only in a started
service, that a save's target is the slot the selector does not name, that a value is
selected only after it was found in its slot, what a store without a selector can contain,
and that a service on an unsupported record knows it.  The target part needs a selector
that is read correctly at the start of the save; this is why the last three theorems
assume `ReadFaults = {}`, and what goes wrong without it is item 3 of section 5.

**The sleep coordinator.**  `Inductive` (module `SleepInvariant`) is the conjunction of
`TypeOK` and: `GateKnown` (admission is closed only while no lease is out, and open only
with timer, pins, storage, services and panel as they were), `PutKnown` (which PUT holds
the time-update lease and the write lock), `LoopKnown` (where the loop can be for each
prepare step, and that no agenda runs then), `CommitKnown` (what is reserved, armed and
sealed on the way to deep sleep), `RecordKnown` (flash is at least as far as memory, and
equal to it or a whole generation ahead once admission closes; what `finishAgenda` saves is
at least as far as memory) and `SlotKnown`.  The properties are not inductive: that a late
agenda does not undo a PUT needs the write lock and the generation in the candidate, and
that a wake is recognised needs flash and memory to agree from the closing of admission on.
`RecordKnown` is as strong as failing saves allow; with one, flash may hold a generation
that nobody was told about, so `RecognisedWake` assumes that no save fails (section 5).
`SleepProofs` has a lemma for each action; five of them roll back through
`cancelPrepare`, whose effect is one lemma (`CancelEffect`, `CancelKeeps`).

**The panel client.**  `PanelInductive` (module `ClientProofs`) is the conjunction of
`TypeOK`, `Sound` and `AnswersTrue`.  `AcceptedIsOwn` is not inductive: an answer on its way
may say that a run was accepted, and the client believes it, so `AnswersTrue` ties the
answers in flight to the runs the device has served.  `Sound` also says that the run on the
screen is not later than the counter of runs, without which a new run could carry an old id
and start its percentage below it.  The client's functions make one record of another, so
the lemmas are about records: `Follows(k, n)` says that `n` is sound and its operation is
that of `k`, further on, or a new run (`Advances`).  It is transitive, each function of the
code has a lemma that its result follows its argument, and each action's lemma composes
them.  `PanelInv` and `ProgressNeverFalls` are consequences.

**The editor.**  `EditorInductive` (module `ClientProofs`) is `Steady` of the editor, with the
types of operation and policy.  `EditorInv` holds after each step only because of more than it
says: that a restore brings a picture that was opened and a preview is of one (`Served`), and
that an image on the screen was loaded before one that is still being read (`Loaded`), without
which a late load could take the editor back to no image with a preview of one.  `FreshCommit`
needs `Fresh`: a preview that may still be committed (its job is the current one and its run
was not superseded) is, outside the crop tool, of what the editor holds; so each handler that
changes picture, settings or calibration must have dropped the preview under way, and each
that leaves the crop tool must announce a new one.  Inside the crop tool changes do not
supersede previews, and nothing is claimed there.  There is a lemma for each function of the
mode machine, the job owner and the controller: it shows the same work in another mode
(`Shows`), the same picture with another job (`SameImage`), or a steady editor (`Keeps`);
each action's lemma composes them.

**The crop tool.**  `CropTool` has no state of its own: its theorems are about every picture,
ratio, request and set of fingers in the constants.  They rest on arithmetic:
`NearestBounds` and `NearestOf` (rounding is within a half, and the only integer there),
`RoundedFits` (corner and length, rounded apart, end within the side), `PanHeld` and
`PanGrows` (a pan held is held again, mirrored, and with more room), `ZoomStored` (a stored
zoom is a whole percent in range), and for the resize tool `SideLimit`: the side that follows
one within its limit is within 4096 without being cut.  `StoredIsCrop` is the invariant of the
settings, and `FingersOk` that of the fingers; `FingersKeep` shows both inductive from every
tool that satisfies the second, whatever settings a project brought.  That the two lowest
fingers of a set exist is by well-founded induction on their numbers (`LowestOf`).
`CropAlwaysFits` promises the output size only for ratios within 2:1, as all built-in ones are: the
largest frame of a very long ratio in a very small picture is less than half a pixel high,
is stored with height 0, and is then refused by `validPersistedSettings` while the operation
draws one row.  `CropStays` is about zooms of whole percents (section 5, item 13).

**The device link.**  `LinkInductive` (module `DeviceLinkProofs`) is `Sound` of the client,
with the types of the device and of the bound.  `KnowledgeIsFresh` is not inductive: an old
answer of the current epoch would be believed when it arrives.  So `Sound` says of every
request that is out and owned by the current epoch that it is fresh, for features and for
the sleep status (`Fresh`), beside the property's two halves (`Informed`, `Told`).  The
monitor tells its listeners one after another, and each may ask and tell others; there is a
lemma for each listener that it keeps a client sound, or (`Keeps`) that it changes neither
what is known nor the age of a request.  An outage makes everything old and disowns the
requests in one step; the lemma about it (`OutageForgets`) is where the epochs are used.

**The network page.**  `SetupInductive` (module `WifiSetupProofs`) is `Sound` of client and
device, and their types.  `SavedWasApplied` is not inductive: a save is reported from an
answer that has been on its way, and the answer of a poll does not say whose transition
ended.  So `Known` says of every save what its phase and the answer it carries prove
(`Told`): an "ok" for the newest save means that the device has applied it, and while it
polls, the transition of the device is its own or one that the device took up late, from an
older save (`Followed`); when a poll takes the result, the first becomes an applied save and
the second an applied older one (`Carried`).  Nothing is claimed of a save that is not the
newest, which is why the code's generation check is needed.  The first attempt at this
proof failed on the claim that a save reported as done has itself been applied: TLC then
found the behaviour of `SavedIsOwn` (section 5, item 8) with one more act of the user than
the run had.  Each function of the code has a lemma that it keeps the saves and the draft
(`Keeps`), or moves one save and is sound after it (`Goes`); `DraftKept` follows from the
draft's part of the same lemmas.

**The calibration.**  `CalibrationInductive` (module `CalibrationProofs`) is `Good` of the
client and the device.  `SaveKnowsNewest` rests on what was rendered last (`Shown`: an
unlocked button means an idle, reachable service), on who holds the request serial
(`Serial`), and on `Behind`: a page behind the service has marked the conflict, unless the
service is left saving.  `ShownIsStored` rests on `Knows`: what an answer on its way
carries is what the device holds, if nobody has written since.  As for the panel client,
each function of the code has a lemma on records, and each action's lemma composes them;
`DraftKept` follows from `KeepsDraft`, which every step has.

**The administration console.**  `ConsoleInductive` (module `AdminConsoleProofs`) is `Sound` of
the console, with the types of the device and of the bound.  Neither property is inductive.
A route that waits for the feature list goes on to the settings without asking the device
when the session was known as it began, so `Guarded` says that a wait of this kind, begun
from the network page, still has the token last confirmed; that only the settings page has
a logout or a save out, which end the session; and that the network page was the last
accepted address, which is where a cancelled login returns.  A snapshot advances because of
`Fresh`: at most one read counts as newest, its answer is not older than what the page has
or has reported as saved, and no revision the page knows of is ahead of the device.  Each
function of the code has a lemma that a sound console stays sound (`RotateSound`,
`LandSound`, `VerifySound`, `HandleRouteSound`, `EndSessionSound`, `LoadSound`,
`AcceptedSound`); actions that touch only forms, dialogs and timers share one (`SameStep`),
and so do those in which the device moves on (`DeviceStep`).

**Only model-checked**: the liveness properties, which are outside the prover; of the image
pipeline, `ResultIsFresh`, `ErrorGoesForward` and `PipelineInv`, which are about folds over
pictures and over the cache's entries, whose value for every input needs induction over data;
and `ProjectsOpen` (`ProjectsReadBack`), a statement about finite data, which TLC evaluates in full.

## 5. Observations

What documents state and the code does not do.  Each named property is defined next to
the others of its module; naming it in that module's `.cfg` (with the constants given)
makes TLC show the behaviour.  The properties the runs check hold in spite of these.

Firmware:

1. `SleepMarkerKnown`: `blockers()` checks that the marker is known; the worker's later
   approval looks at the marker stage in RAM, not at `recoveryRequired_`
   (`EpaperService.cpp:209`).  A draw admitted in between that can neither mark nor clear
   lets the device sleep under an active marker, which `docs/SPEC_BEHAVIOR.md:200` excludes.
   The panel itself is off: `SleepApproved` holds.
2. `SleepNotRefused`: a restart drain that timed out leaves the restart progress at Failed
   although admission reopens (`docs/SPEC_BEHAVIOR.md:180`); `requestSleep`
   (`EpaperService.cpp:137`) then refuses until the next boot, and `beginPrepare` returns
   without naming a blocker (`docs/SPEC_API_REFERENCE.md:1040`).
3. `ActiveSpared`, `ReadFaults = {"selector"}`: when the selector's namespace cannot be
   read, the configuration store takes it for missing and saves into slot A, also when A is
   the active slot.  The calibration store refuses to save in this case.
4. `CooldownComplete` (with `EpaperService.cfg` and `MCEpaperRest`): `loop()` reads `millis()`
   once (`src/src/main.cpp:949`) and polls the service with it after the HTTP and console
   polls.  When the worker finishes a draw in between, its cooldown starts after that time;
   the unsigned difference in `EpaperCooldown::elapsed` wraps, counts as elapsed, and the
   marker is cleared some milliseconds after the draw.  The service itself stays in cooldown
   (`releaseIfElapsed` looks at a fresh time), but a reset or a deep sleep within the 180 s
   boots to idle without any rest, which `docs/SPEC_BEHAVIOR.md:172` excludes.
   `IdleMeansRested` and `ProtectionSpec` hold with this behaviour as their one exception.
5. `KeepAwakeCancels`, `Faults = {}`: `beginPrepare` looks at the blockers first and at
   requests and time updates again under the lock, but not at `record_.enabled`.  A PUT that
   switches the schedule off in between lets admission close with the schedule off; `poll`
   then returns at `SleepCoordinator.cpp:822` before `pollPrepare` on every pass.  Requests
   are refused until a reset, and a keep-awake is answered with success without effect,
   which `docs/SPEC_API_REFERENCE.md:1026` excludes.

Also seen, without a property: a PUT whose save fails in the same window, with the record
written, lets the device sleep with the older generation, and the timer wake is then taken
for an ordinary boot; after a failed save in `finishAgenda` the due is not advanced, and
the agenda runs, and draws, again for the same slot until a reset, and once more after it
(`DueIsFresh` is about the slots that were recorded); a PUT between `poll`'s decision and `startAgenda` lets a slot of the new schedule
be handled before it is due; `IdleTimer::expired` and the response grace of
`SleepCoordinator::requestNow` compare with the same early time of `loop()`, so that a
keep-alive or a sleep request recorded during the pass may count as long past; a newer-schema configuration in the active slot makes `load()`
fall back to the other slot and move the selector there (`docs/SPEC_TECHNICAL.md:169` says
so, `docs/SPEC_BEHAVIOR.md:157` says recovery defaults); a calibration reset that is cut
off after the first slot lets the next boot fall back to the older profile in the other;
the worker's second open of the image may lose the gate to a generic file operation, after
which the accepted draw ends without drawing and reports no error.
`restartNow`'s check of `mayBeActive`, the stage check in `finishOperation` and the failed
queue send are never reached in the model.

Product UI (`SPEC_...` here are the files of `src/user-web-project/docs/`):

6. `SuccessIsReal`: a caller that waits for its draw is told success when a poll finds the
   device in the cooldown of another client's draw, after its own was accepted and then
   rejected (a comment on the property; no document speaks of it).  `OperationSettles`: an
   operation whose end the device does not know stays active, and covers the console, until
   another draw ends: after a reset, and when the page observed another client's draw of a
   stored picture that was then found invalid (`EpaperService.cpp:470-476`), the status is
   idle with the result `none`, for which `applyStatus` (`device-epaper.js:352-367`) has no
   case.  `OperationEnds` holds with this exception.  Also: the hold timer of
   a success resets whatever operation is current when it fires; a capability probe that
   failed is not tried again; a device that reports "unsupported" during an accepted
   operation keeps it active until the next status.
7. The result of a save of the sleep settings is taken without the epoch check that the
   other answers have (`device-sleep.js:135`); a page drawn again allows a second PUT while
   the first is out.
8. `HiddenStays` (`MaxActs = 3`, `MaxEvents = 0`): edits to a section that the chosen mode
   then hides are not sent, but become part of the baseline when the save succeeds; the
   next save sends them from there, though its mode hides them too
   (`SPEC_TECHNICAL.md:987`: what does not apply comes from the loaded baseline).
   `SavedIsOwn` (`MaxActs = 3`): a PUT that is still out when the user leaves the page and
   saves again can be taken up after the newer save began. If its transition then ends
   well, while the result of the newer one was lost in an outage, the newer save's poll is
   told "connected" and reports it as done (`wifi-controller.js:37-41`), although what it
   sent was not applied; the generation discards late answers (`SPEC_TECHNICAL.md:987`),
   not late requests. Also: the poll of an earlier save releases the suppression of a newer
   one (`wifi-controller.js:27-34`); edits made during a save become part of the baseline.
9. `PreviewSettles`: a preview that was announced may never be computed: taking hold of a
   slider drops the timer of an earlier change, and so does a calibration change outside
   EDIT (`SPEC_TECHNICAL.md:1116`, `SPEC_BEHAVIOR.md:659,666`).  Also: an image whose
   decoding ends while a later preview or export runs does not cancel it
   (`SPEC_TECHNICAL.md:1429`); leaving PREPARE by Image Input skips
   `commitPrepareChanges` (`SPEC_TECHNICAL.md:636,696`); a draw that is cancelled while it
   asks for the panel's status may end in the status `error`.
10. `MisnamedReadsBack`: the project of a picture whose declared type is not the one of its
    bytes (a JPEG named `.png`; the browser decodes it all the same) is written but can
    never be opened, against `SPEC_BEHAVIOR.md:231`; `PlainReadsBack`: so is one
    whose Original palette has a single colour, when the quantiser finds only one;
    `RoutedByContent`: a project file without the suffix `.png` is treated as an image
    although "project routing is content-first" (`SPEC_BEHAVIOR.md:234`,
    `SPEC_TECHNICAL.md:925`).
11. `CardAgrees`: with a threshold strength of zero the GPU path (`thresholdStrength || 1`,
    `threshold-dither-processor.js:132`) does not give what the processor gives
    (`SPEC_TECHNICAL.md:746`).  `ResultIsFresh` holds with this exception.
12. A calibration load begun during a save takes the save's serial, and the service stays
    "saving" (`SPEC_TECHNICAL.md:1012-1013`); mounting the page does not reset its
    dirty and external flags; the gate enables the fieldset again while colours load.

13. `PanelLeaves`: the limit of a pan is that of the zoom before it is rounded to a percent,
    so that storing the same settings again may move the picture by up to half a percent of
    its side, and until then it may uncover the frame, against the comment at
    `crop-feature.js:203`.  A pinch gives such zooms.  `NewPictureStays`: a load resets pan and
    zoom (`crop-feature.js:194`), but not the drag under way, which puts the new picture where
    the last one would be.  `HeightKept`: the resize panel that is built again derives the
    height from the width (`resize-feature.js:177`), so that a height that was typed and
    exported (`SPEC_BEHAVIOR.md:538`) may change by some pixels when the panel is rebuilt.
    Also: the settings of a project are taken as they are, with a zoom up to 20, until the
    first change.

Administration console:

14. `RescanReturns`: leaving the settings page while a scan or its cooldown runs clears the
    timer and leaves the rescan button disabled; the dialog opened again shows the old
    results and cannot scan (`docs/SPEC_FRONTEND_BEHAVIOR.md:166`).  `CleanIsCurrent`: a
    change of language between the answer to a save and the next read fills the form from
    the snapshot of before the save, as a form without changes; the next save carries the
    old values of sections that do not apply (`docs/SPEC_FRONTEND_BEHAVIOR.md:209`).  Also:
    the reset dialog's button stays disabled after an aborted request; a forced refresh
    overwrites edits made before it arrives; the token of a login is lost when the route
    changes while it is answered.

## 6. Abstractions, and what is not modelled

- The image is `good`, `bad` or missing; formats, CRC and DEFLATE are data.  An upload is a
  reservation, an open session and a commit, or its failure.
- Error texts and codes are left out except the one later code reads (`clearFailed`).
- `drain.age`, `drain.allowed`, `clear.rested`, `clear.gen` and `image.gen` return to their
  defaults when the code no longer reads them.
- `MarkActiveFails` does the failed mark and the clear that follows in one action; a reset
  between the two is its outcome in which the clear did not take effect.
- The time of a pass of `loop()` is kept only as what it says of the cooldown (`seen`);
  a cooldown that begins during the pass may be ahead of it; the retry time of a failed
  clear is compared with a current time.
- The worker's time is current when `processControl` has its lock.
- `Control` is one action: the locked section of `processControl`.  The parts that run
  after the unlock, `ClearMarker` and `RestartNow`, are actions of their own.
- Self-test builds (`epaperCooldown` in `main.cpp`, power and refresh probes) are left out.
- A store's write that corrupts a slot into another *valid* value, and a selector write that
  reports success without effect, are not modelled: NVS entries carry their own checksums.
  The selector is never out of range.
- A configuration is one opaque value.  Merging field groups, which happens under the
  service's mutex, and the validation rules are not modelled; updates that change nothing
  are stutters.  A newer schema is an initial state of the calibration only.
- Sleep: the diagnostics of the last wake, the number of Wi-Fi attempts and the error codes
  are left out; an update's assignments after its save are one step with the end of its
  lease, which keeps the loop out meanwhile.  A store in state Recovery, a deep sleep that
  returns, and a clock whose rollback fails are not explored by a run.
- Browser: texts, layout, DOM construction, validation of names and passwords, and the
  seconds of countdowns are left out.  A form's section is one value; a colour's channels
  are one value in `CalibrationClient`.
- Pixels: the code keeps Float32 values and the model whole levels, so what is checked is
  the walk, the weights, the borders and the stages, not rounding.  Adjust is brightness,
  crop is a flip, resize is nearest.  Contrast, saturation, filters, blue noise (a
  generated table), CIEDE2000 and palette extraction (rgbquant) are left out.
- Crop tool: fingers move along one line at the scale of the picture, so a pinch's distance is
  that of their places; a zoom a pinch asks for is cut to thousandths; angles are whole
  degrees; numbers are exact fractions where the code has doubles, so a value that lies
  within a double's error of a half may round the other way.  The fill colour, the transform
  that draws the picture and the preview's layout are left out.
- Project files: a feature's settings are their nesting, whether they are in range, and the
  palette's lengths; sizes are units on both sides of each limit.  The limits on the number
  of keys and on strings are not reached by what the editor can hold.
- Not modelled: runtime action scheduler, storage lifecycle and the sessions of
  `UserDataStorage`, Wi-Fi manager and scanner, authentication, HTTP response slots,
  console (the plan, section 7, has them); the image and DEFLATE decoders and drivers, whose
  behaviour is data, timing or wiring; shell, i18n and information pages, which show what
  they fetched; the automatic background of the crop tool; tools, tests, documents and
  vendored code.

## 7. Plan

Done: the e-paper service with its protection protocol, the two-slot stores, the sleep
coordinator, the browser's panel client, device link, network page, calibration, editor and
crop tool, and the administration console, each with theorems; the image pipeline and the
project files, model-checked.  Left, in this order:

1. Proofs: the accounts of the pipeline's cache, once its folds are written so that no
   induction over data is needed.
2. `SleepStore`'s two slots as a third kind of `SlotStore`, and the calendar arithmetic of
   `SleepSchedule` as operators checked against a reference.
3. `Storage`: `UserDataStorage` sessions with their counters, the general file API and the
   atomic rename, composed with `StorageLifecycle` (reset intent across boots) and
   `RuntimeActionScheduler` (resets before Wi-Fi actions, deferral, retries).  Abstract: a
   file is the old one or the new one; a reset happens exactly once.
4. `Wifi`: `WifiManager` with `WifiScanner`: connection test, commit, rollback, scan
   sessions, their timeouts; composed with `WifiSetup` in place of the mock's transition.
5. `Web`: response slots, streaming sessions, login sessions and staged console edits.
