---------------------------- MODULE EpaperService ----------------------------
(***************************************************************************)
(* The e-paper service of the firmware: one panel, one low-priority worker *)
(* task, the main loop, and the clients that call the service.  A draw     *)
(* wakes the panel only under a durable "active" marker, hands it back     *)
(* through a verified shutdown, and starts a cooldown that ends with a     *)
(* verified marker clear.  Restart and deep sleep close admission, wait    *)
(* for the accepted work and are approved by the worker.  The device may   *)
(* be reset or lose power between any two steps; what survives is the      *)
(* marker, the stored image and the panel itself.                          *)
(*                                                                         *)
(* Time is a Tick of unspecified length; the constants keep the order of   *)
(* the code's limits (30 s, 150 s, 180 s, 2^32 ms).                        *)
(*                                                                         *)
(* A definition marked "variant" is a wrong version of the one after it;   *)
(* nothing uses it, except to see which property notices (README).         *)
(***************************************************************************)
EXTENDS Naturals, FiniteSets

CONSTANTS
    Clients,        \* callers of the service: HTTP requests, the sleep agenda
    MaxOps,         \* bound: admitted operations per boot
    FirstImages,    \* bound: what the first boot may find stored
    UploadDrain,    \* kUploadDrainMs
    RestartDrain,   \* kRestartDrainMs
    Cool,           \* EpaperCooldown::kDurationMs
    ClockMod        \* millis() is a 32-bit counter

GateUsers == {"free", "worker", "restart", "sleep", "generic"}

ASSUME ConstantsAssumption ==
    /\ MaxOps \in Nat
    /\ FirstImages \subseteq {"none", "good", "bad"}
    /\ {UploadDrain, RestartDrain, Cool, ClockMod} \subseteq Nat
    /\ 0 < UploadDrain /\ UploadDrain < RestartDrain
    /\ 0 < Cool /\ Cool < ClockMod
    /\ Clients \cap GateUsers = {}

VARIABLES
    device,     \* running, booting or asleep; why it last reset
    panel,      \* the physical panel: its power and the rest it still owes
    flash,      \* protection marker and stored image
    hw,         \* RAM of safety store, driver, shutdown coordinator, CPU guard
    svc,        \* the published operation state
    drain,      \* admission, restart drain, sleep drain
    clear,      \* marker clear and EpaperCooldown
    image,      \* metadata of the stored image and its running validation
    gate,       \* who holds the operation gate of UserDataStorage
    queue,      \* the draw queue of depth one
    worker,     \* program counters: worker task,
    client,     \* clients,
    sleep       \* the prepare step of SleepCoordinator

vars == <<device, panel, flash, hw, svc, drain, clear, image, gate, queue,
          worker, client, sleep>>

States     == {"idle", "uploading", "queued", "drawing", "cooldown", "unavailable"}
BusyStates == {"uploading", "queued", "drawing"}
Stages     == {"none", "active", "confirmed"}
Images     == {"none", "good", "bad"}
Sources    == {"stored", "generated"}
\* The worker owns an accepted draw ...
DrawPcs    == {"validate", "validating", "open", "draw", "mark", "prewake", "init",
               "transfer", "refresh", "shutdown", "confirm", "finish"}
WorkerPcs  == {"none", "poll", "control", "restart", "clear", "receive"} \cup DrawPcs
\* ... a client owns the reservation of the operation state.
OwnerPcs   == {"upReserved", "upload", "upCommitted", "drawReserved", "drawValidate",
               "sendStored", "sendGenerated", "metaReserved", "metaValidate"}
ClientPcs  == {"free", "dlAdmitted", "download"} \cup OwnerPcs

DeviceType  == [sys: {"boot", "run", "asleep"},
                reset: {"power_on", "deep_sleep", "other"}, slept: 0..Cool]
PanelType   == [power: {"off", "on"}, debt: 0..Cool]
FlashType   == [marker: Stages, file: Images]
HwType      == [stage: Stages, unavailable: BOOLEAN, mayBeActive: BOOLEAN,
                coord: BOOLEAN, cpu: {80, 160}, held: BOOLEAN]
ServiceType == [ready: BOOLEAN, state: States,
                panel: {"inactive", "active", "sleeping", "unknown"},
                recovery: BOOLEAN, clearFailed: BOOLEAN,
                op: 0..MaxOps, completed: 0..MaxOps, draw: 0..MaxOps]
DrainType   == [closed: BOOLEAN, sleeping: BOOLEAN, sleepReady: BOOLEAN,
                restart: {"idle", "draining", "ready", "failed"},
                allowed: BOOLEAN, age: 0..RestartDrain]
ClearType   == [pending: BOOLEAN, running: BOOLEAN, rested: BOOLEAN,
                gen: 0..MaxOps, retry: {"none", "backoff", "due"},
                cool: {"idle", "cooling", "unavailable"}, age: 0..(ClockMod - 1),
                seen: {"none", "early", "elapsed"}]
ImageType   == [stored: Images, gen: 0..MaxOps]

(* The domains of all state.  What could be wrong: the operation counters and *)
(* generations within their bound, the drain's age, and the cooldown's age,   *)
(* a 32-bit difference of a wrapping clock.                                   *)
TypeOK ==
    /\ device \in DeviceType /\ panel \in PanelType /\ flash \in FlashType
    /\ hw \in HwType /\ svc \in ServiceType /\ drain \in DrainType
    /\ clear \in ClearType /\ image \in ImageType
    /\ gate \in GateUsers \cup Clients
    /\ queue \in Sources \cup {"empty"}
    /\ worker \in WorkerPcs
    /\ client \in [Clients -> ClientPcs]
    /\ sleep \in {"none", "checked", "draining", "reserved"}

-----------------------------------------------------------------------------
(* Boot, reset and power.  A reset gives every RAM variable its initial      *)
(* value; Boot then runs begin() before any task exists.                     *)

FreshHw    == [stage |-> "none", unavailable |-> FALSE, mayBeActive |-> FALSE,
               coord |-> FALSE, cpu |-> 160, held |-> FALSE]
FreshSvc   == [ready |-> FALSE, state |-> "unavailable", panel |-> "inactive",
               recovery |-> FALSE, clearFailed |-> FALSE,
               op |-> 0, completed |-> 0, draw |-> 0]
FreshDrain == [closed |-> FALSE, sleeping |-> FALSE, sleepReady |-> FALSE,
               restart |-> "idle", allowed |-> FALSE, age |-> 0]
FreshClear == [pending |-> FALSE, running |-> FALSE, rested |-> FALSE, gen |-> 0,
               retry |-> "none", cool |-> "idle", age |-> 0, seen |-> "none"]
FreshImage == [stored |-> "none", gen |-> 0]
Nobody     == [c \in Clients |-> "free"]

Init ==
    /\ device = [sys |-> "boot", reset |-> "power_on", slept |-> 0]
    /\ panel = [power |-> "off", debt |-> 0]
    /\ flash \in [marker: {"none"}, file: FirstImages]
    /\ hw = FreshHw /\ svc = FreshSvc /\ drain = FreshDrain /\ clear = FreshClear
    /\ image = FreshImage /\ gate = "free" /\ queue = "empty"
    /\ worker = "none" /\ client = Nobody /\ sleep = "none"

\* The device stops in state sys; what RAM held is lost.
Reset(sys, why, slept) ==
    /\ device' = [sys |-> sys, reset |-> why, slept |-> slept]
    /\ hw' = FreshHw /\ svc' = FreshSvc /\ drain' = FreshDrain /\ clear' = FreshClear
    /\ image' = FreshImage /\ gate' = "free" /\ queue' = "empty"
    /\ worker' = "none" /\ client' = Nobody /\ sleep' = "none"

\* The marker after a write of stage s: a failed call may have taken effect.
Written(s, ok) == IF ok THEN {s} ELSE {flash.marker, s}
\* The RAM stage follows only a verified result.
Stage(s, ok)   == IF ok THEN s ELSE hw.stage

SetMarker(markers) == \E m \in markers : flash' = [flash EXCEPT !.marker = m]

\* A marker left active is recovered only when the MCU and the panel lost
\* power together, which the firmware reads from a power-on reset.
Recovers == flash.marker = "active" /\ device.reset = "power_on"
Loaded   == IF Recovers THEN "none" ELSE flash.marker

\* Reset reason and sleep evidence are read once; only tasks run from here on.
Started == device' = [sys |-> "run", reset |-> "other", slept |-> 0]

\* startEpaperHardware fails: the marker cannot be read, or its recovery
\* cannot be verified.  The coordinator never starts and nothing is admitted.
BootWithoutHardware ==
    /\ device.sys = "boot"
    /\ Started
    /\ SetMarker(IF Recovers THEN Written("none", FALSE) ELSE {flash.marker})
    /\ UNCHANGED <<panel, hw, svc, drain, clear, image, gate, queue, worker, client, sleep>>

RestedByWake == device.reset = "deep_sleep"     \* variant: any deep sleep counts

\* The RTC proves a deep sleep at least as long as the cooldown.
Rested == device.reset = "deep_sleep" /\ device.slept >= Cool

\* begin() derives its state from the loaded marker, tries the marker clear of
\* a rested panel, reads the stored image and creates the worker task.
\* outcome: "early", a dependency such as userdata is missing; "late", the
\* image cannot be read or the task cannot be created; else "worker".
BootService(outcome, proven, cleared) ==
    /\ device.sys = "boot"
    /\ Started
    /\ proven => Rested
    /\ LET derived == outcome # "early"
           frees   == derived /\ Loaded = "confirmed" /\ proven /\ cleared
           derives == [FreshSvc EXCEPT
                         !.ready = (outcome = "worker"),
                         !.state = CASE Loaded = "active" -> "unavailable"
                                     [] Loaded = "confirmed" /\ ~frees -> "cooldown"
                                     [] OTHER -> "idle",
                         !.panel = CASE Loaded = "active" -> "unknown"
                                     [] Loaded = "confirmed" -> "sleeping"
                                     [] OTHER -> "inactive",
                         !.recovery = (Loaded = "active")]
       IN /\ SetMarker(IF derived /\ Loaded = "confirmed" /\ proven
                       THEN Written("none", cleared) ELSE {Loaded})
          /\ hw' = [hw EXCEPT !.coord = TRUE, !.unavailable = (Loaded = "active"),
                              !.stage = IF frees THEN "none" ELSE Loaded]
          /\ svc' = IF derived THEN derives ELSE svc
          /\ clear' = IF derived /\ Loaded = "confirmed" /\ ~frees
                      THEN [clear EXCEPT !.cool = "cooling", !.age = IF proven THEN Cool ELSE 0]
                      ELSE clear
    /\ image' = IF outcome = "worker" THEN [image EXCEPT !.stored = flash.file] ELSE image
    /\ worker' = IF outcome = "worker" THEN "poll" ELSE "none"
    /\ UNCHANGED <<panel, drain, gate, queue, client, sleep>>

Boot ==
    \/ BootWithoutHardware
    \/ \E outcome \in {"worker", "early", "late"}, proven, cleared \in BOOLEAN :
          BootService(outcome, proven, cleared)

\* Panic, watchdog, brownout or an external reset: the panel keeps its power.
Crash ==
    /\ device.sys # "boot"
    /\ Reset("boot", "other", 0)
    /\ UNCHANGED <<panel, flash>>

\* MCU and panel share the 3.3 V supply.  A draw interrupted this way owes no
\* cooldown: its marker is recovered at boot.
PowerCycle ==
    /\ Reset("boot", "power_on", 0)
    /\ panel' = [power |-> "off", debt |-> IF flash.marker = "active" THEN 0 ELSE panel.debt]
    /\ UNCHANGED flash

\* esp_deep_sleep ends by its timer.
Wake ==
    /\ device.sys = "asleep"
    /\ Reset("boot", "deep_sleep", device.slept)
    /\ UNCHANGED <<panel, flash>>

CoolElapsed == clear.cool = "cooling" /\ clear.age >= Cool

\* nowMs - startedAtMs_ in 32 bits.
NextAge(age) == (age + 1) % ClockMod

\* Time passes: millis() differences grow (the cooldown's wraps with the
\* counter), the panel rests when it is off, the marker retry comes due.
Tick ==
    /\ device.sys # "boot"
    /\ device' = IF device.sys = "asleep" /\ device.slept < Cool
                 THEN [device EXCEPT !.slept = @ + 1] ELSE device
    /\ panel' = IF panel.power = "off" /\ panel.debt > 0
                THEN [panel EXCEPT !.debt = @ - 1] ELSE panel
    /\ drain' = IF drain.restart = "draining" /\ drain.age < RestartDrain
                THEN [drain EXCEPT !.age = @ + 1] ELSE drain
    /\ clear' = [clear EXCEPT
                   !.age = IF clear.cool = "cooling" THEN NextAge(@) ELSE @,
                   !.retry = IF @ = "backoff" THEN "due" ELSE @]
    /\ UNCHANGED <<flash, hw, svc, image, gate, queue, worker, client, sleep>>

-----------------------------------------------------------------------------
(* Clients: uploads, draw requests, metadata refresh, image downloads.       *)

Running == device.sys = "run"
AdmitsQueued == Running /\ svc.ready /\ ~drain.closed   \* variant: a queued draw
                /\ svc.state \in {"idle", "queued"}     \* may be replaced
Admits  == Running /\ svc.ready /\ ~drain.closed /\ svc.state = "idle"

ClientFrame == UNCHANGED <<device, panel, hw, drain, clear, worker, sleep>>

StepTo(c, from, to) ==
    /\ Running
    /\ client[c] = from
    /\ client' = [client EXCEPT ![c] = to]
    /\ ClientFrame

\* The reservation every operation starts with.
Reserve(state) ==
    /\ Admits
    /\ svc.op < MaxOps
    /\ svc' = [svc EXCEPT !.op = @ + 1, !.state = state]

BeginUpload(c) ==
    /\ StepTo(c, "free", "upReserved")
    /\ Reserve("uploading")
    /\ UNCHANGED <<flash, image, gate, queue>>

\* setIdleAfterUploadFailure
UploadFailed ==
    svc' = [svc EXCEPT !.state = IF @ = "uploading" THEN "idle" ELSE @,
                       !.clearFailed = FALSE]

\* storage_->beginUpload takes the gate; it fails when the gate is held, on a
\* filesystem error, or when the decoder cannot be allocated.
OpenUpload(c) ==
    /\ StepTo(c, "upReserved", "upload")
    /\ gate = "free" /\ gate' = c
    /\ UNCHANGED <<flash, svc, image, queue>>

OpenUploadFails(c) ==
    /\ StepTo(c, "upReserved", "free")
    /\ UploadFailed
    /\ UNCHANGED <<flash, image, gate, queue>>

\* A bad chunk, a storage error, an invalid end of stream, a disconnect or the
\* router's idle timeout: the temporary file is dropped, the image is kept.
EndUpload(c) ==
    /\ StepTo(c, "upload", "free")
    /\ gate' = "free"
    /\ UploadFailed
    /\ UNCHANGED <<flash, image, queue>>

\* The complete stream is valid: the storage renames the temporary file over
\* the image and releases the gate.
CommitUpload(c) ==
    /\ StepTo(c, "upload", "upCommitted")
    /\ gate' = "free"
    /\ flash' = [flash EXCEPT !.file = "good"]
    /\ UNCHANGED <<svc, image, queue>>

\* xQueueSend on the queue of depth one, under the lock.
SendToQueue(source) ==
    IF queue = "empty"
    THEN queue' = source /\ svc' = [svc EXCEPT !.state = "queued", !.draw = svc.op]
    ELSE svc' = [svc EXCEPT !.state = "idle"] /\ UNCHANGED queue

QueueUpload(c) ==
    /\ StepTo(c, "upCommitted", "free")
    /\ image' = [image EXCEPT !.stored = "good"]
    /\ SendToQueue("stored")
    /\ UNCHANGED <<flash, gate>>

\* requestDraw: a stored draw validates the image before it is queued.
RequestDraw(c, source) ==
    /\ StepTo(c, "free", IF source = "stored" THEN "drawReserved" ELSE "sendGenerated")
    /\ Reserve("queued")
    /\ UNCHANGED <<flash, image, gate, queue>>

RefreshMetadata(c) ==
    /\ StepTo(c, "free", "metaReserved")
    /\ Reserve("queued")
    /\ UNCHANGED <<flash, image, gate, queue>>

\* validateStoredImage, first half: the generation is read, then the reader
\* takes the gate.  A missing file clears the metadata of this generation.
OpenImage(user) ==
    /\ gate = "free" /\ flash.file # "none"
    /\ gate' = user /\ image' = [image EXCEPT !.gen = svc.op]

OpenImageFailsForgets ==        \* variant: every failure clears the metadata
    image' = [image EXCEPT !.stored = "none"] /\ UNCHANGED gate

OpenImageFails ==
    /\ \/ UNCHANGED image                              \* gate held, I/O error
       \/ gate = "free" /\ flash.file = "none" /\ image' = [image EXCEPT !.stored = "none"]
    /\ UNCHANGED gate

\* Second half: publish the candidate if its generation is still current, then
\* release the gate.  An I/O error publishes nothing.
Published(valid) == image.gen = svc.op /\ flash.file = (IF valid THEN "good" ELSE "bad")

CloseImage(valid) ==
    /\ valid => Published(TRUE)
    /\ \E result \in (IF valid THEN {"good"}
                      ELSE {image.stored} \cup {f \in {"bad"} : Published(FALSE)}) :
          image' = [stored |-> result, gen |-> 0]
    /\ gate' = "free"

ValidatorPcs == [drawReserved |-> "drawValidate", metaReserved |-> "metaValidate"]

OpenForClient(c, from) ==
    /\ StepTo(c, from, ValidatorPcs[from])
    /\ OpenImage(c)
    /\ UNCHANGED <<flash, svc, queue>>

\* The reservation ends: a draw whose image is not valid, and every metadata
\* refresh, return the service to idle.
BackToIdle == svc' = [svc EXCEPT !.state = "idle"]

OpenForClientFails(c, from) ==
    /\ StepTo(c, from, "free")
    /\ OpenImageFails
    /\ BackToIdle
    /\ UNCHANGED <<flash, queue>>

FinishDrawValidation(c, valid) ==
    /\ StepTo(c, "drawValidate", IF valid THEN "sendStored" ELSE "free")
    /\ CloseImage(valid)
    /\ IF valid THEN UNCHANGED svc ELSE BackToIdle
    /\ UNCHANGED <<flash, queue>>

FinishRefreshMetadata(c) ==
    /\ StepTo(c, "metaValidate", "free")
    /\ \E valid \in BOOLEAN : CloseImage(valid)
    /\ BackToIdle
    /\ UNCHANGED <<flash, queue>>

SendPcs == [stored |-> "sendStored", generated |-> "sendGenerated"]

SendDraw(c, source) ==
    /\ StepTo(c, SendPcs[source], "free")
    /\ SendToQueue(source)
    /\ UNCHANGED <<flash, image, gate>>

\* A download checks admission only, then opens the image.
BeginDownload(c) ==
    /\ StepTo(c, "free", "dlAdmitted")
    /\ ~drain.closed
    /\ UNCHANGED <<flash, svc, image, gate, queue>>

OpenDownload(c) ==
    /\ StepTo(c, "dlAdmitted", "download")
    /\ gate = "free" /\ flash.file = "good"
    /\ gate' = c
    /\ UNCHANGED <<flash, svc, image, queue>>

\* Refused, or served to the end, failed or disconnected.
EndDownload(c) ==
    /\ \/ StepTo(c, "dlAdmitted", "free") /\ UNCHANGED gate
       \/ StepTo(c, "download", "free") /\ gate' = "free"
    /\ UNCHANGED <<flash, svc, image, queue>>

\* Any other file operation that holds the storage gate.
GenericFileOperation ==
    /\ Running
    /\ \/ gate = "free" /\ gate' = "generic"
       \/ gate = "generic" /\ gate' = "free"
    /\ ClientFrame
    /\ UNCHANGED <<flash, svc, image, queue, client>>

ClientStep(c) ==
    \/ BeginUpload(c) \/ OpenUpload(c) \/ OpenUploadFails(c)
    \/ EndUpload(c) \/ CommitUpload(c) \/ QueueUpload(c)
    \/ \E source \in Sources : RequestDraw(c, source) \/ SendDraw(c, source)
    \/ RefreshMetadata(c)
    \/ \E from \in {"drawReserved", "metaReserved"} :
          OpenForClient(c, from) \/ OpenForClientFails(c, from)
    \/ \E valid \in BOOLEAN : FinishDrawValidation(c, valid)
    \/ FinishRefreshMetadata(c)
    \/ BeginDownload(c) \/ OpenDownload(c) \/ EndDownload(c)

-----------------------------------------------------------------------------
(* The main loop: cooldown poll, restart requests, sleep preparation.        *)

MainFrame == UNCHANGED <<device, panel, flash, hw, svc, image, queue, client>>

\* The loop is inside one call: between the sleep blockers and requestSleep,
\* or running processControl itself because no worker exists.
MainFree == Running /\ sleep # "checked" /\ (svc.ready \/ worker = "none")

\* loop() reads millis() once, at the start of its pass, and passes it to every
\* poll of that pass.
StartPass ==
    /\ MainFree /\ svc.ready
    /\ clear.seen = "none"
    /\ clear' = [clear EXCEPT !.seen = IF CoolElapsed THEN "elapsed" ELSE "early"]
    /\ MainFrame
    /\ UNCHANGED <<drain, gate, worker, sleep>>

\* poll(nowMs): schedule the marker clear once the cooldown has elapsed.
PollSetsWhileClearing(elapsed) ==       \* variant: a running clear is not looked at
    /\ ~drain.closed
    /\ svc.state = "cooldown" \/ (svc.state = "unavailable" /\ svc.clearFailed)
    /\ clear.cool = "cooling" /\ elapsed
    /\ clear.retry # "backoff"

PollSetsOnce(elapsed) ==                \* variant: a failed clear is not tried again
    ~drain.closed /\ svc.state = "cooldown" /\ elapsed /\ ~clear.running

PollSets(elapsed) ==
    /\ ~drain.closed
    /\ svc.state = "cooldown" \/ (svc.state = "unavailable" /\ svc.clearFailed)
    /\ clear.cool = "cooling" /\ elapsed
    /\ ~clear.running
    /\ clear.retry # "backoff"

MainPoll ==
    /\ MainFree /\ svc.ready
    /\ clear.seen # "none"
    /\ clear' = [clear EXCEPT !.pending = @ \/ PollSets(clear.seen = "elapsed"),
                              !.seen = "none"]
    /\ MainFrame
    /\ UNCHANGED <<drain, gate, worker, sleep>>

\* Accepted restart request; every other request changes nothing.
RequestRestartExtends ==        \* variant: a repeated request restarts the timer
    /\ MainFree
    /\ drain.restart # "ready" /\ ~drain.sleeping
    /\ hw.coord /\ ~svc.recovery
    /\ drain' = [drain EXCEPT !.closed = TRUE, !.restart = "draining",
                              !.allowed = FALSE, !.age = 0]
    /\ MainFrame
    /\ UNCHANGED <<clear, gate, worker, sleep>>

RequestRestart ==
    /\ MainFree
    /\ drain.restart \notin {"draining", "ready"}
    /\ ~drain.closed /\ ~drain.sleeping
    /\ hw.coord /\ ~svc.recovery
    /\ drain' = [drain EXCEPT !.closed = TRUE, !.restart = "draining",
                              !.allowed = FALSE, !.age = 0]
    /\ MainFrame
    /\ UNCHANGED <<clear, gate, worker, sleep>>

\* The drain ends; deadline and permission are read only while it lasts.
EndDrain(how) ==
    drain' = [drain EXCEPT !.restart = how, !.allowed = FALSE, !.age = 0]

\* The scheduler polls the drain it started, passing whether the radio is
\* quiet; deadlines run from the first request.  Without a worker the loop
\* itself goes on to processControl.
PollRestart(allow) ==
    /\ MainFree
    /\ drain.restart = "draining"
    /\ IF \/ drain.age >= RestartDrain
          \/ svc.state = "uploading" /\ drain.age >= UploadDrain
       THEN EndDrain("failed")
       ELSE drain' = [drain EXCEPT !.allowed = allow]
    /\ worker' = (IF svc.ready THEN worker ELSE "control")
    /\ MainFrame
    /\ UNCHANGED <<clear, gate, sleep>>

\* The part of SleepCoordinator::blockers that reads this service, its storage
\* gate and a pending restart.
CheckSleep ==
    /\ MainFree
    /\ sleep = "none"
    /\ svc.state \notin BusyStates
    /\ ~svc.recovery /\ svc.panel \notin {"unknown", "active"}
    /\ gate = "free"
    /\ drain.restart \notin {"draining", "ready"}
    /\ sleep' = "checked"
    /\ MainFrame
    /\ UNCHANGED <<drain, clear, gate, worker>>

SleepAccepted == svc.ready /\ ~drain.closed /\ drain.restart = "idle"

\* requestSleep: a scheduled marker clear that has not started is dropped.
RequestSleep ==
    /\ Running /\ sleep = "checked"
    /\ IF SleepAccepted
       THEN /\ drain' = [drain EXCEPT !.closed = TRUE, !.sleeping = TRUE,
                                      !.sleepReady = FALSE]
            /\ clear' = [clear EXCEPT !.pending = FALSE]
            /\ sleep' = "draining"
       ELSE sleep' = "none" /\ UNCHANGED <<drain, clear>>
    /\ MainFrame
    /\ UNCHANGED <<gate, worker>>

ReserveSleep ==
    /\ MainFree
    /\ sleep = "draining" /\ drain.sleepReady
    /\ gate = "free" /\ gate' = "sleep"
    /\ sleep' = "reserved"
    /\ MainFrame
    /\ UNCHANGED <<drain, clear, worker>>

\* cancelPrepare: activity, a pending restart, a timeout or a failed teardown.
\* The coordinator calls cancelSleep only once the storage is remounted.
CancelSleep ==
    /\ MainFree
    /\ sleep \in {"draining", "reserved"}
    /\ sleep' = "none"
    /\ gate' = (IF sleep = "reserved" THEN "free" ELSE gate)
    /\ drain' = [drain EXCEPT !.sleeping = FALSE, !.sleepReady = FALSE,
                              !.closed = @ /\ drain.restart # "idle"]
    /\ MainFrame
    /\ UNCHANGED <<clear, worker>>

\* The final commit: esp_deep_sleep_start does not return.
DeepSleep ==
    /\ MainFree
    /\ sleep = "reserved"
    /\ Reset("asleep", "other", 0)
    /\ UNCHANGED <<panel, flash>>

MainStep ==
    \/ StartPass \/ MainPoll
    \/ RequestRestart \/ \E allow \in BOOLEAN : PollRestart(allow)
    \/ CheckSleep \/ RequestSleep \/ ReserveSleep \/ CancelSleep \/ DeepSleep

-----------------------------------------------------------------------------
(* The worker: marker control between draws, then one queued draw at a time. *)

WorkerFrame == UNCHANGED <<device, client, sleep>>

StepWorker(from, to) ==
    /\ Running
    /\ worker = from
    /\ worker' = to
    /\ WorkerFrame

\* Where processControl returns to: the worker's queue, or the main loop.
Resume == IF svc.ready THEN "receive" ELSE "none"

WorkerPoll ==
    /\ StepWorker("poll", "control")
    /\ clear' = [clear EXCEPT !.pending = @ \/ PollSets(CoolElapsed)]
    /\ UNCHANGED <<panel, flash, hw, svc, drain, image, gate, queue>>

Busy == svc.state \in BusyStates \/ clear.running

\* What coordinator, driver and safety store say of the panel.
PanelSafe == ~hw.unavailable /\ ~hw.mayBeActive /\ hw.stage # "active"

SleepSafeAsChecked == ~clear.pending    \* variant: trusts the blockers' earlier look

SleepSafe ==
    /\ PanelSafe
    /\ svc.panel # "unknown" \/ hw.stage = "confirmed"
    /\ ~clear.pending

DrainFailsByTime ==             \* variant: only the deadline counts
    drain.restart = "draining" /\ drain.age >= RestartDrain

DrainFails ==
    /\ drain.restart = "draining"
    /\ drain.age >= RestartDrain \/ svc.recovery \/ ~PanelSafe

DrainHurt == DrainFails /\ (svc.recovery \/ ~PanelSafe)

DrainApproves ==
    /\ drain.restart = "draining" /\ ~DrainFails
    /\ drain.allowed
    /\ gate = "free"

\* A failed drain gives admission back once the panel is known to be safe.

DrainReopens ==
    /\ drain.restart = "failed" \/ DrainFails
    /\ ~(svc.recovery \/ DrainHurt) \/ clear.retry # "none"
    /\ PanelSafe

\* The pending marker clear starts.
ClearStarts ==
    /\ clear.pending /\ ~DrainApproves
    /\ ~drain.closed \/ DrainReopens

\* processControl under the lock.  It returns at once while work is accepted,
\* or with an approved sleep; otherwise it settles the drain, then the marker.
ControlReturns == Busy \/ (drain.sleeping /\ SleepSafe)

Control ==
    /\ IF ControlReturns
       THEN /\ StepWorker("control", Resume)
            /\ drain' = [drain EXCEPT !.sleepReady = @ \/ ~Busy]
            /\ UNCHANGED <<svc, clear, gate>>
       ELSE /\ StepWorker("control", CASE DrainApproves -> "restart"
                                       [] ClearStarts   -> "clear"
                                       [] OTHER         -> Resume)
            /\ drain' = [drain EXCEPT
                  !.sleepReady = @ /\ ~drain.sleeping,
                  !.closed  = @ /\ ~DrainReopens,
                  !.restart = CASE DrainFails -> "failed" [] DrainApproves -> "ready"
                                [] OTHER -> @,
                  !.allowed = @ /\ ~DrainFails /\ ~DrainApproves,
                  !.age     = IF DrainFails \/ DrainApproves THEN 0 ELSE @]
            /\ svc' = IF DrainHurt
                      THEN [svc EXCEPT !.recovery = TRUE, !.state = "unavailable",
                                       !.panel = "unknown"]
                      ELSE svc
            /\ gate' = IF DrainApproves THEN "restart" ELSE gate
            /\ clear' = IF ClearStarts
                        THEN [clear EXCEPT !.pending = FALSE, !.running = TRUE,
                                           !.rested = CoolElapsed, !.gen = svc.op]
                        ELSE [clear EXCEPT !.pending = @ /\ ~DrainApproves]
    /\ UNCHANGED <<panel, flash, hw, image, queue>>

\* restartNow, outside the lock: the approved restart resets the chip, or the
\* coordinator finds the panel unsafe after all and the restart is refused.
RestartNow ==
    /\ Running /\ worker = "restart"
    /\ IF hw.coord /\ PanelSafe
       THEN Reset("boot", "other", 0) /\ UNCHANGED <<panel, flash>>
       ELSE /\ worker' = Resume
            /\ hw' = [hw EXCEPT !.unavailable = TRUE]
            /\ drain' = [drain EXCEPT !.restart = "failed"]
            /\ svc' = [svc EXCEPT !.recovery = TRUE]
            /\ WorkerFrame
            /\ UNCHANGED <<panel, flash, clear, image, gate, queue>>

\* The marker clear, outside the lock, and the publication of its result unless
\* another operation was admitted meanwhile.
ClearMarker(ok) ==
    /\ StepWorker("clear", Resume)
    /\ SetMarker(Written("none", ok))
    /\ hw' = [hw EXCEPT !.stage = Stage("none", ok)]
    /\ LET current  == clear.gen = svc.op
           releases == current /\ ok /\ clear.rested
           fails    == current /\ ~ok
           after    == [clear EXCEPT !.running = FALSE, !.rested = FALSE, !.gen = 0]
       IN /\ clear' = CASE releases -> [after EXCEPT !.cool = "idle", !.age = 0, !.retry = "none"]
                        [] fails    -> [after EXCEPT !.retry = "backoff"]
                        [] OTHER    -> after
          /\ svc' = CASE releases -> [svc EXCEPT !.state = "idle", !.panel = "sleeping",
                                                 !.recovery = FALSE]
                      [] fails    -> [svc EXCEPT !.state = "unavailable", !.panel = "unknown",
                                                 !.recovery = TRUE, !.clearFailed = TRUE]
                      [] OTHER    -> svc
          /\ drain' = [drain EXCEPT !.closed = @ /\ ~(releases /\ drain.restart = "failed")]
    /\ UNCHANGED <<panel, image, gate, queue>>

Receive ==
    /\ StepWorker("receive", CASE queue = "empty" -> "poll" [] queue = "stored" -> "validate"
                               [] OTHER -> "draw")
    /\ queue' = "empty"
    /\ UNCHANGED <<panel, flash, hw, svc, drain, clear, image, gate>>

\* Every early return of executeDraw and runDraw before the marker.
DrawRejected(from) ==
    /\ StepWorker(from, "poll")
    /\ svc' = [svc EXCEPT !.state = "idle", !.clearFailed = FALSE, !.completed = svc.op]

\* executeDraw validates the stored image again ...
OpenForDraw ==
    /\ \/ StepWorker("validate", "validating") /\ OpenImage("worker") /\ UNCHANGED svc
       \/ DrawRejected("validate") /\ OpenImageFails
    /\ UNCHANGED <<panel, flash, hw, drain, clear, queue>>

ValidateForDraw(valid) ==
    /\ IF valid THEN StepWorker("validating", "open") /\ UNCHANGED svc
                ELSE DrawRejected("validating")
    /\ CloseImage(valid)
    /\ UNCHANGED <<panel, flash, hw, drain, clear, queue>>

\* ... and opens it a second time to stream the frame.
OpenFrame ==
    /\ \/ StepWorker("open", "draw") /\ gate = "free" /\ gate' = "worker" /\ UNCHANGED svc
       \/ DrawRejected("open") /\ UNCHANGED gate
    /\ UNCHANGED <<panel, flash, hw, drain, clear, image, queue>>

\* close() of the frame source: only a stored frame holds the gate.
CloseFrame == gate' = IF gate = "worker" THEN "free" ELSE gate

\* The orientation buffer is allocated, or the draw ends.
StartDraw ==
    /\ \/ /\ StepWorker("draw", "mark")
          /\ svc' = [svc EXCEPT !.state = "drawing", !.panel = "inactive"]
          /\ UNCHANGED gate
       \/ DrawRejected("draw") /\ CloseFrame
    /\ UNCHANGED <<panel, flash, hw, drain, clear, image, queue>>

DrawFrame == UNCHANGED <<drain, clear, image, queue>>

\* The durable marker precedes the wake.  When it cannot be verified the worker
\* clears what may have been written and the service stays unavailable.
MarkActiveUnverified ==         \* variant: no read-back
    /\ StepWorker("mark", "prewake")
    /\ SetMarker(Written("active", FALSE))
    /\ hw' = [hw EXCEPT !.stage = "active"]
    /\ DrawFrame
    /\ UNCHANGED <<panel, svc, gate>>

MarkActive ==
    /\ StepWorker("mark", "prewake")
    /\ SetMarker(Written("active", TRUE))
    /\ hw' = [hw EXCEPT !.stage = "active"]
    /\ DrawFrame
    /\ UNCHANGED <<panel, svc, gate>>

MarkActiveFailsSilently(cleared) ==     \* variant: the operation is not completed
    /\ StepWorker("mark", "poll")
    /\ CloseFrame
    /\ SetMarker(IF cleared THEN {"none"} ELSE {flash.marker, "active", "none"})
    /\ hw' = [hw EXCEPT !.stage = Stage("none", cleared)]
    /\ svc' = [svc EXCEPT !.state = "unavailable", !.panel = "inactive",
                          !.recovery = ~cleared, !.clearFailed = FALSE]
    /\ DrawFrame
    /\ UNCHANGED panel

MarkActiveFails(cleared) ==
    /\ StepWorker("mark", "poll")
    /\ CloseFrame
    /\ SetMarker(IF cleared THEN {"none"} ELSE {flash.marker, "active", "none"})
    /\ hw' = [hw EXCEPT !.stage = Stage("none", cleared)]
    /\ svc' = [svc EXCEPT !.state = "unavailable", !.panel = "inactive",
                          !.recovery = ~cleared, !.clearFailed = FALSE, !.completed = svc.op]
    /\ DrawFrame
    /\ UNCHANGED panel

\* Driver begin and the 80 MHz frequency guard.  When either fails the guard
\* puts the clock back without checking that it did.
Prewake ==
    /\ StepWorker("prewake", "init")
    /\ hw' = [hw EXCEPT !.cpu = 80, !.held = TRUE, !.mayBeActive = FALSE]
    /\ DrawFrame
    /\ UNCHANGED <<panel, flash, svc, gate>>

PrewakeFails ==
    /\ StepWorker("prewake", "shutdown")
    /\ \E mhz \in {80, 160} : hw' = [hw EXCEPT !.cpu = mhz]
    /\ CloseFrame
    /\ DrawFrame
    /\ UNCHANGED <<panel, flash, svc>>

\* initialize() fails before the Power ON command ...
InitializeFails ==
    /\ StepWorker("init", "shutdown")
    /\ CloseFrame
    /\ DrawFrame
    /\ UNCHANGED <<panel, flash, hw, svc>>

\* ... or sends it, and then waits for BUSY.
PowerOn(idle) ==
    /\ StepWorker("init", IF idle THEN "transfer" ELSE "shutdown")
    /\ panel' = [power |-> "on", debt |-> Cool]
    /\ hw' = [hw EXCEPT !.mayBeActive = TRUE]
    /\ IF idle THEN svc' = [svc EXCEPT !.panel = "active"] /\ UNCHANGED gate
               ELSE CloseFrame /\ UNCHANGED svc
    /\ DrawFrame
    /\ UNCHANGED flash

\* The frame is streamed to the panel, then the image is released.
Transfer(ok) ==
    /\ StepWorker("transfer", IF ok THEN "refresh" ELSE "shutdown")
    /\ CloseFrame
    /\ DrawFrame
    /\ UNCHANGED <<panel, flash, hw, svc>>

\* Succeeds or fails; both end in the shutdown.
Refresh ==
    /\ StepWorker("refresh", "shutdown")
    /\ DrawFrame
    /\ UNCHANGED <<panel, flash, hw, svc, gate>>

PoweringOff == svc' = [svc EXCEPT !.panel = IF hw.mayBeActive THEN "active" ELSE @]

\* finishOperation when the panel was never woken: no cooldown, marker cleared;
ShutdownUnwoken(ok) ==
    /\ StepWorker("shutdown", "finish")
    /\ ~hw.mayBeActive
    /\ SetMarker(Written("none", ok))
    /\ hw' = [hw EXCEPT !.stage = Stage("none", ok), !.unavailable = ~ok]
    /\ DrawFrame
    /\ UNCHANGED <<panel, svc, gate>>

\* when Power OFF or Deep Sleep fails: the panel may still have power;
ShutdownFailsUnnoticed ==       \* variant: the driver's result is ignored
    /\ StepWorker("shutdown", "confirm")
    /\ hw.mayBeActive
    /\ PoweringOff
    /\ \E power \in {"on", "off"} : panel' = [panel EXCEPT !.power = power]
    /\ hw' = [hw EXCEPT !.mayBeActive = FALSE]
    /\ DrawFrame
    /\ UNCHANGED <<flash, gate>>

ShutdownFails ==
    /\ StepWorker("shutdown", "finish")
    /\ hw.mayBeActive
    /\ PoweringOff
    /\ \E power \in {"on", "off"} : panel' = [panel EXCEPT !.power = power]
    /\ hw' = [hw EXCEPT !.unavailable = TRUE]
    /\ DrawFrame
    /\ UNCHANGED <<flash, gate>>

ShutdownPanel ==
    /\ StepWorker("shutdown", "confirm")
    /\ hw.mayBeActive
    /\ PoweringOff
    /\ panel' = [panel EXCEPT !.power = "off"]
    /\ hw' = [hw EXCEPT !.mayBeActive = FALSE]
    /\ DrawFrame
    /\ UNCHANGED <<flash, gate>>

\* when both succeed: the shutdown is confirmed in the marker.
ConfirmShutdown(ok) ==
    /\ StepWorker("confirm", "finish")
    /\ SetMarker(Written("confirmed", ok))
    /\ hw' = [hw EXCEPT !.stage = Stage("confirmed", ok), !.unavailable = ~ok]
    /\ DrawFrame
    /\ UNCHANGED <<panel, svc, gate>>

\* A cooldown that begins at millis() is ahead of a time the main loop read
\* before: the 32-bit difference wraps, and poll(now) takes it for elapsed.
BeginCooldown ==
    \E seen \in (IF clear.seen = "none" THEN {"none"} ELSE {"early", "elapsed"}) :
        clear' = [clear EXCEPT !.cool = "cooling", !.age = 0, !.retry = "none", !.seen = seen]

\* The guard puts the clock back and reads it, then finishDraw publishes the
\* result of the shutdown (safe) and of the clock (restored).
FinishDraw(restored) ==
    /\ StepWorker("finish", "poll")
    /\ IF hw.held
       THEN \E mhz \in (IF restored THEN {160} ELSE {80, 160}) :
               hw' = [hw EXCEPT !.held = FALSE, !.cpu = mhz]
       ELSE restored = (hw.cpu = 160) /\ UNCHANGED hw
    /\ LET safe  == ~hw.unavailable
           rests == safe /\ hw.stage = "confirmed"
       IN /\ svc' = [svc EXCEPT
                !.completed = svc.op,
                !.clearFailed = FALSE,
                !.state = IF safe /\ restored THEN (IF rests THEN "cooldown" ELSE "idle")
                                             ELSE "unavailable",
                !.panel = CASE ~safe -> "unknown" [] rests -> "sleeping" [] OTHER -> "inactive",
                !.recovery = @ \/ ~safe \/ ~restored]
          /\ CASE ~safe -> clear' = [clear EXCEPT !.cool = "unavailable"]
               [] rests -> BeginCooldown
               [] OTHER -> UNCHANGED clear
    /\ UNCHANGED <<panel, flash, drain, image, gate, queue>>

WorkerStep ==
    \/ WorkerPoll \/ Control \/ RestartNow \/ Receive
    \/ OpenForDraw \/ OpenFrame \/ StartDraw
    \/ MarkActive \/ Prewake \/ PrewakeFails \/ InitializeFails
    \/ Refresh \/ ShutdownFails \/ ShutdownPanel
    \/ \E ok \in BOOLEAN :
          \/ ClearMarker(ok) \/ ValidateForDraw(ok) \/ MarkActiveFails(ok)
          \/ PowerOn(ok) \/ Transfer(ok)
          \/ ShutdownUnwoken(ok) \/ ConfirmShutdown(ok) \/ FinishDraw(ok)

-----------------------------------------------------------------------------
Next ==
    \/ Boot \/ Crash \/ PowerCycle \/ Wake \/ Tick
    \/ \E c \in Clients : ClientStep(c)
    \/ GenericFileOperation
    \/ MainStep
    \/ WorkerStep

Spec == Init /\ [][Next]_vars

\* Scheduling.  Timers advance; the worker is a task of its own and waits at
\* most 10 ms for a draw; a client's call runs to its end, an upload or download
\* to its last byte, its failure or its idle timeout; the main loop polls the
\* drain it started.
Fairness ==
    /\ WF_vars(Tick)
    /\ WF_vars(WorkerStep)
    /\ \A c \in Clients : WF_vars(client[c] # "free" /\ ClientStep(c))
    /\ WF_vars(\E allow \in BOOLEAN : PollRestart(allow))

\* A pass of the worker's 10 ms loop is far shorter than a Tick: the loop sees the
\* cooldown elapsed before millis() wraps, and the marker clear that is tried again
\* and again succeeds at last.  Only CooldownEnds needs this.
PromptNext == Next /\ (Tick => worker \notin {"receive", "control", "clear"})

FairSpec ==
    /\ Init /\ [][PromptNext]_vars /\ Fairness
    /\ SF_vars(WorkerPoll /\ PollSets(CoolElapsed))
    /\ SF_vars(ClearMarker(TRUE) /\ clear.rested)

-----------------------------------------------------------------------------
(* What is accepted is owned by exactly one actor: the client that holds the *)
(* reservation, the queue, or the worker.                                    *)
Owners ==
    {c \in Clients : client[c] \in OwnerPcs}
    \cup {q \in {"queue"} : queue # "empty"}
    \cup {w \in {"worker"} : worker \in DrawPcs}

(* The published state is busy exactly while one actor owns accepted work:   *)
(* admission (state_ under the mutex), the queue of depth one and the worker *)
(* never disagree, so no operation is lost and no two overlap.               *)
AcceptedWorkOwned ==
    /\ \A x, y \in Owners : x = y
    /\ (svc.state \in BusyStates) <=> (Owners # {})

(* The marker clear runs outside the lock; no operation may be accepted      *)
(* meanwhile, or it would erase the marker of a draw that has started.       *)
ClearAlone == clear.running => Owners = {}

(* Whatever failed or was reset, a panel with power has a durable active     *)
(* marker: the next boot will know.                                          *)
MarkerCoversPower == panel.power = "on" => flash.marker = "active"

(* An approved restart, from the approval under the lock to the reset: the   *)
(* panel is off, its marker is not active, the clock is restored, the        *)
(* storage gate is held and no accepted work is left.                        *)
RestartApproved ==
    drain.restart = "ready" =>
        /\ panel.power = "off" /\ flash.marker # "active"
        /\ hw.coord /\ PanelSafe /\ hw.cpu = 160
        /\ gate = "restart" /\ Owners = {}

(* Sleep is committed only with the panel off, no accepted work and the      *)
(* storage reserved, although the worker approved it some polls earlier.     *)
SleepApproved ==
    sleep = "reserved" =>
        panel.power = "off" /\ PanelSafe /\ gate = "sleep" /\ Owners = {}

(* What the worker approved under the lock, a restart or a sleep, is still   *)
(* safe whenever the main loop comes to carry it out.                        *)
ApprovedIsSafe == RestartApproved /\ SleepApproved

(* Admission stays closed during every drain, and is closed only for a       *)
(* restart or a sleep that somebody asked for: the two users of one flag     *)
(* never reopen it under each other.                                         *)
AdmissionAccounted ==
    /\ drain.restart \in {"draining", "ready"} \/ drain.sleeping => drain.closed
    /\ drain.closed => drain.sleeping \/ drain.restart # "idle"
    /\ drain.sleeping <=> sleep \in {"draining", "reserved"}

(* The id the worker completes is the id of the draw it took: clients poll   *)
(* the status for it.                                                        *)
CompletesItsDraw ==
    [][(worker \in DrawPcs /\ svc.completed # svc'.completed /\ Running')
          => (svc'.completed = svc.draw)]_vars

(* The cached metadata the status reports is the image in flash whenever the *)
(* service is idle, although uploads, validations and draws publish it after *)
(* releasing the storage.                                                    *)
MetadataTrue == svc.ready /\ svc.state = "idle" => image.stored = flash.file

(* The storage gate is never left taken: whoever holds it is at a step that  *)
(* releases it.                                                              *)
GateReleased ==
    /\ \A c \in Clients :
          gate = c <=> client[c] \in {"upload", "drawValidate", "metaValidate", "download"}
    /\ gate = "worker" => worker \in DrawPcs
    /\ gate = "restart" => drain.restart = "ready"
    /\ gate = "sleep" => sleep = "reserved"

(* The state is always well formed, the metadata true, the storage gate      *)
(* released, the admission flag accounted for and the marker cleared while   *)
(* nobody draws, under every interleaving of clients, worker, main loop and  *)
(* sleep.                                                                    *)
ServiceInv == TypeOK /\ MetadataTrue /\ GateReleased /\ AdmissionAccounted /\ ClearAlone

(* Liveness under Fairness.  A queued draw is completed, whatever fails.     *)
DrawCompletes == (queue # "empty") ~> (svc.completed = svc.draw \/ ~Running)

(* A restart drain ends in the reset or in failure: repeated requests, an    *)
(* upload that stays open and a busy radio cannot hold it.                   *)
DrainEnds == (drain.restart = "draining") ~> (drain.restart # "draining")

(* A cooldown ends: one failing marker clear does not strand the panel.      *)
CooldownEnds ==
    (svc.ready /\ (svc.state = "cooldown" \/ clear.retry # "none"))
      ~> (svc.state = "idle" \/ drain.closed \/ ~Running)

-----------------------------------------------------------------------------
(* Properties the documents state and the code does not have.                *)

(* An unknown marker blocks sleep (docs/SPEC_BEHAVIOR.md:200).               *)
SleepMarkerKnown == sleep = "reserved" => flash.marker # "active"

(* A request that no blocker stops is carried out                            *)
(* (docs/SPEC_API_REFERENCE.md:1040), and a drain that timed out is          *)
(* cancelled (docs/SPEC_BEHAVIOR.md:180): open admission and no pending      *)
(* restart should let the device sleep.                                      *)
SleepNotRefused == sleep = "checked" /\ svc.ready /\ ~drain.closed => SleepAccepted

(* After a draw the full cooldown passes before                              *)
(* the next one, without exception (docs/SPEC_BEHAVIOR.md:172): a service    *)
(* that is idle has a panel that owes no rest.                               *)
CooldownComplete == svc.state = "idle" => panel.debt = 0
=============================================================================
