----------------------------- MODULE EpaperProofs -----------------------------
(***************************************************************************)
(* Every step of EpaperService preserves its types and then Inductive, for *)
(* every number of clients, every bound and every ratio of the code's time *)
(* limits.  For each actor a lemma says what its steps may do to the state *)
(* that others rely on; the parts of the invariant follow from that.       *)
(***************************************************************************)
EXTENDS EpaperInvariant, TLAPS

(* The constants that resets, deadlines and boots write are in their domains. *)
LEMMA Constants ==
    /\ 0 \in 0..MaxOps /\ 0 \in 0..Cool /\ 0 \in 0..RestartDrain
    /\ 0 \in 0..(ClockMod - 1) /\ Cool \in 0..Cool /\ Cool \in 0..(ClockMod - 1)
    /\ "free" \in GateUsers
BY ConstantsAssumption DEF GateUsers

(* The initial values of RAM, which every reset restores, are in their domains. *)
LEMMA FreshTyped ==
    /\ FreshHw \in HwType /\ FreshSvc \in ServiceType /\ FreshDrain \in DrainType
    /\ FreshClear \in ClearType /\ FreshImage \in ImageType
    /\ Nobody \in [Clients -> ClientPcs] /\ "none" \in WorkerPcs
<1>1. FreshHw \in HwType BY DEF FreshHw, HwType, Stages
<1>2. FreshSvc \in ServiceType BY Constants DEF FreshSvc, ServiceType, States
<1>3. FreshDrain \in DrainType BY Constants DEF FreshDrain, DrainType
<1>4. FreshClear \in ClearType BY Constants DEF FreshClear, ClearType
<1>5. FreshImage \in ImageType BY Constants DEF FreshImage, ImageType, Images
<1>6. Nobody \in [Clients -> ClientPcs] BY DEF Nobody, ClientPcs
<1>7. "none" \in WorkerPcs BY DEF WorkerPcs
<1> QED BY <1>1, <1>2, <1>3, <1>4, <1>5, <1>6, <1>7

(* The initial state is well typed. *)
LEMMA InitTyped == Init => TypeOK
<1> SUFFICES ASSUME Init PROVE TypeOK
    OBVIOUS
<1>1. device \in DeviceType BY Constants DEF Init, DeviceType
<1>2. panel \in PanelType BY Constants DEF Init, PanelType
<1>3. flash \in FlashType BY ConstantsAssumption DEF Init, FlashType, Stages, Images
<1> QED BY <1>1, <1>2, <1>3, FreshTyped, Constants DEF Init, TypeOK

(* A write of a marker keeps flash in its domain. *)
LEMMA MarkerTyped ==
    ASSUME flash \in FlashType, NEW markers \in SUBSET Stages, SetMarker(markers)
    PROVE  flash' \in FlashType
BY DEF SetMarker, FlashType

(* So does the choice between the old and the new marker of a failed write. *)
LEMMA WrittenTyped ==
    ASSUME flash \in FlashType, NEW s \in Stages, NEW ok \in BOOLEAN
    PROVE  Written(s, ok) \in SUBSET Stages
BY DEF Written, FlashType

(* What a boot reads back is a marker stage. *)
LEMMA LoadedTyped == TypeOK => Loaded \in Stages /\ Written("none", FALSE) \in SUBSET Stages
BY DEF TypeOK, Loaded, Written, FlashType, Stages

-----------------------------------------------------------------------------
(* Boot, reset and power.                                                    *)

(* A reset is well typed whatever stops the device. *)
LEMMA ResetTyped ==
    ASSUME TypeOK, NEW sys \in {"boot", "asleep"},
           NEW why \in {"power_on", "deep_sleep", "other"}, NEW slept \in 0..Cool,
           Reset(sys, why, slept), panel' \in PanelType, flash' \in FlashType
    PROVE  TypeOK'
<1>1. device' \in DeviceType BY DEF Reset, DeviceType
<1> QED BY <1>1, FreshTyped, Constants DEF Reset, TypeOK

LEMMA BootTyped == ASSUME TypeOK, Boot PROVE TypeOK'
<1>0. Started
    BY DEF Boot, BootWithoutHardware, BootService
<1>1. device' \in DeviceType
    BY <1>0, Constants DEF Started, DeviceType
<1>2. CASE BootWithoutHardware
    <2>1. flash' \in FlashType
        <3>1. (IF Recovers THEN Written("none", FALSE) ELSE {flash.marker}) \in SUBSET Stages
            BY LoadedTyped DEF TypeOK, FlashType
        <3> QED BY <1>2, <3>1, MarkerTyped DEF BootWithoutHardware, TypeOK
    <2> QED BY <1>1, <1>2, <2>1 DEF BootWithoutHardware, TypeOK
<1>3. ASSUME NEW outcome \in {"worker", "early", "late"},
             NEW proven \in BOOLEAN, NEW cleared \in BOOLEAN,
             BootService(outcome, proven, cleared)
      PROVE  TypeOK'
    <2> DEFINE derived == outcome # "early"
               frees   == derived /\ Loaded = "confirmed" /\ proven /\ cleared
    <2>1. flash' \in FlashType
        <3>1. (IF derived /\ Loaded = "confirmed" /\ proven
               THEN Written("none", cleared) ELSE {Loaded}) \in SUBSET Stages
            BY LoadedTyped, WrittenTyped DEF TypeOK, Stages
        <3>2. SetMarker(IF derived /\ Loaded = "confirmed" /\ proven
                        THEN Written("none", cleared) ELSE {Loaded})
            BY <1>3 DEF BootService
        <3> QED BY <3>1, <3>2, MarkerTyped DEF TypeOK
    <2>2. hw' \in HwType
        <3>1. hw' = [hw EXCEPT !.coord = TRUE, !.unavailable = (Loaded = "active"),
                               !.stage = IF frees THEN "none" ELSE Loaded]
            BY <1>3 DEF BootService
        <3>2. /\ (Loaded = "active") \in BOOLEAN
              /\ (IF frees THEN "none" ELSE Loaded) \in Stages
            BY LoadedTyped DEF Stages
        <3>3. ASSUME NEW u \in BOOLEAN, NEW s \in Stages
              PROVE  [hw EXCEPT !.coord = TRUE, !.unavailable = u, !.stage = s] \in HwType
            BY DEF TypeOK, HwType
        <3> QED BY <3>1, <3>2, <3>3
    <2>3. svc' \in ServiceType
        <3>1. \/ svc' = svc
              \/ svc' = [FreshSvc EXCEPT
                           !.ready = (outcome = "worker"),
                           !.state = CASE Loaded = "active" -> "unavailable"
                                       [] Loaded = "confirmed" /\ ~frees -> "cooldown"
                                       [] OTHER -> "idle",
                           !.panel = CASE Loaded = "active" -> "unknown"
                                       [] Loaded = "confirmed" -> "sleeping"
                                       [] OTHER -> "inactive",
                           !.recovery = (Loaded = "active")]
            BY <1>3 DEF BootService
        <3> QED BY <3>1, FreshTyped DEF TypeOK, ServiceType, States
    <2>4. clear' \in ClearType
        <3>1. \/ clear' = clear
              \/ clear' = [clear EXCEPT !.cool = "cooling", !.age = IF proven THEN Cool ELSE 0]
            BY <1>3 DEF BootService
        <3> QED BY <3>1, Constants DEF TypeOK, ClearType
    <2>5. image' \in ImageType
        BY <1>3 DEF BootService, TypeOK, ImageType, FlashType
    <2>6. worker' \in WorkerPcs
        BY <1>3 DEF BootService, WorkerPcs
    <2> QED BY <1>1, <1>3, <2>1, <2>2, <2>3, <2>4, <2>5, <2>6 DEF BootService, TypeOK
<1> QED BY <1>2, <1>3 DEF Boot

LEMMA CrashTyped == ASSUME TypeOK, Crash PROVE TypeOK'
BY ResetTyped, Constants DEF Crash, TypeOK

LEMMA PowerCycleTyped == ASSUME TypeOK, PowerCycle PROVE TypeOK'
<1>1. panel' \in PanelType BY Constants DEF PowerCycle, TypeOK, PanelType
<1> QED BY <1>1, ResetTyped, Constants DEF PowerCycle, TypeOK

LEMMA WakeTyped == ASSUME TypeOK, Wake PROVE TypeOK'
<1>1. device.slept \in 0..Cool BY DEF TypeOK, DeviceType
<1> QED BY <1>1, ResetTyped DEF Wake, TypeOK

LEMMA TickTyped == ASSUME TypeOK, Tick PROVE TypeOK'
<1>1. device' \in DeviceType BY ConstantsAssumption DEF TypeOK, Tick, DeviceType
<1>2. panel' \in PanelType BY ConstantsAssumption DEF TypeOK, Tick, PanelType
<1>3. drain' \in DrainType BY ConstantsAssumption DEF TypeOK, Tick, DrainType
<1>4. clear' \in ClearType
    <2>1. NextAge(clear.age) \in 0..(ClockMod - 1)
        BY ConstantsAssumption DEF TypeOK, ClearType, NextAge
    <2> QED BY <2>1 DEF TypeOK, Tick, ClearType
<1> QED BY <1>1, <1>2, <1>3, <1>4 DEF TypeOK, Tick

-----------------------------------------------------------------------------
(* Clients.                                                                  *)

(* A client's step keeps its frame and its program counter in their domains; *)
(* what is left of TypeOK is what the operation itself writes.               *)
LEMMA StepToTyped ==
    ASSUME TypeOK, NEW c \in Clients, NEW from, NEW to \in ClientPcs, StepTo(c, from, to),
           flash' \in FlashType, svc' \in ServiceType, image' \in ImageType,
           gate' \in GateUsers \cup Clients, queue' \in Sources \cup {"empty"}
    PROVE  TypeOK'
<1>1. client' \in [Clients -> ClientPcs] BY DEF StepTo, TypeOK
<1> QED BY <1>1 DEF StepTo, ClientFrame, TypeOK

(* A reservation counts the operation within its bound. *)
LEMMA ReserveTyped ==
    ASSUME TypeOK, NEW state \in States, Reserve(state)
    PROVE  svc' \in ServiceType
<1>1. svc.op + 1 \in 0..MaxOps
    BY ConstantsAssumption DEF Reserve, TypeOK, ServiceType
<1> QED BY <1>1 DEF Reserve, TypeOK, ServiceType

LEMMA UploadFailedTyped == ASSUME TypeOK, UploadFailed PROVE svc' \in ServiceType
BY DEF UploadFailed, TypeOK, ServiceType, States

LEMMA BackToIdleTyped == ASSUME TypeOK, BackToIdle PROVE svc' \in ServiceType
BY DEF BackToIdle, TypeOK, ServiceType, States

LEMMA SendToQueueTyped ==
    ASSUME TypeOK, NEW source \in Sources, SendToQueue(source)
    PROVE  svc' \in ServiceType /\ queue' \in Sources \cup {"empty"}
BY DEF SendToQueue, TypeOK, ServiceType, States

LEMMA OpenImageTyped ==
    ASSUME TypeOK, NEW user \in GateUsers \cup Clients, OpenImage(user)
    PROVE  image' \in ImageType /\ gate' \in GateUsers \cup Clients
BY DEF OpenImage, TypeOK, ImageType, ServiceType

LEMMA OpenImageFailsTyped ==
    ASSUME TypeOK, OpenImageFails
    PROVE  image' \in ImageType /\ gate' \in GateUsers \cup Clients
BY DEF OpenImageFails, TypeOK, ImageType, Images

LEMMA CloseImageTyped ==
    ASSUME TypeOK, NEW valid \in BOOLEAN, CloseImage(valid)
    PROVE  image' \in ImageType /\ gate' \in GateUsers \cup Clients
<1>1. PICK result \in {"good", "bad", image.stored} : image' = [stored |-> result, gen |-> 0]
    BY DEF CloseImage
<1>2. result \in Images BY DEF TypeOK, ImageType, Images
<1> QED BY <1>1, <1>2, Constants DEF CloseImage, ImageType

LEMMA ClientTyped == ASSUME TypeOK, NEW c \in Clients, ClientStep(c) PROVE TypeOK'
<1> USE DEF ClientPcs, OwnerPcs
<1>1. CASE BeginUpload(c)
    <2>1. svc' \in ServiceType BY <1>1, ReserveTyped DEF BeginUpload, States
    <2> QED BY <1>1, <2>1, StepToTyped DEF BeginUpload, TypeOK
<1>2. CASE OpenUpload(c)
    BY <1>2, StepToTyped DEF OpenUpload, TypeOK
<1>3. CASE OpenUploadFails(c)
    BY <1>3, StepToTyped, UploadFailedTyped DEF OpenUploadFails, TypeOK
<1>4. CASE EndUpload(c)
    BY <1>4, StepToTyped, UploadFailedTyped, Constants DEF EndUpload, TypeOK
<1>5. CASE CommitUpload(c)
    <2>1. flash' \in FlashType BY <1>5 DEF CommitUpload, TypeOK, FlashType, Images
    <2> QED BY <1>5, <2>1, StepToTyped, Constants DEF CommitUpload, TypeOK
<1>6. CASE QueueUpload(c)
    <2>1. image' \in ImageType BY <1>6 DEF QueueUpload, TypeOK, ImageType, Images
    <2>2. svc' \in ServiceType /\ queue' \in Sources \cup {"empty"}
        BY <1>6, SendToQueueTyped DEF QueueUpload, Sources
    <2> QED BY <1>6, <2>1, <2>2, StepToTyped DEF QueueUpload, TypeOK
<1>7. ASSUME NEW source \in Sources, RequestDraw(c, source) PROVE TypeOK'
    <2>1. svc' \in ServiceType BY <1>7, ReserveTyped DEF RequestDraw, States
    <2> QED BY <1>7, <2>1, StepToTyped DEF RequestDraw, TypeOK
<1>8. ASSUME NEW source \in Sources, SendDraw(c, source) PROVE TypeOK'
    <2>1. svc' \in ServiceType /\ queue' \in Sources \cup {"empty"}
        BY <1>8, SendToQueueTyped DEF SendDraw
    <2> QED BY <1>8, <2>1, StepToTyped DEF SendDraw, TypeOK
<1>9. CASE RefreshMetadata(c)
    <2>1. svc' \in ServiceType BY <1>9, ReserveTyped DEF RefreshMetadata, States
    <2> QED BY <1>9, <2>1, StepToTyped DEF RefreshMetadata, TypeOK
<1>10. ASSUME NEW from \in {"drawReserved", "metaReserved"}, OpenForClient(c, from)
       PROVE  TypeOK'
    <2>1. ValidatorPcs[from] \in ClientPcs BY DEF ValidatorPcs
    <2>2. image' \in ImageType /\ gate' \in GateUsers \cup Clients
        BY <1>10, OpenImageTyped DEF OpenForClient
    <2> QED BY <1>10, <2>1, <2>2, StepToTyped DEF OpenForClient, TypeOK
<1>11. ASSUME NEW from \in {"drawReserved", "metaReserved"}, OpenForClientFails(c, from)
       PROVE  TypeOK'
    BY <1>11, StepToTyped, OpenImageFailsTyped, BackToIdleTyped DEF OpenForClientFails, TypeOK
<1>12. ASSUME NEW valid \in BOOLEAN, FinishDrawValidation(c, valid) PROVE TypeOK'
    <2>1. svc' \in ServiceType
        BY <1>12, BackToIdleTyped DEF FinishDrawValidation, TypeOK
    <2>2. image' \in ImageType /\ gate' \in GateUsers \cup Clients
        BY <1>12, CloseImageTyped DEF FinishDrawValidation
    <2> QED BY <1>12, <2>1, <2>2, StepToTyped DEF FinishDrawValidation, TypeOK
<1>13. CASE FinishRefreshMetadata(c)
    BY <1>13, StepToTyped, CloseImageTyped, BackToIdleTyped DEF FinishRefreshMetadata, TypeOK
<1>14. CASE BeginDownload(c)
    BY <1>14, StepToTyped DEF BeginDownload, TypeOK
<1>15. CASE OpenDownload(c)
    BY <1>15, StepToTyped DEF OpenDownload, TypeOK
<1>16. CASE EndDownload(c)
    BY <1>16, StepToTyped, Constants DEF EndDownload, TypeOK
<1> QED BY <1>1, <1>2, <1>3, <1>4, <1>5, <1>6, <1>7, <1>8, <1>9, <1>10, <1>11, <1>12,
           <1>13, <1>14, <1>15, <1>16 DEF ClientStep

LEMMA GenericFileOperationTyped == ASSUME TypeOK, GenericFileOperation PROVE TypeOK'
BY DEF GenericFileOperation, ClientFrame, TypeOK, GateUsers

-----------------------------------------------------------------------------
(* The main loop.                                                            *)

LEMMA MainTyped == ASSUME TypeOK, MainStep PROVE TypeOK'
<1>0. CASE StartPass
    <2>1. clear' \in ClearType BY <1>0 DEF StartPass, TypeOK, ClearType
    <2> QED BY <1>0, <2>1 DEF StartPass, MainFrame, TypeOK
<1>1. CASE MainPoll
    <2>1. clear' \in ClearType
        <3>1. (clear.pending \/ PollSets(clear.seen = "elapsed")) \in BOOLEAN OBVIOUS
        <3>2. ASSUME NEW pending \in BOOLEAN
              PROVE  [clear EXCEPT !.pending = pending, !.seen = "none"] \in ClearType
            BY DEF TypeOK, ClearType
        <3> QED BY <1>1, <3>1, <3>2 DEF MainPoll
    <2> QED BY <1>1, <2>1 DEF MainPoll, MainFrame, TypeOK
<1>2. CASE RequestRestart
    <2>1. drain' \in DrainType BY <1>2, Constants DEF RequestRestart, TypeOK, DrainType
    <2> QED BY <1>2, <2>1 DEF RequestRestart, MainFrame, TypeOK
<1>3. ASSUME NEW allow \in BOOLEAN, PollRestart(allow) PROVE TypeOK'
    <2>1. \/ drain' = [drain EXCEPT !.restart = "failed", !.allowed = FALSE, !.age = 0]
          \/ drain' = [drain EXCEPT !.allowed = allow]
        BY <1>3 DEF PollRestart, EndDrain
    <2>2. drain' \in DrainType BY <2>1, Constants DEF TypeOK, DrainType
    <2>3. worker' \in WorkerPcs BY <1>3 DEF PollRestart, TypeOK, WorkerPcs
    <2> QED BY <1>3, <2>2, <2>3 DEF PollRestart, MainFrame, TypeOK
<1>4. CASE CheckSleep
    BY <1>4 DEF CheckSleep, MainFrame, TypeOK
<1>5. CASE RequestSleep
    <2>1. drain' \in DrainType BY <1>5 DEF RequestSleep, TypeOK, DrainType
    <2>2. clear' \in ClearType BY <1>5 DEF RequestSleep, TypeOK, ClearType
    <2> QED BY <1>5, <2>1, <2>2 DEF RequestSleep, MainFrame, TypeOK
<1>6. CASE ReserveSleep
    BY <1>6 DEF ReserveSleep, MainFrame, TypeOK, GateUsers
<1>7. CASE CancelSleep
    <2>1. drain' \in DrainType
        <3>1. (drain.closed /\ drain.restart # "idle") \in BOOLEAN OBVIOUS
        <3>2. ASSUME NEW closed \in BOOLEAN
              PROVE  [drain EXCEPT !.sleeping = FALSE, !.sleepReady = FALSE,
                                   !.closed = closed] \in DrainType
            BY DEF TypeOK, DrainType
        <3> QED BY <1>7, <3>1, <3>2 DEF CancelSleep
    <2> QED BY <1>7, <2>1, Constants DEF CancelSleep, MainFrame, TypeOK
<1>8. CASE DeepSleep
    BY <1>8, ResetTyped, Constants DEF DeepSleep, TypeOK
<1> QED BY <1>0, <1>1, <1>2, <1>3, <1>4, <1>5, <1>6, <1>7, <1>8 DEF MainStep

-----------------------------------------------------------------------------
(* The worker.                                                               *)

(* As for clients: what is left of TypeOK is what the step itself writes. *)
LEMMA StepWorkerTyped ==
    ASSUME TypeOK, NEW from, NEW to \in WorkerPcs, StepWorker(from, to),
           panel' \in PanelType, flash' \in FlashType, hw' \in HwType,
           svc' \in ServiceType, drain' \in DrainType, clear' \in ClearType,
           image' \in ImageType, gate' \in GateUsers \cup Clients,
           queue' \in Sources \cup {"empty"}
    PROVE  TypeOK'
BY DEF StepWorker, WorkerFrame, TypeOK

LEMMA ResumeTyped == Resume \in WorkerPcs
BY DEF Resume, WorkerPcs

LEMMA DrawFrameTyped ==
    ASSUME TypeOK, DrawFrame
    PROVE  /\ drain' \in DrainType /\ clear' \in ClearType /\ image' \in ImageType
           /\ queue' \in Sources \cup {"empty"}
BY DEF DrawFrame, TypeOK

LEMMA CloseFrameTyped == ASSUME TypeOK, CloseFrame PROVE gate' \in GateUsers \cup Clients
BY DEF CloseFrame, TypeOK, GateUsers

LEMMA ControlTyped == ASSUME TypeOK, Control PROVE TypeOK'
<1> DEFINE to == IF ControlReturns THEN Resume
                ELSE CASE DrainApproves -> "restart" [] ClearStarts -> "clear" [] OTHER -> Resume
<1>1. StepWorker("control", to) /\ to \in WorkerPcs
    BY ResumeTyped DEF Control, WorkerPcs
<1>2. CASE ControlReturns
    <2>1. drain' = [drain EXCEPT !.sleepReady = @ \/ ~Busy] BY <1>2 DEF Control
    <2>2. drain' \in DrainType BY <2>1 DEF TypeOK, DrainType
    <2> QED BY <1>1, <1>2, <2>2, StepWorkerTyped DEF Control, TypeOK
<1>3. CASE ~ControlReturns
    <2>1. drain' = [drain EXCEPT
                !.sleepReady = @ /\ ~drain.sleeping,
                !.closed  = @ /\ ~DrainReopens,
                !.restart = CASE DrainFails -> "failed" [] DrainApproves -> "ready" [] OTHER -> @,
                !.allowed = @ /\ ~DrainFails /\ ~DrainApproves,
                !.age     = IF DrainFails \/ DrainApproves THEN 0 ELSE @]
        BY <1>3 DEF Control
    <2>2. drain' \in DrainType BY <2>1, Constants DEF TypeOK, DrainType
    <2>3. svc' = IF DrainHurt
                 THEN [svc EXCEPT !.recovery = TRUE, !.state = "unavailable", !.panel = "unknown"]
                 ELSE svc
        BY <1>3 DEF Control
    <2>4. svc' \in ServiceType BY <2>3 DEF TypeOK, ServiceType, States
    <2>5. clear' = IF ClearStarts
                   THEN [clear EXCEPT !.pending = FALSE, !.running = TRUE,
                                      !.rested = CoolElapsed, !.gen = svc.op]
                   ELSE [clear EXCEPT !.pending = @ /\ ~DrainApproves]
        BY <1>3 DEF Control
    <2>6. clear' \in ClearType BY <2>5 DEF TypeOK, ClearType, ServiceType, CoolElapsed
    <2>7. gate' \in GateUsers \cup Clients BY <1>3 DEF Control, TypeOK, GateUsers
    <2> QED BY <1>1, <2>2, <2>4, <2>6, <2>7, StepWorkerTyped DEF Control, TypeOK
<1> QED BY <1>2, <1>3

LEMMA RestartNowTyped == ASSUME TypeOK, RestartNow PROVE TypeOK'
<1>1. CASE hw.coord /\ PanelSafe
    BY <1>1, ResetTyped, Constants DEF RestartNow, TypeOK
<1>2. CASE ~(hw.coord /\ PanelSafe)
    <2>1. hw' \in HwType
        <3>1. hw' = [hw EXCEPT !.unavailable = TRUE] BY <1>2 DEF RestartNow
        <3>2. [hw EXCEPT !.unavailable = TRUE] \in HwType BY DEF TypeOK, HwType
        <3> QED BY <3>1, <3>2
    <2>2. drain' \in DrainType BY <1>2 DEF RestartNow, TypeOK, DrainType
    <2>3. svc' \in ServiceType BY <1>2 DEF RestartNow, TypeOK, ServiceType
    <2> QED BY <1>2, <2>1, <2>2, <2>3, ResumeTyped DEF RestartNow, WorkerFrame, TypeOK
<1> QED BY <1>1, <1>2

LEMMA ClearMarkerTyped == ASSUME TypeOK, NEW ok \in BOOLEAN, ClearMarker(ok) PROVE TypeOK'
<1>1. flash' \in FlashType
    BY MarkerTyped, WrittenTyped DEF ClearMarker, TypeOK, Stages
<1>2. hw' \in HwType BY DEF TypeOK, ClearMarker, Stage, HwType, Stages
<1>3. svc' \in ServiceType
    <2>1. \/ svc' = svc
          \/ svc' = [svc EXCEPT !.state = "idle", !.panel = "sleeping", !.recovery = FALSE]
          \/ svc' = [svc EXCEPT !.state = "unavailable", !.panel = "unknown",
                                !.recovery = TRUE, !.clearFailed = TRUE]
        BY DEF ClearMarker
    <2> QED BY <2>1 DEF TypeOK, ServiceType, States
<1>4. drain' \in DrainType BY DEF TypeOK, ClearMarker, DrainType
<1>5. clear' \in ClearType BY Constants DEF TypeOK, ClearMarker, ClearType
<1> QED BY <1>1, <1>2, <1>3, <1>4, <1>5, ResumeTyped, StepWorkerTyped DEF ClearMarker, TypeOK

LEMMA DrawRejectedTyped ==
    ASSUME TypeOK, NEW from, DrawRejected(from),
           image' \in ImageType, gate' \in GateUsers \cup Clients,
           UNCHANGED <<panel, flash, hw, drain, clear, queue>>
    PROVE  TypeOK'
<1>1. svc' \in ServiceType BY DEF DrawRejected, TypeOK, ServiceType, States
<1> QED BY <1>1, StepWorkerTyped DEF DrawRejected, TypeOK, WorkerPcs

(* The steps of a draw before its marker. *)
LEMMA AcceptedDrawTyped ==
    ASSUME TypeOK, \/ WorkerPoll \/ Receive \/ OpenForDraw \/ OpenFrame \/ StartDraw
                   \/ \E ok \in BOOLEAN : ValidateForDraw(ok)
    PROVE  TypeOK'
<1> USE DEF WorkerPcs, DrawPcs
<1>1. CASE WorkerPoll
    <2>1. clear' \in ClearType BY <1>1 DEF WorkerPoll, TypeOK, ClearType
    <2> QED BY <1>1, <2>1, StepWorkerTyped DEF WorkerPoll, TypeOK
<1>2. CASE Receive
    BY <1>2, StepWorkerTyped DEF Receive, TypeOK
<1>3. CASE OpenForDraw
    <2>1. CASE StepWorker("validate", "validating") /\ OpenImage("worker") /\ UNCHANGED svc
        <3>1. image' \in ImageType /\ gate' \in GateUsers \cup Clients
            BY <2>1, OpenImageTyped DEF GateUsers
        <3> QED BY <1>3, <2>1, <3>1, StepWorkerTyped DEF OpenForDraw, TypeOK
    <2>2. CASE DrawRejected("validate") /\ OpenImageFails
        BY <1>3, <2>2, DrawRejectedTyped, OpenImageFailsTyped DEF OpenForDraw
    <2> QED BY <1>3, <2>1, <2>2 DEF OpenForDraw
<1>4. CASE OpenFrame
    <2>1. CASE StepWorker("open", "draw") /\ gate = "free" /\ gate' = "worker" /\ UNCHANGED svc
        BY <1>4, <2>1, StepWorkerTyped DEF OpenFrame, TypeOK, GateUsers
    <2>2. CASE DrawRejected("open") /\ UNCHANGED gate
        BY <1>4, <2>2, DrawRejectedTyped DEF OpenFrame, TypeOK
    <2> QED BY <1>4, <2>1, <2>2 DEF OpenFrame
<1>5. CASE StartDraw
    <2>1. CASE /\ StepWorker("draw", "mark")
               /\ svc' = [svc EXCEPT !.state = "drawing", !.panel = "inactive"]
               /\ UNCHANGED gate
        <3>1. svc' \in ServiceType BY <2>1 DEF TypeOK, ServiceType, States
        <3> QED BY <1>5, <2>1, <3>1, StepWorkerTyped DEF StartDraw, TypeOK
    <2>2. CASE DrawRejected("draw") /\ CloseFrame
        BY <1>5, <2>2, DrawRejectedTyped, CloseFrameTyped DEF StartDraw, TypeOK
    <2> QED BY <1>5, <2>1, <2>2 DEF StartDraw
<1>6. ASSUME NEW valid \in BOOLEAN, ValidateForDraw(valid) PROVE TypeOK'
    <2>1. image' \in ImageType /\ gate' \in GateUsers \cup Clients
        BY <1>6, CloseImageTyped DEF ValidateForDraw
    <2>2. CASE StepWorker("validating", "open") /\ UNCHANGED svc
        BY <1>6, <2>1, <2>2, StepWorkerTyped DEF ValidateForDraw, TypeOK
    <2>3. CASE DrawRejected("validating")
        BY <1>6, <2>1, <2>3, DrawRejectedTyped DEF ValidateForDraw
    <2> QED BY <1>6, <2>2, <2>3 DEF ValidateForDraw
<1> QED BY <1>1, <1>2, <1>3, <1>4, <1>5, <1>6

(* The steps of a draw from its marker to its shutdown. *)
LEMMA MarkedDrawTyped ==
    ASSUME TypeOK, \/ MarkActive \/ Prewake \/ PrewakeFails \/ InitializeFails
                   \/ Refresh \/ ShutdownFails \/ ShutdownPanel
                   \/ \E ok \in BOOLEAN : \/ MarkActiveFails(ok) \/ PowerOn(ok) \/ Transfer(ok)
                                          \/ ShutdownUnwoken(ok) \/ ConfirmShutdown(ok)
    PROVE  TypeOK'
<1> USE DEF WorkerPcs, DrawPcs
<1>1. CASE MarkActive
    <2>1. flash' \in FlashType
        BY <1>1, MarkerTyped, WrittenTyped DEF MarkActive, TypeOK, Stages
    <2>2. hw' \in HwType BY <1>1 DEF MarkActive, TypeOK, HwType, Stages
    <2> QED BY <1>1, <2>1, <2>2, DrawFrameTyped, StepWorkerTyped DEF MarkActive, TypeOK
<1>2. CASE Prewake
    <2>1. hw' \in HwType BY <1>2 DEF Prewake, TypeOK, HwType
    <2> QED BY <1>2, <2>1, DrawFrameTyped, StepWorkerTyped DEF Prewake, TypeOK
<1>3. CASE PrewakeFails
    <2>1. hw' \in HwType BY <1>3 DEF PrewakeFails, TypeOK, HwType
    <2> QED BY <1>3, <2>1, DrawFrameTyped, CloseFrameTyped, StepWorkerTyped DEF PrewakeFails, TypeOK
<1>4. CASE InitializeFails
    BY <1>4, DrawFrameTyped, CloseFrameTyped, StepWorkerTyped DEF InitializeFails, TypeOK
<1>5. CASE Refresh
    BY <1>5, DrawFrameTyped, StepWorkerTyped DEF Refresh, TypeOK
<1>6. CASE ShutdownFails \/ ShutdownPanel
    <2>1. panel' \in PanelType BY <1>6 DEF ShutdownFails, ShutdownPanel, TypeOK, PanelType
    <2>2. hw' \in HwType
        <3>1. hw' = [hw EXCEPT !.unavailable = TRUE] \/ hw' = [hw EXCEPT !.mayBeActive = FALSE]
            BY <1>6 DEF ShutdownFails, ShutdownPanel
        <3>2. /\ [hw EXCEPT !.unavailable = TRUE] \in HwType
              /\ [hw EXCEPT !.mayBeActive = FALSE] \in HwType
            BY DEF TypeOK, HwType
        <3> QED BY <3>1, <3>2
    <2>3. svc' \in ServiceType
        BY <1>6 DEF ShutdownFails, ShutdownPanel, PoweringOff, TypeOK, ServiceType
    <2> QED BY <1>6, <2>1, <2>2, <2>3, DrawFrameTyped, StepWorkerTyped
            DEF ShutdownFails, ShutdownPanel, TypeOK
<1>7. ASSUME NEW ok \in BOOLEAN, MarkActiveFails(ok) PROVE TypeOK'
    <2>1. flash' \in FlashType
        <3>1. (IF ok THEN {"none"} ELSE {flash.marker, "active", "none"}) \in SUBSET Stages
            BY DEF TypeOK, FlashType, Stages
        <3> QED BY <1>7, <3>1, MarkerTyped DEF MarkActiveFails, TypeOK
    <2>2. hw' \in HwType BY <1>7 DEF MarkActiveFails, Stage, TypeOK, HwType, Stages
    <2>3. svc' \in ServiceType BY <1>7 DEF MarkActiveFails, TypeOK, ServiceType, States
    <2> QED BY <1>7, <2>1, <2>2, <2>3, DrawFrameTyped, CloseFrameTyped, StepWorkerTyped
            DEF MarkActiveFails, TypeOK
<1>8. ASSUME NEW idle \in BOOLEAN, PowerOn(idle) PROVE TypeOK'
    <2>1. panel' \in PanelType BY <1>8, Constants DEF PowerOn, PanelType
    <2>2. hw' \in HwType BY <1>8 DEF PowerOn, TypeOK, HwType
    <2>3. svc' \in ServiceType BY <1>8 DEF PowerOn, TypeOK, ServiceType
    <2>4. gate' \in GateUsers \cup Clients BY <1>8, CloseFrameTyped DEF PowerOn, TypeOK
    <2> QED BY <1>8, <2>1, <2>2, <2>3, <2>4, DrawFrameTyped, StepWorkerTyped DEF PowerOn, TypeOK
<1>9. ASSUME NEW ok \in BOOLEAN, Transfer(ok) PROVE TypeOK'
    BY <1>9, DrawFrameTyped, CloseFrameTyped, StepWorkerTyped DEF Transfer, TypeOK
<1>10. ASSUME NEW ok \in BOOLEAN, ShutdownUnwoken(ok) PROVE TypeOK'
    <2>1. flash' \in FlashType
        BY <1>10, MarkerTyped, WrittenTyped DEF ShutdownUnwoken, TypeOK, Stages
    <2>2. hw' \in HwType BY <1>10 DEF ShutdownUnwoken, Stage, TypeOK, HwType, Stages
    <2> QED BY <1>10, <2>1, <2>2, DrawFrameTyped, StepWorkerTyped DEF ShutdownUnwoken, TypeOK
<1>11. ASSUME NEW ok \in BOOLEAN, ConfirmShutdown(ok) PROVE TypeOK'
    <2>1. flash' \in FlashType
        BY <1>11, MarkerTyped, WrittenTyped DEF ConfirmShutdown, TypeOK, Stages
    <2>2. hw' \in HwType BY <1>11 DEF ConfirmShutdown, Stage, TypeOK, HwType, Stages
    <2> QED BY <1>11, <2>1, <2>2, DrawFrameTyped, StepWorkerTyped DEF ConfirmShutdown, TypeOK
<1> QED BY <1>1, <1>2, <1>3, <1>4, <1>5, <1>6, <1>7, <1>8, <1>9, <1>10, <1>11

LEMMA FinishDrawTyped ==
    ASSUME TypeOK, NEW restored \in BOOLEAN, FinishDraw(restored) PROVE TypeOK'
<1> DEFINE safe  == ~hw.unavailable
           rests == safe /\ hw.stage = "confirmed"
<1>1. hw' \in HwType
    <2>1. \/ \E mhz \in {80, 160} : hw' = [hw EXCEPT !.held = FALSE, !.cpu = mhz]
          \/ hw' = hw
        BY DEF FinishDraw
    <2>2. ASSUME NEW mhz \in {80, 160} PROVE [hw EXCEPT !.held = FALSE, !.cpu = mhz] \in HwType
        BY DEF TypeOK, HwType
    <2> QED BY <2>1, <2>2 DEF TypeOK
<1>2. svc' \in ServiceType
    <2>1. svc' = [svc EXCEPT
                !.completed = svc.op, !.clearFailed = FALSE,
                !.state = IF safe /\ restored THEN (IF rests THEN "cooldown" ELSE "idle")
                                             ELSE "unavailable",
                !.panel = CASE ~safe -> "unknown" [] rests -> "sleeping" [] OTHER -> "inactive",
                !.recovery = @ \/ ~safe \/ ~restored]
        BY DEF FinishDraw
    <2> QED BY <2>1 DEF TypeOK, ServiceType, States
<1>3. clear' \in ClearType
    <2>1. \/ clear' = [clear EXCEPT !.cool = "unavailable"] \/ clear' = clear
          \/ \E seen \in {"none", "early", "elapsed"} :
                clear' = [clear EXCEPT !.cool = "cooling", !.age = 0, !.retry = "none",
                                       !.seen = seen]
        BY DEF FinishDraw, BeginCooldown
    <2> QED BY <2>1, Constants DEF TypeOK, ClearType
<1> QED BY <1>1, <1>2, <1>3, StepWorkerTyped DEF FinishDraw, TypeOK, WorkerPcs

-----------------------------------------------------------------------------
LEMMA NextTyped == TypeOK /\ [Next]_vars => TypeOK'
<1> SUFFICES ASSUME TypeOK, [Next]_vars PROVE TypeOK'
    OBVIOUS
<1>1. CASE Boot \/ Crash \/ PowerCycle \/ Wake \/ Tick
    BY <1>1, BootTyped, CrashTyped, PowerCycleTyped, WakeTyped, TickTyped
<1>2. CASE (\E c \in Clients : ClientStep(c)) \/ GenericFileOperation
    BY <1>2, ClientTyped, GenericFileOperationTyped
<1>3. CASE MainStep
    BY <1>3, MainTyped
<1>4. CASE WorkerStep
    BY <1>4, AcceptedDrawTyped, MarkedDrawTyped, FinishDrawTyped, ControlTyped,
       RestartNowTyped, ClearMarkerTyped DEF WorkerStep
<1>5. CASE UNCHANGED vars
    BY <1>5 DEF vars, TypeOK
<1> QED BY <1>1, <1>2, <1>3, <1>4, <1>5 DEF Next

(* Type correctness: whatever the clients, the loop and the worker do, and   *)
(* wherever a reset strikes, every variable keeps its domain.  In particular *)
(* the cooldown's age stays a 32-bit difference and the operation ids stay   *)
(* within the operations admitted.                                           *)
THEOREM TypeCorrect == Spec => []TypeOK
BY InitTyped, NextTyped, PTL DEF Spec

-----------------------------------------------------------------------------
\* Holders of the storage gate among the clients' program counters.
HoldingPcs == {"upload", "drawValidate", "metaValidate", "download"}

-----------------------------------------------------------------------------
(* Clients.                                                                  *)

\* What a client's step may do to the operation state and the queue ...
Reserves(c) ==
    /\ svc.state = "idle" /\ ~drain.closed
    /\ client[c] \notin OwnerPcs /\ client'[c] \in OwnerPcs
    /\ svc'.state = IF client'[c] \in UploadPcs THEN "uploading" ELSE "queued"
    /\ queue' = queue
Continues(c) ==
    /\ client[c] \in OwnerPcs /\ client'[c] \in OwnerPcs
    /\ client[c] \in UploadPcs <=> client'[c] \in UploadPcs
    /\ svc' = svc /\ queue' = queue
Releases(c) ==
    /\ client[c] \in OwnerPcs /\ client'[c] \notin OwnerPcs
    /\ svc'.state = "idle" /\ queue' = queue
Enqueues(c) ==
    /\ client[c] \in OwnerPcs /\ client'[c] \notin OwnerPcs
    /\ svc'.state = "queued" /\ queue' # "empty"
Downloads(c) ==
    /\ client[c] \notin OwnerPcs /\ client'[c] \notin OwnerPcs
    /\ svc' = svc /\ queue' = queue

\* ... and to the storage gate.
Takes(c)  == gate = "free" /\ gate' = c /\ client[c] \notin HoldingPcs /\ client'[c] \in HoldingPcs
Frees(c)  == gate' = "free" /\ client[c] \in HoldingPcs /\ client'[c] \notin HoldingPcs
Keeps(c)  == gate' = gate /\ (client[c] \in HoldingPcs <=> client'[c] \in HoldingPcs)

\* What no client's step touches.
ClientKeeps ==
    /\ device.sys = "run" /\ ClientFrame
    /\ flash'.marker = flash.marker
    /\ svc'.ready = svc.ready /\ svc'.recovery = svc.recovery /\ svc'.panel = svc.panel
    /\ svc'.clearFailed => svc.clearFailed

ClientEffect(c) ==
    /\ ClientKeeps
    /\ client' = [client EXCEPT ![c] = client'[c]]
    /\ Reserves(c) \/ Continues(c) \/ Releases(c) \/ Enqueues(c) \/ Downloads(c)
    /\ Takes(c) \/ Frees(c) \/ Keeps(c)

(* A step of a client moves only that client, inside its frame. *)
LEMMA StepToEffect ==
    ASSUME TypeOK, NEW c \in Clients, NEW from, NEW to, StepTo(c, from, to)
    PROVE  /\ device.sys = "run" /\ ClientFrame
           /\ client[c] = from /\ client'[c] = to
           /\ client' = [client EXCEPT ![c] = client'[c]]
BY DEF StepTo, Running, TypeOK

LEMMA ReserveEffect ==
    ASSUME TypeOK, NEW state, Reserve(state)
    PROVE  /\ svc.state = "idle" /\ ~drain.closed /\ svc'.state = state
           /\ svc'.ready = svc.ready /\ svc'.recovery = svc.recovery /\ svc'.panel = svc.panel
           /\ svc'.clearFailed = svc.clearFailed
BY DEF Reserve, Admits, TypeOK, ServiceType

LEMMA UploadFailedEffect ==
    ASSUME TypeOK, svc.state = "uploading", UploadFailed
    PROVE  /\ svc'.state = "idle" /\ ~svc'.clearFailed
           /\ svc'.ready = svc.ready /\ svc'.recovery = svc.recovery /\ svc'.panel = svc.panel
BY DEF UploadFailed, TypeOK, ServiceType

LEMMA BackToIdleEffect ==
    ASSUME TypeOK, BackToIdle
    PROVE  /\ svc'.state = "idle" /\ svc'.clearFailed = svc.clearFailed
           /\ svc'.ready = svc.ready /\ svc'.recovery = svc.recovery /\ svc'.panel = svc.panel
BY DEF BackToIdle, TypeOK, ServiceType

LEMMA SendToQueueEffect ==
    ASSUME TypeOK, queue = "empty", NEW source \in Sources, SendToQueue(source)
    PROVE  /\ svc'.state = "queued" /\ queue' # "empty" /\ svc'.clearFailed = svc.clearFailed
           /\ svc'.ready = svc.ready /\ svc'.recovery = svc.recovery /\ svc'.panel = svc.panel
BY DEF SendToQueue, TypeOK, ServiceType, Sources

LEMMA ClientHasEffect ==
    ASSUME Inductive, NEW c \in Clients, ClientStep(c)
    PROVE  ClientEffect(c)
<1> USE DEF ClientEffect, ClientKeeps, OwnerPcs, UploadPcs, HoldingPcs
<1>0. TypeOK /\ OwnerKnown BY DEF Inductive
<1>1. CASE BeginUpload(c)
    BY <1>0, <1>1, StepToEffect, ReserveEffect DEF BeginUpload, Reserves, Keeps
<1>2. CASE OpenUpload(c)
    BY <1>0, <1>2, StepToEffect DEF OpenUpload, Continues, Takes
<1>3. CASE OpenUploadFails(c)
    <2>1. svc.state = "uploading" BY <1>0, <1>3, StepToEffect DEF OpenUploadFails, OwnerKnown
    <2> QED BY <1>0, <1>3, <2>1, StepToEffect, UploadFailedEffect DEF OpenUploadFails, Releases, Keeps
<1>4. CASE EndUpload(c)
    <2>1. svc.state = "uploading" BY <1>0, <1>4, StepToEffect DEF EndUpload, OwnerKnown
    <2> QED BY <1>0, <1>4, <2>1, StepToEffect, UploadFailedEffect DEF EndUpload, Releases, Frees
<1>5. CASE CommitUpload(c)
    <2>1. flash'.marker = flash.marker BY <1>0, <1>5 DEF CommitUpload, TypeOK, FlashType
    <2> QED BY <1>0, <1>5, <2>1, StepToEffect DEF CommitUpload, Continues, Frees
<1>6. CASE QueueUpload(c)
    <2>1. queue = "empty" BY <1>0, <1>6, StepToEffect DEF QueueUpload, OwnerKnown
    <2> QED BY <1>0, <1>6, <2>1, StepToEffect, SendToQueueEffect
            DEF QueueUpload, Enqueues, Keeps, Sources
<1>7. ASSUME NEW source \in Sources, RequestDraw(c, source) PROVE ClientEffect(c)
    BY <1>0, <1>7, StepToEffect, ReserveEffect DEF RequestDraw, Reserves, Keeps, Sources
<1>8. ASSUME NEW source \in Sources, SendDraw(c, source) PROVE ClientEffect(c)
    <2>1. SendPcs[source] \in {"sendStored", "sendGenerated"} BY DEF SendPcs, Sources
    <2>2. queue = "empty" BY <1>0, <1>8, <2>1, StepToEffect DEF SendDraw, OwnerKnown
    <2> QED BY <1>0, <1>8, <2>1, <2>2, StepToEffect, SendToQueueEffect DEF SendDraw, Enqueues, Keeps
<1>9. CASE RefreshMetadata(c)
    BY <1>0, <1>9, StepToEffect, ReserveEffect DEF RefreshMetadata, Reserves, Keeps
<1>10. ASSUME NEW from \in {"drawReserved", "metaReserved"}, OpenForClient(c, from)
       PROVE  ClientEffect(c)
    <2>1. ValidatorPcs[from] \in {"drawValidate", "metaValidate"} BY DEF ValidatorPcs
    <2> QED BY <1>0, <1>10, <2>1, StepToEffect DEF OpenForClient, OpenImage, Continues, Takes
<1>11. ASSUME NEW from \in {"drawReserved", "metaReserved"}, OpenForClientFails(c, from)
       PROVE  ClientEffect(c)
    BY <1>0, <1>11, StepToEffect, BackToIdleEffect
       DEF OpenForClientFails, OpenImageFails, Releases, Keeps
<1>12. ASSUME NEW valid \in BOOLEAN, FinishDrawValidation(c, valid) PROVE ClientEffect(c)
    BY <1>0, <1>12, StepToEffect, BackToIdleEffect
       DEF FinishDrawValidation, CloseImage, Releases, Continues, Frees
<1>13. CASE FinishRefreshMetadata(c)
    BY <1>0, <1>13, StepToEffect, BackToIdleEffect
       DEF FinishRefreshMetadata, CloseImage, Releases, Frees
<1>14. CASE BeginDownload(c)
    BY <1>0, <1>14, StepToEffect DEF BeginDownload, Downloads, Keeps
<1>15. CASE OpenDownload(c)
    BY <1>0, <1>15, StepToEffect DEF OpenDownload, Downloads, Takes
<1>16. CASE EndDownload(c)
    BY <1>0, <1>16, StepToEffect DEF EndDownload, Downloads, Keeps, Frees
<1> QED BY <1>1, <1>2, <1>3, <1>4, <1>5, <1>6, <1>7, <1>8, <1>9, <1>10, <1>11, <1>12,
           <1>13, <1>14, <1>15, <1>16 DEF ClientStep

(* A step of a client either leaves the operation state alone, or it moves   *)
(* among the states in which the panel is rested; it starts an operation     *)
(* only while admission is open.                                             *)
LEMMA ClientMovesState ==
    ASSUME Inductive, NEW c \in Clients, ClientEffect(c)
    PROVE  \/ svc'.state = svc.state
           \/ /\ svc.state \in {"uploading", "queued"} \/ (svc.state = "idle" /\ ~drain.closed)
              /\ svc'.state \in {"idle", "uploading", "queued"}
<1>1. OwnerKnown BY DEF Inductive
<1>2. CASE Reserves(c) BY <1>2 DEF Reserves
<1>3. CASE Continues(c) \/ Downloads(c) BY <1>3 DEF Continues, Downloads
<1>4. CASE Releases(c) \/ Enqueues(c)
    <2>1. svc.state \in {"uploading", "queued"} BY <1>1, <1>4 DEF OwnerKnown, Releases, Enqueues
    <2> QED BY <1>4, <2>1 DEF Releases, Enqueues
<1> QED BY <1>2, <1>3, <1>4 DEF ClientEffect

LEMMA ClientKeepsOwners ==
    ASSUME Inductive, TypeOK', NEW c \in Clients, ClientEffect(c)
    PROVE  OwnerKnown' /\ BusyKnown'
<1>1. TypeOK /\ OwnerKnown /\ BusyKnown BY DEF Inductive
<1>2. worker' = worker /\ \A d \in Clients : d # c => client'[d] = client[d]
    BY <1>1 DEF ClientEffect, ClientKeeps, ClientFrame, TypeOK
<1>3. UploadPcs \subseteq OwnerPcs BY DEF UploadPcs, OwnerPcs
<1>4. CASE Reserves(c)
    <2>1. queue = "empty" /\ worker \notin DrawPcs /\ \A d \in Clients : client[d] \notin OwnerPcs
        BY <1>1, <1>4 DEF OwnerKnown, Reserves, DrawPcs, AcceptedPcs, UploadPcs
    <2>2. OwnerKnown' BY <1>2, <1>4, <2>1 DEF OwnerKnown, Reserves, AcceptedPcs, DrawPcs
    <2>3. BusyKnown' BY <1>2, <1>3, <1>4, <2>1 DEF BusyKnown, Reserves
    <2> QED BY <2>2, <2>3
<1>5. CASE Continues(c)
    <2>2. OwnerKnown' BY <1>1, <1>2, <1>3, <1>5 DEF OwnerKnown, Continues
    <2>3. BusyKnown' BY <1>1, <1>2, <1>3, <1>5 DEF BusyKnown, Continues
    <2> QED BY <2>2, <2>3
<1>6. CASE Releases(c) \/ Enqueues(c)
    <2>1. /\ queue = "empty" /\ worker \notin DrawPcs
          /\ \A d \in Clients : d # c => client[d] \notin OwnerPcs
        BY <1>1, <1>6 DEF OwnerKnown, Releases, Enqueues
    <2>2. OwnerKnown'
        BY <1>2, <1>6, <2>1 DEF OwnerKnown, Releases, Enqueues, AcceptedPcs, DrawPcs
    <2>3. BusyKnown' BY <1>6 DEF BusyKnown, Releases, Enqueues
    <2> QED BY <2>2, <2>3
<1>7. CASE Downloads(c)
    <2>2. OwnerKnown' BY <1>1, <1>2, <1>3, <1>7 DEF OwnerKnown, Downloads
    <2>3. BusyKnown' BY <1>1, <1>2, <1>3, <1>7 DEF BusyKnown, Downloads
    <2> QED BY <2>2, <2>3
<1> QED BY <1>4, <1>5, <1>6, <1>7 DEF ClientEffect

LEMMA ClientKeepsGate ==
    ASSUME Inductive, NEW c \in Clients, ClientEffect(c)
    PROVE  GateKnown' /\ (gate' # gate => gate \notin {"restart", "sleep"})
<1>1. TypeOK /\ GateKnown BY DEF Inductive
<1>2. /\ worker' = worker /\ drain' = drain /\ sleep' = sleep
      /\ \A d \in Clients : d # c => client'[d] = client[d]
    BY <1>1 DEF ClientEffect, ClientKeeps, ClientFrame, TypeOK
<1>3. \A d \in Clients : d \notin GateUsers BY ConstantsAssumption
<1> USE DEF GateKnown, HoldingPcs, GateUsers
<1>4. CASE Takes(c) BY <1>1, <1>2, <1>3, <1>4 DEF Takes, FramePcs
<1>5. CASE Frees(c) BY <1>1, <1>2, <1>3, <1>5 DEF Frees
<1>6. CASE Keeps(c) BY <1>1, <1>2, <1>3, <1>6 DEF Keeps
<1> QED BY <1>4, <1>5, <1>6 DEF ClientEffect

(* The remaining parts of the invariant speak of a client's step only through *)
(* the operation state and the gate.                                          *)
LEMMA ClientKeepsRest ==
    ASSUME Inductive, NEW c \in Clients, ClientEffect(c)
    PROVE  /\ DeviceKnown' /\ DrainKnown' /\ CooldownKnown' /\ PanelKnown' /\ DrawKnown'
           /\ ApprovalKnown'
<1>1. /\ device' = device /\ panel' = panel /\ hw' = hw /\ drain' = drain /\ clear' = clear
      /\ worker' = worker /\ sleep' = sleep /\ device.sys = "run" /\ ClientKeeps
    BY DEF ClientEffect, ClientKeeps, ClientFrame
<1>2. \/ svc'.state = svc.state
      \/ /\ svc.state \in {"uploading", "queued"} \/ (svc.state = "idle" /\ ~drain.closed)
         /\ svc'.state \in {"idle", "uploading", "queued"}
    BY ClientMovesState
<1>3. DeviceKnown' BY <1>1 DEF Inductive, DeviceKnown, Running
<1>4. DrainKnown' BY <1>1 DEF Inductive, DrainKnown, ClientKeeps
<1>5. CooldownKnown'
    BY <1>1, <1>2 DEF Inductive, CooldownKnown, ClientKeeps, PanelSafe
<1>6. PanelKnown' BY <1>1, <1>2 DEF Inductive, PanelKnown, ClientKeeps
<1>7. DrawKnown' BY <1>1 DEF Inductive, DrawKnown, ClientKeeps
<1>8. ApprovalKnown'
    <2>1. gate' # gate => gate \notin {"restart", "sleep"} BY ClientKeepsGate
    <2>2. drain.restart = "ready" => drain.closed BY DEF Inductive, DrainKnown
    <2>3. drain.sleepReady => drain.closed BY DEF Inductive, DrainKnown, ApprovalKnown
    <2> QED BY <1>1, <1>2, <2>1, <2>2, <2>3
        DEF Inductive, ApprovalKnown, ClientKeeps, PanelSafe, SleepSafe, Busy, BusyStates
<1> QED BY <1>3, <1>4, <1>5, <1>6, <1>7, <1>8

LEMMA ClientInductive == ASSUME Inductive, NEW c \in Clients, ClientStep(c) PROVE Inductive'
<1>1. TypeOK' BY ClientTyped DEF Inductive
<1> QED BY <1>1, ClientHasEffect, ClientKeepsOwners, ClientKeepsGate, ClientKeepsRest DEF Inductive

(* Any other file operation moves only the gate, between "free" and itself. *)
LEMMA GenericInductive == ASSUME Inductive, GenericFileOperation PROVE Inductive'
<1>1. TypeOK' BY GenericFileOperationTyped DEF Inductive
<1>2. /\ device' = device /\ panel' = panel /\ flash' = flash /\ hw' = hw /\ svc' = svc
      /\ drain' = drain /\ clear' = clear /\ image' = image /\ queue' = queue
      /\ worker' = worker /\ client' = client /\ sleep' = sleep
    BY DEF GenericFileOperation, ClientFrame
<1>3. gate \in {"free", "generic"} /\ gate' \in {"free", "generic"} /\ device.sys = "run"
    BY DEF GenericFileOperation, Running
<1>4. GateKnown'
    BY <1>2, <1>3, ConstantsAssumption DEF Inductive, GateKnown, GateUsers
<1>5. DeviceKnown' /\ OwnerKnown' /\ BusyKnown' /\ DrainKnown'
    BY <1>2, <1>3 DEF Inductive, DeviceKnown, Recovers, Running, OwnerKnown, BusyKnown, DrainKnown
<1>6. CooldownKnown' /\ PanelKnown' /\ DrawKnown'
    BY <1>2 DEF Inductive, CooldownKnown, PanelSafe, PanelKnown, DrawKnown
<1>7. ApprovalKnown'
    BY <1>2, <1>3 DEF Inductive, ApprovalKnown, PanelSafe, SleepSafe, Busy
<1> QED BY <1>1, <1>4, <1>5, <1>6, <1>7 DEF Inductive

-----------------------------------------------------------------------------
(* Resets, boot and time.                                                    *)

(* A reset forgets all of RAM, so only the panel, its marker and the reset   *)
(* reason remain to be known.                                                *)
LEMMA ResetInductive ==
    ASSUME NEW sys \in {"boot", "asleep"}, NEW why, NEW slept, Reset(sys, why, slept), TypeOK',
           panel'.power = "on" => flash'.marker = "active",
           sys = "boot" /\ why = "power_on" /\ flash'.marker = "active" =>
              panel'.power = "off" /\ panel'.debt = 0,
           sys = "asleep" \/ why = "deep_sleep" =>
              panel'.power = "off" /\ panel'.debt + slept <= Cool
    PROVE  Inductive'
<1>1. /\ device'.sys = sys /\ device'.reset = why /\ device'.slept = slept
      /\ hw' = FreshHw /\ svc' = FreshSvc /\ drain' = FreshDrain /\ clear' = FreshClear
      /\ image' = FreshImage /\ gate' = "free" /\ queue' = "empty"
      /\ worker' = "none" /\ client' = Nobody /\ sleep' = "none"
    BY DEF Reset
<1>2. DeviceKnown' BY <1>1 DEF DeviceKnown, Running, Recovers
<1>3. OwnerKnown' /\ BusyKnown' /\ GateKnown'
    <2>1. \A c \in Clients : client'[c] = "free" BY <1>1 DEF Nobody
    <2>2. \A c \in Clients : c # "free" BY ConstantsAssumption DEF GateUsers
    <2>3. svc'.state = "unavailable" BY <1>1 DEF FreshSvc
    <2> QED BY <1>1, <2>1, <2>2, <2>3
        DEF OwnerKnown, BusyKnown, GateKnown, OwnerPcs, UploadPcs, AcceptedPcs, DrawPcs, FramePcs
<1>4. DrainKnown' BY <1>1 DEF DrainKnown, FreshDrain, FreshSvc, FreshHw
<1>5. CooldownKnown' BY <1>1 DEF CooldownKnown, FreshClear, FreshSvc
<1>6. PanelKnown' BY <1>1 DEF PanelKnown, FreshHw, FreshSvc
<1>7. DrawKnown' BY <1>1 DEF DrawKnown
<1>8. ApprovalKnown' BY <1>1 DEF ApprovalKnown, FreshDrain
<1> QED BY <1>2, <1>3, <1>4, <1>5, <1>6, <1>7, <1>8 DEF Inductive

LEMMA CrashInductive == ASSUME Inductive, Crash PROVE Inductive'
<1>1. TypeOK' BY CrashTyped DEF Inductive
<1>2. Reset("boot", "other", 0) /\ panel' = panel /\ flash' = flash BY DEF Crash
<1> QED BY <1>1, <1>2, ResetInductive DEF Inductive, PanelKnown

LEMMA PowerCycleInductive == ASSUME Inductive, PowerCycle PROVE Inductive'
<1>1. TypeOK' BY PowerCycleTyped DEF Inductive
<1>2. /\ Reset("boot", "power_on", 0) /\ flash' = flash /\ panel'.power = "off"
      /\ panel'.debt = IF flash.marker = "active" THEN 0 ELSE panel.debt
    BY DEF PowerCycle
<1> QED BY <1>1, <1>2, ResetInductive DEF Inductive, PanelKnown

LEMMA WakeInductive == ASSUME Inductive, Wake PROVE Inductive'
<1>1. TypeOK' BY WakeTyped DEF Inductive
<1>2. /\ Reset("boot", "deep_sleep", device.slept) /\ panel' = panel /\ flash' = flash
      /\ device.sys = "asleep"
    BY DEF Wake
<1> QED BY <1>1, <1>2, ResetInductive DEF Inductive, PanelKnown, DeviceKnown

LEMMA DeepSleepInductive == ASSUME Inductive, DeepSleep PROVE Inductive'
<1>1. TypeOK' BY MainTyped DEF Inductive, MainStep
<1>2. Reset("asleep", "other", 0) /\ panel' = panel /\ flash' = flash /\ sleep = "reserved"
    BY DEF DeepSleep
<1>3. panel.power = "off" BY <1>2 DEF Inductive, ApprovalKnown
<1>4. panel.debt + 0 <= Cool BY ConstantsAssumption DEF Inductive, TypeOK, PanelType
<1> QED BY <1>1, <1>2, <1>3, <1>4, ResetInductive DEF Inductive, PanelKnown

LEMMA RestartNowInductive == ASSUME Inductive, RestartNow PROVE Inductive'
<1>1. TypeOK' BY RestartNowTyped DEF Inductive
<1>2. hw.coord /\ PanelSafe BY DEF RestartNow, Inductive, DrainKnown, ApprovalKnown
<1>3. Reset("boot", "other", 0) /\ panel' = panel /\ flash' = flash BY <1>2 DEF RestartNow
<1> QED BY <1>1, <1>3, ResetInductive DEF Inductive, PanelKnown

(* Time: the panel rests no faster than the cooldown, or the deep sleep, that *)
(* is measured, and the wrap of the cooldown's age comes after the rest.      *)
LEMMA TickInductive == ASSUME Inductive, Tick PROVE Inductive'
<1>1. TypeOK' BY TickTyped DEF Inductive
<1>2. /\ flash' = flash /\ hw' = hw /\ svc' = svc /\ image' = image /\ gate' = gate
      /\ queue' = queue /\ worker' = worker /\ client' = client /\ sleep' = sleep
      /\ device.sys # "boot"
    BY DEF Tick
<1>3. /\ device'.sys = device.sys /\ device'.reset = device.reset
      /\ device'.slept = IF device.sys = "asleep" /\ device.slept < Cool
                         THEN device.slept + 1 ELSE device.slept
    BY DEF Tick, Inductive, TypeOK, DeviceType
<1>4. /\ panel'.power = panel.power
      /\ panel'.debt = IF panel.power = "off" /\ panel.debt > 0 THEN panel.debt - 1 ELSE panel.debt
    BY DEF Tick, Inductive, TypeOK, PanelType
<1>5. /\ drain'.closed = drain.closed /\ drain'.sleeping = drain.sleeping
      /\ drain'.sleepReady = drain.sleepReady /\ drain'.restart = drain.restart
      /\ ~Running => drain' = drain
    <2>1. drain' = IF drain.restart = "draining" /\ drain.age < RestartDrain
                   THEN [drain EXCEPT !.age = @ + 1] ELSE drain
        BY DEF Tick
    <2>2. ~Running => drain.restart = "idle" BY DEF Inductive, DeviceKnown, FreshDrain
    <2> QED BY <2>1, <2>2 DEF Inductive, TypeOK, DrainType
<1>6. /\ clear'.pending = clear.pending /\ clear'.running = clear.running
      /\ clear'.cool = clear.cool /\ clear'.seen = clear.seen
      /\ clear'.age = IF clear.cool = "cooling" THEN NextAge(clear.age) ELSE clear.age
      /\ ~Running => clear' = clear
    <2>1. clear' = [clear EXCEPT
                      !.age = IF clear.cool = "cooling" THEN NextAge(@) ELSE @,
                      !.retry = IF @ = "backoff" THEN "due" ELSE @]
        BY DEF Tick
    <2>2. ~Running => clear = FreshClear BY DEF Inductive, DeviceKnown
    <2>3. ASSUME clear = FreshClear PROVE clear' = clear
        <3>1. clear.cool = "idle" /\ clear.retry = "none" BY <2>3 DEF FreshClear
        <3>2. clear' = [clear EXCEPT !.age = clear.age, !.retry = clear.retry] BY <2>1, <3>1
        <3>3. clear \in ClearType BY DEF Inductive, TypeOK
        <3> QED BY <3>2, <3>3 DEF ClearType
    <2> QED BY <2>1, <2>2, <2>3 DEF Inductive, TypeOK, ClearType
<1>7. DeviceKnown'
    BY <1>2, <1>3, <1>4, <1>5, <1>6, ConstantsAssumption
    DEF Inductive, TypeOK, DeviceType, PanelType, DeviceKnown, Running, Recovers
<1>8. CooldownKnown'
    <2>1. clear.cool = "cooling" => panel'.debt = 0 \/ panel'.debt + clear'.age <= Cool
        BY <1>4, <1>6, ConstantsAssumption
        DEF Inductive, TypeOK, PanelType, ClearType, CooldownKnown, NextAge
    <2>2. panel.debt = 0 => panel'.debt = 0 BY <1>4
    <2> QED BY <1>2, <1>4, <1>6, <2>1, <2>2 DEF Inductive, CooldownKnown, PanelSafe
<1>9. OwnerKnown' /\ BusyKnown' /\ GateKnown' /\ DrainKnown'
    BY <1>2, <1>5 DEF Inductive, OwnerKnown, BusyKnown, GateKnown, DrainKnown
<1>10. PanelKnown' /\ DrawKnown'
    BY <1>2, <1>4 DEF Inductive, PanelKnown, DrawKnown
<1>11. ApprovalKnown'
    BY <1>2, <1>4, <1>5, <1>6 DEF Inductive, ApprovalKnown, PanelSafe, SleepSafe, Busy
<1> QED BY <1>1, <1>7, <1>8, <1>9, <1>10, <1>11 DEF Inductive

(* A marker that boot recovers, and one that the RTC proves rested, belong to *)
(* a panel that is off and owes nothing.                                      *)
LEMMA BootEvidence ==
    ASSUME Inductive, device.sys = "boot"
    PROVE  /\ Recovers \/ Rested => panel.power = "off" /\ panel.debt = 0
           /\ panel.power = "on" => Loaded = "active"
           /\ Loaded # "active" => panel.power = "off"
<1>1. Recovers => panel.power = "off" /\ panel.debt = 0 BY DEF Inductive, DeviceKnown
<1>2. Rested => panel.power = "off" /\ panel.debt = 0
    BY ConstantsAssumption DEF Inductive, TypeOK, DeviceType, PanelType, DeviceKnown, Rested
<1>3. /\ panel.power = "on" => flash.marker = "active"
      /\ panel.power \in {"on", "off"}
    BY DEF Inductive, PanelKnown, TypeOK, PanelType
<1> QED BY <1>1, <1>2, <1>3 DEF Loaded, Recovers

LEMMA BootInductive == ASSUME Inductive, Boot PROVE Inductive'
<1>1. TypeOK' BY BootTyped DEF Inductive
<1>2. device.sys = "boot" /\ Started
    BY DEF Boot, BootWithoutHardware, BootService
<1>3. /\ hw = FreshHw /\ svc = FreshSvc /\ drain = FreshDrain /\ clear = FreshClear
      /\ image = FreshImage /\ gate = "free" /\ queue = "empty"
      /\ worker = "none" /\ client = Nobody /\ sleep = "none"
    BY <1>2 DEF Inductive, DeviceKnown, Running
<1>4. /\ panel' = panel /\ drain' = drain /\ gate' = gate /\ queue' = queue
      /\ client' = client /\ sleep' = sleep /\ worker' \in {"none", "poll"}
    BY <1>3 DEF Boot, BootWithoutHardware, BootService
<1>5. \A c \in Clients : client'[c] = "free" /\ c # "free"
    BY <1>3, <1>4, ConstantsAssumption DEF Nobody, GateUsers
<1>6. device'.sys = "run" /\ device'.reset = "other" BY <1>2 DEF Started
<1>7. DeviceKnown' BY <1>6 DEF DeviceKnown, Running
<1>8. GateKnown' BY <1>3, <1>4, <1>5 DEF GateKnown
<1>9. DrawKnown' BY <1>4 DEF DrawKnown
<1>10. ApprovalKnown' BY <1>3, <1>4 DEF ApprovalKnown, FreshDrain
<1>11. svc'.state \notin BusyStates => OwnerKnown' /\ BusyKnown'
    BY <1>3, <1>4, <1>5
    DEF OwnerKnown, BusyKnown, OwnerPcs, UploadPcs, AcceptedPcs, DrawPcs, BusyStates
<1>12. CASE BootWithoutHardware
    <2>1. hw' = FreshHw /\ svc' = FreshSvc /\ clear' = FreshClear /\ worker' = "none"
        BY <1>3, <1>12 DEF BootWithoutHardware
    <2>2. flash'.marker = flash.marker \/ (Recovers /\ flash'.marker = "none")
        BY <1>12 DEF BootWithoutHardware, SetMarker, Written, Inductive, TypeOK, FlashType
    <2>3. DrainKnown' BY <1>3, <1>4, <2>1 DEF DrainKnown, FreshDrain, FreshHw, FreshSvc
    <2>4. CooldownKnown' BY <2>1 DEF CooldownKnown, FreshClear, FreshSvc
    <2>5. PanelKnown'
        BY <1>2, <1>4, <2>1, <2>2, BootEvidence DEF Inductive, PanelKnown, FreshHw, FreshSvc
    <2> QED BY <1>1, <1>7, <1>8, <1>9, <1>10, <1>11, <2>1, <2>3, <2>4, <2>5
            DEF Inductive, FreshSvc, BusyStates
<1>13. ASSUME NEW outcome \in {"worker", "early", "late"},
              NEW proven \in BOOLEAN, NEW cleared \in BOOLEAN,
              BootService(outcome, proven, cleared)
       PROVE  Inductive'
    <2> DEFINE derived == outcome # "early"
               frees   == derived /\ Loaded = "confirmed" /\ proven /\ cleared
    <2>1. proven => Rested BY <1>13 DEF BootService
    <2>2. \/ flash'.marker = Loaded
          \/ Loaded = "confirmed" /\ proven /\ flash'.marker = "none"
        <3>1. SetMarker(IF derived /\ Loaded = "confirmed" /\ proven
                        THEN Written("none", cleared) ELSE {Loaded})
            BY <1>13 DEF BootService
        <3>2. Loaded = "confirmed" => flash.marker = "confirmed" BY DEF Loaded
        <3> QED BY <3>1, <3>2 DEF SetMarker, Written, Inductive, TypeOK, FlashType
    <2>3. /\ hw'.coord /\ hw'.unavailable = (Loaded = "active")
          /\ hw'.stage = (IF frees THEN "none" ELSE Loaded)
          /\ ~hw'.mayBeActive /\ hw'.cpu = 160
        <3>1. hw' = [FreshHw EXCEPT !.coord = TRUE, !.unavailable = (Loaded = "active"),
                                    !.stage = IF frees THEN "none" ELSE Loaded]
            BY <1>3, <1>13 DEF BootService
        <3> QED BY <3>1 DEF FreshHw
    <2>4. frees => flash'.marker = "none"
        <3>1. ASSUME frees PROVE SetMarker({"none"})
            BY <1>13, <3>1 DEF BootService, Written
        <3> QED BY <3>1 DEF SetMarker, Inductive, TypeOK, FlashType
    <2>5. IF derived
          THEN /\ svc'.state = CASE Loaded = "active" -> "unavailable"
                                 [] Loaded = "confirmed" /\ ~frees -> "cooldown"
                                 [] OTHER -> "idle"
               /\ svc'.recovery = (Loaded = "active") /\ ~svc'.clearFailed
          ELSE svc' = FreshSvc
        <3>1. derived => svc' = [FreshSvc EXCEPT
                     !.ready = (outcome = "worker"),
                     !.state = CASE Loaded = "active" -> "unavailable"
                                 [] Loaded = "confirmed" /\ ~frees -> "cooldown"
                                 [] OTHER -> "idle",
                     !.panel = CASE Loaded = "active" -> "unknown"
                                 [] Loaded = "confirmed" -> "sleeping"
                                 [] OTHER -> "inactive",
                     !.recovery = (Loaded = "active")]
            BY <1>13 DEF BootService
        <3>2. ~derived => svc' = FreshSvc BY <1>3, <1>13 DEF BootService
        <3> QED BY <3>1, <3>2 DEF FreshSvc
    <2>6. IF derived /\ Loaded = "confirmed" /\ ~frees
          THEN /\ clear'.cool = "cooling" /\ clear'.age = IF proven THEN Cool ELSE 0
               /\ ~clear'.pending /\ ~clear'.running /\ clear'.seen = "none"
          ELSE clear' = FreshClear
        <3>1. IF derived /\ Loaded = "confirmed" /\ ~frees
              THEN clear' = [FreshClear EXCEPT !.cool = "cooling",
                                               !.age = IF proven THEN Cool ELSE 0]
              ELSE clear' = FreshClear
            BY <1>3, <1>13 DEF BootService
        <3> QED BY <3>1 DEF FreshClear
    <2>7. Loaded \in Stages BY LoadedTyped DEF Inductive
    <2>8. DrainKnown' BY <1>3, <1>4, <2>3 DEF DrainKnown, FreshDrain
    <2>9. CooldownKnown'
        <3>1. panel.debt + 0 <= Cool BY ConstantsAssumption DEF Inductive, TypeOK, PanelType
        <3>2. proven => panel.debt = 0 BY <1>2, <2>1, BootEvidence
        <3>3. Loaded # "active" => panel.power = "off" BY <1>2, BootEvidence
        <3> HIDE DEF frees
        <3>4. CASE derived /\ Loaded = "confirmed" /\ ~frees
            BY <1>4, <2>2, <2>3, <2>5, <2>6, <3>1, <3>2, <3>3, <3>4 DEF CooldownKnown, PanelSafe
        <3>5. CASE ~(derived /\ Loaded = "confirmed" /\ ~frees)
            <4>1. svc'.state # "cooldown" BY <2>5, <3>5 DEF FreshSvc
            <4> QED BY <1>4, <2>6, <3>5, <4>1 DEF CooldownKnown, FreshClear
        <3> QED BY <3>4, <3>5
    <2>10. PanelKnown'
        <3>1. panel'.power = "on" => flash'.marker = "active"
            BY <1>2, <1>4, <2>1, <2>2, BootEvidence
        <3>2. /\ panel.power = "on" => hw'.stage = "active"
              /\ flash'.marker = "active" => hw'.stage = "active"
            BY <1>2, <2>2, <2>3, <2>4, BootEvidence
        <3>3. /\ svc'.state \in {"idle", "uploading", "queued"} => Loaded = "none" \/ frees
              /\ svc'.recovery => svc'.state = "unavailable"
            <4>1. CASE derived
                <5> HIDE DEF frees
                <5> QED BY <2>5, <2>7, <4>1 DEF Stages
            <4>2. CASE ~derived BY <2>5, <4>2 DEF FreshSvc
            <4> QED BY <4>1, <4>2
        <3>4. Loaded = "none" \/ frees =>
                flash'.marker = "none" /\ hw'.stage = "none" /\ ~hw'.unavailable
            BY <2>2, <2>3, <2>4
        <3> QED BY <1>4, <2>3, <3>1, <3>2, <3>3, <3>4 DEF PanelKnown
    <2>11. svc'.state \notin BusyStates BY <2>5 DEF FreshSvc, BusyStates
    <2> QED BY <1>1, <1>7, <1>8, <1>9, <1>10, <1>11, <2>8, <2>9, <2>10, <2>11 DEF Inductive
<1> QED BY <1>12, <1>13 DEF Boot

-----------------------------------------------------------------------------
(* The main loop.                                                            *)

(* What a step of the loop may do to the parts that it does not write. *)
LEMMA MainKeeps ==
    ASSUME Inductive, device.sys = "run", MainFrame,
           worker' = worker \/ (worker = "none" /\ worker' = "control")
    PROVE  /\ DeviceKnown' /\ OwnerKnown' /\ BusyKnown' /\ PanelKnown' /\ DrawKnown'
<1>1. /\ device' = device /\ panel' = panel /\ flash' = flash /\ hw' = hw /\ svc' = svc
      /\ image' = image /\ queue' = queue /\ client' = client
    BY DEF MainFrame
<1>2. DeviceKnown' BY <1>1 DEF Inductive, DeviceKnown, Running, Recovers
<1>3. OwnerKnown' /\ BusyKnown'
    BY <1>1 DEF Inductive, OwnerKnown, BusyKnown, AcceptedPcs, DrawPcs
<1>4. PanelKnown' /\ DrawKnown'
    BY <1>1 DEF Inductive, PanelKnown, DrawKnown, SlowPcs
<1> QED BY <1>2, <1>3, <1>4

(* The conditions of poll() but the elapsed time: the clock is restored and    *)
(* no drain holds the admission.                                              *)
LEMMA PollSetsKnown ==
    ASSUME Inductive, NEW elapsed \in BOOLEAN, PollSets(elapsed)
    PROVE  clear.cool = "cooling" /\ hw.cpu = 160 /\ ~drain.closed /\ worker # "clear"
<1>1. /\ clear.cool = "cooling" /\ ~clear.running /\ ~drain.closed
      /\ svc.state = "cooldown" \/ (svc.state = "unavailable" /\ svc.clearFailed)
    BY DEF PollSets
<1>2. worker # "clear" BY <1>1 DEF Inductive, CooldownKnown
<1>3. hw.cpu = 160
    <2>1. worker \notin SlowPcs
        BY <1>1 DEF Inductive, OwnerKnown, SlowPcs, AcceptedPcs, DrawPcs
    <2> QED BY <1>1, <2>1 DEF Inductive, PanelKnown, TypeOK, HwType
<1> QED BY <1>1, <1>2, <1>3

(* A cooldown that has elapsed leaves nothing owed. *)
LEMMA ElapsedRested ==
    ASSUME Inductive, clear.cool = "cooling", CoolElapsed
    PROVE  panel.debt = 0
BY ConstantsAssumption DEF Inductive, TypeOK, PanelType, ClearType, CooldownKnown, CoolElapsed

(* The loop reads the clock: what it sees as elapsed has elapsed. *)
LEMMA StartPassInductive == ASSUME Inductive, StartPass PROVE Inductive'
<1>1. TypeOK' BY MainTyped DEF Inductive, MainStep
<1>2. /\ device.sys = "run" /\ MainFrame
      /\ drain' = drain /\ gate' = gate /\ worker' = worker /\ sleep' = sleep
    BY DEF StartPass, MainFree, Running
<1>3. /\ clear'.pending = clear.pending /\ clear'.running = clear.running
      /\ clear'.cool = clear.cool /\ clear'.age = clear.age
      /\ clear'.seen = IF CoolElapsed THEN "elapsed" ELSE "early"
    BY DEF StartPass, Inductive, TypeOK, ClearType
<1>4. /\ panel' = panel /\ flash' = flash /\ hw' = hw /\ svc' = svc /\ client' = client
    BY <1>2 DEF MainFrame
<1>5. GateKnown' /\ DrainKnown' BY <1>2, <1>4 DEF Inductive, GateKnown, DrainKnown
<1>6. CooldownKnown'
    <2>1. clear.cool = "cooling" /\ clear'.seen = "elapsed" => panel.debt = 0
        BY <1>3, ElapsedRested
    <2> QED BY <1>2, <1>3, <1>4, <2>1 DEF Inductive, CooldownKnown, PanelSafe
<1>7. ApprovalKnown'
    <2>1. SleepSafe' = SleepSafe BY <1>2, <1>3, <1>4 DEF SleepSafe, PanelSafe
    <2> QED BY <1>2, <1>3, <1>4, <2>1 DEF Inductive, ApprovalKnown, PanelSafe, Busy
<1> QED BY <1>1, <1>2, <1>5, <1>6, <1>7, MainKeeps DEF Inductive

(* poll(now) schedules a clear by the clock that the pass began with. *)
LEMMA MainPollInductive == ASSUME Inductive, MainPoll PROVE Inductive'
<1> DEFINE sets == PollSets(clear.seen = "elapsed")
<1>1. TypeOK' BY MainTyped DEF Inductive, MainStep
<1>2. /\ device.sys = "run" /\ MainFrame
      /\ drain' = drain /\ gate' = gate /\ worker' = worker /\ sleep' = sleep
    BY DEF MainPoll, MainFree, Running
<1>3. /\ clear'.pending <=> clear.pending \/ sets
      /\ clear'.running = clear.running /\ clear'.cool = clear.cool
      /\ clear'.age = clear.age /\ clear'.seen = "none"
    BY DEF MainPoll, Inductive, TypeOK, ClearType
<1>4. /\ panel' = panel /\ flash' = flash /\ hw' = hw /\ svc' = svc /\ client' = client
    BY <1>2 DEF MainFrame
<1>5. sets => /\ clear.cool = "cooling" /\ hw.cpu = 160 /\ ~drain.closed /\ worker # "clear"
              /\ clear.seen = "elapsed"
    <2>1. (clear.seen = "elapsed") \in BOOLEAN OBVIOUS
    <2>2. sets => clear.seen = "elapsed" BY DEF PollSets
    <2> QED BY <2>1, <2>2, PollSetsKnown
<1> HIDE DEF sets
<1>6. GateKnown' /\ DrainKnown' BY <1>2, <1>4 DEF Inductive, GateKnown, DrainKnown
<1>7. CooldownKnown'
    BY <1>2, <1>3, <1>4, <1>5 DEF Inductive, CooldownKnown, PanelSafe
<1>8. ApprovalKnown'
    <2>1. sets => ~drain.sleepReady
        BY <1>5 DEF Inductive, ApprovalKnown, DrainKnown
    <2>2. drain.sleepReady => (SleepSafe' <=> SleepSafe)
        BY <1>2, <1>3, <1>4, <2>1 DEF SleepSafe, PanelSafe
    <2> QED BY <1>2, <1>3, <1>4, <2>2 DEF Inductive, ApprovalKnown, PanelSafe, Busy
<1> QED BY <1>1, <1>2, <1>6, <1>7, <1>8, MainKeeps DEF Inductive

LEMMA RequestRestartInductive == ASSUME Inductive, RequestRestart PROVE Inductive'
<1>1. TypeOK' BY MainTyped DEF Inductive, MainStep
<1>2. /\ device.sys = "run" /\ MainFrame
      /\ drain.restart \notin {"draining", "ready"} /\ ~drain.closed /\ ~drain.sleeping /\ hw.coord
      /\ clear' = clear /\ gate' = gate /\ worker' = worker /\ sleep' = sleep
    BY DEF RequestRestart, MainFree, Running
<1>3. /\ drain'.closed /\ drain'.restart = "draining" /\ drain'.sleeping = drain.sleeping
      /\ drain'.sleepReady = drain.sleepReady
    BY DEF RequestRestart, Inductive, TypeOK, DrainType
<1>4. /\ panel' = panel /\ flash' = flash /\ hw' = hw /\ svc' = svc /\ client' = client
    BY <1>2 DEF MainFrame
<1>5. GateKnown' BY <1>2, <1>3, <1>4 DEF Inductive, GateKnown
<1>6. DrainKnown' BY <1>2, <1>3, <1>4 DEF Inductive, DrainKnown
<1>7. CooldownKnown' BY <1>2, <1>4 DEF Inductive, CooldownKnown, PanelSafe
<1>8. ApprovalKnown' BY <1>2, <1>3 DEF Inductive, ApprovalKnown
<1> QED BY <1>1, <1>2, <1>5, <1>6, <1>7, <1>8, MainKeeps DEF Inductive

LEMMA PollRestartInductive ==
    ASSUME Inductive, NEW allow \in BOOLEAN, PollRestart(allow) PROVE Inductive'
<1>1. TypeOK' BY MainTyped DEF Inductive, MainStep
<1>2. /\ device.sys = "run" /\ MainFrame /\ drain.restart = "draining"
      /\ clear' = clear /\ gate' = gate /\ sleep' = sleep
      /\ worker' = worker \/ (worker = "none" /\ worker' = "control")
    BY DEF PollRestart, MainFree, Running
<1>3. /\ drain'.closed = drain.closed /\ drain'.restart \in {"draining", "failed"}
      /\ drain'.sleeping = drain.sleeping /\ drain'.sleepReady = drain.sleepReady
    BY <1>2 DEF PollRestart, EndDrain, Inductive, TypeOK, DrainType
<1>4. /\ panel' = panel /\ flash' = flash /\ hw' = hw /\ svc' = svc /\ client' = client
    BY <1>2 DEF MainFrame
<1>5. GateKnown' BY <1>2, <1>3, <1>4 DEF Inductive, GateKnown, FramePcs
<1>6. DrainKnown' BY <1>2, <1>3, <1>4 DEF Inductive, DrainKnown
<1>7. CooldownKnown' BY <1>2, <1>4 DEF Inductive, CooldownKnown, PanelSafe
<1>8. ApprovalKnown' BY <1>2, <1>3 DEF Inductive, ApprovalKnown, DrainKnown
<1> QED BY <1>1, <1>2, <1>5, <1>6, <1>7, <1>8, MainKeeps DEF Inductive

LEMMA CheckSleepInductive == ASSUME Inductive, CheckSleep PROVE Inductive'
<1>1. TypeOK' BY MainTyped DEF Inductive, MainStep
<1>2. /\ device.sys = "run" /\ MainFrame /\ sleep = "none" /\ sleep' = "checked"
      /\ drain' = drain /\ clear' = clear /\ gate' = gate /\ worker' = worker
    BY DEF CheckSleep, MainFree, Running
<1>4. /\ panel' = panel /\ flash' = flash /\ hw' = hw /\ svc' = svc /\ client' = client
    BY <1>2 DEF MainFrame
<1>5. GateKnown' /\ DrainKnown' BY <1>2, <1>4 DEF Inductive, GateKnown, DrainKnown
<1>6. CooldownKnown' BY <1>2, <1>4 DEF Inductive, CooldownKnown, PanelSafe
<1>7. ApprovalKnown'
    BY <1>2, <1>4 DEF Inductive, ApprovalKnown, PanelSafe, SleepSafe, Busy
<1> QED BY <1>1, <1>2, <1>5, <1>6, <1>7, MainKeeps DEF Inductive

(* Admission is open when the sleep is accepted, so no approval is disturbed; *)
(* the dropped marker clear had not started.                                  *)
LEMMA RequestSleepInductive == ASSUME Inductive, RequestSleep PROVE Inductive'
<1>1. TypeOK' BY MainTyped DEF Inductive, MainStep
<1>2. /\ device.sys = "run" /\ MainFrame /\ sleep = "checked"
      /\ gate' = gate /\ worker' = worker
    BY DEF RequestSleep, Running
<1>4. /\ panel' = panel /\ flash' = flash /\ hw' = hw /\ svc' = svc /\ client' = client
    BY <1>2 DEF MainFrame
<1>5. CASE SleepAccepted
    <2>1. svc.ready /\ ~drain.closed /\ drain.restart = "idle" /\ sleep' = "draining"
        BY <1>5 DEF RequestSleep, SleepAccepted
    <2>2. drain'.closed /\ drain'.sleeping /\ ~drain'.sleepReady /\ drain'.restart = "idle"
        BY <1>5, <2>1 DEF RequestSleep, Inductive, TypeOK, DrainType
    <2>3. /\ ~clear'.pending /\ clear'.running = clear.running /\ clear'.cool = clear.cool
          /\ clear'.age = clear.age /\ clear'.seen = clear.seen
        BY <1>5 DEF RequestSleep, Inductive, TypeOK, ClearType
    <2>5. GateKnown' BY <1>2, <1>4, <2>1, <2>2 DEF Inductive, GateKnown
    <2>6. DrainKnown' BY <1>2, <1>4, <2>1, <2>2 DEF Inductive, DrainKnown
    <2>7. CooldownKnown' BY <1>2, <1>4, <2>3 DEF Inductive, CooldownKnown, PanelSafe
    <2>8. ApprovalKnown' BY <2>1, <2>2 DEF ApprovalKnown
    <2> QED BY <1>1, <1>2, <2>5, <2>6, <2>7, <2>8, MainKeeps DEF Inductive
<1>6. CASE ~SleepAccepted
    <2>1. sleep' = "none" /\ drain' = drain /\ clear' = clear BY <1>6 DEF RequestSleep
    <2>5. GateKnown' /\ DrainKnown' BY <1>2, <1>4, <2>1 DEF Inductive, GateKnown, DrainKnown
    <2>6. CooldownKnown' BY <1>2, <1>4, <2>1 DEF Inductive, CooldownKnown, PanelSafe
    <2>7. ApprovalKnown'
        BY <1>2, <1>4, <2>1 DEF Inductive, ApprovalKnown, PanelSafe, SleepSafe, Busy
    <2> QED BY <1>1, <1>2, <2>5, <2>6, <2>7, MainKeeps DEF Inductive
<1> QED BY <1>5, <1>6

LEMMA ReserveSleepInductive == ASSUME Inductive, ReserveSleep PROVE Inductive'
<1>1. TypeOK' BY MainTyped DEF Inductive, MainStep
<1>2. /\ device.sys = "run" /\ MainFrame /\ sleep = "draining" /\ sleep' = "reserved"
      /\ drain.sleepReady /\ gate = "free" /\ gate' = "sleep"
      /\ drain' = drain /\ clear' = clear /\ worker' = worker
    BY DEF ReserveSleep, MainFree, Running
<1>4. /\ panel' = panel /\ flash' = flash /\ hw' = hw /\ svc' = svc /\ client' = client
    BY <1>2 DEF MainFrame
<1>5. GateKnown'
    BY <1>2, <1>4, ConstantsAssumption DEF Inductive, GateKnown, GateUsers
<1>6. DrainKnown' BY <1>2, <1>4 DEF Inductive, DrainKnown
<1>7. CooldownKnown' BY <1>2, <1>4 DEF Inductive, CooldownKnown, PanelSafe
<1>8. ApprovalKnown'
    BY <1>2, <1>4 DEF Inductive, ApprovalKnown, PanelSafe, SleepSafe, Busy
<1> QED BY <1>1, <1>2, <1>5, <1>6, <1>7, <1>8, MainKeeps DEF Inductive

LEMMA CancelSleepInductive == ASSUME Inductive, CancelSleep PROVE Inductive'
<1>1. TypeOK' BY MainTyped DEF Inductive, MainStep
<1>2. /\ device.sys = "run" /\ MainFrame /\ sleep \in {"draining", "reserved"} /\ sleep' = "none"
      /\ clear' = clear /\ worker' = worker
      /\ gate' = (IF sleep = "reserved" THEN "free" ELSE gate)
    BY DEF CancelSleep, MainFree, Running
<1>3. drain.sleeping /\ drain.restart = "idle"
    BY <1>2 DEF Inductive, DrainKnown
<1>4. /\ panel' = panel /\ flash' = flash /\ hw' = hw /\ svc' = svc /\ client' = client
    BY <1>2 DEF MainFrame
<1>5. ~drain'.closed /\ ~drain'.sleeping /\ ~drain'.sleepReady /\ drain'.restart = "idle"
    <2>1. drain' = [drain EXCEPT !.sleeping = FALSE, !.sleepReady = FALSE, !.closed = FALSE]
        BY <1>3 DEF CancelSleep
    <2> QED BY <1>3, <2>1 DEF Inductive, TypeOK, DrainType
<1>6. GateKnown'
    <2>1. sleep = "reserved" => gate = "sleep" BY DEF Inductive, ApprovalKnown
    <2> QED BY <1>2, <1>3, <1>4, <1>5, <2>1, ConstantsAssumption
            DEF Inductive, GateKnown, GateUsers
<1>7. DrainKnown' BY <1>2, <1>3, <1>4, <1>5 DEF Inductive, DrainKnown
<1>8. CooldownKnown' BY <1>2, <1>4 DEF Inductive, CooldownKnown, PanelSafe
<1>9. ApprovalKnown' BY <1>2, <1>5 DEF ApprovalKnown
<1> QED BY <1>1, <1>2, <1>6, <1>7, <1>8, <1>9, MainKeeps DEF Inductive

LEMMA MainInductive == ASSUME Inductive, MainStep PROVE Inductive'
BY StartPassInductive, MainPollInductive, RequestRestartInductive, PollRestartInductive,
   CheckSleepInductive, RequestSleepInductive, ReserveSleepInductive, CancelSleepInductive,
   DeepSleepInductive
   DEF MainStep

-----------------------------------------------------------------------------
(* The worker, drawing.                                                      *)

(* While the worker owns a draw nobody else owns work, no approval stands and *)
(* no cooldown runs.                                                          *)
LEMMA DrawAlone ==
    ASSUME Inductive, worker \in DrawPcs
    PROVE  /\ \A c \in Clients : client[c] \notin OwnerPcs
           /\ queue = "empty" /\ svc.state \in {"queued", "drawing"}
           /\ drain.restart # "ready" /\ ~drain.sleepReady /\ sleep # "reserved"
           /\ ~clear.running /\ ~clear.pending /\ clear.cool # "cooling"
           /\ ~svc.recovery
<1>1. OwnerKnown /\ worker # "restart" /\ worker # "clear" BY DEF Inductive, DrawPcs
<1>2. \A c \in Clients : client[c] \notin OwnerPcs BY <1>1 DEF OwnerKnown
<1>3. queue = "empty" BY <1>1 DEF OwnerKnown, Inductive, TypeOK
<1>4. svc.state \in {"queued", "drawing"} BY <1>1 DEF OwnerKnown
<1>5. drain.restart # "ready" BY <1>1 DEF Inductive, DrainKnown
<1>6. ~drain.sleepReady /\ sleep # "reserved"
    BY <1>4 DEF Inductive, ApprovalKnown, Busy, BusyStates
<1>7. ~clear.running /\ ~clear.pending /\ clear.cool # "cooling"
    BY <1>1, <1>4 DEF Inductive, CooldownKnown
<1>8. ~svc.recovery BY <1>4 DEF Inductive, PanelKnown
<1> QED BY <1>2, <1>3, <1>4, <1>5, <1>6, <1>7, <1>8

\* What a step of a draw may do to the state of others.
DrawEffect(from, to) ==
    /\ StepWorker(from, to)
    /\ from \in DrawPcs /\ to \in DrawPcs \cup {"poll"}
    /\ drain' = drain /\ queue' = queue
    /\ svc'.ready = svc.ready /\ hw'.coord = hw.coord
    /\ to \in AcceptedPcs => svc'.state = "queued"
    /\ to \in DrawPcs \ AcceptedPcs => svc'.state = "drawing"
    /\ to = "poll" => svc'.state \notin BusyStates
    /\ gate' = gate \/ {gate, gate'} = {"free", "worker"}
    /\ gate' = "worker" => to \in FramePcs
    /\ to = "validating" => gate' = "worker"

LEMMA DrawKeeps ==
    ASSUME Inductive, NEW from, NEW to, DrawEffect(from, to)
    PROVE  /\ DeviceKnown' /\ OwnerKnown' /\ BusyKnown' /\ GateKnown' /\ DrainKnown'
           /\ ApprovalKnown'
           /\ clear' = clear /\ svc'.state # "cooldown" => CooldownKnown'
<1>1. /\ device.sys = "run" /\ worker = from /\ worker' = to /\ from \in DrawPcs
      /\ device' = device /\ client' = client /\ sleep' = sleep
      /\ drain' = drain /\ queue' = queue /\ to \in DrawPcs \cup {"poll"}
    BY DEF DrawEffect, StepWorker, WorkerFrame, Running
<1>2. /\ \A c \in Clients : client[c] \notin OwnerPcs
      /\ queue = "empty" /\ drain.restart # "ready" /\ ~drain.sleepReady /\ sleep # "reserved"
      /\ ~clear.running /\ ~clear.pending /\ clear.cool # "cooling"
    BY <1>1, DrawAlone
<1>3. DeviceKnown' BY <1>1 DEF Inductive, DeviceKnown, Running
<1>4. OwnerKnown'
    BY <1>1, <1>2 DEF OwnerKnown, DrawEffect, DrawPcs, AcceptedPcs
<1>5. BusyKnown'
    BY <1>1, <1>2 DEF BusyKnown, DrawEffect, DrawPcs, AcceptedPcs, BusyStates, OwnerPcs, UploadPcs
<1>6. GateKnown'
    <2>1. \A c \in Clients : c # "free" /\ c # "worker" BY ConstantsAssumption DEF GateUsers
    <2>2. gate' = gate \/ (gate = "free" /\ gate' = "worker") \/ (gate = "worker" /\ gate' = "free")
        BY DEF DrawEffect
    <2> QED BY <1>1, <2>1, <2>2 DEF Inductive, GateKnown, DrawEffect
<1>7. DrainKnown'
    <2>1. worker # "restart" /\ worker' # "restart" BY <1>1 DEF DrawPcs
    <2> QED BY <1>1, <2>1 DEF Inductive, DrainKnown, DrawEffect
<1>8. ApprovalKnown' BY <1>1, <1>2 DEF ApprovalKnown
<1>9. clear' = clear /\ svc'.state # "cooldown" => CooldownKnown'
    <2>1. worker' # "clear" BY <1>1 DEF DrawPcs
    <2> QED BY <1>1, <1>2, <2>1 DEF CooldownKnown
<1> QED BY <1>3, <1>4, <1>5, <1>6, <1>7, <1>8, <1>9

LEMMA CloseFrameEffect ==
    ASSUME CloseFrame
    PROVE  gate' # "worker" /\ (gate' = gate \/ {gate, gate'} = {"free", "worker"})
BY DEF CloseFrame

LEMMA DrawRejectedEffect ==
    ASSUME Inductive, NEW from, DrawRejected(from)
    PROVE  /\ StepWorker(from, "poll") /\ svc'.state = "idle"
           /\ svc'.ready = svc.ready /\ svc'.recovery = svc.recovery /\ ~svc'.clearFailed
BY DEF DrawRejected, Inductive, TypeOK, ServiceType

(* Before its marker a draw touches neither panel nor marker, and they stay  *)
(* as admission found them.                                                  *)
LEMMA AcceptedDrawKeepsPanel ==
    ASSUME Inductive, worker \in AcceptedPcs,
           worker' \in AcceptedPcs \cup {"poll", "mark"},
           panel' = panel, flash' = flash, hw' = hw,
           svc'.recovery = svc.recovery
    PROVE  PanelKnown' /\ DrawKnown'
<1>1. /\ flash.marker = "none" /\ hw.stage = "none" /\ ~hw.mayBeActive /\ ~hw.unavailable
    BY DEF Inductive, OwnerKnown, PanelKnown
<1>2. ~svc.recovery /\ hw.cpu # 80
    BY DrawAlone DEF Inductive, PanelKnown, AcceptedPcs, DrawPcs, SlowPcs
<1>3. PanelKnown' BY <1>1, <1>2 DEF Inductive, PanelKnown
<1>4. DrawKnown' BY DEF DrawKnown, AcceptedPcs
<1> QED BY <1>3, <1>4

LEMMA AcceptedDrawInductive ==
    ASSUME Inductive, \/ OpenForDraw \/ OpenFrame \/ StartDraw
                      \/ \E ok \in BOOLEAN : ValidateForDraw(ok)
    PROVE  Inductive'
<1> USE DEF AcceptedPcs, DrawPcs, FramePcs
<1>1. TypeOK' BY AcceptedDrawTyped DEF Inductive
<1>2. panel' = panel /\ flash' = flash /\ hw' = hw /\ drain' = drain /\ clear' = clear /\ queue' = queue
    BY DEF OpenForDraw, OpenFrame, StartDraw, ValidateForDraw
<1>3. ASSUME NEW from \in AcceptedPcs, NEW to \in AcceptedPcs \cup {"poll", "mark"},
             DrawEffect(from, to), svc'.recovery = svc.recovery, svc'.state # "cooldown"
      PROVE  Inductive'
    <2>1. worker = from /\ worker' = to BY <1>3 DEF DrawEffect, StepWorker
    <2>2. PanelKnown' /\ DrawKnown' BY <1>2, <1>3, <2>1, AcceptedDrawKeepsPanel
    <2> QED BY <1>1, <1>2, <1>3, <2>2, DrawKeeps DEF Inductive
<1>4. ASSUME NEW from \in AcceptedPcs, DrawRejected(from),
             gate' # "worker", gate' = gate \/ {gate, gate'} = {"free", "worker"}
      PROVE  Inductive'
    <2>1. /\ StepWorker(from, "poll") /\ svc'.state = "idle"
          /\ svc'.ready = svc.ready /\ svc'.recovery = svc.recovery
        BY <1>4, DrawRejectedEffect
    <2>2. DrawEffect(from, "poll") BY <1>2, <1>4, <2>1 DEF DrawEffect, BusyStates
    <2> QED BY <1>3, <2>1, <2>2
<1>5. ASSUME NEW from \in AcceptedPcs, NEW to \in AcceptedPcs, StepWorker(from, to), svc' = svc,
             gate' = gate \/ {gate, gate'} = {"free", "worker"},
             gate' = "worker" => to \in FramePcs, to = "validating" => gate' = "worker"
      PROVE  Inductive'
    <2>1. svc.state = "queued" BY <1>5 DEF StepWorker, Inductive, OwnerKnown
    <2>2. DrawEffect(from, to) BY <1>2, <1>5, <2>1 DEF DrawEffect
    <2> QED BY <1>3, <1>5, <2>1, <2>2
<1>6. CASE OpenForDraw
    <2>1. CASE StepWorker("validate", "validating") /\ OpenImage("worker") /\ UNCHANGED svc
        BY <1>5, <2>1 DEF OpenImage
    <2>2. CASE DrawRejected("validate") /\ OpenImageFails
        <3>1. worker = "validate" /\ gate' = gate
            BY <2>2 DEF DrawRejected, StepWorker, OpenImageFails
        <3>2. gate # "worker" BY <3>1 DEF Inductive, GateKnown
        <3> QED BY <1>4, <2>2, <3>1, <3>2
    <2> QED BY <1>6, <2>1, <2>2 DEF OpenForDraw
<1>7. CASE OpenFrame
    <2>1. CASE StepWorker("open", "draw") /\ gate = "free" /\ gate' = "worker" /\ UNCHANGED svc
        BY <1>5, <2>1
    <2>2. CASE DrawRejected("open") /\ UNCHANGED gate
        <3>1. worker = "open" BY <2>2 DEF DrawRejected, StepWorker
        <3>2. gate # "worker" BY <3>1 DEF Inductive, GateKnown
        <3> QED BY <1>4, <2>2, <3>2
    <2> QED BY <1>7, <2>1, <2>2 DEF OpenFrame
<1>8. CASE StartDraw
    <2>1. CASE /\ StepWorker("draw", "mark")
               /\ svc' = [svc EXCEPT !.state = "drawing", !.panel = "inactive"]
               /\ UNCHANGED gate
        <3>1. svc'.state = "drawing" /\ svc'.ready = svc.ready /\ svc'.recovery = svc.recovery
            BY <2>1 DEF Inductive, TypeOK, ServiceType
        <3>2. DrawEffect("draw", "mark") BY <1>2, <2>1, <3>1 DEF DrawEffect
        <3> QED BY <1>3, <3>1, <3>2
    <2>2. CASE DrawRejected("draw") /\ CloseFrame
        BY <1>4, <2>2, CloseFrameEffect
    <2> QED BY <1>8, <2>1, <2>2 DEF StartDraw
<1>9. ASSUME NEW valid \in BOOLEAN, ValidateForDraw(valid) PROVE Inductive'
    <2>1. worker = "validating" /\ gate' = "free"
        BY <1>9 DEF ValidateForDraw, DrawRejected, StepWorker, CloseImage
    <2>2. gate = "worker" BY <2>1 DEF Inductive, GateKnown
    <2>3. CASE StepWorker("validating", "open") /\ UNCHANGED svc
        BY <1>5, <2>1, <2>2, <2>3
    <2>4. CASE DrawRejected("validating")
        BY <1>4, <2>1, <2>2, <2>4
    <2> QED BY <1>9, <2>3, <2>4 DEF ValidateForDraw
<1> QED BY <1>6, <1>7, <1>8, <1>9

(* What each step of a marked draw writes. *)
LEMMA SetMarkerEffect ==
    ASSUME TypeOK, NEW markers, SetMarker(markers)
    PROVE  flash'.marker \in markers
BY DEF SetMarker, TypeOK, FlashType

\* The steps from the marker to the shutdown: no cooldown, no other owner.
LEMMA MarkedDrawKeeps ==
    ASSUME Inductive, TypeOK', NEW from \in DrawPcs \ AcceptedPcs,
           NEW to \in (DrawPcs \ AcceptedPcs) \cup {"poll"}, StepWorker(from, to), DrawFrame,
           svc'.ready = svc.ready, hw'.coord = hw.coord,
           svc'.state = IF to = "poll" THEN "unavailable" ELSE "drawing",
           (gate' = gate /\ (from \in FramePcs => to \in FramePcs)) \/ CloseFrame,
           PanelKnown', DrawKnown'
    PROVE  Inductive'
<1>1. drain' = drain /\ queue' = queue /\ clear' = clear BY DEF DrawFrame
<1>2. gate = "worker" => from \in FramePcs
    BY DEF StepWorker, Inductive, GateKnown
<1>3. DrawEffect(from, to)
    BY <1>1, <1>2, CloseFrameEffect DEF DrawEffect, BusyStates, AcceptedPcs, DrawPcs
<1> QED BY <1>1, <1>3, DrawKeeps DEF Inductive

LEMMA MarkActiveInductive == ASSUME Inductive, MarkActive PROVE Inductive'
<1>1. TypeOK' BY MarkedDrawTyped DEF Inductive
<1>2. /\ worker = "mark" /\ worker' = "prewake" /\ panel' = panel /\ svc' = svc /\ gate' = gate
      /\ StepWorker("mark", "prewake") /\ DrawFrame
    BY DEF MarkActive, StepWorker
<1>3. /\ hw'.stage = "active" /\ hw'.coord = hw.coord /\ hw'.cpu = hw.cpu
      /\ hw'.mayBeActive = hw.mayBeActive /\ hw'.unavailable = hw.unavailable
    BY DEF MarkActive, Inductive, TypeOK, HwType
<1>4. flash'.marker = "active"
    BY SetMarkerEffect DEF MarkActive, Written, Inductive
<1>5. /\ flash.marker = "none" /\ ~hw.mayBeActive /\ ~hw.unavailable
      /\ panel.power = "off" /\ svc.state = "drawing"
    BY <1>2 DEF Inductive, TypeOK, PanelType, OwnerKnown, PanelKnown, DrawPcs, AcceptedPcs
<1>6. PanelKnown'
    <2>1. ~svc.recovery BY <1>2, DrawAlone DEF DrawPcs
    <2> QED BY <1>2, <1>3, <1>4, <1>5, <2>1 DEF Inductive, PanelKnown, SlowPcs
<1>7. DrawKnown' BY <1>2, <1>3, <1>4, <1>5 DEF DrawKnown
<1> QED BY <1>1, <1>2, <1>3, <1>5, <1>6, <1>7, MarkedDrawKeeps
        DEF DrawPcs, AcceptedPcs, FramePcs

(* When the marker cannot be verified it may stand without its RAM stage, but *)
(* recovery is required then.                                                 *)
LEMMA MarkActiveFailsInductive ==
    ASSUME Inductive, NEW cleared \in BOOLEAN, MarkActiveFails(cleared) PROVE Inductive'
<1>1. TypeOK' BY MarkedDrawTyped DEF Inductive
<1>2. /\ worker = "mark" /\ worker' = "poll" /\ panel' = panel /\ CloseFrame
      /\ StepWorker("mark", "poll") /\ DrawFrame
    BY DEF MarkActiveFails, StepWorker
<1>3. /\ flash.marker = "none" /\ hw.stage = "none" /\ ~hw.mayBeActive /\ ~hw.unavailable
      /\ panel.power = "off" /\ hw.cpu # 80
    <2>1. ~svc.recovery BY <1>2, DrawAlone DEF DrawPcs
    <2> QED BY <1>2, <2>1 DEF Inductive, TypeOK, PanelType, PanelKnown, SlowPcs
<1>4. /\ hw'.stage = "none" /\ hw'.coord = hw.coord /\ hw'.cpu = hw.cpu
      /\ hw'.mayBeActive = hw.mayBeActive /\ hw'.unavailable = hw.unavailable
    BY <1>3 DEF MarkActiveFails, Stage, Inductive, TypeOK, HwType
<1>5. svc'.state = "unavailable" /\ svc'.recovery = ~cleared /\ svc'.ready = svc.ready
    BY DEF MarkActiveFails, Inductive, TypeOK, ServiceType
<1>6. cleared => flash'.marker = "none"
    BY SetMarkerEffect DEF MarkActiveFails, Inductive
<1>7. PanelKnown' BY <1>2, <1>3, <1>4, <1>5, <1>6 DEF PanelKnown
<1>8. DrawKnown' BY <1>2 DEF DrawKnown
<1> QED BY <1>1, <1>2, <1>4, <1>5, <1>7, <1>8, MarkedDrawKeeps DEF DrawPcs, AcceptedPcs

\* What a marked draw knows of the panel at each of its steps.
LEMMA MarkedDraw ==
    ASSUME Inductive, worker \in (DrawPcs \ AcceptedPcs) \ {"mark"}
    PROVE  svc.state = "drawing" /\ ~svc.recovery /\ worker # "mark"
BY DrawAlone DEF Inductive, OwnerKnown

LEMMA PrewakeInductive == ASSUME Inductive, Prewake \/ PrewakeFails PROVE Inductive'
<1>1. TypeOK' BY MarkedDrawTyped DEF Inductive
<1>2. /\ worker = "prewake" /\ StepWorker("prewake", worker') /\ worker' \in {"init", "shutdown"}
      /\ panel' = panel /\ flash' = flash /\ svc' = svc /\ DrawFrame
      /\ (gate' = gate /\ worker' = "init") \/ CloseFrame
    BY DEF Prewake, PrewakeFails, StepWorker
<1>3. /\ hw'.stage = hw.stage /\ hw'.coord = hw.coord /\ hw'.unavailable = hw.unavailable
      /\ hw'.mayBeActive => hw.mayBeActive
    <2>1. hw \in HwType BY DEF Inductive, TypeOK
    <2>2. CASE Prewake BY <2>1, <2>2 DEF Prewake, HwType
    <2>3. CASE PrewakeFails BY <2>1, <2>3 DEF PrewakeFails, HwType
    <2> QED BY <2>2, <2>3
<1>4. svc.state = "drawing" /\ ~svc.recovery BY <1>2, MarkedDraw DEF DrawPcs, AcceptedPcs
<1>5. /\ flash.marker = "active" /\ hw.stage = "active" /\ ~hw.unavailable
      /\ ~hw.mayBeActive /\ panel.power = "off"
    BY <1>2 DEF Inductive, DrawKnown
<1>6. PanelKnown' BY <1>2, <1>3, <1>4, <1>5 DEF Inductive, PanelKnown, SlowPcs
<1>7. DrawKnown' BY <1>2, <1>3, <1>5 DEF DrawKnown
<1> QED BY <1>1, <1>2, <1>3, <1>4, <1>6, <1>7, MarkedDrawKeeps DEF DrawPcs, AcceptedPcs, FramePcs

LEMMA InitializeInductive ==
    ASSUME Inductive, InitializeFails \/ \E idle \in BOOLEAN : PowerOn(idle) PROVE Inductive'
<1>1. TypeOK' BY MarkedDrawTyped DEF Inductive
<1>2. /\ worker = "init" /\ StepWorker("init", worker') /\ worker' \in {"transfer", "shutdown"}
      /\ flash' = flash /\ DrawFrame
      /\ (gate' = gate /\ worker' = "transfer") \/ CloseFrame
    BY DEF InitializeFails, PowerOn, StepWorker
<1>3. svc.state = "drawing" /\ ~svc.recovery BY <1>2, MarkedDraw DEF DrawPcs, AcceptedPcs
<1>4. /\ flash.marker = "active" /\ hw.stage = "active" /\ ~hw.unavailable
      /\ ~hw.mayBeActive /\ panel.power = "off"
    BY <1>2 DEF Inductive, DrawKnown
<1>5. /\ svc'.state = svc.state /\ svc'.recovery = svc.recovery /\ svc'.ready = svc.ready
      /\ svc'.clearFailed = svc.clearFailed
      /\ hw'.stage = hw.stage /\ hw'.coord = hw.coord /\ hw'.unavailable = hw.unavailable
    BY DEF InitializeFails, PowerOn, Inductive, TypeOK, ServiceType, HwType
<1>6. \/ panel' = panel /\ hw' = hw /\ worker' = "shutdown"
      \/ panel'.power = "on" /\ hw'.mayBeActive
    BY DEF InitializeFails, PowerOn, StepWorker, Inductive, TypeOK, HwType
<1>7. PanelKnown' BY <1>2, <1>3, <1>4, <1>5, <1>6 DEF PanelKnown, SlowPcs
<1>8. DrawKnown' BY <1>2, <1>4, <1>5, <1>6 DEF DrawKnown
<1> QED BY <1>1, <1>2, <1>3, <1>5, <1>7, <1>8, MarkedDrawKeeps DEF DrawPcs, AcceptedPcs, FramePcs

LEMMA RefreshInductive ==
    ASSUME Inductive, Refresh \/ \E ok \in BOOLEAN : Transfer(ok) PROVE Inductive'
<1>1. TypeOK' BY MarkedDrawTyped DEF Inductive
<1>2. /\ worker \in {"transfer", "refresh"} /\ StepWorker(worker, worker')
      /\ worker' \in {"refresh", "shutdown"}
      /\ flash' = flash /\ panel' = panel /\ hw' = hw /\ svc' = svc /\ DrawFrame
      /\ (gate' = gate /\ worker = "refresh") \/ CloseFrame
    BY DEF Refresh, Transfer, StepWorker
<1>3. svc.state = "drawing" /\ ~svc.recovery BY <1>2, MarkedDraw DEF DrawPcs, AcceptedPcs
<1>4. PanelKnown' BY <1>2, <1>3 DEF Inductive, PanelKnown, SlowPcs
<1>5. DrawKnown' BY <1>2 DEF Inductive, DrawKnown
<1> QED BY <1>1, <1>2, <1>3, <1>4, <1>5, MarkedDrawKeeps DEF DrawPcs, AcceptedPcs, FramePcs

(* Only a shutdown that fails leaves the panel possibly with power, and then *)
(* its marker stays active.                                                  *)
LEMMA ShutdownInductive ==
    ASSUME Inductive, \/ ShutdownFails \/ ShutdownPanel
                      \/ \E ok \in BOOLEAN : ShutdownUnwoken(ok)
    PROVE  Inductive'
<1>1. TypeOK' BY MarkedDrawTyped DEF Inductive
<1>2. /\ worker = "shutdown" /\ StepWorker("shutdown", worker') /\ worker' \in {"confirm", "finish"}
      /\ DrawFrame /\ gate' = gate
    BY DEF ShutdownFails, ShutdownPanel, ShutdownUnwoken, StepWorker
<1>3. svc.state = "drawing" /\ ~svc.recovery BY <1>2, MarkedDraw DEF DrawPcs, AcceptedPcs
<1>4. /\ flash.marker = "active" /\ hw.stage = "active" /\ ~hw.unavailable
      /\ panel.power = IF hw.mayBeActive THEN "on" ELSE "off"
    BY <1>2 DEF Inductive, DrawKnown
<1>5. /\ svc'.state = svc.state /\ svc'.recovery = svc.recovery /\ svc'.ready = svc.ready
      /\ svc'.clearFailed = svc.clearFailed
    BY DEF ShutdownFails, ShutdownPanel, ShutdownUnwoken, PoweringOff, Inductive, TypeOK, ServiceType
<1>6. CASE ShutdownFails
    <2>1. /\ flash' = flash /\ hw'.unavailable /\ hw'.stage = hw.stage /\ hw'.coord = hw.coord
          /\ worker' = "finish"
        BY <1>6 DEF ShutdownFails, StepWorker, Inductive, TypeOK, HwType
    <2>2. PanelKnown' BY <1>2, <1>3, <1>4, <1>5, <2>1 DEF PanelKnown, SlowPcs
    <2>3. DrawKnown' BY <2>1 DEF DrawKnown
    <2> QED BY <1>1, <1>2, <1>3, <1>5, <2>1, <2>2, <2>3, MarkedDrawKeeps
            DEF DrawPcs, AcceptedPcs, FramePcs
<1>7. CASE ShutdownPanel
    <2>1. /\ flash' = flash /\ hw'.unavailable = hw.unavailable /\ ~hw'.mayBeActive
          /\ hw'.stage = hw.stage /\ hw'.coord = hw.coord
          /\ worker' = "confirm" /\ panel'.power = "off"
        BY <1>7 DEF ShutdownPanel, StepWorker, Inductive, TypeOK, HwType, PanelType
    <2>2. PanelKnown' BY <1>2, <1>3, <1>4, <1>5, <2>1 DEF PanelKnown, SlowPcs
    <2>3. DrawKnown' BY <1>4, <2>1 DEF DrawKnown
    <2> QED BY <1>1, <1>2, <1>3, <1>5, <2>1, <2>2, <2>3, MarkedDrawKeeps
            DEF DrawPcs, AcceptedPcs, FramePcs
<1>8. ASSUME NEW ok \in BOOLEAN, ShutdownUnwoken(ok) PROVE Inductive'
    <2>1. /\ hw'.unavailable = ~ok /\ hw'.mayBeActive = hw.mayBeActive /\ hw'.coord = hw.coord
          /\ hw'.stage = (IF ok THEN "none" ELSE "active") /\ hw'.cpu = hw.cpu
          /\ worker' = "finish" /\ panel' = panel /\ ~hw.mayBeActive
        BY <1>4, <1>8 DEF ShutdownUnwoken, Stage, StepWorker, Inductive, TypeOK, HwType
    <2>2. flash'.marker = "none" \/ (~ok /\ flash'.marker = "active")
        BY <1>4, <1>8, SetMarkerEffect DEF ShutdownUnwoken, Written, Inductive
    <2>3. PanelKnown' BY <1>2, <1>3, <1>4, <1>5, <2>1, <2>2 DEF PanelKnown, SlowPcs
    <2>4. DrawKnown' BY <1>4, <2>1, <2>2 DEF DrawKnown
    <2> QED BY <1>1, <1>2, <1>3, <1>5, <2>1, <2>3, <2>4, MarkedDrawKeeps
            DEF DrawPcs, AcceptedPcs, FramePcs
<1> QED BY <1>6, <1>7, <1>8

LEMMA ConfirmShutdownInductive ==
    ASSUME Inductive, NEW ok \in BOOLEAN, ConfirmShutdown(ok) PROVE Inductive'
<1>1. TypeOK' BY MarkedDrawTyped DEF Inductive
<1>2. /\ worker = "confirm" /\ worker' = "finish" /\ StepWorker("confirm", "finish")
      /\ DrawFrame /\ gate' = gate /\ svc' = svc /\ panel' = panel
    BY DEF ConfirmShutdown, StepWorker
<1>3. svc.state = "drawing" /\ ~svc.recovery BY <1>2, MarkedDraw DEF DrawPcs, AcceptedPcs
<1>4. /\ flash.marker = "active" /\ hw.stage = "active" /\ ~hw.mayBeActive /\ panel.power = "off"
    BY <1>2 DEF Inductive, DrawKnown
<1>5. /\ hw'.unavailable = ~ok /\ hw'.mayBeActive = hw.mayBeActive /\ hw'.coord = hw.coord
      /\ hw'.stage = (IF ok THEN "confirmed" ELSE "active")
    BY <1>4 DEF ConfirmShutdown, Stage, Inductive, TypeOK, HwType
<1>6. flash'.marker = "confirmed" \/ (~ok /\ flash'.marker = "active")
    BY <1>4, SetMarkerEffect DEF ConfirmShutdown, Written, Inductive
<1>7. PanelKnown' BY <1>2, <1>3, <1>4, <1>5, <1>6 DEF PanelKnown, SlowPcs
<1>8. DrawKnown' BY <1>2, <1>4, <1>5, <1>6 DEF DrawKnown
<1> QED BY <1>1, <1>2, <1>3, <1>5, <1>7, <1>8, MarkedDrawKeeps
        DEF DrawPcs, AcceptedPcs, FramePcs

(* The end of a draw: a cooldown begins with all of the rest still owed, or  *)
(* the panel was never woken, or the service becomes unavailable.            *)
LEMMA FinishDrawInductive ==
    ASSUME Inductive, NEW restored \in BOOLEAN, FinishDraw(restored) PROVE Inductive'
<1> DEFINE safe  == ~hw.unavailable
           rests == safe /\ hw.stage = "confirmed"
<1>1. TypeOK' BY FinishDrawTyped DEF Inductive
<1>2. /\ worker = "finish" /\ worker' = "poll" /\ StepWorker("finish", "poll")
      /\ panel' = panel /\ flash' = flash /\ drain' = drain /\ gate' = gate /\ queue' = queue
    BY DEF FinishDraw, StepWorker
<1>3. svc.state = "drawing" /\ ~svc.recovery BY <1>2, MarkedDraw DEF DrawPcs, AcceptedPcs
<1>4. /\ hw'.stage = hw.stage /\ hw'.coord = hw.coord /\ hw'.unavailable = hw.unavailable
      /\ hw'.mayBeActive = hw.mayBeActive
      /\ restored => hw'.cpu = 160
    <2>1. hw \in HwType BY DEF Inductive, TypeOK
    <2>2. CASE hw.held
        <3>1. PICK mhz \in (IF restored THEN {160} ELSE {80, 160}) :
                 hw' = [hw EXCEPT !.held = FALSE, !.cpu = mhz]
            BY <2>2 DEF FinishDraw
        <3> QED BY <2>1, <3>1 DEF HwType
    <2>3. CASE ~hw.held
        BY <2>3 DEF FinishDraw
    <2> QED BY <2>2, <2>3
<1>5. /\ svc'.ready = svc.ready /\ ~svc'.clearFailed
      /\ IF safe /\ restored
         THEN svc'.state = (IF rests THEN "cooldown" ELSE "idle") /\ ~svc'.recovery
         ELSE svc'.state = "unavailable" /\ svc'.recovery
    <2>1. svc' = [svc EXCEPT
                !.completed = svc.op, !.clearFailed = FALSE,
                !.state = IF safe /\ restored THEN (IF rests THEN "cooldown" ELSE "idle")
                                             ELSE "unavailable",
                !.panel = CASE ~safe -> "unknown" [] rests -> "sleeping" [] OTHER -> "inactive",
                !.recovery = @ \/ ~safe \/ ~restored]
        BY DEF FinishDraw
    <2>2. svc \in ServiceType BY DEF Inductive, TypeOK
    <2> HIDE DEF safe, rests
    <2> QED BY <1>3, <2>1, <2>2 DEF ServiceType
<1>6. /\ clear'.pending = clear.pending /\ clear'.running = clear.running
      /\ IF rests THEN clear'.cool = "cooling" /\ clear'.age = 0
                  ELSE clear'.cool = "unavailable" \/ clear'.cool = clear.cool
    <2>1. /\ ~safe => clear' = [clear EXCEPT !.cool = "unavailable"]
          /\ rests => BeginCooldown
          /\ safe /\ ~rests => clear' = clear
        BY DEF FinishDraw
    <2>2. clear \in ClearType BY DEF Inductive, TypeOK
    <2>3. CASE ~safe BY <2>1, <2>2, <2>3 DEF ClearType
    <2>4. CASE rests
        <3>1. PICK seen \in {"none", "early", "elapsed"} :
                 clear' = [clear EXCEPT !.cool = "cooling", !.age = 0, !.retry = "none",
                                           !.seen = seen]
            BY <2>1, <2>4 DEF BeginCooldown
        <3> QED BY <2>2, <2>4, <3>1 DEF ClearType
    <2>5. CASE safe /\ ~rests
        <3>1. clear' = clear BY <2>1, <2>5
        <3> QED BY <2>5, <3>1
    <2> QED BY <2>3, <2>4, <2>5
<1>7. safe => /\ ~hw.mayBeActive /\ panel.power = "off"
              /\ hw.stage \in {"none", "confirmed"} /\ flash.marker = hw.stage
    BY <1>2 DEF Inductive, DrawKnown, TypeOK, HwType, Stages
<1>8. ~clear.pending /\ ~clear.running /\ clear.cool # "cooling"
    BY <1>2, DrawAlone DEF DrawPcs
<1>9. CooldownKnown'
    <2>1. panel.debt + 0 <= Cool BY ConstantsAssumption DEF Inductive, TypeOK, PanelType
    <2>2. CASE rests
        <3>1. /\ clear'.cool = "cooling" /\ clear'.age = 0
              /\ ~clear'.pending /\ ~clear'.running
            BY <1>6, <1>8, <2>2
        <3>2. /\ ~hw'.unavailable /\ ~hw'.mayBeActive /\ hw'.stage = "confirmed"
              /\ panel'.power = "off" /\ flash'.marker = "confirmed"
            BY <1>2, <1>4, <1>7, <2>2
        <3>3. svc'.state \in {"cooldown", "unavailable"} BY <1>5, <2>2
        <3>4. panel'.debt + clear'.age <= Cool
            <4> HIDE DEF safe, rests
            <4>1. panel'.debt = panel.debt /\ clear'.age = 0 BY <1>2, <3>1
            <4> QED BY <2>1, <4>1
        <3>5. worker' # "clear" BY <1>2
        <3> HIDE DEF safe, rests
        <3> QED BY <3>1, <3>2, <3>3, <3>4, <3>5 DEF CooldownKnown, PanelSafe
    <2>3. CASE ~rests
        <3>1. svc'.state # "cooldown" BY <1>5, <2>3
        <3>2. clear'.cool # "cooling" BY <1>6, <1>8, <2>3
        <3> QED BY <1>2, <1>6, <1>8, <3>1, <3>2 DEF CooldownKnown
    <2> QED BY <2>2, <2>3
<1>10. PanelKnown'
    <2>1. svc'.state \in {"idle", "uploading", "queued"} => safe /\ hw.stage = "none"
        BY <1>5, <1>7
    <2>2. svc'.recovery => svc'.state = "unavailable" BY <1>3, <1>5
    <2>3. hw'.cpu = 80 => svc'.recovery /\ ~svc'.clearFailed
        <3>1. CASE restored
            <4>1. hw'.cpu = 160 BY <1>4, <3>1
            <4> QED BY <4>1
        <3>2. CASE ~restored
            <4>1. svc'.recovery /\ ~svc'.clearFailed BY <1>5, <3>2
            <4> QED BY <4>1
        <3> QED BY <3>1, <3>2
    <2>4. /\ panel.power = "on" => flash.marker = "active"
          /\ hw.coord /\ panel.power = "on" => hw.stage = "active"
          /\ hw.coord /\ flash.marker = "active" => hw.stage = "active" \/ svc.recovery
        BY DEF Inductive, PanelKnown
    <2>5. svc'.state \in {"idle", "uploading", "queued"} =>
             /\ flash'.marker = "none" /\ hw'.stage = "none"
             /\ ~hw'.mayBeActive /\ ~hw'.unavailable
        <3>1. safe => ~hw.unavailable OBVIOUS
        <3> HIDE DEF safe, rests
        <3> SUFFICES ASSUME svc'.state \in {"idle", "uploading", "queued"}
                     PROVE  /\ flash'.marker = "none" /\ hw'.stage = "none"
                            /\ ~hw'.mayBeActive /\ ~hw'.unavailable
            OBVIOUS
        <3>2. safe /\ hw.stage = "none" BY <2>1
        <3>3. ~hw.unavailable /\ ~hw.mayBeActive /\ flash.marker = "none" BY <1>7, <3>1, <3>2
        <3>4. flash'.marker = "none" /\ hw'.stage = "none" BY <1>2, <1>4, <3>2, <3>3
        <3>5. ~hw'.mayBeActive /\ ~hw'.unavailable BY <1>4, <3>3
        <3> QED BY <3>4, <3>5
    <2>6. /\ panel'.power = "on" => flash'.marker = "active"
          /\ hw'.coord /\ panel'.power = "on" => hw'.stage = "active"
          /\ hw'.coord /\ flash'.marker = "active" => hw'.stage = "active" \/ svc'.recovery
        <3> HIDE DEF safe, rests
        <3> QED BY <1>2, <1>3, <1>4, <2>4
    <2> HIDE DEF safe, rests
    <2> QED BY <1>2, <2>2, <2>3, <2>5, <2>6 DEF PanelKnown
<1>11. DrawKnown' BY <1>2 DEF DrawKnown
<1>12. DrawEffect("finish", "poll")
    <2>1. gate # "worker" BY <1>2 DEF Inductive, GateKnown, FramePcs
    <2>2. svc'.state \in {"unavailable", "cooldown", "idle"} BY <1>5
    <2> QED BY <1>2, <1>4, <1>5, <2>1, <2>2
            DEF DrawEffect, DrawPcs, AcceptedPcs, BusyStates
<1> QED BY <1>1, <1>9, <1>10, <1>11, <1>12, DrawKeeps DEF Inductive

-----------------------------------------------------------------------------
(* The worker between two draws.                                             *)

LEMMA WorkerPollInductive == ASSUME Inductive, WorkerPoll PROVE Inductive'
<1>1. TypeOK' BY AcceptedDrawTyped DEF Inductive
<1>2. /\ device.sys = "run" /\ worker = "poll" /\ worker' = "control"
      /\ device' = device /\ client' = client /\ sleep' = sleep
      /\ panel' = panel /\ flash' = flash /\ hw' = hw /\ svc' = svc /\ drain' = drain
      /\ image' = image /\ gate' = gate /\ queue' = queue
    BY DEF WorkerPoll, StepWorker, WorkerFrame, Running
<1>3. /\ clear'.pending => clear.pending \/ PollSets(CoolElapsed)
      /\ clear'.running = clear.running /\ clear'.cool = clear.cool /\ clear'.age = clear.age
      /\ clear'.seen = clear.seen
    BY DEF WorkerPoll, Inductive, TypeOK, ClearType
<1>0. PollSets(CoolElapsed) =>
         /\ clear.cool = "cooling" /\ hw.cpu = 160 /\ ~drain.closed /\ worker # "clear"
         /\ panel.debt = 0
    <2>1. CoolElapsed \in BOOLEAN BY DEF CoolElapsed
    <2>2. PollSets(CoolElapsed) => clear.cool = "cooling" /\ CoolElapsed BY DEF PollSets
    <2> QED BY <2>1, <2>2, PollSetsKnown, ElapsedRested
<1>4. DeviceKnown' BY <1>2 DEF Inductive, DeviceKnown, Running, Recovers
<1>5. OwnerKnown' /\ BusyKnown'
    BY <1>2 DEF Inductive, OwnerKnown, BusyKnown, AcceptedPcs, DrawPcs
<1>6. GateKnown' /\ DrainKnown'
    BY <1>2 DEF Inductive, GateKnown, DrainKnown, FramePcs
<1>7. PanelKnown' /\ DrawKnown'
    BY <1>2 DEF Inductive, PanelKnown, DrawKnown, SlowPcs
<1>8. CooldownKnown'
    BY <1>0, <1>2, <1>3 DEF Inductive, CooldownKnown, PanelSafe
<1>9. ApprovalKnown'
    <2>1. drain.sleepReady => ~clear'.pending
        BY <1>0, <1>3 DEF Inductive, ApprovalKnown, DrainKnown, SleepSafe
    <2>2. drain.restart = "ready" =>
             /\ PanelSafe' /\ panel'.power = "off" /\ flash'.marker # "active" /\ hw'.cpu = 160
             /\ gate' = "restart" /\ svc'.state \notin BusyStates
        BY <1>2 DEF Inductive, ApprovalKnown, PanelSafe
    <2> QED BY <1>2, <1>3, <2>1, <2>2 DEF Inductive, ApprovalKnown, SleepSafe, PanelSafe, Busy
<1> QED BY <1>1, <1>4, <1>5, <1>6, <1>7, <1>8, <1>9 DEF Inductive

LEMMA ReceiveInductive == ASSUME Inductive, Receive PROVE Inductive'
<1>1. TypeOK' BY AcceptedDrawTyped DEF Inductive
<1>2. /\ device.sys = "run" /\ worker = "receive" /\ queue' = "empty"
      /\ device' = device /\ client' = client /\ sleep' = sleep
      /\ panel' = panel /\ flash' = flash /\ hw' = hw /\ svc' = svc /\ drain' = drain
      /\ clear' = clear /\ image' = image /\ gate' = gate
    BY DEF Receive, StepWorker, WorkerFrame, Running
<1>3. IF queue = "empty" THEN worker' = "poll" ELSE worker' \in {"validate", "draw"}
    BY DEF Receive, StepWorker, Inductive, TypeOK, Sources
<1>4. queue # "empty" => svc.state = "queued" /\ \A c \in Clients : client[c] \notin OwnerPcs
    BY DEF Inductive, OwnerKnown
<1>5. DeviceKnown' BY <1>2 DEF Inductive, DeviceKnown, Running, Recovers
<1>6. OwnerKnown'
    BY <1>2, <1>3, <1>4 DEF Inductive, OwnerKnown, AcceptedPcs, DrawPcs
<1>7. BusyKnown'
    BY <1>2, <1>3, <1>4 DEF Inductive, BusyKnown, AcceptedPcs, DrawPcs
<1>8. GateKnown'
    <2>1. gate # "worker" BY <1>2 DEF Inductive, GateKnown, FramePcs
    <2> QED BY <1>2, <1>3, <2>1 DEF Inductive, GateKnown
<1>9. DrainKnown' /\ CooldownKnown'
    BY <1>2, <1>3 DEF Inductive, DrainKnown, CooldownKnown, PanelSafe
<1>10. PanelKnown' /\ DrawKnown'
    BY <1>2, <1>3 DEF Inductive, PanelKnown, DrawKnown, SlowPcs
<1>11. ApprovalKnown'
    BY <1>2 DEF Inductive, ApprovalKnown, SleepSafe, PanelSafe, Busy
<1> QED BY <1>1, <1>5, <1>6, <1>7, <1>8, <1>9, <1>10, <1>11 DEF Inductive

(* The end of a marker clear.  A clear that releases is a clear of a rested   *)
(* panel whose marker is gone: the service is idle again.                     *)
LEMMA ClearMarkerInductive ==
    ASSUME Inductive, NEW ok \in BOOLEAN, ClearMarker(ok) PROVE Inductive'
<1>1. TypeOK' BY ClearMarkerTyped DEF Inductive
<1> DEFINE releases == clear.gen = svc.op /\ ok /\ clear.rested
           fails    == clear.gen = svc.op /\ ~ok
<1>2. /\ device.sys = "run" /\ worker = "clear" /\ worker' \in {"receive", "none"}
      /\ device' = device /\ client' = client /\ sleep' = sleep
      /\ panel' = panel /\ image' = image /\ gate' = gate /\ queue' = queue
    BY DEF ClearMarker, StepWorker, WorkerFrame, Running, Resume
<1>3. /\ clear.running /\ ~clear.pending /\ clear.cool = "cooling"
      /\ hw.cpu = 160 /\ PanelSafe /\ panel.power = "off" /\ flash.marker # "active"
      /\ svc.state \in {"cooldown", "unavailable"}
    BY <1>2 DEF Inductive, CooldownKnown
<1>4. /\ hw'.unavailable = hw.unavailable /\ hw'.mayBeActive = hw.mayBeActive
      /\ hw'.coord = hw.coord /\ hw'.cpu = hw.cpu
      /\ hw'.stage = (IF ok THEN "none" ELSE hw.stage)
    BY DEF ClearMarker, Stage, Inductive, TypeOK, HwType
<1>5. flash'.marker = "none" \/ (~ok /\ flash'.marker = flash.marker)
    BY SetMarkerEffect DEF ClearMarker, Written, Inductive
<1>6. /\ ~clear'.running /\ ~clear'.pending
      /\ clear'.cool = (IF releases THEN "idle" ELSE "cooling") /\ clear'.seen = clear.seen
      /\ ~releases => clear'.age = clear.age
    <2>1. clear' = LET after == [clear EXCEPT !.running = FALSE, !.rested = FALSE, !.gen = 0]
                   IN  CASE releases -> [after EXCEPT !.cool = "idle", !.age = 0, !.retry = "none"]
                         [] fails    -> [after EXCEPT !.retry = "backoff"]
                         [] OTHER    -> after
        BY DEF ClearMarker
    <2>2. clear \in ClearType BY DEF Inductive, TypeOK
    <2>3. ~(releases /\ fails) OBVIOUS
    <2> HIDE DEF releases, fails
    <2>4. CASE releases BY <1>3, <2>1, <2>2, <2>3, <2>4 DEF ClearType
    <2>5. CASE fails BY <1>3, <2>1, <2>2, <2>3, <2>5 DEF ClearType
    <2>6. CASE ~releases /\ ~fails BY <1>3, <2>1, <2>2, <2>6 DEF ClearType
    <2> QED BY <2>4, <2>5, <2>6
<1>7. /\ svc'.ready = svc.ready
      /\ IF releases THEN svc'.state = "idle" /\ ~svc'.recovery
         ELSE /\ svc'.state \in {svc.state, "unavailable"}
              /\ svc'.recovery => svc'.state = "unavailable"
              /\ svc.recovery => svc'.recovery
    <2>1. svc' = CASE releases -> [svc EXCEPT !.state = "idle", !.panel = "sleeping",
                                                 !.recovery = FALSE]
                      [] fails    -> [svc EXCEPT !.state = "unavailable", !.panel = "unknown",
                                                 !.recovery = TRUE, !.clearFailed = TRUE]
                      [] OTHER    -> svc
        BY DEF ClearMarker
    <2>2. svc \in ServiceType /\ (svc.recovery => svc.state = "unavailable")
        BY DEF Inductive, TypeOK, PanelKnown
    <2>3. ~(releases /\ fails) OBVIOUS
    <2> HIDE DEF releases, fails
    <2>4. CASE releases BY <2>1, <2>2, <2>3, <2>4 DEF ServiceType
    <2>5. CASE fails BY <2>1, <2>2, <2>3, <2>5 DEF ServiceType
    <2>6. CASE ~releases /\ ~fails
        <3>1. svc' = svc BY <2>1, <2>6
        <3> QED BY <2>2, <2>6, <3>1
    <2> QED BY <2>4, <2>5, <2>6
<1>8. /\ drain'.sleeping = drain.sleeping /\ drain'.sleepReady = drain.sleepReady
      /\ drain'.restart = drain.restart
      /\ drain'.closed = (drain.closed /\ ~(releases /\ drain.restart = "failed"))
    BY DEF ClearMarker, Inductive, TypeOK, DrainType
<1>9. releases => ok OBVIOUS
<1> HIDE DEF releases, fails
<1>10. DeviceKnown' BY <1>2 DEF Inductive, DeviceKnown, Running, Recovers
<1>11. svc'.state \notin BusyStates BY <1>3, <1>7 DEF BusyStates
<1>12. svc.state \notin BusyStates BY <1>3 DEF BusyStates
<1>13. OwnerKnown' /\ BusyKnown'
    <2>1. /\ \A c \in Clients : client[c] \notin OwnerPcs
          /\ queue = "empty"
        BY <1>12 DEF Inductive, OwnerKnown, BusyStates, TypeOK
    <2> QED BY <1>2, <1>11, <2>1 DEF OwnerKnown, BusyKnown, AcceptedPcs, DrawPcs, BusyStates
<1>14. drain.restart # "ready" /\ ~drain.sleepReady
    BY <1>2, <1>3 DEF Inductive, DrainKnown, ApprovalKnown, Busy
<1>15. GateKnown' BY <1>2, <1>8, <1>14 DEF Inductive, GateKnown, FramePcs
<1>16. DrainKnown' BY <1>2, <1>4, <1>7, <1>8, <1>14 DEF Inductive, DrainKnown
<1>17. flash'.marker # "active" /\ hw'.stage # "active" /\ ~hw'.unavailable /\ ~hw'.mayBeActive
    BY <1>3, <1>4, <1>5 DEF PanelSafe
<1>18. CooldownKnown'
    <2>1. svc'.state = "cooldown" => ~releases BY <1>7
    <2>2. ~releases => svc'.state \in {"cooldown", "unavailable"} BY <1>3, <1>7
    <2>3. panel.debt = 0 \/ panel.debt + clear.age <= Cool
        BY <1>3 DEF Inductive, CooldownKnown
    <2> QED BY <1>2, <1>3, <1>6, <1>17, <2>1, <2>2, <2>3 DEF CooldownKnown, PanelSafe
<1>19. PanelKnown'
    <2>1. svc'.state \in {"idle", "uploading", "queued"} =>
             flash'.marker = "none" /\ hw'.stage = "none"
        <3>1. svc'.state \in {"idle", "uploading", "queued"} => releases BY <1>3, <1>7
        <3> QED BY <1>4, <1>5, <1>9, <3>1
    <2>2. svc'.recovery => svc'.state = "unavailable" BY <1>7
    <2> QED BY <1>2, <1>3, <1>4, <1>17, <2>1, <2>2 DEF PanelKnown
<1>20. DrawKnown' BY <1>2 DEF DrawKnown
<1>21. ApprovalKnown' BY <1>2, <1>8, <1>14 DEF Inductive, ApprovalKnown
<1> QED BY <1>1, <1>10, <1>13, <1>15, <1>16, <1>18, <1>19, <1>20, <1>21 DEF Inductive

(* A pass of processControl that has nothing to settle: at most the sleep is *)
(* approved, of a panel the coordinator knows to be without power.           *)
LEMMA ControlReturnsInductive ==
    ASSUME Inductive, Control, ControlReturns PROVE Inductive'
<1>1. TypeOK' BY ControlTyped DEF Inductive
<1>2. /\ device.sys = "run" /\ worker = "control" /\ worker' \in {"receive", "none"}
      /\ device' = device /\ client' = client /\ sleep' = sleep
      /\ panel' = panel /\ flash' = flash /\ hw' = hw /\ svc' = svc /\ clear' = clear
      /\ image' = image /\ gate' = gate /\ queue' = queue
    BY DEF Control, StepWorker, WorkerFrame, Running, Resume
<1>3. /\ drain'.sleepReady => drain.sleepReady \/ ~Busy
      /\ drain'.closed = drain.closed /\ drain'.sleeping = drain.sleeping
      /\ drain'.restart = drain.restart
      /\ drain.sleepReady => drain'.sleepReady
    BY DEF Control, Inductive, TypeOK, DrainType
<1>4. DeviceKnown' BY <1>2 DEF Inductive, DeviceKnown, Running, Recovers
<1>5. OwnerKnown' /\ BusyKnown'
    BY <1>2 DEF Inductive, OwnerKnown, BusyKnown, AcceptedPcs, DrawPcs
<1>6. GateKnown' BY <1>2, <1>3 DEF Inductive, GateKnown, FramePcs
<1>7. DrainKnown' /\ CooldownKnown'
    BY <1>2, <1>3 DEF Inductive, DrainKnown, CooldownKnown, PanelSafe
<1>8. PanelKnown' /\ DrawKnown'
    BY <1>2 DEF Inductive, PanelKnown, DrawKnown, SlowPcs
<1>9. ApprovalKnown'
    <2>1. ~drain.sleepReady /\ ~Busy => drain.sleeping /\ SleepSafe /\ panel.power = "off"
        BY DEF ControlReturns, SleepSafe, PanelSafe, Inductive, DrainKnown, PanelKnown,
               TypeOK, PanelType
    <2>2. drain'.sleepReady => drain.sleeping /\ SleepSafe /\ ~Busy /\ panel.power = "off"
        BY <1>3, <2>1 DEF Inductive, ApprovalKnown
    <2>3. SleepSafe' = SleepSafe /\ Busy' = Busy /\ PanelSafe' = PanelSafe
        BY <1>2 DEF SleepSafe, Busy, PanelSafe
    <2> QED BY <1>2, <1>3, <2>2, <2>3 DEF Inductive, ApprovalKnown
<1> QED BY <1>1, <1>4, <1>5, <1>6, <1>7, <1>8, <1>9 DEF Inductive

(* A pass that settles the drain: no work is accepted, and a restart is      *)
(* approved only for a panel without power, its clock and marker settled.    *)
LEMMA ControlSettlesInductive ==
    ASSUME Inductive, Control, ~ControlReturns PROVE Inductive'
<1>1. TypeOK' BY ControlTyped DEF Inductive
<1>2. /\ device.sys = "run" /\ worker = "control"
      /\ device' = device /\ client' = client /\ sleep' = sleep
      /\ panel' = panel /\ flash' = flash /\ hw' = hw
      /\ image' = image /\ queue' = queue
      /\ gate' = (IF DrainApproves THEN "restart" ELSE gate)
      /\ ~Busy /\ ~(drain.sleeping /\ SleepSafe)
    BY DEF Control, StepWorker, WorkerFrame, Running, ControlReturns
<1>3. /\ worker' \in {"restart", "clear", "receive", "none"}
      /\ worker' = "restart" <=> DrainApproves
      /\ worker' = "clear" <=> ClearStarts
    <2>1. worker' = CASE DrainApproves -> "restart" [] ClearStarts -> "clear" [] OTHER -> Resume
        BY DEF Control, StepWorker
    <2>2. ~(DrainApproves /\ ClearStarts) BY DEF ClearStarts
    <2>3. Resume \in {"receive", "none"} BY DEF Resume
    <2> HIDE DEF DrainApproves, ClearStarts
    <2>4. CASE DrainApproves BY <2>1, <2>2, <2>4
    <2>5. CASE ClearStarts BY <2>1, <2>2, <2>5
    <2>6. CASE ~DrainApproves /\ ~ClearStarts BY <2>1, <2>3, <2>6
    <2> QED BY <2>4, <2>5, <2>6
<1>4. drain.restart # "ready" /\ ~clear.running
    BY <1>2 DEF Inductive, DrainKnown, Busy
<1>5. svc.state \notin BusyStates BY <1>2 DEF Busy
<1>6. /\ svc'.ready = svc.ready /\ svc'.clearFailed = svc.clearFailed
      /\ svc'.state = (IF DrainHurt THEN "unavailable" ELSE svc.state)
      /\ IF DrainHurt THEN svc'.recovery ELSE svc'.recovery = svc.recovery
    <2>1. svc' = IF DrainHurt THEN [svc EXCEPT !.recovery = TRUE, !.state = "unavailable",
                                             !.panel = "unknown"] ELSE svc
        BY DEF Control
    <2> QED BY <2>1 DEF Inductive, TypeOK, ServiceType
<1>7. /\ ~drain'.sleepReady /\ drain'.sleeping = drain.sleeping
      /\ drain'.closed = (drain.closed /\ ~DrainReopens)
      /\ DrainFails => drain'.restart = "failed"
      /\ DrainApproves => drain'.restart = "ready"
      /\ ~DrainFails /\ ~DrainApproves => drain'.restart = drain.restart
    <2>1. drain' = [drain EXCEPT
                  !.sleepReady = @ /\ ~drain.sleeping,
                  !.closed  = @ /\ ~DrainReopens,
                  !.restart = CASE DrainFails -> "failed" [] DrainApproves -> "ready"
                                [] OTHER -> @,
                  !.allowed = @ /\ ~DrainFails /\ ~DrainApproves,
                  !.age     = IF DrainFails \/ DrainApproves THEN 0 ELSE @]
        BY DEF Control
    <2>2. drain \in DrainType /\ (drain.sleepReady => drain.sleeping)
        BY DEF Inductive, TypeOK, ApprovalKnown
    <2>3. ~(DrainFails /\ DrainApproves) BY DEF DrainApproves
    <2>4. /\ drain'.sleepReady = (drain.sleepReady /\ ~drain.sleeping)
          /\ drain'.sleeping = drain.sleeping
          /\ drain'.closed = (drain.closed /\ ~DrainReopens)
          /\ drain'.restart = CASE DrainFails -> "failed" [] DrainApproves -> "ready"
                                [] OTHER -> drain.restart
        BY <2>1, <2>2 DEF DrainType
    <2>5. CASE DrainFails BY <2>2, <2>3, <2>4, <2>5
    <2>6. CASE DrainApproves BY <2>2, <2>3, <2>4, <2>6
    <2>7. CASE ~DrainFails /\ ~DrainApproves BY <2>2, <2>4, <2>7
    <2> QED BY <2>5, <2>6, <2>7
<1>8. /\ clear'.cool = clear.cool /\ clear'.age = clear.age /\ clear'.seen = clear.seen
      /\ clear'.pending => clear.pending
      /\ IF ClearStarts THEN clear'.running /\ ~clear'.pending /\ clear.pending
                        ELSE ~clear'.running
    <2>1. clear' = IF ClearStarts
                   THEN [clear EXCEPT !.pending = FALSE, !.running = TRUE,
                                      !.rested = CoolElapsed, !.gen = svc.op]
                   ELSE [clear EXCEPT !.pending = @ /\ ~DrainApproves]
        BY DEF Control
    <2>2. clear \in ClearType BY DEF Inductive, TypeOK
    <2>3. CASE ClearStarts
        <3>1. clear.pending BY <2>3 DEF ClearStarts
        <3> QED BY <2>1, <2>2, <2>3, <3>1 DEF ClearType
    <2>4. CASE ~ClearStarts BY <1>4, <2>1, <2>2, <2>4 DEF ClearType
    <2> QED BY <2>3, <2>4
<1>9. DeviceKnown' BY <1>2 DEF Inductive, DeviceKnown, Running, Recovers
<1>10. svc'.state \notin BusyStates BY <1>5, <1>6 DEF BusyStates
<1>11. OwnerKnown' /\ BusyKnown'
    <2>1. /\ \A c \in Clients : client[c] \notin OwnerPcs
          /\ queue = "empty"
        BY <1>5 DEF Inductive, OwnerKnown, BusyStates, TypeOK
    <2> QED BY <1>2, <1>3, <1>10, <2>1 DEF OwnerKnown, BusyKnown, AcceptedPcs, DrawPcs, BusyStates
<1>12. sleep # "reserved" BY <1>2 DEF Inductive, ApprovalKnown
<1>13. GateKnown'
    <2>1. gate # "worker" /\ gate # "restart" BY <1>2, <1>4 DEF Inductive, GateKnown, FramePcs
    <2>2. DrainApproves => gate = "free" BY DEF DrainApproves
    <2>3. \A c \in Clients : c # "free" /\ c # "restart" BY ConstantsAssumption DEF GateUsers
    <2>4. \A c \in Clients : gate' = c <=> gate = c BY <1>2, <2>2, <2>3
    <2>5. gate' = "restart" => drain'.restart = "ready" BY <1>2, <1>7, <2>1
    <2> QED BY <1>2, <1>3, <2>1, <2>4, <2>5 DEF Inductive, GateKnown
<1>14. DrainKnown'
    <2>1. DrainReopens => drain.restart = "failed" \/ DrainFails BY DEF DrainReopens
    <2>2. DrainFails => drain.restart = "draining" BY DEF DrainFails
    <2>3. DrainApproves => drain.restart = "draining" /\ ~DrainFails BY DEF DrainApproves
    <2>4. drain'.restart \in {"draining", "ready"} \/ drain'.sleeping => drain'.closed /\ hw'.coord
        BY <1>2, <1>4, <1>7, <2>1, <2>2, <2>3 DEF Inductive, DrainKnown
    <2>5. drain'.closed => drain'.sleeping \/ drain'.restart # "idle"
        BY <1>2, <1>4, <1>7, <2>1, <2>2, <2>3 DEF Inductive, DrainKnown
    <2>6. drain'.sleeping <=> sleep' \in {"draining", "reserved"}
        BY <1>2, <1>7 DEF Inductive, DrainKnown
    <2>7. drain'.sleeping => drain'.restart = "idle"
        BY <1>2, <1>7, <2>2, <2>3 DEF Inductive, DrainKnown
    <2>8. drain'.restart = "ready" <=> worker' = "restart"
        BY <1>3, <1>4, <1>7, <2>2, <2>3
    <2> QED BY <1>2, <1>6, <2>4, <2>5, <2>6, <2>7, <2>8 DEF Inductive, DrainKnown
<1>15. CooldownKnown'
    BY <1>2, <1>3, <1>6, <1>8 DEF Inductive, CooldownKnown, PanelSafe
<1>16. PanelKnown'
    <2>1. svc'.recovery => svc'.state = "unavailable" BY <1>6 DEF Inductive, PanelKnown
    <2>2. svc'.state \in {"idle", "uploading", "queued"} => svc'.state = svc.state BY <1>6
    <2>3. svc.recovery => svc'.recovery BY <1>6
    <2> QED BY <1>2, <1>3, <1>6, <2>1, <2>2, <2>3 DEF Inductive, PanelKnown, SlowPcs
<1>17. DrawKnown' BY <1>2, <1>3 DEF DrawKnown
<1>18. ApprovalKnown'
    <2>1. ASSUME DrainApproves
          PROVE  /\ PanelSafe /\ panel.power = "off" /\ flash.marker # "active" /\ hw.cpu = 160
        <3>1. PanelSafe /\ ~svc.recovery /\ drain.restart = "draining"
            BY <2>1 DEF DrainApproves, DrainFails
        <3>2. hw.coord BY <3>1 DEF Inductive, DrainKnown
        <3>3. hw.stage # "active" BY <3>1 DEF PanelSafe
        <3>4. panel.power = "off" /\ flash.marker # "active"
            BY <3>1, <3>2, <3>3 DEF Inductive, PanelKnown, TypeOK, PanelType
        <3>5. hw.cpu = 160
            BY <1>2, <3>1 DEF Inductive, PanelKnown, TypeOK, HwType, SlowPcs
        <3> QED BY <3>1, <3>4, <3>5
    <2>2. drain'.restart = "ready" => DrainApproves
        BY <1>4, <1>7
    <2>3. PanelSafe' = PanelSafe BY <1>2 DEF PanelSafe
    <2> QED BY <1>2, <1>7, <1>10, <1>12, <2>1, <2>2, <2>3 DEF ApprovalKnown
<1> QED BY <1>1, <1>9, <1>11, <1>13, <1>14, <1>15, <1>16, <1>17, <1>18 DEF Inductive

LEMMA WorkerInductive == ASSUME Inductive, WorkerStep PROVE Inductive'
<1>1. CASE WorkerPoll \/ Control \/ RestartNow \/ Receive
    BY <1>1, WorkerPollInductive, ControlReturnsInductive, ControlSettlesInductive,
       RestartNowInductive, ReceiveInductive
<1>2. CASE OpenForDraw \/ OpenFrame \/ StartDraw \/ \E ok \in BOOLEAN : ValidateForDraw(ok)
    BY <1>2, AcceptedDrawInductive
<1>3. CASE \/ MarkActive \/ Prewake \/ PrewakeFails \/ InitializeFails
           \/ \E ok \in BOOLEAN : MarkActiveFails(ok) \/ PowerOn(ok)
    BY <1>3, MarkActiveInductive, MarkActiveFailsInductive, PrewakeInductive, InitializeInductive
<1>4. CASE \/ Refresh \/ ShutdownFails \/ ShutdownPanel
           \/ \E ok \in BOOLEAN : Transfer(ok) \/ ShutdownUnwoken(ok) \/ ConfirmShutdown(ok)
    BY <1>4, RefreshInductive, ShutdownInductive, ConfirmShutdownInductive
<1>5. CASE \E ok \in BOOLEAN : ClearMarker(ok) \/ FinishDraw(ok)
    BY <1>5, ClearMarkerInductive, FinishDrawInductive
<1> QED BY <1>1, <1>2, <1>3, <1>4, <1>5 DEF WorkerStep

-----------------------------------------------------------------------------
LEMMA InitInductive == Init => Inductive
<1> SUFFICES ASSUME Init PROVE Inductive
    OBVIOUS
<1>1. TypeOK BY InitTyped
<1>2. /\ hw = FreshHw /\ svc = FreshSvc /\ drain = FreshDrain /\ clear = FreshClear
      /\ image = FreshImage /\ gate = "free" /\ queue = "empty"
      /\ worker = "none" /\ client = Nobody /\ sleep = "none"
      /\ panel.power = "off" /\ panel.debt = 0 /\ flash.marker = "none"
      /\ device.sys = "boot" /\ device.reset = "power_on"
    BY DEF Init
<1>3. \A c \in Clients : client[c] = "free" /\ c # "free"
    BY <1>2, ConstantsAssumption DEF Nobody, GateUsers
<1>4. DeviceKnown BY <1>2 DEF DeviceKnown, Running
<1>5. OwnerKnown /\ BusyKnown
    BY <1>2, <1>3 DEF OwnerKnown, BusyKnown, OwnerPcs, DrawPcs, AcceptedPcs, FreshSvc
<1>6. GateKnown BY <1>2, <1>3 DEF GateKnown
<1>7. DrainKnown BY <1>2 DEF DrainKnown, FreshDrain, FreshSvc
<1>8. CooldownKnown BY <1>2 DEF CooldownKnown, FreshClear, FreshSvc
<1>9. PanelKnown BY <1>2 DEF PanelKnown, FreshHw, FreshSvc
<1>10. DrawKnown /\ ApprovalKnown BY <1>2 DEF DrawKnown, ApprovalKnown, FreshDrain
<1> QED BY <1>1, <1>4, <1>5, <1>6, <1>7, <1>8, <1>9, <1>10 DEF Inductive

LEMMA StutterInductive == ASSUME Inductive, UNCHANGED vars PROVE Inductive'
<1>1. /\ device' = device /\ panel' = panel /\ flash' = flash /\ hw' = hw /\ svc' = svc
      /\ drain' = drain /\ clear' = clear /\ image' = image /\ gate' = gate
      /\ queue' = queue /\ worker' = worker /\ client' = client /\ sleep' = sleep
    BY DEF vars
<1>2. TypeOK' /\ DeviceKnown'
    BY <1>1 DEF Inductive, TypeOK, DeviceKnown, Running, Recovers
<1>3. OwnerKnown' /\ BusyKnown' /\ GateKnown' /\ DrainKnown'
    BY <1>1 DEF Inductive, OwnerKnown, BusyKnown, GateKnown, DrainKnown
<1>4. CooldownKnown' /\ PanelKnown' /\ DrawKnown' /\ ApprovalKnown'
    BY <1>1 DEF Inductive, CooldownKnown, PanelKnown, DrawKnown, ApprovalKnown,
                PanelSafe, SleepSafe, Busy
<1> QED BY <1>2, <1>3, <1>4 DEF Inductive

LEMMA NextInductive == Inductive /\ [Next]_vars => Inductive'
<1> SUFFICES ASSUME Inductive, [Next]_vars PROVE Inductive'
    OBVIOUS
<1>1. CASE Boot \/ Crash \/ PowerCycle \/ Wake \/ Tick
    BY <1>1, BootInductive, CrashInductive, PowerCycleInductive, WakeInductive, TickInductive
<1>2. CASE (\E c \in Clients : ClientStep(c)) \/ GenericFileOperation
    BY <1>2, ClientInductive, GenericInductive
<1>3. CASE MainStep BY <1>3, MainInductive
<1>4. CASE WorkerStep BY <1>4, WorkerInductive
<1>5. CASE UNCHANGED vars BY <1>5, StutterInductive
<1> QED BY <1>1, <1>2, <1>3, <1>4, <1>5 DEF Next

(* The invariant holds in every behaviour of the service, for any number of  *)
(* clients and operations and any cooldown and drain times.                  *)
THEOREM Invariance == Spec => []Inductive
BY InitInductive, NextInductive, PTL DEF Spec

-----------------------------------------------------------------------------
(***************************************************************************)
(* The safety properties of EpaperService, and that it implements          *)
(* PanelProtection, for every value of the constants.                      *)
(***************************************************************************)

LEMMA NobodyOwns ==
    ASSUME Inductive, svc.state \notin BusyStates
    PROVE  Owners = {}
<1>1. \A c \in Clients : client[c] \notin OwnerPcs BY DEF Inductive, OwnerKnown, BusyStates
<1>2. queue = "empty" BY DEF Inductive, OwnerKnown, BusyStates
<1>3. worker \notin DrawPcs BY DEF Inductive, OwnerKnown, BusyStates, AcceptedPcs
<1> QED BY <1>1, <1>2, <1>3 DEF Owners

(* Whatever failed or was reset, a panel with power has a durable active     *)
(* marker (markActive before the wake, finishOperation, recover).            *)
THEOREM PoweredOnlyUnderMarker == Spec => []MarkerCoversPower
<1>1. Inductive => MarkerCoversPower BY DEF Inductive, PanelKnown, MarkerCoversPower
<1> QED BY <1>1, Invariance, PTL

(* Accepted work has exactly one owner among the clients, the queue and the  *)
(* worker, and the published state is busy exactly while it has one.         *)
THEOREM AcceptedWorkHasOneOwner == Spec => []AcceptedWorkOwned
<1>1. ASSUME Inductive PROVE AcceptedWorkOwned
    <2>1. OwnerKnown /\ BusyKnown BY <1>1 DEF Inductive
    <2>2. \A c, d \in Clients : client[c] \in OwnerPcs /\ client[d] \in OwnerPcs => c = d
        BY <2>1 DEF OwnerKnown
    <2>3. \A c \in Clients : client[c] \in OwnerPcs => queue = "empty" /\ worker \notin DrawPcs
        BY <2>1 DEF OwnerKnown
    <2>4. queue # "empty" => worker \notin DrawPcs BY <2>1 DEF OwnerKnown
    <2>5. \A x, y \in Owners : x = y BY <2>2, <2>3, <2>4 DEF Owners
    <2>6. svc.state \notin BusyStates => Owners = {} BY <1>1, NobodyOwns
    <2>7. svc.state \in BusyStates => Owners # {}
        <3>1. svc.state = "drawing" => "worker" \in Owners BY <2>1 DEF BusyKnown, Owners
        <3>2. svc.state = "uploading" => \E c \in Clients : c \in Owners
            BY <2>1 DEF BusyKnown, Owners, UploadPcs, OwnerPcs
        <3>3. svc.state = "queued" =>
                 \/ "queue" \in Owners \/ "worker" \in Owners \/ \E c \in Clients : c \in Owners
            BY <2>1 DEF BusyKnown, Owners, AcceptedPcs, DrawPcs
        <3> QED BY <3>1, <3>2, <3>3 DEF BusyStates
    <2> QED BY <2>5, <2>6, <2>7 DEF AcceptedWorkOwned
<1> QED BY <1>1, Invariance, PTL

(* While the marker is cleared outside the lock, no work is accepted that    *)
(* could have set it (processControl, poll).                                 *)
THEOREM MarkerClearedAlone == Spec => []ClearAlone
<1>1. ASSUME Inductive PROVE ClearAlone
    <2>1. clear.running => svc.state \notin BusyStates
        BY <1>1 DEF Inductive, CooldownKnown, BusyStates
    <2> QED BY <1>1, <2>1, NobodyOwns DEF ClearAlone
<1> QED BY <1>1, Invariance, PTL

(* From its approval under the lock to the reset, a restart finds the panel  *)
(* off, its marker settled, the clock restored, the storage reserved and no  *)
(* accepted work (processControl, restartNow).                               *)
THEOREM RestartOnlySafe == Spec => []RestartApproved
<1>1. ASSUME Inductive PROVE RestartApproved
    <2>1. drain.restart = "ready" => svc.state \notin BusyStates /\ hw.coord
        BY <1>1 DEF Inductive, ApprovalKnown, DrainKnown
    <2> QED BY <1>1, <2>1, NobodyOwns DEF RestartApproved, Inductive, ApprovalKnown
<1> QED BY <1>1, Invariance, PTL

(* Deep sleep is committed only with the panel off, the storage reserved and *)
(* no accepted work, although the approval is some polls old (sleepReady,    *)
(* reserveSleep).                                                            *)
THEOREM SleepOnlySafe == Spec => []SleepApproved
<1>1. ASSUME Inductive PROVE SleepApproved
    <2>1. sleep = "reserved" =>
             /\ SleepSafe /\ ~Busy /\ panel.power = "off" /\ gate = "sleep"
        BY <1>1 DEF Inductive, ApprovalKnown
    <2> QED BY <1>1, <2>1, NobodyOwns DEF SleepApproved, SleepSafe, Busy
<1> QED BY <1>1, Invariance, PTL

(* What the worker approved stays safe until the main loop carries it out    *)
(* (processControl, restartNow, sleepReady, reserveSleep).                   *)
THEOREM ApprovalsHold == Spec => []ApprovedIsSafe
<1>1. RestartApproved /\ SleepApproved => ApprovedIsSafe BY DEF ApprovedIsSafe
<1> QED BY <1>1, RestartOnlySafe, SleepOnlySafe, PTL

(* The restart drain and the sleep drain share one admission flag, and never *)
(* reopen it under each other (requestRestart, requestSleep, cancelSleep,    *)
(* processControl).                                                          *)
THEOREM AdmissionFlagAccounted == Spec => []AdmissionAccounted
<1>1. Inductive => AdmissionAccounted BY DEF Inductive, DrainKnown, AdmissionAccounted
<1> QED BY <1>1, Invariance, PTL

(* The storage gate is held only at steps that release it, whatever early    *)
(* return is taken (executeDraw, runDraw, validateStoredImage, uploads).     *)
THEOREM GateNeverLeaks == Spec => []GateReleased
<1>1. Inductive => GateReleased
    BY DEF Inductive, GateKnown, GateReleased, FramePcs, DrawPcs
<1> QED BY <1>1, Invariance, PTL

-----------------------------------------------------------------------------
(* The metadata.                                                             *)

(* A step that moves no client and changes neither the metadata nor the file *)
(* keeps them equal; so does a reset, after which the service is not ready.  *)
LEMMA ImageKept ==
    ASSUME ImageKnown, svc'.ready => svc.ready, image'.stored = image.stored,
           flash'.file = flash.file, client' = client
    PROVE  ImageKnown'
BY DEF ImageKnown

LEMMA ImageReset == ASSUME svc' = FreshSvc, client' = Nobody PROVE ImageKnown'
BY DEF ImageKnown, FreshSvc, Nobody

LEMMA MarkerKeepsFile ==
    ASSUME TypeOK, NEW markers, SetMarker(markers)
    PROVE  flash'.file = flash.file
BY DEF SetMarker, TypeOK, FlashType

(* A validation changes the metadata only to what the file is.  A candidate  *)
(* that is out of date, and an I/O error, publish nothing.                   *)
LEMMA OpenImageKeeps ==
    ASSUME TypeOK, NEW user, OpenImage(user)
    PROVE  image'.stored = image.stored
BY DEF OpenImage, TypeOK, ImageType

LEMMA OpenImageFailsTrue ==
    ASSUME TypeOK, OpenImageFails
    PROVE  image'.stored \in {image.stored, flash.file}
BY DEF OpenImageFails, TypeOK, ImageType

LEMMA CloseImageTrue ==
    ASSUME NEW valid \in BOOLEAN, CloseImage(valid)
    PROVE  image'.stored \in {image.stored, flash.file}
BY DEF CloseImage, Published

(* A step of a client: a commit changes the file and moves to the step that  *)
(* publishes it; every other client publishes what it finds.                 *)
LEMMA ClientKeepsImage ==
    ASSUME Inductive, ImageKnown, NEW c \in Clients, ClientStep(c)
    PROVE  ImageKnown'
<1>0. TypeOK BY DEF Inductive
<1>1. ClientEffect(c) BY ClientHasEffect
<1>2. svc'.ready = svc.ready /\ client' = [client EXCEPT ![c] = client'[c]]
    BY <1>1 DEF ClientEffect, ClientKeeps
<1>3. \A d \in Clients : d # c => client'[d] = client[d] BY <1>0, <1>2 DEF TypeOK
<1>4. CASE CommitUpload(c)
    <2>1. client'[c] = "upCommitted" BY <1>0, <1>4, StepToEffect DEF CommitUpload
    <2>2. flash'.file = "good" BY <1>0, <1>4 DEF CommitUpload, TypeOK, FlashType
    <2> QED BY <2>1, <2>2 DEF ImageKnown
<1>5. CASE QueueUpload(c)
    <2>1. client[c] = "upCommitted" /\ flash' = flash
        BY <1>0, <1>5, StepToEffect DEF QueueUpload
    <2>2. image'.stored = "good" BY <1>0, <1>5 DEF QueueUpload, TypeOK, ImageType
    <2> QED BY <1>3, <2>1, <2>2 DEF ImageKnown
<1>6. ASSUME client[c] # "upCommitted", client'[c] # "upCommitted", flash' = flash,
             image'.stored \in {image.stored, flash.file}
      PROVE  ImageKnown'
    BY <1>2, <1>3, <1>6 DEF ImageKnown
<1>7. CASE BeginUpload(c)
    BY <1>0, <1>6, <1>7, StepToEffect DEF BeginUpload
<1>8. CASE OpenUpload(c)
    BY <1>0, <1>6, <1>8, StepToEffect DEF OpenUpload
<1>9. CASE OpenUploadFails(c)
    BY <1>0, <1>6, <1>9, StepToEffect DEF OpenUploadFails
<1>10. CASE EndUpload(c)
    BY <1>0, <1>6, <1>10, StepToEffect DEF EndUpload
<1>11. ASSUME NEW source \in Sources, RequestDraw(c, source) \/ SendDraw(c, source)
       PROVE  ImageKnown'
    <2>1. SendPcs[source] \in {"sendStored", "sendGenerated"} BY DEF SendPcs, Sources
    <2> QED BY <1>0, <1>6, <1>11, <2>1, StepToEffect DEF RequestDraw, SendDraw
<1>12. CASE RefreshMetadata(c)
    BY <1>0, <1>6, <1>12, StepToEffect DEF RefreshMetadata
<1>13. ASSUME NEW from \in {"drawReserved", "metaReserved"},
              OpenForClient(c, from) \/ OpenForClientFails(c, from)
       PROVE  ImageKnown'
    <2>1. ValidatorPcs[from] \in {"drawValidate", "metaValidate"} BY DEF ValidatorPcs
    <2>2. CASE OpenForClient(c, from)
        BY <1>0, <1>6, <2>1, <2>2, StepToEffect, OpenImageKeeps DEF OpenForClient
    <2>3. CASE OpenForClientFails(c, from)
        BY <1>0, <1>6, <2>3, StepToEffect, OpenImageFailsTrue DEF OpenForClientFails
    <2> QED BY <1>13, <2>2, <2>3
<1>14. ASSUME NEW valid \in BOOLEAN, FinishDrawValidation(c, valid) PROVE ImageKnown'
    <2>1. image'.stored \in {image.stored, flash.file}
        BY <1>14, CloseImageTrue DEF FinishDrawValidation
    <2> QED BY <1>0, <1>6, <1>14, <2>1, StepToEffect DEF FinishDrawValidation
<1>15. CASE FinishRefreshMetadata(c)
    <2>1. image'.stored \in {image.stored, flash.file}
        BY <1>15, CloseImageTrue DEF FinishRefreshMetadata
    <2> QED BY <1>0, <1>6, <1>15, <2>1, StepToEffect DEF FinishRefreshMetadata
<1>16. CASE BeginDownload(c) \/ OpenDownload(c) \/ EndDownload(c)
    <2>1. flash' = flash /\ image' = image BY <1>16 DEF BeginDownload, OpenDownload, EndDownload
    <2>2. client[c] # "upCommitted" /\ client'[c] # "upCommitted"
        BY <1>0, <1>16, StepToEffect DEF BeginDownload, OpenDownload, EndDownload
    <2> QED BY <1>6, <2>1, <2>2
<1> QED BY <1>4, <1>5, <1>7, <1>8, <1>9, <1>10, <1>11, <1>12, <1>13, <1>14, <1>15, <1>16
        DEF ClientStep

(* Boot publishes what it finds.                                             *)
LEMMA BootKeepsImage ==
    ASSUME Inductive, ImageKnown, Boot
    PROVE  ImageKnown'
<1>0. TypeOK BY DEF Inductive
<1>1. device.sys = "boot" BY DEF Boot, BootWithoutHardware, BootService
<1>2. svc = FreshSvc /\ client = Nobody BY <1>1 DEF Inductive, DeviceKnown, Running
<1>3. client' = Nobody BY <1>2 DEF Boot, BootWithoutHardware, BootService
<1>4. CASE BootWithoutHardware BY <1>2, <1>3, <1>4, ImageReset DEF BootWithoutHardware
<1>5. ASSUME NEW outcome \in {"worker", "early", "late"}, NEW proven \in BOOLEAN,
             NEW cleared \in BOOLEAN, BootService(outcome, proven, cleared)
      PROVE  ImageKnown'
    <2>1. flash'.file = flash.file BY <1>0, <1>5, MarkerKeepsFile DEF BootService
    <2>2. outcome = "worker" => image'.stored = flash.file
        BY <1>0, <1>5 DEF BootService, TypeOK, ImageType
    <2>3. outcome # "worker" => ~svc'.ready
        BY <1>2, <1>5 DEF BootService, FreshSvc
    <2> QED BY <1>3, <2>1, <2>2, <2>3 DEF ImageKnown, Nobody
<1> QED BY <1>4, <1>5 DEF Boot

(* The worker's second validation publishes like a client's; its other steps *)
(* touch neither the metadata nor the file.                                  *)
LEMMA WorkerKeepsImage ==
    ASSUME Inductive, ImageKnown, WorkerStep
    PROVE  ImageKnown'
<1> USE DEF StepWorker, WorkerFrame, DrawFrame
<1>0. TypeOK BY DEF Inductive
<1>1. svc \in ServiceType BY <1>0 DEF TypeOK
<1>2. ASSUME svc'.ready = svc.ready, flash' = flash, client' = client,
             image'.stored \in {image.stored, flash.file}
      PROVE  ImageKnown'
    BY <1>2 DEF ImageKnown
<1>3. ASSUME svc'.ready = svc.ready, client' = client, image' = image,
             NEW markers, SetMarker(markers)
      PROVE  ImageKnown'
    BY <1>0, <1>3, ImageKept, MarkerKeepsFile
<1>4. CASE WorkerPoll BY <1>2, <1>4 DEF WorkerPoll
<1>5. CASE Control
    <2>1. svc'.ready = svc.ready BY <1>1, <1>5 DEF Control, ServiceType
    <2> QED BY <1>2, <1>5, <2>1 DEF Control
<1>6. CASE RestartNow
    <2>1. CASE hw.coord /\ PanelSafe BY <1>6, <2>1, ImageReset DEF RestartNow, Reset
    <2>2. CASE ~(hw.coord /\ PanelSafe)
        <3>1. svc'.ready = svc.ready BY <1>1, <1>6, <2>2 DEF RestartNow, ServiceType
        <3> QED BY <1>2, <1>6, <2>2, <3>1 DEF RestartNow
    <2> QED BY <2>1, <2>2
<1>7. CASE Receive BY <1>2, <1>7 DEF Receive
<1>8. ASSUME NEW from, DrawRejected(from) PROVE svc'.ready = svc.ready /\ client' = client
    BY <1>1, <1>8 DEF DrawRejected, ServiceType
<1>9. CASE OpenForDraw
    <2>1. svc'.ready = svc.ready /\ client' = client BY <1>8, <1>9 DEF OpenForDraw
    <2>2. image'.stored \in {image.stored, flash.file}
        BY <1>0, <1>9, OpenImageKeeps, OpenImageFailsTrue DEF OpenForDraw
    <2> QED BY <1>2, <1>9, <2>1, <2>2 DEF OpenForDraw
<1>10. ASSUME NEW valid \in BOOLEAN, ValidateForDraw(valid) PROVE ImageKnown'
    <2>1. svc'.ready = svc.ready /\ client' = client BY <1>8, <1>10 DEF ValidateForDraw
    <2>2. image'.stored \in {image.stored, flash.file}
        BY <1>10, CloseImageTrue DEF ValidateForDraw
    <2> QED BY <1>2, <1>10, <2>1, <2>2 DEF ValidateForDraw
<1>11. CASE OpenFrame \/ StartDraw
    <2>1. svc'.ready = svc.ready /\ client' = client
        BY <1>1, <1>8, <1>11 DEF OpenFrame, StartDraw, ServiceType
    <2> QED BY <1>2, <1>11, <2>1 DEF OpenFrame, StartDraw
<1>12. CASE MarkActive BY <1>3, <1>12 DEF MarkActive
<1>13. ASSUME NEW ok \in BOOLEAN, MarkActiveFails(ok) PROVE ImageKnown'
    <2>1. svc'.ready = svc.ready BY <1>1, <1>13 DEF MarkActiveFails, ServiceType
    <2> QED BY <1>3, <1>13, <2>1 DEF MarkActiveFails
<1>14. CASE Prewake \/ PrewakeFails \/ InitializeFails \/ Refresh
    BY <1>2, <1>14 DEF Prewake, PrewakeFails, InitializeFails, Refresh
<1>15. ASSUME NEW ok \in BOOLEAN, PowerOn(ok) \/ Transfer(ok) PROVE ImageKnown'
    <2>1. svc'.ready = svc.ready BY <1>1, <1>15 DEF PowerOn, Transfer, ServiceType
    <2> QED BY <1>2, <1>15, <2>1 DEF PowerOn, Transfer
<1>16. CASE ShutdownFails \/ ShutdownPanel
    <2>1. svc'.ready = svc.ready
        BY <1>1, <1>16 DEF ShutdownFails, ShutdownPanel, PoweringOff, ServiceType
    <2> QED BY <1>2, <1>16, <2>1 DEF ShutdownFails, ShutdownPanel
<1>17. ASSUME NEW ok \in BOOLEAN, ShutdownUnwoken(ok) \/ ConfirmShutdown(ok)
       PROVE  ImageKnown'
    BY <1>3, <1>17 DEF ShutdownUnwoken, ConfirmShutdown
<1>18. ASSUME NEW ok \in BOOLEAN, ClearMarker(ok) PROVE ImageKnown'
    <2>1. svc'.ready = svc.ready BY <1>1, <1>18 DEF ClearMarker, ServiceType
    <2> QED BY <1>3, <1>18, <2>1 DEF ClearMarker
<1>19. ASSUME NEW ok \in BOOLEAN, FinishDraw(ok) PROVE ImageKnown'
    <2>1. svc'.ready = svc.ready BY <1>1, <1>19 DEF FinishDraw, ServiceType
    <2> QED BY <1>2, <1>19, <2>1 DEF FinishDraw
<1> QED BY <1>4, <1>5, <1>6, <1>7, <1>9, <1>10, <1>11, <1>12, <1>13, <1>14, <1>15, <1>16,
           <1>17, <1>18, <1>19 DEF WorkerStep

LEMMA NextKeepsImage ==
    ASSUME Inductive, ImageKnown, [Next]_vars
    PROVE  ImageKnown'
<1>1. CASE Boot BY <1>1, BootKeepsImage
<1>2. CASE Crash \/ PowerCycle \/ Wake BY <1>2, ImageReset DEF Crash, PowerCycle, Wake, Reset
<1>3. CASE Tick BY <1>3, ImageKept DEF Tick
<1>4. ASSUME NEW c \in Clients, ClientStep(c) PROVE ImageKnown' BY <1>4, ClientKeepsImage
<1>5. CASE GenericFileOperation BY <1>5, ImageKept DEF GenericFileOperation
<1>6. CASE MainStep
    <2>1. CASE DeepSleep BY <2>1, ImageReset DEF DeepSleep, Reset
    <2>2. CASE MainFrame BY <2>2, ImageKept DEF MainFrame
    <2> QED BY <1>6, <2>1, <2>2
            DEF MainStep, StartPass, MainPoll, RequestRestart, PollRestart, CheckSleep,
                RequestSleep, ReserveSleep, CancelSleep
<1>7. CASE WorkerStep BY <1>7, WorkerKeepsImage
<1>8. CASE UNCHANGED vars BY <1>8, ImageKept DEF vars
<1> QED BY <1>1, <1>2, <1>3, <1>4, <1>5, <1>6, <1>7, <1>8 DEF Next

(* The service is always well formed, its metadata names the image in flash  *)
(* whenever it is idle (submitUploadedDraw, validateStoredImage), the        *)
(* storage gate is released, the admission flag accounted for and the marker *)
(* cleared only while nobody draws.                                          *)
THEOREM ServiceWellFormed == Spec => []ServiceInv
<1>1. Init => ImageKnown BY DEF Init, ImageKnown, FreshSvc, Nobody
<1>2. Inductive /\ ImageKnown /\ [Next]_vars => ImageKnown' BY NextKeepsImage
<1>3. Spec => []ImageKnown BY <1>1, <1>2, Invariance, PTL DEF Spec
<1>4. ASSUME Inductive, ImageKnown PROVE MetadataTrue
    <2>1. svc.state = "idle" => \A c \in Clients : client[c] # "upCommitted"
        BY <1>4 DEF Inductive, OwnerKnown, OwnerPcs, UploadPcs
    <2> QED BY <1>4, <2>1 DEF ImageKnown, MetadataTrue
<1>5. Inductive => TypeOK BY DEF Inductive
<1>6. Inductive /\ ImageKnown => MetadataTrue BY <1>4
<1>7. Spec => []TypeOK BY <1>5, Invariance, PTL
<1>8. Spec => []MetadataTrue BY <1>3, <1>6, Invariance, PTL
<1>9. MetadataTrue /\ TypeOK /\ GateReleased /\ AdmissionAccounted /\ ClearAlone => ServiceInv
    BY DEF ServiceInv
<1> QED BY <1>7, <1>8, <1>9, GateNeverLeaks, AdmissionFlagAccounted, MarkerClearedAlone, PTL

-----------------------------------------------------------------------------
(* The id of a draw.                                                         *)

\* A step that admits no operation takes a draw only from the queue, and
\* completes at most the operation that is current.
IdsKept ==
    /\ svc'.op = svc.op /\ svc'.draw = svc.draw /\ svc'.completed \in {svc.completed, svc.op}
    /\ queue' # "empty" => queue # "empty"
    /\ worker' \in DrawPcs => worker \in DrawPcs \/ queue # "empty"

DrawIdStep ==
    /\ DrawIdKnown'
    /\ worker \in DrawPcs /\ svc.completed # svc'.completed /\ Running'
          => svc'.completed = svc.draw

LEMMA KeptIds == ASSUME DrawIdKnown, IdsKept PROVE DrawIdStep
BY DEF DrawIdKnown, IdsKept, DrawIdStep

LEMMA ResetIds ==
    ASSUME queue' = "empty", worker' = "none", ~Running'
    PROVE  DrawIdStep
BY DEF DrawIdKnown, DrawIdStep, DrawPcs

(* A client is admitted only while nobody owns accepted work, so the current *)
(* operation does not change under a draw.                                   *)
LEMMA ClientKeepsIds ==
    ASSUME Inductive, DrawIdKnown, NEW c \in Clients, ClientStep(c)
    PROVE  DrawIdStep
<1>0. TypeOK /\ svc \in ServiceType /\ OwnerKnown BY DEF Inductive, TypeOK
<1>1. worker' = worker /\ device' = device
    BY ClientHasEffect DEF ClientEffect, ClientKeeps, ClientFrame
<1>2. ASSUME NEW state, Reserve(state), queue' = queue PROVE DrawIdStep
    <2>1. svc.state = "idle" /\ svc'.completed = svc.completed
        BY <1>0, <1>2 DEF Reserve, Admits, ServiceType
    <2>2. queue = "empty" /\ worker \notin DrawPcs
        BY <1>0, <2>1 DEF OwnerKnown, AcceptedPcs
    <2> QED BY <1>1, <1>2, <2>1, <2>2 DEF DrawIdStep, DrawIdKnown
<1>3. ASSUME svc' = svc \/ UploadFailed \/ BackToIdle, queue' = queue PROVE DrawIdStep
    <2>1. svc'.op = svc.op /\ svc'.draw = svc.draw /\ svc'.completed = svc.completed
        BY <1>0, <1>3 DEF UploadFailed, BackToIdle, ServiceType
    <2> QED BY <1>1, <1>3, <2>1, KeptIds DEF IdsKept
<1>4. ASSUME NEW source, SendToQueue(source) PROVE DrawIdStep
    <2>1. svc'.op = svc.op /\ svc'.completed = svc.completed
        BY <1>0, <1>4 DEF SendToQueue, ServiceType
    <2>2. queue = "empty" => svc'.draw = svc.op
        BY <1>0, <1>4 DEF SendToQueue, ServiceType
    <2>3. queue # "empty" => svc'.draw = svc.draw
        BY <1>0, <1>4 DEF SendToQueue, ServiceType
    <2> QED BY <1>1, <2>1, <2>2, <2>3 DEF DrawIdStep, DrawIdKnown
<1>5. CASE BeginUpload(c) BY <1>2, <1>5 DEF BeginUpload
<1>6. CASE OpenUpload(c) \/ OpenUploadFails(c) \/ EndUpload(c) \/ CommitUpload(c)
    BY <1>3, <1>6 DEF OpenUpload, OpenUploadFails, EndUpload, CommitUpload
<1>7. CASE QueueUpload(c) BY <1>4, <1>7 DEF QueueUpload
<1>8. ASSUME NEW source \in Sources, RequestDraw(c, source) \/ SendDraw(c, source)
      PROVE  DrawIdStep
    BY <1>2, <1>4, <1>8 DEF RequestDraw, SendDraw
<1>9. CASE RefreshMetadata(c) BY <1>2, <1>9 DEF RefreshMetadata
<1>10. ASSUME NEW from, OpenForClient(c, from) \/ OpenForClientFails(c, from)
       PROVE  DrawIdStep
    BY <1>3, <1>10 DEF OpenForClient, OpenForClientFails
<1>11. ASSUME NEW valid \in BOOLEAN, FinishDrawValidation(c, valid) PROVE DrawIdStep
    BY <1>3, <1>11 DEF FinishDrawValidation
<1>12. CASE FinishRefreshMetadata(c) BY <1>3, <1>12 DEF FinishRefreshMetadata
<1>13. CASE BeginDownload(c) \/ OpenDownload(c) \/ EndDownload(c)
    BY <1>3, <1>13 DEF BeginDownload, OpenDownload, EndDownload
<1> QED BY <1>5, <1>6, <1>7, <1>8, <1>9, <1>10, <1>11, <1>12, <1>13 DEF ClientStep

(* The worker takes a draw from the queue and completes the current          *)
(* operation, whichever way the draw ends.                                   *)
LEMMA WorkerKeepsIds ==
    ASSUME Inductive, DrawIdKnown, WorkerStep
    PROVE  DrawIdStep
<1> USE DEF StepWorker, DrawPcs
<1>0. svc \in ServiceType BY DEF Inductive, TypeOK
<1>1. ASSUME svc'.op = svc.op, svc'.draw = svc.draw,
             svc'.completed \in {svc.completed, svc.op}, queue' = queue,
             worker' \in DrawPcs => worker \in DrawPcs
      PROVE  DrawIdStep
    BY <1>1, KeptIds DEF IdsKept
<1>2. CASE WorkerPoll BY <1>1, <1>2 DEF WorkerPoll
<1>3. CASE Control
    <2>1. /\ svc'.op = svc.op /\ svc'.draw = svc.draw /\ svc'.completed = svc.completed
          /\ queue' = queue
        BY <1>0, <1>3 DEF Control, ServiceType
    <2>2. worker' \notin DrawPcs BY <1>3 DEF Control, Resume
    <2> QED BY <1>1, <2>1, <2>2
<1>4. CASE RestartNow
    <2>1. CASE hw.coord /\ PanelSafe BY <1>4, <2>1, ResetIds DEF RestartNow, Reset, Running
    <2>2. CASE ~(hw.coord /\ PanelSafe)
        <3>1. svc'.op = svc.op /\ svc'.draw = svc.draw /\ svc'.completed = svc.completed
            BY <1>0, <1>4, <2>2 DEF RestartNow, ServiceType
        <3>2. worker' \notin DrawPcs /\ queue' = queue BY <1>4, <2>2 DEF RestartNow, Resume
        <3> QED BY <1>1, <3>1, <3>2
    <2> QED BY <2>1, <2>2
<1>5. CASE Receive BY <1>5, KeptIds DEF Receive, IdsKept
<1>6. ASSUME NEW from, DrawRejected(from)
      PROVE  /\ svc'.op = svc.op /\ svc'.draw = svc.draw /\ svc'.completed = svc.op
             /\ worker' \notin DrawPcs
    BY <1>0, <1>6 DEF DrawRejected, ServiceType
<1>7. CASE OpenForDraw BY <1>1, <1>6, <1>7 DEF OpenForDraw
<1>8. ASSUME NEW valid \in BOOLEAN, ValidateForDraw(valid) PROVE DrawIdStep
    BY <1>1, <1>6, <1>8 DEF ValidateForDraw
<1>9. CASE OpenFrame BY <1>1, <1>6, <1>9 DEF OpenFrame
<1>10. CASE StartDraw
    <2>1. CASE StepWorker("draw", "mark") /\ svc' = [svc EXCEPT !.state = "drawing", !.panel = "inactive"]
        BY <1>0, <1>1, <1>10, <2>1 DEF StartDraw, ServiceType
    <2>2. CASE DrawRejected("draw") BY <1>1, <1>6, <1>10, <2>2 DEF StartDraw
    <2> QED BY <1>10, <2>1, <2>2 DEF StartDraw
<1>11. CASE MarkActive \/ Prewake \/ PrewakeFails \/ InitializeFails \/ Refresh
    BY <1>1, <1>11 DEF MarkActive, Prewake, PrewakeFails, InitializeFails, Refresh, DrawFrame
<1>12. ASSUME NEW ok \in BOOLEAN, MarkActiveFails(ok) PROVE DrawIdStep
    BY <1>0, <1>1, <1>12 DEF MarkActiveFails, DrawFrame, ServiceType
<1>13. ASSUME NEW ok \in BOOLEAN, PowerOn(ok) \/ Transfer(ok) PROVE DrawIdStep
    BY <1>0, <1>1, <1>13 DEF PowerOn, Transfer, DrawFrame, ServiceType
<1>14. CASE ShutdownFails \/ ShutdownPanel
    BY <1>0, <1>1, <1>14 DEF ShutdownFails, ShutdownPanel, PoweringOff, DrawFrame, ServiceType
<1>15. ASSUME NEW ok \in BOOLEAN, ShutdownUnwoken(ok) \/ ConfirmShutdown(ok) PROVE DrawIdStep
    BY <1>1, <1>15 DEF ShutdownUnwoken, ConfirmShutdown, DrawFrame
<1>16. ASSUME NEW ok \in BOOLEAN, ClearMarker(ok) PROVE DrawIdStep
    <2>1. /\ svc'.op = svc.op /\ svc'.draw = svc.draw /\ svc'.completed = svc.completed
          /\ queue' = queue
        BY <1>0, <1>16 DEF ClearMarker, ServiceType
    <2>2. worker' \notin DrawPcs BY <1>16 DEF ClearMarker, Resume
    <2> QED BY <1>1, <2>1, <2>2
<1>17. ASSUME NEW ok \in BOOLEAN, FinishDraw(ok) PROVE DrawIdStep
    <2>1. /\ svc'.op = svc.op /\ svc'.draw = svc.draw /\ svc'.completed = svc.op
          /\ queue' = queue /\ worker' \notin DrawPcs
        BY <1>0, <1>17 DEF FinishDraw, ServiceType
    <2> QED BY <1>1, <2>1
<1> QED BY <1>2, <1>3, <1>4, <1>5, <1>7, <1>8, <1>9, <1>10, <1>11, <1>12, <1>13, <1>14,
           <1>15, <1>16, <1>17 DEF WorkerStep

LEMMA NextKeepsIds ==
    ASSUME Inductive, DrawIdKnown, [Next]_vars
    PROVE  DrawIdStep
<1>1. CASE Boot
    <2>1. queue' = queue /\ worker' \in {"none", "poll"} /\ queue = "empty" /\ worker = "none"
        BY <1>1 DEF Boot, BootWithoutHardware, BootService, Inductive, DeviceKnown, Running
    <2> QED BY <2>1 DEF DrawIdStep, DrawIdKnown, DrawPcs
<1>2. CASE Crash \/ PowerCycle \/ Wake
    BY <1>2, ResetIds DEF Crash, PowerCycle, Wake, Reset, Running
<1>3. CASE Tick BY <1>3, KeptIds DEF Tick, IdsKept
<1>4. ASSUME NEW c \in Clients, ClientStep(c) PROVE DrawIdStep BY <1>4, ClientKeepsIds
<1>5. CASE GenericFileOperation
    BY <1>5, KeptIds DEF GenericFileOperation, ClientFrame, IdsKept
<1>6. CASE MainStep
    <2>1. CASE DeepSleep BY <2>1, ResetIds DEF DeepSleep, Reset, Running
    <2>2. CASE MainStep /\ ~DeepSleep
        <3>1. MainFrame /\ worker' \in {worker, "control"}
            BY <2>2 DEF MainStep, StartPass, MainPoll, RequestRestart, PollRestart, CheckSleep,
                        RequestSleep, ReserveSleep, CancelSleep
        <3> QED BY <3>1, KeptIds DEF MainFrame, IdsKept, DrawPcs
    <2> QED BY <1>6, <2>1, <2>2
<1>7. CASE WorkerStep BY <1>7, WorkerKeepsIds
<1>8. CASE UNCHANGED vars BY <1>8, KeptIds DEF vars, IdsKept
<1> QED BY <1>1, <1>2, <1>3, <1>4, <1>5, <1>6, <1>7, <1>8 DEF Next

(* The id that the worker completes is the id of the draw it took, whichever *)
(* way the draw ends and whoever asks meanwhile (sendDraw, finishDraw and    *)
(* the early returns of executeDraw): who polls the status for it waits for  *)
(* this draw and no other.                                                   *)
THEOREM DrawKeepsItsId == Spec => CompletesItsDraw
<1>1. Init => DrawIdKnown BY DEF Init, DrawIdKnown, DrawPcs
<1>2. Inductive /\ DrawIdKnown /\ [Next]_vars => DrawIdStep BY NextKeepsIds
<1>3. DrawIdStep => DrawIdKnown' BY DEF DrawIdStep
<1>4. DrawIdStep => [(worker \in DrawPcs /\ svc.completed # svc'.completed /\ Running')
                       => svc'.completed = svc.draw]_vars
    BY DEF DrawIdStep
<1> QED BY <1>1, <1>2, <1>3, <1>4, Invariance, PTL DEF Spec, CompletesItsDraw

-----------------------------------------------------------------------------
(***************************************************************************)
(* The rest of the panel, with a loop that may lag: RestKnown on top of    *)
(* Inductive.                                                              *)
(***************************************************************************)

\* The steps of a draw at which a panel that was not woken is still to be woken
\* or has its marker cleared.
UnwokenPcs == {"prewake", "init", "shutdown"}

(* A step that neither resets nor powers on the panel, and begins no hasty   *)
(* cooldown, leaves rest as it is.                                           *)
LEMMA QuietRest ==
    ASSUME RestKnown, rest' = NextRest, panel' = panel, Running', ~BeginsAhead
    PROVE  rest' = rest
<1>1. ~PoweredOn BY DEF PoweredOn
<1>2. CASE panel.debt = 0 BY <1>2 DEF NextRest, RestKnown
<1>3. CASE panel.debt # 0 BY <1>1, <1>3 DEF NextRest
<1> QED BY <1>2, <1>3

(* Such a step keeps RestKnown when it keeps what RestKnown says of the      *)
(* cooldown, the marker and the draw.                                        *)
LEMMA QuietKnown ==
    ASSUME RestKnown, rest' = NextRest, panel' = panel, Running', ~BeginsAhead,
           rest = "hasty" => clear'.cool = "cooling",
           Clearing' => panel.debt = 0 \/ rest = "hasty",
           clear'.running /\ clear'.rested => panel.debt = 0,
           flash'.marker = "none" => panel.debt = 0 \/ rest # "kept",
           worker' \in UnwokenPcs /\ ~hw'.mayBeActive => panel.debt = 0 \/ rest = "lost"
    PROVE  RestKnown'
<1>1. rest' = rest BY QuietRest
<1> QED BY <1>1 DEF RestKnown, UnwokenPcs

(* Most steps touch neither the cooldown nor the marker.                     *)
LEMMA StillKnown ==
    ASSUME RestKnown, rest' = NextRest, Running, Running',
           panel' = panel, clear' = clear, flash'.marker = flash.marker,
           \/ worker' \notin UnwokenPcs
           \/ worker \in UnwokenPcs /\ hw'.mayBeActive = hw.mayBeActive
           \/ worker' = worker /\ hw' = hw
           \/ hw'.mayBeActive
    PROVE  RestKnown' /\ rest' = rest
<1>1. ~BeginsAhead BY DEF BeginsAhead
<1>2. worker' \in UnwokenPcs /\ ~hw'.mayBeActive => panel.debt = 0 \/ rest = "lost"
    BY DEF RestKnown, UnwokenPcs
<1>3. rest = "hasty" => clear'.cool = "cooling" BY DEF RestKnown
<1>4. Clearing' => panel.debt = 0 \/ rest = "hasty" BY DEF RestKnown, Clearing
<1>5. /\ clear'.running /\ clear'.rested => panel.debt = 0
      /\ flash'.marker = "none" => panel.debt = 0 \/ rest # "kept"
    BY DEF RestKnown
<1> QED BY <1>1, <1>2, <1>3, <1>4, <1>5, QuietRest, QuietKnown DEF Clearing

(* A rest that is still owed after the reset of a hasty cooldown is lost     *)
(* exactly when its marker is gone.                                          *)
LEMMA ResetKnown ==
    ASSUME RestKnown, rest' = NextRest,
           NEW sys \in {"boot", "asleep"}, NEW why, NEW slept, Reset(sys, why, slept),
           flash' = flash, panel'.debt = panel.debt \/ panel'.debt = 0,
           panel'.power = panel.power \/ panel'.power = "off", TypeOK, TypeOK'
    PROVE  /\ RestKnown'
           /\ rest' = IF panel'.debt = 0 THEN "kept"
                      ELSE IF rest = "hasty"
                           THEN IF flash.marker = "none" THEN "lost" ELSE "kept"
                           ELSE rest
<1>1. clear' = FreshClear /\ worker' = "none" /\ ~Running' BY DEF Reset, Running
<1>2. ~PoweredOn BY DEF PoweredOn
<1>3. ~BeginsAhead BY <1>1 DEF BeginsAhead, FreshClear
<1>4. rest' = IF panel'.debt = 0 THEN "kept"
              ELSE IF rest = "hasty"
                   THEN IF flash.marker = "none" THEN "lost" ELSE "kept"
                   ELSE rest
    <2>1. CASE panel'.debt = 0 BY <2>1 DEF NextRest
    <2>2. CASE panel'.debt # 0 /\ rest = "hasty" BY <1>1, <1>2, <2>2 DEF NextRest
    <2>3. CASE panel'.debt # 0 /\ rest # "hasty" BY <1>2, <1>3, <2>3 DEF NextRest
    <2> QED BY <2>1, <2>2, <2>3
<1>5. rest' # "kept" => panel'.power = "off" /\ panel'.debt > 0 /\ rest' = "lost"
    BY <1>4 DEF RestKnown, TypeOK, PanelType
<1>6. flash'.marker = "none" => panel'.debt = 0 \/ rest' # "kept" BY <1>4 DEF RestKnown
<1>7. rest' \in {"kept", "hasty", "lost"} BY <1>4 DEF RestKnown
<1> QED BY <1>1, <1>4, <1>5, <1>6, <1>7 DEF RestKnown, FreshClear, Clearing

LEMMA ResetsKnown ==
    ASSUME Inductive, RestKnown, rest' = NextRest, TypeOK',
           Crash \/ PowerCycle \/ Wake \/ DeepSleep \/ RestartNow
    PROVE  /\ RestKnown' /\ flash' = flash
           /\ rest' = IF panel'.debt = 0 THEN "kept"
                      ELSE IF rest = "hasty"
                           THEN IF flash.marker = "none" THEN "lost" ELSE "kept"
                           ELSE rest
<1>1. TypeOK BY DEF Inductive
<1>2. RestartNow => hw.coord /\ PanelSafe
    BY DEF RestartNow, Inductive, DrainKnown, ApprovalKnown
<1>3. /\ flash' = flash
      /\ panel'.debt = panel.debt \/ panel'.debt = 0
      /\ panel'.power = panel.power \/ panel'.power = "off"
    BY <1>2 DEF Crash, PowerCycle, Wake, DeepSleep, RestartNow
<1>4. \/ Reset("boot", "other", 0) \/ Reset("boot", "power_on", 0)
      \/ Reset("boot", "deep_sleep", device.slept) \/ Reset("asleep", "other", 0)
    BY <1>2 DEF Crash, PowerCycle, Wake, DeepSleep, RestartNow
<1> QED BY <1>1, <1>3, <1>4, ResetKnown

(* Boot clears a marker only with evidence that the panel has rested, and    *)
(* begins a cooldown before the loop has read a time.                        *)
LEMMA BootKnown ==
    ASSUME Inductive, RestKnown, rest' = NextRest, Boot PROVE RestKnown' /\ rest' = rest
<1>1. device.sys = "boot" /\ ~Running /\ Running' /\ panel' = panel
    <2>1. device.sys = "boot" /\ Started /\ panel' = panel
        BY DEF Boot, BootWithoutHardware, BootService
    <2> QED BY <2>1 DEF Started, Running
<1>2. clear = FreshClear /\ rest # "hasty" BY <1>1 DEF Inductive, DeviceKnown, RestKnown
<1>3. ~clear'.pending /\ ~clear'.running /\ clear'.seen = "none"
    <2>1. \/ clear' = FreshClear
          \/ \E age \in {0, Cool} :
                clear' = [FreshClear EXCEPT !.cool = "cooling", !.age = age]
        BY <1>2 DEF Boot, BootWithoutHardware, BootService
    <2>2. CASE clear' = FreshClear BY <2>2 DEF FreshClear
    <2>3. ASSUME NEW age \in {0, Cool},
                 clear' = [FreshClear EXCEPT !.cool = "cooling", !.age = age]
          PROVE  ~clear'.pending /\ ~clear'.running /\ clear'.seen = "none"
        BY <2>3 DEF FreshClear
    <2> QED BY <2>1, <2>2, <2>3
<1>4. \/ flash'.marker = flash.marker
      \/ flash'.marker = "none" /\ (Recovers \/ Rested)
    <2>1. CASE BootWithoutHardware
        BY <2>1 DEF BootWithoutHardware, SetMarker, Written, Inductive, TypeOK, FlashType
    <2>2. ASSUME NEW outcome \in {"worker", "early", "late"},
                 NEW proven \in BOOLEAN, NEW cleared \in BOOLEAN,
                 BootService(outcome, proven, cleared)
          PROVE  \/ flash'.marker = flash.marker
                 \/ flash'.marker = "none" /\ (Recovers \/ Rested)
        <3>1. proven => Rested BY <2>2 DEF BootService
        <3>2. \/ flash'.marker = Loaded
              \/ proven /\ flash'.marker \in {"none", flash.marker}
            BY <2>2 DEF BootService, SetMarker, Written, Inductive, TypeOK, FlashType
        <3> QED BY <3>1, <3>2 DEF Loaded
    <2> QED BY <2>1, <2>2 DEF Boot
<1>5. flash'.marker = "none" => panel.debt = 0 \/ rest # "kept"
    BY <1>1, <1>4, BootEvidence DEF RestKnown
<1>6. worker' \notin UnwokenPcs /\ ~BeginsAhead
    BY <1>3 DEF Boot, BootWithoutHardware, BootService, UnwokenPcs, BeginsAhead,
                Inductive, DeviceKnown, Running
<1> QED BY <1>1, <1>2, <1>3, <1>5, <1>6, QuietRest, QuietKnown DEF Clearing

(* Time only shortens what is owed; a rest that is over has been kept.       *)
LEMMA TickKnown ==
    ASSUME Inductive, RestKnown, rest' = NextRest, Tick
    PROVE  RestKnown' /\ rest' = IF panel'.debt = 0 THEN "kept" ELSE rest
<1>1. /\ flash' = flash /\ hw' = hw /\ worker' = worker /\ device.sys # "boot"
      /\ panel'.power = panel.power
      /\ panel'.debt = IF panel.power = "off" /\ panel.debt > 0 THEN panel.debt - 1 ELSE panel.debt
    BY DEF Tick, Inductive, TypeOK, PanelType
<1>2. Running' = Running
    BY DEF Tick, Running, Inductive, TypeOK, DeviceType
<1>3. /\ clear'.pending = clear.pending /\ clear'.running = clear.running
      /\ clear'.cool = clear.cool /\ clear'.seen = clear.seen /\ clear'.rested = clear.rested
    BY DEF Tick, Inductive, TypeOK, ClearType
<1>4. ~PoweredOn /\ ~BeginsAhead BY <1>1, <1>3 DEF PoweredOn, BeginsAhead
<1>5. rest' = IF panel'.debt = 0 THEN "kept" ELSE rest
    BY <1>2, <1>4 DEF NextRest, RestKnown
<1>6. panel.debt \in Nat BY DEF Inductive, TypeOK, PanelType
<1>7. panel.debt = 0 => panel'.debt = 0 BY <1>1
<1>8. rest' # "kept" => rest' = rest /\ panel'.power = "off" /\ panel'.debt > 0
    BY <1>1, <1>5, <1>6 DEF RestKnown
<1>9. panel'.debt # 0 => rest' = rest BY <1>5
<1> QED BY <1>1, <1>2, <1>3, <1>5, <1>7, <1>8, <1>9 DEF RestKnown, Clearing

(* Clients and the main loop.  The loop schedules a clear only of a rested   *)
(* panel, unless the cooldown began ahead of its time.                       *)
LEMMA ClientKnown ==
    ASSUME Inductive, RestKnown, rest' = NextRest,
           (\E c \in Clients : ClientStep(c)) \/ GenericFileOperation
    PROVE  RestKnown' /\ rest' = rest
<1>1. /\ Running /\ ClientFrame /\ flash'.marker = flash.marker
    BY ClientHasEffect DEF ClientEffect, ClientKeeps, GenericFileOperation, Running
<1>2. Running' BY <1>1 DEF ClientFrame, Running
<1> QED BY <1>1, <1>2, StillKnown DEF ClientFrame

LEMMA MainKnown ==
    ASSUME Inductive, RestKnown, rest' = NextRest, MainStep, ~DeepSleep
    PROVE  RestKnown' /\ rest' = rest
<1>1. Running /\ MainFrame
    BY DEF MainStep, StartPass, MainPoll, RequestRestart, PollRestart, CheckSleep,
           RequestSleep, ReserveSleep, CancelSleep, MainFree
<1>2. Running' /\ panel' = panel /\ flash' = flash /\ hw' = hw BY <1>1 DEF MainFrame, Running
<1>3. worker' = worker \/ worker' = "control"
    BY DEF MainStep, StartPass, MainPoll, RequestRestart, PollRestart, CheckSleep,
           RequestSleep, ReserveSleep, CancelSleep
<1>4. worker' \in UnwokenPcs /\ ~hw'.mayBeActive => panel.debt = 0 \/ rest = "lost"
    BY <1>2, <1>3 DEF RestKnown, UnwokenPcs
<1>5. flash'.marker = "none" => panel.debt = 0 \/ rest # "kept" BY <1>2 DEF RestKnown
<1>6. CASE clear' = clear BY <1>1, <1>2, <1>3, <1>6, StillKnown DEF UnwokenPcs
<1>7. CASE StartPass \/ MainPoll \/ RequestSleep
    <2>1. /\ clear'.cool = clear.cool /\ clear'.running = clear.running
          /\ clear'.rested = clear.rested
          /\ clear'.pending => clear.pending \/ (MainPoll /\ PollSets(clear.seen = "elapsed"))
          /\ clear'.seen = "elapsed" => clear.seen = "elapsed" \/ CoolElapsed
        BY <1>7 DEF StartPass, MainPoll, RequestSleep, Inductive, TypeOK, ClearType
    <2>2. CoolElapsed => panel.debt = 0
        BY ConstantsAssumption
        DEF CoolElapsed, Inductive, CooldownKnown, TypeOK, PanelType, ClearType
    <2>3. MainPoll /\ PollSets(clear.seen = "elapsed") => panel.debt = 0 \/ rest = "hasty"
        BY DEF PollSets, RestKnown, Clearing
    <2>4. Clearing' => panel.debt = 0 \/ rest = "hasty"
        BY <2>1, <2>2, <2>3 DEF RestKnown, Clearing
    <2>5. ~BeginsAhead /\ (rest = "hasty" => clear'.cool = "cooling")
        BY <2>1 DEF BeginsAhead, RestKnown
    <2>6. clear'.running /\ clear'.rested => panel.debt = 0 BY <2>1 DEF RestKnown
    <2> QED BY <1>2, <1>4, <1>5, <2>4, <2>5, <2>6, QuietRest, QuietKnown DEF Clearing
<1> QED BY <1>6, <1>7 DEF MainStep, RequestRestart, PollRestart, CheckSleep, ReserveSleep, CancelSleep

(* The worker between two draws.  A clear is started with the worker's own   *)
(* look at the cooldown, and releases only a panel rested by that look.      *)
LEMMA ControlKnown ==
    ASSUME Inductive, RestKnown, rest' = NextRest,
           WorkerPoll \/ Control \/ \E ok \in BOOLEAN : ClearMarker(ok)
    PROVE  RestKnown' /\ rest' = rest
<1>1. /\ Running /\ panel' = panel /\ device' = device
      /\ worker' \in {"control", "restart", "clear", "receive", "none"}
    BY DEF WorkerPoll, Control, ClearMarker, StepWorker, WorkerFrame, Resume
<1>2. Running' /\ worker' \notin UnwokenPcs BY <1>1 DEF Running, UnwokenPcs
<1>3. CoolElapsed => panel.debt = 0
    BY ConstantsAssumption
    DEF CoolElapsed, Inductive, CooldownKnown, TypeOK, PanelType, ClearType
<1>4. clear \in ClearType /\ (clear.pending => ~clear.running)
    BY DEF Inductive, TypeOK, CooldownKnown
<1>5. CASE WorkerPoll
    <2>1. /\ clear'.cool = clear.cool /\ clear'.running = clear.running
          /\ clear'.rested = clear.rested /\ clear'.seen = clear.seen
          /\ clear'.pending => clear.pending \/ CoolElapsed
          /\ flash' = flash
        BY <1>4, <1>5 DEF WorkerPoll, PollSets, ClearType
    <2>2. Clearing' => panel.debt = 0 \/ rest = "hasty"
        BY <1>3, <2>1 DEF RestKnown, Clearing
    <2>3. /\ ~BeginsAhead /\ (rest = "hasty" => clear'.cool = "cooling")
          /\ clear'.running /\ clear'.rested => panel.debt = 0
          /\ flash'.marker = "none" => panel.debt = 0 \/ rest # "kept"
        BY <2>1 DEF BeginsAhead, RestKnown
    <2> QED BY <1>1, <1>2, <2>2, <2>3, QuietRest, QuietKnown DEF Clearing
<1>6. CASE Control
    <2>1. /\ clear'.cool = clear.cool /\ clear'.seen = clear.seen
          /\ clear'.pending => clear.pending
          /\ clear'.running => clear.running \/ clear.pending
          /\ clear'.running /\ clear'.rested => (clear.running /\ clear.rested) \/ CoolElapsed
        <3>1. \/ clear' = clear
              \/ clear' = [clear EXCEPT !.pending = @ /\ ~DrainApproves]
              \/ /\ clear.pending
                 /\ clear' = [clear EXCEPT !.pending = FALSE, !.running = TRUE,
                                           !.rested = CoolElapsed, !.gen = svc.op]
            BY <1>6 DEF Control, ClearStarts
        <3> HIDE DEF DrainApproves, CoolElapsed
        <3> QED BY <1>4, <3>1 DEF ClearType
    <2>2. flash' = flash BY <1>6 DEF Control
    <2>3. Clearing' => panel.debt = 0 \/ rest = "hasty"
        BY <2>1 DEF RestKnown, Clearing
    <2>4. /\ ~BeginsAhead /\ (rest = "hasty" => clear'.cool = "cooling")
          /\ clear'.running /\ clear'.rested => panel.debt = 0
          /\ flash'.marker = "none" => panel.debt = 0 \/ rest # "kept"
        BY <1>3, <2>1, <2>2 DEF BeginsAhead, RestKnown
    <2> QED BY <1>1, <1>2, <2>3, <2>4, QuietRest, QuietKnown DEF Clearing
<1>7. ASSUME NEW ok \in BOOLEAN, ClearMarker(ok) PROVE RestKnown' /\ rest' = rest
    <2> DEFINE releases == clear.gen = svc.op /\ ok /\ clear.rested
               fails    == clear.gen = svc.op /\ ~ok
    <2>1. clear.running /\ ~clear.pending /\ clear.cool = "cooling"
        BY <1>7 DEF ClearMarker, StepWorker, Inductive, CooldownKnown
    <2>2. /\ ~clear'.running /\ ~clear'.pending /\ clear'.seen = clear.seen
          /\ clear'.cool = (IF releases THEN "idle" ELSE "cooling")
        <3>1. clear' = LET after == [clear EXCEPT !.running = FALSE, !.rested = FALSE, !.gen = 0]
                       IN  CASE releases -> [after EXCEPT !.cool = "idle", !.age = 0, !.retry = "none"]
                             [] fails    -> [after EXCEPT !.retry = "backoff"]
                             [] OTHER    -> after
            BY <1>7 DEF ClearMarker
        <3>2. ~(releases /\ fails) OBVIOUS
        <3> HIDE DEF releases, fails
        <3>3. CASE releases BY <1>4, <2>1, <3>1, <3>2, <3>3 DEF ClearType
        <3>4. CASE fails BY <1>4, <2>1, <3>1, <3>2, <3>4 DEF ClearType
        <3>5. CASE ~releases /\ ~fails BY <1>4, <2>1, <3>1, <3>5 DEF ClearType
        <3> QED BY <3>3, <3>4, <3>5
    <2>3. releases => panel.debt = 0 BY <2>1 DEF RestKnown
    <2> HIDE DEF releases, fails
    <2>4. panel.debt = 0 \/ rest = "hasty" BY <2>1 DEF RestKnown, Clearing
    <2>5. rest = "hasty" => clear'.cool = "cooling" BY <2>2, <2>3 DEF RestKnown
    <2>6. ~BeginsAhead BY <2>1 DEF BeginsAhead
    <2> QED BY <1>1, <1>2, <2>2, <2>4, <2>5, <2>6, QuietRest, QuietKnown DEF Clearing
<1> QED BY <1>5, <1>6, <1>7

(* A draw up to its marker, which is set only for a panel that may be woken. *)
LEMMA MarkKnown ==
    ASSUME Inductive, worker = "mark", RestKnown
    PROVE  /\ flash.marker = "none" /\ ~hw.mayBeActive /\ panel.power = "off"
           /\ panel.debt = 0 \/ rest = "lost"
<1>1. flash.marker = "none" /\ ~hw.mayBeActive /\ panel.power = "off"
    BY DEF Inductive, PanelKnown, TypeOK, PanelType
<1>2. rest # "hasty" BY DrawAlone DEF DrawPcs, RestKnown
<1> QED BY <1>1, <1>2 DEF RestKnown

LEMMA AcceptedDrawKnown ==
    ASSUME Inductive, RestKnown, rest' = NextRest,
           \/ Receive \/ OpenForDraw \/ OpenFrame \/ StartDraw
           \/ \E ok \in BOOLEAN : ValidateForDraw(ok)
    PROVE  RestKnown' /\ rest' = rest
<1>1. /\ Running /\ device' = device /\ panel' = panel /\ clear' = clear /\ flash' = flash
      /\ worker' \in {"poll", "validate", "validating", "open", "draw", "mark"}
    BY DEF Receive, OpenForDraw, OpenFrame, StartDraw, ValidateForDraw, DrawRejected,
           StepWorker, WorkerFrame
<1> QED BY <1>1, StillKnown DEF Running, UnwokenPcs

LEMMA MarkedDrawKnown ==
    ASSUME Inductive, RestKnown, rest' = NextRest,
           \/ MarkActive \/ \E ok \in BOOLEAN : MarkActiveFails(ok)
    PROVE  RestKnown' /\ rest' = rest
<1>1. /\ Running /\ device' = device /\ panel' = panel /\ clear' = clear /\ worker = "mark"
    BY DEF MarkActive, MarkActiveFails, StepWorker, WorkerFrame, DrawFrame
<1>2. panel.debt = 0 \/ rest = "lost" BY <1>1, MarkKnown
<1>3. Running' /\ ~BeginsAhead BY <1>1 DEF Running, BeginsAhead
<1> QED BY <1>1, <1>2, <1>3, QuietRest, QuietKnown DEF Clearing, RestKnown

LEMMA QuietDrawKnown ==
    ASSUME Inductive, RestKnown, rest' = NextRest,
           \/ Prewake \/ PrewakeFails \/ InitializeFails \/ Refresh
           \/ \E ok \in BOOLEAN : Transfer(ok)
    PROVE  RestKnown' /\ rest' = rest
<1>1. /\ Running /\ device' = device /\ panel' = panel /\ clear' = clear /\ flash' = flash
    BY DEF Prewake, PrewakeFails, InitializeFails, Refresh, Transfer, StepWorker,
           WorkerFrame, DrawFrame
<1>2. Running' BY <1>1 DEF Running
<1>3. CASE Prewake \/ PrewakeFails
    <2>1. worker = "prewake" /\ ~hw.mayBeActive /\ hw'.mayBeActive = hw.mayBeActive
        <3>1. worker = "prewake" BY <1>3 DEF Prewake, PrewakeFails, StepWorker
        <3>2. ~hw.mayBeActive BY <3>1 DEF Inductive, DrawKnown
        <3> QED BY <1>3, <3>1, <3>2 DEF Prewake, PrewakeFails, Inductive, TypeOK, HwType
    <2> QED BY <1>1, <1>2, <2>1, StillKnown DEF UnwokenPcs
<1>4. CASE InitializeFails
    <2>1. worker = "init" /\ hw' = hw BY <1>4 DEF InitializeFails, StepWorker
    <2> QED BY <1>1, <1>2, <2>1, StillKnown DEF UnwokenPcs
<1>5. CASE Refresh \/ \E ok \in BOOLEAN : Transfer(ok)
    <2>1. worker \in {"transfer", "refresh"} /\ hw' = hw
        BY <1>5 DEF Refresh, Transfer, StepWorker
    <2>2. hw'.mayBeActive BY <2>1 DEF Inductive, DrawKnown
    <2> QED BY <1>1, <1>2, <2>2, StillKnown
<1> QED BY <1>3, <1>4, <1>5

(* Power ON begins a new rest to keep.                                       *)
LEMMA PowerOnKnown ==
    ASSUME Inductive, RestKnown, rest' = NextRest, NEW idle \in BOOLEAN, PowerOn(idle)
    PROVE  RestKnown' /\ rest' = "kept" /\ (panel.debt = 0 \/ rest = "lost")
<1>1. /\ worker = "init" /\ device' = device /\ clear' = clear /\ flash' = flash /\ Running
      /\ panel'.power = "on"
    BY DEF PowerOn, StepWorker, WorkerFrame, DrawFrame
<1>2. ~hw.mayBeActive /\ panel.power = "off" /\ flash.marker = "active"
    BY <1>1 DEF Inductive, DrawKnown
<1>3. hw'.mayBeActive BY DEF PowerOn, Inductive, TypeOK, HwType
<1>4. rest' = "kept" BY <1>1, <1>2 DEF NextRest, PoweredOn
<1>5. panel.debt = 0 \/ rest = "lost" BY <1>1, <1>2 DEF RestKnown
<1>6. ~clear.pending /\ ~clear.running /\ clear.cool # "cooling"
    BY <1>1, DrawAlone DEF DrawPcs
<1> QED BY <1>1, <1>2, <1>3, <1>4, <1>5, <1>6 DEF RestKnown, Clearing

LEMMA ShutdownKnown ==
    ASSUME Inductive, RestKnown, rest' = NextRest, ShutdownFails \/ ShutdownPanel
    PROVE  RestKnown' /\ rest' = rest /\ rest = "kept"
<1>1. /\ worker = "shutdown" /\ hw.mayBeActive /\ device' = device /\ clear' = clear
      /\ flash' = flash /\ Running /\ worker' \notin UnwokenPcs
    BY DEF ShutdownFails, ShutdownPanel, StepWorker, WorkerFrame, DrawFrame, UnwokenPcs
<1>2. panel.power = "on" /\ flash.marker = "active" BY <1>1 DEF Inductive, DrawKnown
<1>3. rest = "kept" BY <1>2 DEF RestKnown
<1>4. rest' = "kept"
    <2>1. ~PoweredOn /\ ~BeginsAhead BY <1>1, <1>2 DEF PoweredOn, BeginsAhead
    <2> QED BY <1>3, <2>1 DEF NextRest
<1>5. ~clear.pending /\ ~clear.running /\ clear.cool # "cooling"
    BY <1>1, DrawAlone DEF DrawPcs
<1> QED BY <1>1, <1>2, <1>3, <1>4, <1>5 DEF RestKnown, UnwokenPcs, Clearing

LEMMA ConfirmKnown ==
    ASSUME Inductive, RestKnown, rest' = NextRest,
           \E ok \in BOOLEAN : ShutdownUnwoken(ok) \/ ConfirmShutdown(ok)
    PROVE  RestKnown' /\ rest' = rest
<1>1. /\ Running /\ device' = device /\ panel' = panel /\ clear' = clear
      /\ worker' = "finish" /\ worker \in DrawPcs
    BY DEF ShutdownUnwoken, ConfirmShutdown, StepWorker, WorkerFrame, DrawFrame, DrawPcs
<1>2. flash'.marker = "none" => panel.debt = 0 \/ rest # "kept"
    <2>1. ASSUME NEW ok \in BOOLEAN, ShutdownUnwoken(ok) PROVE panel.debt = 0 \/ rest = "lost"
        BY <2>1 DEF ShutdownUnwoken, StepWorker, RestKnown
    <2>2. ASSUME NEW ok \in BOOLEAN, ConfirmShutdown(ok) PROVE flash'.marker # "none"
        <3>1. flash.marker = "active" BY <2>2 DEF ConfirmShutdown, StepWorker, Inductive, DrawKnown
        <3>2. flash'.marker \in {"active", "confirmed"}
            BY <2>2, <3>1, SetMarkerEffect DEF ConfirmShutdown, Written, Inductive
        <3> QED BY <3>2
    <2> QED BY <2>1, <2>2
<1>3. Running' /\ ~BeginsAhead BY <1>1 DEF Running, BeginsAhead
<1> QED BY <1>1, <1>2, <1>3, QuietRest, QuietKnown DEF Clearing, RestKnown, UnwokenPcs

(* The end of a draw: the one step that can make a rest hasty, of a panel    *)
(* that is off and whose marker says "confirmed".                            *)
LEMMA FinishDrawKnown ==
    ASSUME Inductive, RestKnown, rest' = NextRest, NEW restored \in BOOLEAN,
           FinishDraw(restored)
    PROVE  /\ RestKnown'
           /\ \/ rest' = rest
              \/ /\ rest' = "hasty" /\ panel.power = "off" /\ panel.debt > 0
                 /\ flash.marker = "confirmed"
<1>1. /\ Running /\ device' = device /\ panel' = panel /\ flash' = flash
      /\ worker = "finish" /\ worker' = "poll"
    BY DEF FinishDraw, StepWorker, WorkerFrame
<1>2. ~clear.pending /\ ~clear.running /\ clear.cool # "cooling"
    BY <1>1, DrawAlone DEF DrawPcs
<1>3. Running' /\ worker' \notin UnwokenPcs BY <1>1 DEF Running, UnwokenPcs
<1>4. rest # "hasty" BY <1>2 DEF RestKnown
<1>5. flash'.marker = "none" => panel.debt = 0 \/ rest # "kept" BY <1>1 DEF RestKnown
<1>6. /\ ~clear'.pending /\ ~clear'.running
      /\ clear'.cool = "cooling" => ~hw.unavailable /\ hw.stage = "confirmed"
    <2>1. \/ clear' = [clear EXCEPT !.cool = "unavailable"]
          \/ ~hw.unavailable /\ hw.stage = "confirmed" /\ BeginCooldown
          \/ clear' = clear
        BY DEF FinishDraw
    <2> QED BY <1>2, <2>1 DEF BeginCooldown, Inductive, TypeOK, ClearType
<1>7. CASE ~BeginsAhead
    <2>1. clear'.cool = "cooling" => clear'.seen # "elapsed" BY <1>2, <1>7 DEF BeginsAhead
    <2> QED BY <1>1, <1>3, <1>4, <1>5, <1>6, <1>7, <2>1, QuietRest, QuietKnown DEF Clearing
<1>8. CASE BeginsAhead
    <2>1. panel.power = "off" /\ flash.marker = "confirmed"
        BY <1>1, <1>6, <1>8 DEF BeginsAhead, Inductive, DrawKnown
    <2>2. panel.debt \in Nat BY DEF Inductive, TypeOK, PanelType
    <2>3. ~PoweredOn BY <1>1 DEF PoweredOn
    <2>4. CASE panel.debt = 0
        <3>1. rest = "kept" BY <2>4 DEF RestKnown
        <3>2. rest' = "kept"
            <4>1. panel'.debt = 0 BY <1>1, <2>4
            <4> QED BY <4>1 DEF NextRest
        <3> QED BY <1>1, <1>3, <1>6, <2>1, <2>4, <3>1, <3>2 DEF RestKnown, UnwokenPcs, Clearing
    <2>5. CASE panel.debt # 0
        <3>1. rest' = "hasty" BY <1>1, <1>3, <1>4, <1>8, <2>3, <2>5 DEF NextRest
        <3>2. clear'.cool = "cooling" BY <1>8 DEF BeginsAhead
        <3> QED BY <1>1, <1>3, <1>6, <2>1, <2>2, <2>5, <3>1, <3>2 DEF RestKnown, UnwokenPcs, Clearing
    <2> QED BY <2>4, <2>5
<1> QED BY <1>7, <1>8

LEMMA NextKnown ==
    ASSUME Inductive, RestKnown, [RestNext]_restVars PROVE RestKnown'
<1>1. CASE UNCHANGED restVars
    BY <1>1 DEF restVars, vars, RestKnown, Clearing, Running
<1>2. CASE RestNext
    <2>1. rest' = NextRest /\ Next /\ TypeOK' BY <1>2, NextTyped DEF RestNext, Inductive
    <2>2. CASE Crash \/ PowerCycle \/ Wake \/ DeepSleep \/ RestartNow BY <2>1, <2>2, ResetsKnown
    <2>3. CASE Boot \/ Tick BY <2>1, <2>3, BootKnown, TickKnown
    <2>4. CASE (\E c \in Clients : ClientStep(c)) \/ GenericFileOperation
               \/ (MainStep /\ ~DeepSleep)
        BY <2>1, <2>4, ClientKnown, MainKnown
    <2>5. CASE WorkerStep
        BY <2>1, <2>2, <2>5, ControlKnown, AcceptedDrawKnown, MarkedDrawKnown, QuietDrawKnown,
           PowerOnKnown, ShutdownKnown, ConfirmKnown, FinishDrawKnown DEF WorkerStep
    <2> QED BY <2>1, <2>2, <2>3, <2>4, <2>5 DEF Next
<1> QED BY <1>1, <1>2

\* The history variable adds nothing to what the service does.
LEMMA RestRefines == RestSpec => Spec
<1>1. [RestNext]_restVars => [Next]_vars BY DEF RestNext, restVars
<1> QED BY <1>1, PTL DEF RestSpec, RestInit, Spec

LEMMA RestInvariance == RestSpec => [](Inductive /\ RestKnown)
<1>1. RestInit => RestKnown
    BY DEF RestInit, Init, RestKnown, Clearing, FreshClear, FreshHw
<1>2. Inductive /\ RestKnown /\ [RestNext]_restVars => RestKnown' BY NextKnown
<1> QED BY <1>1, <1>2, RestRefines, Invariance, PTL DEF RestSpec

(* Admission is only for a panel without marker that owes no rest (begin,    *)
(* finishDraw, processControl and the deep-sleep evidence), unless a cooldown*)
(* began ahead of the time that loop() polls with and a reset came before    *)
(* its rest was over.  Nothing is assumed of how far the loop lags.          *)
THEOREM AdmissionOnlyRested == RestSpec => []IdleMeansRested
<1>1. ASSUME Inductive, RestKnown PROVE IdleMeansRested
    <2>1. ASSUME svc.state \in {"idle", "uploading", "queued"}
          PROVE  flash.marker = "none" /\ rest # "hasty"
        <3>1. flash.marker = "none" BY <1>1, <2>1 DEF Inductive, PanelKnown
        <3>2. clear.cool # "cooling" BY <1>1, <2>1 DEF Inductive, CooldownKnown
        <3> QED BY <1>1, <3>1, <3>2 DEF RestKnown
    <2> QED BY <1>1, <2>1 DEF IdleMeansRested, RestKnown
<1> QED BY <1>1, RestInvariance, PTL

-----------------------------------------------------------------------------
(* EpaperService implements PanelProtection: under the mapping of the      *)
(* panel's power and rest and of the durable marker, every step of the     *)
(* service is a step of the protocol or a stutter.                         *)

Implements == [Protection!Next]_(Protection!pvars)

LEMMA StutterImplements ==
    ASSUME panel' = panel, flash'.marker = flash.marker, rest' = rest PROVE Implements
BY DEF Implements, Protection!pvars

(* A marker that becomes "none" while the panel is off, and rested unless    *)
(* its rest is lost or hasty.                                                *)
LEMMA ClearImplements ==
    ASSUME panel' = panel, rest' = rest, panel.power = "off",
           panel.debt = 0 \/ rest \in {"lost", "hasty"},
           flash'.marker \in {flash.marker, "none"}
    PROVE  Implements
<1>1. CASE flash'.marker = flash.marker BY <1>1, StutterImplements
<1>2. CASE flash'.marker = "none"
    <2>1. Protection!Clear BY <1>2 DEF Protection!Clear, Protection!MayWake
    <2> QED BY <2>1 DEF Implements, Protection!Next
<1> QED BY <1>1, <1>2

(* A reset forgets a hasty rest; the loss of the common supply is PowerLoss. *)
LEMMA ResetImplements ==
    ASSUME Inductive, RestKnown, rest' = NextRest, TypeOK',
           Crash \/ PowerCycle \/ Wake \/ DeepSleep \/ RestartNow
    PROVE  Implements
<1>1. /\ flash' = flash
      /\ rest' = IF panel'.debt = 0 THEN "kept"
                 ELSE IF rest = "hasty"
                      THEN IF flash.marker = "none" THEN "lost" ELSE "kept"
                      ELSE rest
    BY ResetsKnown
<1>2. CASE PowerCycle
    <2>1. /\ panel'.power = "off"
          /\ panel'.debt = IF flash.marker = "active" THEN 0 ELSE panel.debt
        BY <1>2 DEF PowerCycle
    <2>2. Protection!PowerLoss
        BY <1>1, <2>1 DEF Protection!PowerLoss, Protection!RestOf, Protection!Forgotten
    <2> QED BY <2>2 DEF Implements, Protection!Next
<1>3. CASE Crash \/ Wake \/ DeepSleep \/ RestartNow
    <2>1. RestartNow => hw.coord /\ PanelSafe
        BY DEF RestartNow, Inductive, DrainKnown, ApprovalKnown
    <2>2. panel' = panel BY <1>3, <2>1 DEF Crash, Wake, DeepSleep, RestartNow
    <2>3. rest' = Protection!Forgotten BY <1>1, <2>2 DEF Protection!Forgotten, RestKnown
    <2>4. Protection!Forget BY <1>1, <2>2, <2>3 DEF Protection!Forget
    <2> QED BY <2>4 DEF Implements, Protection!Next
<1> QED BY <1>2, <1>3

(* Boot clears a marker only with the evidence that the panel has rested.    *)
LEMMA BootImplements ==
    ASSUME Inductive, RestKnown, rest' = NextRest, Boot PROVE Implements
<1>1. panel' = panel /\ rest' = rest
    BY BootKnown DEF Boot, BootWithoutHardware, BootService
<1>2. CASE BootWithoutHardware
    <2>1. flash'.marker = flash.marker \/ (Recovers /\ flash'.marker = "none")
        BY <1>2 DEF BootWithoutHardware, SetMarker, Written, Inductive, TypeOK, FlashType
    <2>2. Recovers => panel.power = "off" /\ panel.debt = 0 BY <1>2, BootEvidence DEF BootWithoutHardware
    <2> QED BY <1>1, <2>1, <2>2, StutterImplements, ClearImplements
<1>3. ASSUME NEW outcome \in {"worker", "early", "late"},
             NEW proven \in BOOLEAN, NEW cleared \in BOOLEAN,
             BootService(outcome, proven, cleared)
      PROVE  Implements
    <2>1. device.sys = "boot" /\ (proven => Rested) BY <1>3 DEF BootService
    <2>2. flash'.marker \in {Loaded, flash.marker, "none"}
        BY <1>3 DEF BootService, SetMarker, Written, Inductive, TypeOK, FlashType
    <2>3. flash'.marker = Loaded \/ (Loaded = "confirmed" /\ proven)
        BY <1>3 DEF BootService, SetMarker, Inductive, TypeOK, FlashType
    <2>4. Loaded = flash.marker \/ (Recovers /\ Loaded = "none") BY DEF Loaded
    <2>5. Recovers \/ (Loaded = "confirmed" /\ proven) => panel.power = "off" /\ panel.debt = 0
        BY <2>1, BootEvidence
    <2> QED BY <1>1, <2>2, <2>3, <2>4, <2>5, StutterImplements, ClearImplements
<1> QED BY <1>2, <1>3 DEF Boot

(* The panel rests while it is off. *)
LEMMA TickImplements ==
    ASSUME Inductive, RestKnown, rest' = NextRest, Tick PROVE Implements
<1>1. /\ flash' = flash /\ panel \in PanelType
      /\ rest' = IF panel'.debt = 0 THEN "kept" ELSE rest
    BY TickKnown DEF Tick, Inductive, TypeOK
<1>2. CASE panel.power = "off" /\ panel.debt > 0
    <2>1. panel'.power = panel.power /\ panel'.debt = panel.debt - 1
        BY <1>1, <1>2 DEF Tick, PanelType
    <2>2. Protection!Rest BY <1>1, <1>2, <2>1 DEF Protection!Rest, Protection!RestOf
    <2> QED BY <2>2 DEF Implements, Protection!Next
<1>3. CASE ~(panel.power = "off" /\ panel.debt > 0)
    <2>1. panel' = panel BY <1>3 DEF Tick
    <2>2. rest' = rest BY <1>1, <2>1 DEF RestKnown
    <2> QED BY <1>1, <2>1, <2>2, StutterImplements
<1> QED BY <1>2, <1>3

LEMMA OthersImplement ==
    ASSUME Inductive, RestKnown, rest' = NextRest,
           \/ \E c \in Clients : ClientStep(c)
           \/ GenericFileOperation
           \/ MainStep /\ ~DeepSleep
           \/ WorkerPoll \/ Control \/ Receive \/ OpenForDraw \/ OpenFrame \/ StartDraw
           \/ Prewake \/ PrewakeFails \/ InitializeFails \/ Refresh
           \/ \E ok \in BOOLEAN : ValidateForDraw(ok) \/ Transfer(ok)
    PROVE  Implements
<1>1. rest' = rest
    BY ClientKnown, MainKnown, ControlKnown, AcceptedDrawKnown, QuietDrawKnown
<1> SUFFICES panel' = panel /\ flash'.marker = flash.marker BY <1>1, StutterImplements
<1>2. ASSUME NEW c \in Clients, ClientStep(c) PROVE panel' = panel /\ flash'.marker = flash.marker
    BY <1>2, ClientHasEffect DEF ClientEffect, ClientKeeps, ClientFrame
<1>3. CASE GenericFileOperation BY <1>3 DEF GenericFileOperation, ClientFrame
<1>4. CASE MainStep /\ ~DeepSleep
    <2>1. MainFrame
        BY <1>4 DEF MainStep, StartPass, MainPoll, RequestRestart, PollRestart, CheckSleep,
                    RequestSleep, ReserveSleep, CancelSleep
    <2> QED BY <2>1 DEF MainFrame
<1>5. CASE WorkerPoll \/ Control \/ Receive BY <1>5 DEF WorkerPoll, Control, Receive
<1>6. CASE \/ OpenForDraw \/ OpenFrame \/ StartDraw
           \/ \E ok \in BOOLEAN : ValidateForDraw(ok)
    BY <1>6 DEF OpenForDraw, OpenFrame, StartDraw, ValidateForDraw
<1>7. CASE \/ Prewake \/ PrewakeFails \/ InitializeFails \/ Refresh
           \/ \E ok \in BOOLEAN : Transfer(ok)
    BY <1>7 DEF Prewake, PrewakeFails, InitializeFails, Refresh, Transfer
<1> QED BY <1>2, <1>3, <1>4, <1>5, <1>6, <1>7

(* The marker precedes the wake, and it is only set for a panel that may be  *)
(* woken.                                                                    *)
LEMMA MarkImplements ==
    ASSUME Inductive, RestKnown, rest' = NextRest,
           MarkActive \/ \E ok \in BOOLEAN : MarkActiveFails(ok)
    PROVE  Implements
<1>1. worker = "mark" /\ panel' = panel /\ rest' = rest
    BY MarkedDrawKnown DEF MarkActive, MarkActiveFails, StepWorker
<1>2. flash.marker = "none" /\ panel.power = "off" /\ (panel.debt = 0 \/ rest = "lost")
    BY <1>1, MarkKnown
<1>3. flash'.marker \in {"none", "active"}
    BY <1>2, SetMarkerEffect DEF MarkActive, MarkActiveFails, Written, Inductive
<1>4. CASE flash'.marker = "active"
    <2>1. Protection!Protect BY <1>1, <1>2, <1>4 DEF Protection!Protect, Protection!MayWake
    <2> QED BY <2>1 DEF Implements, Protection!Next
<1> QED BY <1>1, <1>2, <1>3, <1>4, ClearImplements

LEMMA PowerOnImplements ==
    ASSUME Inductive, RestKnown, rest' = NextRest, NEW idle \in BOOLEAN, PowerOn(idle)
    PROVE  Implements
<1>1. worker = "init" /\ panel' = [power |-> "on", debt |-> Cool] /\ flash' = flash
    BY DEF PowerOn, StepWorker
<1>2. flash.marker = "active" /\ panel.power = "off"
    BY <1>1 DEF Inductive, DrawKnown
<1>3. rest' = "kept" /\ (panel.debt = 0 \/ rest = "lost") BY PowerOnKnown
<1>4. Protection!PowerOn BY <1>1, <1>2, <1>3 DEF Protection!PowerOn, Protection!MayWake
<1> QED BY <1>4 DEF Implements, Protection!Next

(* A shutdown changes the power only from on to off, and confirms or clears   *)
(* the marker only of a panel that is off.                                    *)
LEMMA ShutdownImplements ==
    ASSUME Inductive, RestKnown, rest' = NextRest,
           \/ ShutdownFails \/ ShutdownPanel
           \/ \E ok \in BOOLEAN : ShutdownUnwoken(ok) \/ ConfirmShutdown(ok)
    PROVE  Implements
<1>0. rest' = rest BY ShutdownKnown, ConfirmKnown
<1>1. CASE ShutdownFails \/ ShutdownPanel
    <2>1. worker = "shutdown" /\ hw.mayBeActive /\ flash' = flash
        BY <1>1 DEF ShutdownFails, ShutdownPanel, StepWorker
    <2>2. panel.power = "on" BY <2>1 DEF Inductive, DrawKnown
    <2>3. panel'.debt = panel.debt /\ panel'.power \in {"on", "off"}
        BY <1>1 DEF ShutdownFails, ShutdownPanel, Inductive, TypeOK, PanelType
    <2>4. CASE panel'.power = "off"
        <3>1. Protection!PowerOff BY <1>0, <2>1, <2>2, <2>3, <2>4 DEF Protection!PowerOff
        <3> QED BY <3>1 DEF Implements, Protection!Next
    <2>5. CASE panel'.power = "on"
        BY <1>0, <2>1, <2>2, <2>3, <2>5 DEF Implements, Protection!pvars
    <2> QED BY <2>3, <2>4, <2>5
<1>2. ASSUME NEW ok \in BOOLEAN, ShutdownUnwoken(ok) PROVE Implements
    <2>1. worker = "shutdown" /\ ~hw.mayBeActive /\ panel' = panel
        BY <1>2 DEF ShutdownUnwoken, StepWorker
    <2>2. panel.power = "off" /\ (panel.debt = 0 \/ rest = "lost")
        BY <2>1 DEF Inductive, DrawKnown, RestKnown
    <2>3. flash'.marker \in {flash.marker, "none"}
        BY <1>2, SetMarkerEffect DEF ShutdownUnwoken, Written, Inductive
    <2> QED BY <1>0, <2>1, <2>2, <2>3, ClearImplements
<1>3. ASSUME NEW ok \in BOOLEAN, ConfirmShutdown(ok) PROVE Implements
    <2>1. worker = "confirm" /\ panel' = panel BY <1>3 DEF ConfirmShutdown, StepWorker
    <2>2. panel.power = "off" /\ flash.marker = "active" BY <2>1 DEF Inductive, DrawKnown
    <2>3. flash'.marker \in {flash.marker, "confirmed"}
        BY <1>3, SetMarkerEffect DEF ConfirmShutdown, Written, Inductive
    <2>4. CASE flash'.marker = "confirmed"
        <3>1. Protection!Confirm BY <1>0, <2>1, <2>2, <2>4 DEF Protection!Confirm
        <3> QED BY <3>1 DEF Implements, Protection!Next
    <2> QED BY <1>0, <2>1, <2>3, <2>4, StutterImplements
<1> QED BY <1>1, <1>2, <1>3

LEMMA ClearMarkerImplements ==
    ASSUME Inductive, RestKnown, rest' = NextRest, NEW ok \in BOOLEAN, ClearMarker(ok)
    PROVE  Implements
<1>1. worker = "clear" /\ panel' = panel /\ rest' = rest
    BY ControlKnown DEF ClearMarker, StepWorker
<1>2. panel.power = "off" /\ (panel.debt = 0 \/ rest = "hasty")
    BY <1>1 DEF Inductive, CooldownKnown, RestKnown, Clearing
<1>3. flash'.marker \in {flash.marker, "none"}
    BY SetMarkerEffect DEF ClearMarker, Written, Inductive
<1> QED BY <1>1, <1>2, <1>3, ClearImplements

(* The draw's end stutters, or begins a hasty cooldown.                      *)
LEMMA FinishDrawImplements ==
    ASSUME Inductive, RestKnown, rest' = NextRest, NEW restored \in BOOLEAN,
           FinishDraw(restored)
    PROVE  Implements
<1>1. panel' = panel /\ flash' = flash BY DEF FinishDraw
<1>2. CASE rest' = rest BY <1>1, <1>2, StutterImplements
<1>3. CASE rest' # rest
    <2>1. Protection!Hasten BY <1>1, <1>3, FinishDrawKnown DEF Protection!Hasten
    <2> QED BY <2>1 DEF Implements, Protection!Next
<1> QED BY <1>2, <1>3

LEMMA NextImplements == Inductive /\ RestKnown /\ [RestNext]_restVars => Implements
<1> SUFFICES ASSUME Inductive, RestKnown, [RestNext]_restVars PROVE Implements
    OBVIOUS
<1>1. CASE UNCHANGED restVars BY <1>1, StutterImplements DEF restVars, vars
<1>2. CASE RestNext
    <2>1. rest' = NextRest /\ Next /\ TypeOK' BY <1>2, NextTyped DEF RestNext, Inductive
    <2>2. CASE Crash \/ PowerCycle \/ Wake \/ DeepSleep \/ RestartNow
        BY <2>1, <2>2, ResetImplements
    <2>3. CASE Boot \/ Tick BY <2>1, <2>3, BootImplements, TickImplements
    <2>4. CASE (\E c \in Clients : ClientStep(c)) \/ GenericFileOperation \/ (MainStep /\ ~DeepSleep)
        BY <2>1, <2>4, OthersImplement
    <2>5. CASE WorkerStep
        BY <2>1, <2>2, <2>5, OthersImplement, MarkImplements, PowerOnImplements,
           ShutdownImplements, ClearMarkerImplements, FinishDrawImplements DEF WorkerStep
    <2> QED BY <2>1, <2>2, <2>3, <2>4, <2>5 DEF Next
<1> QED BY <1>1, <1>2

(* Whatever the clients, the resets, failing writes, failing drivers and a   *)
(* lagging loop do, the panel is powered only under a durable marker, the    *)
(* marker is confirmed or cleared only of a panel that is off, and the panel *)
(* is woken only when rested, or after a hasty cooldown whose marker was     *)
(* cleared early and which a reset cut short.                                *)
THEOREM ProtectsThePanel == RestSpec => ProtectionSpec
<1>1. RestInit => Protection!Init BY DEF RestInit, Init, Protection!Init
<1>2. Inductive /\ RestKnown /\ [RestNext]_restVars => [Protection!Next]_(Protection!pvars)
    BY NextImplements DEF Implements
<1> QED BY <1>1, <1>2, RestInvariance, PTL DEF RestSpec, ProtectionSpec, Protection!Spec
=============================================================================
