---------------------------- MODULE DitherEditor ----------------------------
(***************************************************************************)
(* The product web UI's image editor: the page with its tool panels         *)
(* (page.js, editor-mode-state-machine.js), the controller that loads        *)
(* images and runs previews, exports and panel draws (controller.js), and    *)
(* the one worker that computes for it (worker/dither-worker-client.js).     *)
(*                                                                          *)
(* Editor record e:                                                         *)
(*   mounted, mode, open   the page; the mode and the open tool panels      *)
(*   img, rev, cal, pal    the image (number of its load), its settings     *)
(*                         (number of changes), its target (0: standalone,  *)
(*                         else the calibration's revision); pal: the       *)
(*                         Original palette was taken from this very crop   *)
(*   status, prev, out     the status, the preview and the output image     *)
(*   job, pend             the job owner's active job, and whether a        *)
(*                         preview is to follow it                          *)
(*   timer, hold, held     preview debounce; slider held, preview withheld  *)
(*   load, loads           a current load is being read; loads begun        *)
(*   busy                  the worker has a request pending                 *)
(*   stray                 a cancelled draw still asks the panel's status   *)
(* Pixels are abstracted: an image is what it was computed from.            *)
(***************************************************************************)
EXTENDS ProjectFile,  \* the files of ExportProject and DecodeProject; Naturals, Sequences
        CropTool      \* the crop of prepare mode and the sizes of resize

CONSTANTS MaxLoads,     \* images and projects opened
          MaxChanges,   \* changes of a setting
          MaxRevisions  \* device targets and calibrations that come up

ASSUME EditorBounds == MaxLoads \in Nat \ {0} /\ MaxChanges \in Nat /\ MaxRevisions \in Nat

VARIABLES e,      \* the editor, above
          op,     \* the panel operation of a draw: none, claimed by it, accepted by the device
          policy  \* the target the device modules report, and the revisions used up

editorVars == <<e, op, policy>>

Tools    == {"input", "crop", "dither"}
Group(t) == CASE t = "input" -> "source" [] t = "crop" -> "prepare" [] t = "dither" -> "edit"
Content  == [img : 0..MaxLoads, rev : 0..MaxChanges, cal : 0..MaxRevisions]
Nothing  == [img |-> 0, rev |-> 0, cal |-> 0]
JobKinds == {"none", "preview", "export", "project", "draw", "restore"}
\* ok: its version is the generation (check() passes); run: the newest preview run.
\* ask: the panel's status, work: the pipeline, pack: encoding, saving or packing,
\* send: uploading and waiting for the panel; refused: the worker did not take it.
Job      == [k : JobKinds, ok : BOOLEAN, run : BOOLEAN, what : Content,
             ph : {"ask", "work", "pack", "send", "refused"}]
NoJob    == [k |-> "none", ok |-> FALSE, run |-> FALSE, what |-> Nothing, ph |-> "work"]
Statuses == {"empty", "loading", "ready", "processing", "preview-ready", "exporting",
             "exporting-project", "exported", "project-exported", "error"}
Transient == {"loading", "exporting", "exporting-project", "processing"}

ContentOf(k) == [img |-> k.img, rev |-> k.rev, cal |-> k.cal]

-----------------------------------------------------------------------------
(* The mode machine.                                                        *)

EnterSource(k)  == [k EXCEPT !.mode = "source", !.open = {"input"}]
EnterPrepare(k) == IF k.img = 0 THEN EnterSource(k)
                   ELSE [k EXCEPT !.mode = "prepare", !.open = {"crop"}]
NormalizeEdit(k)   == [k EXCEPT !.mode = "edit", !.open = @ \ {"input", "crop"}]
NormalizeSource(k) == [k EXCEPT !.mode = "source", !.open = @ \ {"crop"}]
EnterEdit(k)    == IF k.img = 0 THEN EnterSource(k)
                   ELSE [NormalizeEdit(k) EXCEPT !.open = {"dither"}]
OpenEditTool(k, t) == IF k.img = 0 THEN EnterSource(k)
                      ELSE IF Group(t) # "edit" THEN EnterEdit(k)
                      ELSE [NormalizeEdit(k) EXCEPT !.open = {t}]

\* Every render normalizes first.
Rendered(k) == IF k.img = 0 THEN EnterSource(k)
               ELSE IF k.mode = "prepare" \/ "crop" \in k.open THEN EnterPrepare(k)
               ELSE IF "dither" \in k.open THEN NormalizeEdit(k)
               ELSE IF "input" \in k.open THEN NormalizeSource(k)
               ELSE NormalizeEdit(k)

CanUseTool(k, t) == k.img # 0 \/ Group(t) = "source"
CanUseAction(k)  == k.img # 0 /\ k.mode = "edit"
\* With the panel of the setting in sight.
CanUseSetting(k) == k.img # 0 /\ \/ k.mode = "prepare" /\ "crop" \in k.open
                                 \/ k.mode = "edit" /\ "dither" \in k.open

-----------------------------------------------------------------------------
(* The job owner: one active computation, one preview to follow it.         *)

IsHeavy(k) == k.job.k \notin {"none", "preview"}

\* Worker admission: one request in flight, and a second is refused.
TakeWorker(k) == IF k.busy THEN [k EXCEPT !.job.ph = "refused"]
                 ELSE [k EXCEPT !.job.ph = "work", !.busy = TRUE]

TerminateWorker(k) == [k EXCEPT !.busy = FALSE]

StartPreview(k) ==
    IF k.img = 0 THEN Rendered([k EXCEPT !.status = "empty", !.job = NoJob])
    ELSE TakeWorker([k EXCEPT !.job = [NoJob EXCEPT !.k = "preview", !.ok = TRUE, !.run = TRUE,
                                                    !.what = ContentOf(k)]])

SupersedePreview(k) == IF IsHeavy(k) THEN k ELSE [k EXCEPT !.job.ok = FALSE]

RunPreview(k) ==
    IF IsHeavy(k) THEN [k EXCEPT !.pend = TRUE]
    ELSE IF k.job.k = "preview" THEN [k EXCEPT !.job.ok = FALSE, !.pend = TRUE]
    ELSE StartPreview(k)

\* A generation that moves on without stopping the worker.
InvalidateWorking(k) == [k EXCEPT !.job = NoJob, !.pend = FALSE]

\* A cancelled draw that still waits for the panel's status does so on its own.
Invalidate(k) == TerminateWorker([k EXCEPT !.job = NoJob, !.pend = FALSE,
    !.stray = @ \/ (k.job.k = "draw" /\ k.job.ph = "ask")])

HeavyJob(k, kind, what) == [Invalidate(k) EXCEPT
    !.job = [NoJob EXCEPT !.k = kind, !.ok = TRUE, !.what = what]]

\* The promise of the active job settles: the preview waiting for it starts.
Settled(k) == IF k.pend THEN StartPreview([k EXCEPT !.job = NoJob, !.pend = FALSE])
              ELSE [k EXCEPT !.job = NoJob]

-----------------------------------------------------------------------------
(* The controller.                                                          *)

\* A schedule that lets the running preview commit.
SchedulePreviewKeep(k) ==
    IF IsHeavy(k) THEN [k EXCEPT !.pend = TRUE]
    ELSE IF k.mode = "prepare" THEN Rendered([k EXCEPT !.status = "ready"])
    ELSE IF k.hold THEN [k EXCEPT !.held = TRUE]
    ELSE Rendered([k EXCEPT !.timer = TRUE, !.status = "processing"])

SchedulePreview(k) ==
    IF IsHeavy(k) THEN [k EXCEPT !.pend = TRUE]
    ELSE IF k.mode = "prepare"
    THEN Rendered([SupersedePreview(k) EXCEPT !.status = "ready"])
    ELSE IF k.hold THEN [SupersedePreview(k) EXCEPT !.held = TRUE]
    ELSE Rendered([SupersedePreview(k) EXCEPT !.timer = TRUE, !.status = "processing"])

CommitPrepareChanges(k) == [k EXCEPT !.pal = TRUE]

\* The target policy, told by the epaper and calibration modules; what it drops.
SyncTarget(k, target) ==
    IF k.cal = target THEN k
    ELSE [k EXCEPT !.cal = target, !.timer = FALSE, !.job.run = FALSE, !.out = Nothing]

SyncEpaperCalibration(k, target) ==
    IF k.cal # target /\ k.img # 0 /\ k.mode = "edit"
    THEN SchedulePreview(SyncTarget(k, target))
    ELSE Rendered(SyncTarget(k, target))

BeginSourceLoad(k) ==
    [Invalidate(k) EXCEPT !.timer = FALSE, !.held = FALSE, !.load = TRUE, !.loads = @ + 1]

\* A new workspace: what is held, timed or running stays the controller's.
LoadResult(k, target) == Rendered(EnterPrepare(
    [k EXCEPT !.load = FALSE, !.img = k.loads, !.rev = 0, !.cal = target, !.pal = FALSE,
              !.prev = Nothing, !.out = Nothing, !.status = "ready"]))

\* The mode and panels a project was saved with.
Restored(k, mode) ==
    Rendered([k EXCEPT !.img = k.job.what.img, !.rev = 0, !.cal = k.job.what.cal, !.pal = TRUE,
                       !.prev = k.job.what, !.out = k.job.what, !.load = FALSE, !.mode = mode,
                       !.open = {t \in Tools : Group(t) = mode},
                       !.status = IF mode = "prepare" THEN "ready" ELSE "preview-ready"])

PreviewReady(k) == [k EXCEPT !.status = IF @ \in Transient
                                        THEN IF k.prev # Nothing THEN "preview-ready" ELSE "ready"
                                        ELSE @]

-----------------------------------------------------------------------------
(* What the user does: the page must be there and no operation cover it, so    *)
(* a draw that has claimed the operation is not cancelled.                     *)

Reachable == e.mounted /\ op = "none"
Does(k)   == e' = k /\ UNCHANGED <<op, policy>>

LoadFile ==
    /\ Reachable /\ e.loads < MaxLoads
    /\ Does(Rendered([BeginSourceLoad(e) EXCEPT !.status = "loading"]))

\* A settings panel's control, a crop gesture, a toggle or a new order of the effects.
UpdateSetting ==
    /\ Reachable /\ CanUseSetting(e) /\ e.rev < MaxChanges
    /\ LET k == [e EXCEPT !.rev = @ + 1]
       IN  Does(IF e.mode = "prepare"
                THEN Rendered([k EXCEPT !.status = "ready", !.pal = FALSE])
                ELSE SchedulePreview(k))

BeginPreviewHold ==
    /\ Reachable /\ CanUseSetting(e) /\ e.mode = "edit" /\ ~e.hold
    /\ Does([e EXCEPT !.hold = TRUE, !.timer = IsHeavy(e) /\ @])

EndPreviewHold ==
    /\ e.mounted /\ e.hold
    /\ LET k == [e EXCEPT !.hold = FALSE]
       IN  Does(IF k.held THEN SchedulePreview([k EXCEPT !.held = FALSE, !.timer = FALSE])
                ELSE Rendered(k))

OpenPrepareMode(k) ==
    IF k.img = 0 THEN k
    ELSE Rendered(EnterPrepare([SupersedePreview(k) EXCEPT !.timer = FALSE, !.status = "ready"]))

OpenSourcePanel(k) == IF k.mode = "prepare" THEN SchedulePreview(EnterSource(k))
                      ELSE Rendered(EnterSource(k))

OpenEditPanel(k, t) == IF k.mode = "prepare"
                       THEN SchedulePreview(CommitPrepareChanges(OpenEditTool(k, t)))
                       ELSE Rendered(OpenEditTool(k, t))

ClosePrepareMode(k) == SchedulePreview(CommitPrepareChanges(EnterEdit(k)))

\* A row of the tool dock.
ClickTool(t) ==
    /\ Reachable /\ CanUseTool(e, t)
    /\ Does(IF Group(t) = "source"
            THEN IF e.img = 0 THEN Rendered(EnterSource(e))
                 ELSE IF t \in e.open THEN Rendered([e EXCEPT !.open = @ \ {t}])
                 ELSE OpenSourcePanel(e)
            ELSE IF Group(t) = "prepare"
            THEN IF t \in e.open THEN ClosePrepareMode(e) ELSE OpenPrepareMode(e)
            ELSE IF e.mode = "prepare" THEN OpenEditPanel(e, t)
            ELSE Rendered([e EXCEPT !.open = IF t \in @ THEN @ \ {t} ELSE @ \cup {t}]))

CropOk == /\ Reachable /\ e.img # 0 /\ e.mode = "prepare"
          /\ Does(ClosePrepareMode(e))

\* The main button of a page without a panel, when it does not read "cancel".
ExportPng ==
    /\ Reachable /\ CanUseAction(e) /\ e.cal = 0
    /\ e.status \notin {"exporting", "exporting-project"} /\ ~IsHeavy(e)
    /\ Does(Rendered([TakeWorker(HeavyJob(e, "export", ContentOf(e))) EXCEPT !.status = "exporting"]))

CancelExport ==
    /\ Reachable /\ CanUseAction(e) /\ e.cal = 0 /\ e.status = "exporting"
    /\ Does(Rendered([Invalidate(e) EXCEPT !.status = IF e.prev # Nothing THEN "preview-ready"
                                                      ELSE "ready"]))

ExportProject ==
    /\ Reachable /\ CanUseAction(e) /\ e.cal # 0 /\ e.status # "exporting-project" /\ ~IsHeavy(e)
    /\ Does(Rendered([TakeWorker(HeavyJob(e, "project", ContentOf(e)))
                      EXCEPT !.status = "exporting-project"]))

\* canDraw: the device was idle when it was last asked.
DrawEpaper ==
    /\ Reachable /\ CanUseAction(e) /\ e.cal # 0 /\ e.status # "exporting-project"
    /\ ~IsHeavy(e) /\ ~e.stray
    /\ Does([HeavyJob(e, "draw", ContentOf(e)) EXCEPT !.job.ph = "ask"])

Unmount ==
    /\ Reachable
    /\ Does([Invalidate(e) EXCEPT !.mounted = FALSE, !.load = FALSE, !.timer = FALSE,
                                  !.hold = FALSE, !.held = FALSE, !.stray = FALSE])

\* The cached state is shown by a new controller.
Mount ==
    /\ ~e.mounted /\ op = "none"
    /\ LET n == Rendered([e EXCEPT !.mounted = TRUE])
           s == SyncTarget(n, policy.cal)
           r == Rendered(PreviewReady(s))
       IN  Does(IF n.img = 0 THEN Rendered(EnterSource(s))
                ELSE IF s.cal # n.cal /\ r.mode = "edit" THEN SchedulePreview(r) ELSE r)

-----------------------------------------------------------------------------
(* What the controller waits for.                                           *)

DecodeImage ==
    /\ e.load /\ e.job.k # "restore"
    /\ Does(LoadResult(e, policy.cal))

DecodeFails ==
    /\ e.load /\ e.job.k # "restore"
    /\ Does(Rendered([e EXCEPT !.load = FALSE, !.status = "error"]))

\* A project's working image is read; the job owner may refuse the job.
DecodeProject ==
    /\ e.load /\ e.job.k # "restore"
    /\ Does(IF IsHeavy(e) THEN [e EXCEPT !.load = FALSE]
            ELSE TakeWorker(HeavyJob(e, "restore", [img |-> e.loads, rev |-> 0, cal |-> policy.cal])))

TimerFires == e.timer /\ Does(RunPreview([e EXCEPT !.timer = FALSE]))

\* The pipeline's answer, whatever its job has become.
Computed(k) == k.job.ph = "work" /\ k.job.k # "none"

\* With an operation that is not released when its draw fails.
ReleaseNothing == UNCHANGED op
Release == op' = IF op = "claimed" THEN "none" ELSE op

PreviewComputed ==
    /\ Computed(e) /\ e.job.k = "preview"
    /\ LET k == TerminateWorker(e)
       IN  Does(Settled(IF e.job.ok /\ e.job.run
                        THEN Rendered([k EXCEPT !.prev = e.job.what, !.out = e.job.what,
                                                !.status = "preview-ready"])
                        ELSE k))

RestoreComputed ==
    /\ Computed(e) /\ e.job.k = "restore" /\ e.load
    /\ Does(Settled(Restored(TerminateWorker(e), "edit")))

\* An export's pixels are there and are being written or encoded.
ExportComputed ==
    /\ Computed(e) /\ e.job.k \in {"export", "project", "draw"}
    /\ Does([TerminateWorker(e) EXCEPT !.job.ph = "pack",
                                       !.out = IF e.job.k = "project" THEN @ ELSE e.job.what])

Exported ==
    /\ e.job.k \in {"export", "project"} /\ e.job.ph = "pack"
    /\ Does(Settled(Rendered([e EXCEPT !.status = IF e.job.k = "export" THEN "exported"
                                                  ELSE "project-exported"])))

Failed(k) == Settled(Rendered([TerminateWorker(k) EXCEPT !.status = "error"]))

\* The pipeline, the encoder or the writer throws; a draw gives its operation back.
JobFails ==
    /\ e.job.k # "none" /\ e.job.ph \in {"work", "pack", "refused"}
    /\ e' = IF e.job.k = "preview" /\ ~(e.job.ok /\ e.job.run)
            THEN Settled(TerminateWorker(e))
            ELSE Failed([e EXCEPT !.load = @ /\ e.job.k # "restore"])
    /\ Release
    /\ UNCHANGED policy

\* The status request of a draw is answered: the panel is idle, or not.
DrawAdmitted ==
    /\ e.job.k = "draw" /\ e.job.ph = "ask" /\ op = "none"
    /\ e' = Rendered([TakeWorker(e) EXCEPT !.status = "exporting"])
    /\ op' = "claimed"
    /\ UNCHANGED policy

DrawRefused == e.job.k = "draw" /\ e.job.ph = "ask" /\ Does(Failed(e))

\* The request of a draw that was cancelled meanwhile: it claims the operation and
\* fails it, or reports its error on whatever the page shows now.
StrayAnswer ==
    /\ e.stray
    /\ \E status \in {e.status, "error"} :
           Does(Rendered([e EXCEPT !.stray = FALSE, !.status = status]))

\* Encoded, compressed and accepted by the device.
DrawAccepted ==
    /\ e.job.k = "draw" /\ e.job.ph = "pack" /\ op = "claimed"
    /\ e' = [e EXCEPT !.job.ph = "send"]
    /\ op' = "sent"
    /\ UNCHANGED policy

\* The device's operation ends, well or not; the draw may be gone by then.
DrawEnds ==
    /\ op = "sent" /\ op' = "none"
    /\ e' \in IF e.job.k = "draw" /\ e.job.ph = "send"
              THEN {Settled(Rendered([e EXCEPT !.status = "exported"])), Failed(e)}
              ELSE {e}
    /\ UNCHANGED policy

\* The capability or the calibration the device modules know is another one.
DeviceChanges ==
    /\ policy.used < MaxRevisions
    /\ \E target \in {0, policy.used + 1} :
        /\ target # policy.cal
        /\ policy' = [cal |-> target, used |-> policy.used + 1]
        /\ e' = IF e.mounted THEN SyncEpaperCalibration(e, target) ELSE e
        /\ UNCHANGED op

-----------------------------------------------------------------------------
EditorInit ==
    /\ e = [mounted |-> TRUE, mode |-> "source", open |-> {"input"},
            img |-> 0, rev |-> 0, cal |-> 0, pal |-> FALSE,
            status |-> "empty", prev |-> Nothing, out |-> Nothing,
            job |-> NoJob, pend |-> FALSE, timer |-> FALSE, hold |-> FALSE, held |-> FALSE,
            load |-> FALSE, loads |-> 0, busy |-> FALSE, stray |-> FALSE]
    /\ op = "none"
    /\ policy = [cal |-> 0, used |-> 0]

UserNext == \/ LoadFile \/ UpdateSetting \/ BeginPreviewHold \/ EndPreviewHold
            \/ \E t \in Tools : ClickTool(t)
            \/ CropOk \/ ExportPng \/ CancelExport \/ ExportProject \/ DrawEpaper
            \/ Unmount \/ Mount

Decoded  == DecodeImage \/ DecodeFails \/ DecodeProject
Pipeline == PreviewComputed \/ RestoreComputed \/ ExportComputed \/ Exported \/ JobFails
Drawing  == DrawAdmitted \/ DrawRefused \/ DrawAccepted \/ DrawEnds

EditorNext == UserNext \/ Decoded \/ TimerFires \/ Pipeline \/ Drawing
        \/ StrayAnswer \/ DeviceChanges

\* A decode, a pipeline, a request and the panel end one way or another, and a timer
\* fires.  Nothing is asked of the user.
EditorSpec == EditorInit /\ [][EditorNext]_editorVars
        /\ WF_editorVars(Decoded) /\ WF_editorVars(TimerFires) /\ WF_editorVars(Pipeline) /\ WF_editorVars(Drawing)
        /\ WF_editorVars(StrayAnswer)

-----------------------------------------------------------------------------
(* Properties.                                                              *)

\* The types of the editor, the operation and the device's report, with no image shown
\* where none is loaded.
EditorTypeOK ==
    /\ {e.mounted, e.pal, e.pend, e.timer, e.hold, e.held, e.load, e.busy, e.stray} \subseteq BOOLEAN
    /\ e.mode \in {"source", "prepare", "edit"} /\ e.open \subseteq Tools
    /\ ContentOf(e) \in Content /\ {e.prev, e.out} \subseteq Content
    /\ e.status \in Statuses /\ e.job \in Job /\ e.loads \in 0..MaxLoads
    /\ op \in {"none", "claimed", "sent"}
    /\ policy \in [cal : 0..MaxRevisions, used : 0..MaxRevisions]
    /\ e.img = 0 => e.mode = "source" /\ e.prev = Nothing

\* The worker is busy exactly for the active job: no job, superseded or cancelled in
\* whatever order, leaves it a request that makes the next one be refused
\* (createJobOwner's invalidate and the admission in dither-worker-client.js).
WorkerServesActive ==
    /\ e.busy <=> (e.job.k # "none" /\ e.job.ph = "work")
    /\ e.job.ph # "refused"

\* The editor's state is well formed and its worker never serves a job that is over:
\* jobs that supersede each other, tools, loads, mounts and draws in any order.
EditorInv == EditorTypeOK /\ WorkerServesActive

\* A load finds in a project file what was exported to it, if the picture's type is that of
\* its bytes and an Original palette has two colours, else nothing, and nothing in a damaged
\* or foreign one (controller.js restoreProjectRoute, snapshot and restore of
\* project-workspace.js).
ProjectsOpen == e.load => ProjectsReadBack

\* Once a picture is loaded, what the crop and resize tools make of any settings, fingers
\* and lengths is a crop, and a size, of it, and neither asking again nor lifting a finger
\* spoils it (crop-feature.js, resize-feature.js, pointer-mapper.js).
CropInv == e.img # 0 => CropFits /\ CropSettles /\ ToolKeeps /\ ResizeFits

\* While the editor is in edit mode, a preview that is committed is the preview of the
\* image, the settings and the palette in force at that moment: an older one, still
\* running when they changed, is dropped (supersedePreview, previewRunId, job.check).
FreshCommit ==
    [][e.job.k = "preview" /\ e'.prev # e.prev /\ e.mode = "edit" /\ e.img = e'.img
       => e'.prev = ContentOf(e)]_editorVars

\* An operation a draw claimed, which covers the whole console, is given back: by the
\* draw's failure or by the end of what the device accepted.
OperationReleased == []<>(op # "claimed")

-----------------------------------------------------------------------------
\* A property the documents state and the code does not have.
\* The status "processing" is left: a preview that was announced is computed.
\* SPEC_TECHNICAL.md:1116 promises it for a change of the calibration.
PreviewSettles == (e.mounted /\ e.status = "processing" /\ ~e.hold)
                  ~> (~e.mounted \/ e.status # "processing" \/ e.hold)
=============================================================================
