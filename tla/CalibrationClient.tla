-------------------------- MODULE CalibrationClient --------------------------
(***************************************************************************)
(* The browser's side of the panel calibration: the calibration service    *)
(* every page shares (device-epaper-calibration.js) and the editor of the   *)
(* panel test page (device-epaper-test/page.js), whose variables outlive    *)
(* the page.  The device and its other clients are external.                *)
(*                                                                         *)
(* Client record c:                                                        *)
(*   colors, loading, saving, synced    the service's state                *)
(*   load, write     the GET and the PUT or reset out                      *)
(*   link            the live monitor's state; "standalone" is "offline"   *)
(*   supported       the panel service knows a compatible panel            *)
(*   mounted         the page is shown; early: since before the services   *)
(*                   started, so that its gate hears the monitor first     *)
(*   draft, base, dirty, external, local   the page's variables            *)
(*   stale           revision # baselineRevision                           *)
(*   reload          a reload of the page waits for the load out           *)
(*   locked, editable   buttons and fieldset as last rendered              *)
(* A colour's three channels are one value; a text that is not a channel   *)
(* is Bad.  A request is the last one while its serial is requestSerial.   *)
(***************************************************************************)
EXTENDS Naturals, FiniteSets

CONSTANTS Ids,        \* the colours of the panel
          Levels,     \* what a display colour may be
          Bad,        \* a text that is none
          Default,    \* the calibration of a device nobody has calibrated
          Theirs,     \* what other clients store
          MaxEdits, MaxWrites, MaxMounts,   \* acts of the user
          MaxEvents   \* outages, failures, changes by other clients: all together

Texts == Levels \cup {Bad}
Unique(d) == \A i, j \in Ids : i # j => d[i] # d[j]
Colors == {d \in [Ids -> Levels] : Unique(d)}

ASSUME CalibrationAssumption ==
  /\ Bad \notin Levels /\ Default \in Colors /\ Theirs \subseteq Colors
  /\ {MaxEdits, MaxWrites, MaxMounts, MaxEvents} \subseteq Nat

VARIABLES c,      \* the client, above
          dev,    \* colors: the device's; moved: not as the client last learnt it
          left    \* what the bounds still allow
vars == <<c, dev, left>>

\* val: what a PUT or reset writes, then what the answer carries.
\* fresh: no other client has written since the device answered.
Request == [st : {"none", "sent", "back"}, last : BOOLEAN, val : Colors, fresh : BOOLEAN]
NoRequest == [st |-> "none", last |-> FALSE, val |-> Default, fresh |-> TRUE]
Sent(val) == [st |-> "sent", last |-> TRUE, val |-> val, fresh |-> TRUE]

-----------------------------------------------------------------------------
(* The page.                                                               *)
Valid(d) == (\A i \in Ids : d[i] # Bad) /\ Unique(d)
Busy(k) == k.loading \/ k.saving
Rendered(k) ==
  IF ~k.mounted THEN k
  ELSE [k EXCEPT !.locked = k.link # "online" \/ Busy(k),
                 !.editable = k.link = "online" /\ ~Busy(k)]
CanSave(k) == k.mounted /\ ~k.locked /\ k.dirty /\ Valid(k.draft) /\ ~k.external

Rebase(k) ==
  [k EXCEPT !.draft = k.colors, !.base = k.colors, !.stale = FALSE,
            !.dirty = FALSE, !.external = FALSE]

\* variant: a draft is replaced under the user's hands
OnSnapshotRebases(k) == Rendered(IF ~k.local /\ k.stale THEN Rebase(k) ELSE k)
OnSnapshot(k) ==
  Rendered(IF k.local \/ ~k.stale THEN k
           ELSE IF k.dirty THEN [k EXCEPT !.external = TRUE] ELSE Rebase(k))
Notify(k) == IF k.mounted THEN OnSnapshot(k) ELSE k

\* the end of a save, reload or reset of the page, also of an earlier mount
Finished(k, ok) ==
  LET n == IF ok THEN Rebase(k) ELSE k
  IN Rendered([n EXCEPT !.local = FALSE, !.reload = FALSE])

-----------------------------------------------------------------------------
(* The service.                                                            *)
ApplyResponse(k, val) ==
  [k EXCEPT !.colors = val, !.stale = @ \/ val # k.colors, !.synced = TRUE]

Ready(k) == k.supported /\ k.link = "online"
\* variant: only a forced load asks the device
StartsLoadForced(k, force) == Ready(k) /\ force /\ k.load.st = "none"
StartsLoad(k, force) == Ready(k) /\ (force \/ ~k.synced) /\ k.load.st = "none"
\* load(force); one that starts nothing resolves at once, or joins the load out
Load(k, force) ==
  IF StartsLoad(k, force)
  THEN Notify([k EXCEPT !.load = Sent(Default), !.write.last = FALSE, !.loading = TRUE])
  ELSE k
Write(k, val) ==
  Notify([k EXCEPT !.write = Sent(val), !.load.last = FALSE, !.loading = FALSE, !.saving = TRUE])

\* loadRequest ends whatever its serial; then the page's reload, if it waits
LoadEnds(k, ok) ==
  LET n == [k EXCEPT !.load = NoRequest] IN IF k.reload THEN Finished(n, ok) ELSE n
LoadDone(k) ==
  LoadEnds(IF k.load.last THEN Notify([ApplyResponse(k, k.load.val) EXCEPT !.loading = FALSE]) ELSE k,
           TRUE)
LoadFailed(k) ==
  LoadEnds(IF k.load.last THEN Notify([k EXCEPT !.synced = FALSE, !.loading = FALSE]) ELSE k, FALSE)

\* variant: an answer is taken whatever has been asked since
TakesAny(r) == TRUE
Takes(r) == r.last
WriteEnds(k, ok) == Finished([k EXCEPT !.write = NoRequest], ok)
WriteDone(k) ==
  WriteEnds(IF Takes(k.write) THEN Notify([ApplyResponse(k, k.write.val) EXCEPT !.saving = FALSE]) ELSE k,
            TRUE)
WriteFailed(k) ==
  WriteEnds(IF Takes(k.write) THEN Notify([k EXCEPT !.saving = FALSE]) ELSE k, FALSE)

\* The gate of the page hears that the device is reachable: it unlocks the fieldset
\* and, after an outage, loads.
GateOpens(k, outage) ==
  LET n == [k EXCEPT !.editable = TRUE]
  IN IF ~k.mounted THEN k ELSE IF outage THEN Load(n, TRUE) ELSE n

-----------------------------------------------------------------------------
\* The page the address names is mounted first, then the services start.
Init ==
  /\ \E early \in BOOLEAN :
       c = [colors |-> Default, loading |-> FALSE, saving |-> FALSE, synced |-> FALSE,
            load |-> NoRequest, write |-> NoRequest, link |-> "checking", supported |-> FALSE,
            mounted |-> early, early |-> early, draft |-> Default, base |-> Default,
            stale |-> ~early, dirty |-> FALSE, external |-> FALSE, local |-> FALSE,
            reload |-> FALSE, locked |-> TRUE, editable |-> FALSE]
  /\ \E colors \in Theirs \cup {Default} : dev = [colors |-> colors, moved |-> TRUE]
  /\ left = [edits |-> MaxEdits, writes |-> MaxWrites, mounts |-> MaxMounts, events |-> MaxEvents]

Spend(what) == left[what] > 0 /\ left' = [left EXCEPT ![what] = @ - 1]

(* The user.                                                               *)
\* dirty, external and local are not reset
Mount ==
  /\ ~c.mounted /\ Spend("mounts")
  /\ c' = Load(Rendered([c EXCEPT !.mounted = TRUE, !.draft = c.colors, !.base = c.colors, !.stale = FALSE]),
               FALSE)
  /\ UNCHANGED dev
Unmount ==
  /\ c.mounted /\ c' = [c EXCEPT !.mounted = FALSE, !.early = FALSE]
  /\ UNCHANGED <<dev, left>>

Edit ==
  /\ c.mounted /\ c.editable /\ Spend("edits")
  /\ \E i \in Ids, t \in Texts :
       /\ t # c.draft[i]
       /\ LET draft == [c.draft EXCEPT ![i] = t]
          IN c' = Rendered([c EXCEPT !.draft = draft, !.dirty = draft # c.base])
  /\ UNCHANGED dev

SaveCalibration ==
  /\ CanSave(c) /\ Spend("writes")
  /\ c' = Write([c EXCEPT !.local = TRUE], c.draft)
  /\ UNCHANGED dev
ResetCalibration ==
  /\ c.mounted /\ ~c.locked /\ Spend("writes")
  /\ c' = Write([c EXCEPT !.local = TRUE], Default)
  /\ UNCHANGED dev
\* a reload that finds the panel unsupported resolves at once
ReloadCalibration ==
  /\ c.mounted /\ ~c.locked /\ Spend("writes")
  /\ c' = IF Ready(c) THEN Load([c EXCEPT !.local = TRUE, !.reload = TRUE], TRUE)
          ELSE Finished(c, TRUE)
  /\ UNCHANGED dev

(* The connection and the panel's own state, as other components report it. *)
\* an outage, or at the start a check that fails
GoOffline ==
  /\ c.link # "offline" /\ Spend("events")
  /\ LET k == Notify([c EXCEPT !.link = "offline", !.synced = FALSE])
     IN c' = IF k.mounted THEN [k EXCEPT !.editable = FALSE] ELSE k
  /\ UNCHANGED dev
\* the service and the gate of the page hear in the order they subscribed
GoOnline ==
  /\ c.link # "online"
  /\ LET k == [c EXCEPT !.link = "online"]
         outage == c.link = "offline"
     IN c' = IF c.early THEN Load(GateOpens(k, outage), FALSE)
             ELSE GateOpens(Load(k, FALSE), outage)
  /\ UNCHANGED <<dev, left>>
\* the panel service finds the panel; what it found stays through an outage
Probed ==
  /\ c.link = "online" /\ ~c.supported
  /\ c' = Load([c EXCEPT !.supported = TRUE], FALSE)
  /\ UNCHANGED <<dev, left>>
\* another firmware: the features say that there is no panel
Unsupported ==
  /\ c.supported /\ Spend("events")
  /\ c' = [c EXCEPT !.supported = FALSE]
  /\ UNCHANGED dev
\* every report of the panel's state is a chance to load
PanelReported ==
  /\ StartsLoad(c, FALSE)
  /\ c' = Load(c, FALSE)
  /\ UNCHANGED <<dev, left>>

(* The device and the way back.                                            *)
AnswerLoad ==
  /\ c.load.st = "sent"
  /\ c' = [c EXCEPT !.load = [@ EXCEPT !.st = "back", !.val = dev.colors]]
  /\ UNCHANGED <<dev, left>>
AnswerWrite ==
  /\ c.write.st = "sent"
  /\ c' = [c EXCEPT !.write.st = "back"]
  /\ dev' = [dev EXCEPT !.colors = c.write.val]
  /\ UNCHANGED left
\* An answer proves the device reachable before it is applied (device-api.js request):
\* GoOnline comes first.
DeliverLoad ==
  /\ c.load.st = "back" /\ c.link = "online"
  /\ c' = LoadDone(c)
  /\ dev' = [dev EXCEPT !.moved = IF c.load.last THEN ~c.load.fresh ELSE @]
  /\ UNCHANGED left
DeliverWrite ==
  /\ c.write.st = "back" /\ c.link = "online"
  /\ c' = WriteDone(c)
  /\ dev' = [dev EXCEPT !.moved = IF Takes(c.write) THEN ~c.write.fresh ELSE @]
  /\ UNCHANGED left
\* refused, timed out, or the answer lost
FailLoad == c.load.st # "none" /\ Spend("events") /\ c' = LoadFailed(c) /\ UNCHANGED dev
\* a write given up may have been carried out all the same
FailWrite ==
  /\ c.write.st # "none" /\ Spend("events")
  /\ c' = WriteFailed(c)
  /\ \/ c.write.st = "sent" /\ UNCHANGED dev
     \/ c.write.st = "sent" /\ dev' = [colors |-> c.write.val, moved |-> TRUE]
     \/ c.write.st = "back" /\ dev' = [dev EXCEPT !.moved = TRUE]
OtherClient ==
  /\ Spend("events")
  /\ \E colors \in Theirs \ {dev.colors} : dev' = [colors |-> colors, moved |-> TRUE]
  /\ c' = [c EXCEPT !.load.fresh = c.load.st # "back", !.write.fresh = c.write.st # "back"]

User == Mount \/ Unmount \/ Edit \/ SaveCalibration \/ ResetCalibration \/ ReloadCalibration
Link == GoOffline \/ GoOnline \/ Probed \/ Unsupported \/ PanelReported
Device ==
  \/ AnswerLoad \/ AnswerWrite \/ DeliverLoad \/ DeliverWrite
  \/ FailLoad \/ FailWrite \/ OtherClient
Next == User \/ Link \/ Device

\* Requests end and the panel's state is polled; nobody has to act or to fail.
Fairness ==
  /\ WF_vars(PanelReported)
  /\ WF_vars(AnswerLoad) /\ WF_vars(AnswerWrite)
  /\ WF_vars(DeliverLoad) /\ WF_vars(DeliverWrite)
Spec == Init /\ [][Next]_vars /\ Fairness

-----------------------------------------------------------------------------
TypeOK ==
  /\ {c.colors, c.base} \subseteq Colors /\ c.draft \in [Ids -> Texts]
  /\ {c.load, c.write} \subseteq Request /\ c.link \in {"checking", "offline", "online"}
  /\ dev \in [colors : Colors, moved : BOOLEAN]

\* A page that calls its draft clean shows its baseline, across mounts and rebases.
CleanIsBaseline == c.mounted /\ ~c.dirty => c.draft = c.base

\* Save is only offered for a draft made from the newest colours this browser knows,
\* and never while an earlier save, reload or reset is still out.
SaveKnowsNewest == CanSave(c) => ~c.stale /\ ~c.local

\* A synchronised service holds what the device holds, unless another client wrote or an
\* answer was lost since.  A service left "saving" is the exception: a load begun during
\* a save takes its serial, and the save's answer is dropped.
ShownIsStored == c.synced /\ ~c.saving /\ ~dev.moved => c.colors = dev.colors

\* What the run checks of every state.
CalibrationInv == TypeOK /\ CleanIsBaseline /\ SaveKnowsNewest /\ ShownIsStored

\* Unsaved edits go only by the user's own hand: an edit, or the end of a save, reload
\* or reset.  New colours from elsewhere mark a conflict (device-epaper-test/page.js
\* onCalibrationSnapshot).
DraftKept ==
  [][c.mounted /\ c'.mounted /\ c.draft # c.base /\ c'.draft # c.draft
       => c.local \/ left'.edits # left.edits \/ left'.writes # left.writes]_vars

\* While the device stays reachable and the panel supported, the service ends up
\* synchronised, whatever was superseded, refused or lost before.
SyncsAgain == <>[](Ready(c)) => <>[](c.synced)
==============================================================================
