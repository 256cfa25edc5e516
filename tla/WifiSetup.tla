------------------------------ MODULE WifiSetup ------------------------------
(***************************************************************************)
(* The product web UI's network page: the Wi-Fi form and its draft          *)
(* (device-network/wifi-form.js), the page that loads it (page.js), a save  *)
(* and the safe transition it follows (wifi-controller.js), the scan        *)
(* dialog, the login session (device-auth.js, device-api.js) and the        *)
(* connection monitor they share.  The device is the repository's own       *)
(* simulated one (device-mock.js).                                          *)
(*                                                                          *)
(* Client record c: the monitor's fields (a check is always out), and       *)
(*   mounted, open        the page; the form (closed: the locked card)      *)
(*   val, pw, base, known, busy    the form: its values, a typed password,  *)
(*                        the baseline and whether there is one             *)
(*   latest, get          latestWifi and the GET request out                *)
(*   tok, check           the token held and the session request            *)
(*   dialog               the one modal dialog                              *)
(*   n, flows             generation, and each save begun                   *)
(* Field formats and passwords are abstracted: a value differs or not.      *)
(***************************************************************************)
EXTENDS LiveMonitor

CONSTANTS MaxSaves,   \* saves begun
          MaxActs,    \* edits and other acts of the user
          MaxEvents   \* outages and logins of others

ASSUME SetupBounds == MaxSaves \in Nat \ {0} /\ MaxActs \in Nat /\ MaxEvents \in Nat

VARIABLES c,       \* the client, above
          dev,     \* the device: reachable, settings, transition (of which save); as
                   \* history, the saves it has applied, and those it took up late,
                   \* when a newer one had already begun
          acts,    \* user acts left
          events   \* events left

vars == <<c, dev, acts, events>>

Modes  == {"ap", "sta", "ap_sta"}
\* sta: the network and its address settings; ap: password protection on or off.
Value  == [mode : Modes, sta : {"home", "new"}, ap : {"open", "locked"}]
First  == [mode |-> "ap", sta |-> "home", ap |-> "open"]
Saves  == 1..MaxSaves
Phases == {"none", "put", "putback", "wait", "ask", "askback", "saved", "ended"}
Answers == {"none", "ok", "connecting", "connected", "failed", "idle", "busy", "denied"}
\* here: the save's form is the one on the page; ses: asked in the current session.
Flow   == [ph : Phases, ans : Answers, sent : Value, pwch : BOOLEAN, late : BOOLEAN,
           here : BOOLEAN, ses : BOOLEAN]
NoFlow == [ph |-> "none", ans |-> "none", sent |-> First, pwch |-> FALSE, late |-> FALSE,
           here |-> FALSE, ses |-> FALSE]
\* The GET of the current generation; the answers of older ones change nothing.
Get    == [st : {"none", "sent", "back"}, v : Value]
NoGet  == [st |-> "none", v |-> First]
Dialogs == {"none", "login", "submitted", "scan", "scanned"}

-----------------------------------------------------------------------------
(* The form.                                                                *)

Shows(mode, section) == IF section = "sta" THEN mode # "ap" ELSE mode # "sta"

HasApChanges(k) == k.known /\ k.val.ap # k.base.ap

HasChanges(k) ==
    /\ k.known
    /\ \/ k.val.mode # k.base.mode
       \/ Shows(k.val.mode, "sta") /\ (k.pw \/ k.val.sta # k.base.sta)
       \/ Shows(k.val.mode, "ap") /\ HasApChanges(k)

PasswordReused(k) == k.known /\ k.val.sta = k.base.sta /\ ~k.pw

Valid(k) == Shows(k.val.mode, "sta") => PasswordReused(k) \/ k.pw

ApplyValue(k, v) == [k EXCEPT !.val = v, !.pw = FALSE]

\* A baseline that takes the draft with it.
SetBaselineAlways(k, v, force) == ApplyValue([k EXCEPT !.base = v, !.known = TRUE], v)

SetBaseline(k, v, force) ==
    LET n == [k EXCEPT !.base = v, !.known = TRUE]
    IN  IF force \/ ~HasChanges(k) THEN ApplyValue(n, v) ELSE n

BuildPayload(k) ==
    [mode |-> k.val.mode,
     sta  |-> IF Shows(k.val.mode, "sta") THEN k.val.sta ELSE k.base.sta,
     ap   |-> IF Shows(k.val.mode, "ap") THEN k.val.ap ELSE k.base.ap]

\* The current values of the form become the baseline, whatever was sent.
AcceptSaved(k) == [k EXCEPT !.base = k.val, !.pw = FALSE]

SetBusy(k, i, key) == IF k.flows[i].here THEN [k EXCEPT !.busy = key] ELSE k

-----------------------------------------------------------------------------
(* The page and the session.                                                *)

LoadWifi(k) == [k EXCEPT !.get = [NoGet EXCEPT !.st = "sent"]]

Detached(k) == [k EXCEPT !.flows = [i \in Saves |-> [k.flows[i] EXCEPT !.here = FALSE]],
                         !.open = FALSE, !.busy = "none"]

NewForm(k) ==
    LET f == [Detached(k) EXCEPT !.open = TRUE, !.known = FALSE, !.val = First, !.pw = FALSE,
                                 !.base = First, !.check = TRUE]
    IN  IF k.latest.known THEN SetBaseline(f, k.latest.v, TRUE) ELSE f

\* renderSettings: locked card, the form that is there, or a new one.
RenderSettings(k) ==
    IF ~k.mounted THEN k
    ELSE IF k.tok = "none" THEN Detached(k)
    ELSE IF k.open THEN k ELSE NewForm(k)

\* setToken starts a session: what was asked before belongs to an old one.
SetToken(k, tok) ==
    LET n == [k EXCEPT !.tok = tok, !.check = FALSE,
                       !.flows = [i \in Saves |-> [k.flows[i] EXCEPT !.ses = FALSE]]]
    IN  RenderSettings(n)

Unauthorized(k, ses) == IF ses /\ k.tok # "none" THEN SetToken(k, "none") ELSE k

\* The monitor hears of every success; a recovery makes the page load again.
Succeeded(k) == IF Recovered(k.state, "online") /\ k.mounted
                THEN LoadWifi(NoteSuccess(k)) ELSE NoteSuccess(k)

-----------------------------------------------------------------------------
(* A save.                                                                  *)

Current(k, i) == k.mounted /\ i = k.n

Phase(k, i, ph) == [k EXCEPT !.flows[i].ph = ph]

\* ctx.refresh is the page's own loadWifi; a detached page's still takes a new
\* generation.
Refresh(k, i) == IF k.flows[i].here THEN LoadWifi(k) ELSE [k EXCEPT !.get = NoGet]

\* Of a save that is over, only what it sent still counts, and of one that is done the
\* page to refresh.
Over(k, i, ph) ==
    [k EXCEPT !.flows[i] = [NoFlow EXCEPT !.ph = ph, !.sent = k.flows[i].sent,
                                          !.here = k.flows[i].here /\ ph = "saved"]]

Ended(k, i) == Over(SetBusy(k, i, "none"), i, "ended")

Saved(k, i) == Over(SetBusy(IF k.flows[i].here THEN AcceptSaved(k) ELSE k, i, "none"), i, "saved")

\* No deadline: the poll goes on as long as there is no answer.
ContinueForever(k, i) == Phase(k, i, "wait")

ContinueOrTimeout(k, i) == IF k.flows[i].late THEN Release(Ended(k, i)) ELSE Phase(k, i, "wait")

BeginSave ==
    /\ c.open /\ c.dialog = "none" /\ c.busy = "none" /\ ~Locked(c.state)
    /\ HasChanges(c) /\ Valid(c) /\ c.n < MaxSaves
    /\ c' = [c EXCEPT !.n = @ + 1, !.busy = "saving",
                      !.flows[c.n + 1] = [NoFlow EXCEPT !.ph = "put", !.sent = BuildPayload(c),
                                             !.pwch = HasApChanges(c), !.here = TRUE, !.ses = TRUE]]
    /\ UNCHANGED <<dev, acts, events>>

PutError(k, i) == IF Current(k, i) THEN Ended(k, i) ELSE Over(k, i, "ended")

PutSuccess(k, i) ==
    CASE ~Current(k, i) -> Over(k, i, "ended")
      [] Current(k, i) /\ k.flows[i].ans = "connecting" ->
            Suppress(Phase(SetBusy(k, i, "verifying"), i, "wait"))
      [] Current(k, i) /\ k.flows[i].ans = "ok" ->
            IF k.flows[i].pwch THEN SetToken(Ended(k, i), "none") ELSE Saved(k, i)

DeliverPut(i) ==
    /\ c.flows[i].ph = "putback"
    /\ c' = IF c.flows[i].ans \in {"ok", "connecting"}
            THEN LET k == Succeeded(c) IN PutSuccess(k, i)
            ELSE LET k == IF c.flows[i].ans = "denied" THEN Unauthorized(c, c.flows[i].ses) ELSE c
                 IN  PutError(k, i)
    /\ UNCHANGED <<dev, acts, events>>

FailPut(i) ==
    /\ c.flows[i].ph \in {"put", "putback"} /\ ~dev.up
    /\ c' = PutError(c, i) /\ UNCHANGED <<dev, acts, events>>

\* POLL_MS later: ask, unless the page has gone or a later save has begun.
PollTimer(i) ==
    /\ c.flows[i].ph = "wait"
    /\ c' = IF Current(c, i) THEN Phase(c, i, "ask") ELSE Release(Over(c, i, "ended"))
    /\ UNCHANGED <<dev, acts, events>>

\* Whatever is no longer connecting and has not failed has connected.
AskAnswerIdle(k, i) ==
    CASE ~Current(k, i) -> Release(Over(k, i, "ended"))
      [] Current(k, i) /\ k.flows[i].ans \in {"connected", "idle"} -> Release(Saved(k, i))
      [] Current(k, i) /\ k.flows[i].ans = "failed"    -> Release(Ended(Refresh(k, i), i))
      [] OTHER -> ContinueOrTimeout(k, i)

AskAnswer(k, i) ==
    CASE ~Current(k, i) -> Release(Over(k, i, "ended"))
      [] Current(k, i) /\ k.flows[i].ans = "connected" -> Release(Saved(k, i))
      [] Current(k, i) /\ k.flows[i].ans = "failed"    -> Release(Ended(Refresh(k, i), i))
      [] Current(k, i) /\ k.flows[i].ans \notin {"connected", "failed"} -> ContinueOrTimeout(k, i)

DeliverAsk(i) ==
    /\ c.flows[i].ph = "askback"
    /\ c' = IF c.flows[i].ans = "denied"
            THEN LET k == Unauthorized(c, c.flows[i].ses) IN ContinueOrTimeout(k, i)
            ELSE LET k == Succeeded(c) IN AskAnswer(k, i)
    /\ UNCHANGED <<dev, acts, events>>

FailAsk(i) ==
    /\ c.flows[i].ph \in {"ask", "askback"} /\ ~dev.up
    /\ c' = ContinueOrTimeout(c, i) /\ UNCHANGED <<dev, acts, events>>

Deadline(i) ==
    /\ c.flows[i].ph \in {"wait", "ask", "askback"} /\ ~c.flows[i].late
    /\ c' = [c EXCEPT !.flows[i].late = TRUE] /\ UNCHANGED <<dev, acts, events>>

-----------------------------------------------------------------------------
(* Loading, the session check, the monitor.                                 *)

\* The interval's next load takes over from one that is still out.
WifiPoll == c.mounted /\ c' = LoadWifi(c) /\ UNCHANGED <<dev, acts, events>>

\* 2 s and 8 s after a save that is done.
ScheduledRefresh(i) ==
    /\ c.mounted /\ c.flows[i].ph = "saved"
    /\ c' = Refresh(c, i) /\ UNCHANGED <<dev, acts, events>>

DeliverGet ==
    /\ c.get.st = "back"
    /\ LET d == [c EXCEPT !.get = NoGet, !.latest = [known |-> TRUE, v |-> c.get.v]]
       IN  c' = Succeeded(IF c.open THEN SetBaseline(d, c.get.v, FALSE) ELSE d)
    /\ UNCHANGED <<dev, acts, events>>

FailGet == /\ ~dev.up /\ c.get.st # "none"
           /\ c' = [c EXCEPT !.get = NoGet] /\ UNCHANGED <<dev, acts, events>>

\* ensureSession: a 401 of the current session logs out, a lost answer does not.
SessionChecked ==
    /\ c.check
    /\ LET d == [c EXCEPT !.check = FALSE]
       IN  c' = CASE ~dev.up                  -> d
                  [] dev.up /\ c.tok = "live" -> Succeeded(d)
                  [] OTHER                    -> Unauthorized(d, TRUE)
    /\ UNCHANGED <<dev, acts, events>>

AliveOk   == dev.up /\ c' = Succeeded(c) /\ UNCHANGED <<dev, acts, events>>
AliveFail == ~dev.up /\ c' = NoteCheckFailure(c) /\ UNCHANGED <<dev, acts, events>>

-----------------------------------------------------------------------------
(* The user.                                                                *)

Act == acts > 0 /\ acts' = acts - 1 /\ UNCHANGED <<dev, events>>

\* The fieldset stays enabled during a save; only the monitor's gate disables it.
Editable == c.open /\ c.dialog = "none" /\ ~Locked(c.state)

EditForm == /\ Act /\ Editable
            /\ \/ \E m \in Modes : c' = [c EXCEPT !.val.mode = m]
               \/ Shows(c.val.mode, "sta") /\ c' = [c EXCEPT !.val.sta = "new", !.pw = TRUE]
               \/ Shows(c.val.mode, "ap") /\ c' = [c EXCEPT !.val.ap = "locked"]

Revert == /\ Act /\ Editable /\ c.busy = "none" /\ HasChanges(c) /\ c' = ApplyValue(c, c.base)

OpenScan == /\ Act /\ Editable /\ Shows(c.val.mode, "sta") /\ c' = [c EXCEPT !.dialog = "scan"]

ScanEnds == /\ c.dialog = "scan" /\ c' = [c EXCEPT !.dialog = "scanned"]
            /\ UNCHANGED <<dev, acts, events>>

\* A network is chosen, for the form the dialog was opened from, or none is.
FillScanResult == [c EXCEPT !.dialog = "none", !.val.sta = "new", !.pw = FALSE]
CloseScan == /\ c.dialog = "scanned"
             /\ \/ c.open /\ acts > 0 /\ acts' = acts - 1 /\ c' = FillScanResult
                \/ c' = [c EXCEPT !.dialog = "none"] /\ UNCHANGED acts
             /\ UNCHANGED <<dev, events>>

OpenLogin == /\ c.mounted /\ ~c.open /\ c.tok = "none" /\ c.dialog = "none" /\ ~Locked(c.state)
             /\ c' = [c EXCEPT !.dialog = "login"] /\ UNCHANGED <<dev, acts, events>>

SubmitLogin == /\ Act /\ c.dialog = "login" /\ c' = [c EXCEPT !.dialog = "submitted"]

\* The dialog cannot be dismissed while the answer is out.
LoggedIn == /\ c.dialog = "submitted" /\ dev.up
            /\ c' = SetToken(Succeeded([c EXCEPT !.dialog = "none"]), "live")
            /\ UNCHANGED <<dev, acts, events>>

LoginFails == /\ c.dialog = "submitted" /\ ~dev.up
              /\ c' = [c EXCEPT !.dialog = "login"] /\ UNCHANGED <<dev, acts, events>>

Logout == /\ Act /\ c.tok # "none" /\ c.dialog = "none" /\ c' = SetToken(c, "none")

Unmount == /\ Act /\ c.mounted /\ c.dialog = "none"
           /\ c' = [Detached(c) EXCEPT !.mounted = FALSE, !.get = NoGet]

Mount == /\ ~c.mounted
         /\ c' = RenderSettings(LoadWifi([c EXCEPT !.mounted = TRUE, !.latest.known = FALSE]))
         /\ UNCHANGED <<dev, acts, events>>

-----------------------------------------------------------------------------
(* The device.                                                              *)

\* A request of an old session carries a token the device no longer takes.
Allowed(i) == c.flows[i].ses /\ c.tok = "live"

AnswerGet == /\ c.get.st = "sent" /\ dev.up
             /\ c' = [c EXCEPT !.get = [st |-> "back", v |-> dev.cfg]]
             /\ UNCHANGED <<dev, acts, events>>

PutReply(i) ==
    CASE ~Allowed(i)                   -> "denied"
      [] Allowed(i) /\ dev.tr # "none" -> "busy"
      [] Allowed(i) /\ dev.tr = "none" /\ dev.cfg.mode = "ap" /\ c.flows[i].sent.mode # "ap" -> "connecting"
      [] OTHER                         -> "ok"

AnswerPut(i) ==
    /\ c.flows[i].ph = "put" /\ dev.up
    /\ c' = [c EXCEPT !.flows[i].ph = "putback", !.flows[i].ans = PutReply(i)]
    /\ dev' = CASE PutReply(i) = "ok" ->
                       [dev EXCEPT !.cfg = c.flows[i].sent, !.done = @ \cup {i}]
                [] PutReply(i) = "connecting" ->
                       [dev EXCEPT !.tr = "started", !.want = c.flows[i].sent, !.for = i,
                                   !.late = @ \cup (IF i < c.n THEN {i} ELSE {})]
                [] OTHER                      -> dev
    /\ UNCHANGED <<acts, events>>

\* settleTransition: who asks after the end takes the result, once.
AnswerAsk(i) ==
    /\ c.flows[i].ph = "ask" /\ dev.up
    /\ \E ans \in IF ~Allowed(i) THEN {"denied"}
                  ELSE CASE dev.tr = "none"    -> {"idle"}
                         [] dev.tr = "started" -> {"connecting"}
                         [] dev.tr = "over"    -> {"connected", "failed"} :
       /\ c' = [c EXCEPT !.flows[i].ph = "askback", !.flows[i].ans = ans]
       /\ dev' = CASE ans = "connected" -> [dev EXCEPT !.tr = "none", !.cfg = dev.want,
                                                      !.done = @ \cup {dev.for}]
                   [] ans = "failed"    -> [dev EXCEPT !.tr = "none"]
                   [] OTHER             -> dev
    /\ UNCHANGED <<acts, events>>

TransitionEnds == /\ dev.tr = "started" /\ dev' = [dev EXCEPT !.tr = "over"]
                  /\ UNCHANGED <<c, acts, events>>

Event == events > 0 /\ events' = events - 1 /\ UNCHANGED acts

OtherLogin == /\ Event /\ c.tok = "live" /\ c' = [c EXCEPT !.tok = "dead"] /\ UNCHANGED dev
GoDown == /\ Event /\ dev.up /\ dev' = [dev EXCEPT !.up = FALSE] /\ UNCHANGED c
ComeUp == /\ ~dev.up /\ dev' = [dev EXCEPT !.up = TRUE] /\ UNCHANGED <<c, acts, events>>

-----------------------------------------------------------------------------
Closed == [state |-> "online", ever |-> TRUE, fails |-> 0, asking |-> TRUE, hushed |-> FALSE,
           mounted |-> FALSE, open |-> FALSE, val |-> First, pw |-> FALSE, base |-> First,
           known |-> FALSE, busy |-> "none", latest |-> [known |-> FALSE, v |-> First],
           get |-> NoGet, tok |-> "live", check |-> FALSE, dialog |-> "none", n |-> 0,
           flows |-> [i \in Saves |-> NoFlow]]

Init == /\ c = Closed
        /\ \E m \in Modes \ {"sta"} : dev = [up |-> TRUE, cfg |-> [First EXCEPT !.mode = m],
                                   tr |-> "none", want |-> First, for |-> 1, done |-> {}, late |-> {}]
        /\ acts = MaxActs /\ events = MaxEvents

SaveSteps(i) == \/ DeliverPut(i) \/ FailPut(i) \/ PollTimer(i) \/ DeliverAsk(i) \/ FailAsk(i)
                \/ Deadline(i) \/ AnswerPut(i) \/ AnswerAsk(i)
Client == \/ WifiPoll \/ (\E i \in Saves : ScheduledRefresh(i)) \/ DeliverGet \/ FailGet \/ SessionChecked
          \/ AliveOk \/ AliveFail \/ ScanEnds \/ LoggedIn \/ LoginFails
User   == \/ EditForm \/ Revert \/ BeginSave \/ OpenScan \/ CloseScan \/ OpenLogin
          \/ SubmitLogin \/ Logout \/ Unmount \/ Mount
Device == AnswerGet \/ TransitionEnds \/ OtherLogin \/ GoDown \/ ComeUp

Next == (\E i \in Saves : SaveSteps(i)) \/ Client \/ User \/ Device

\* Requests end, timers fire, the deadline passes.
Spec == Init /\ [][Next]_vars /\ \A i \in Saves : WF_vars(Deadline(i)) /\ WF_vars(SaveSteps(i))

-----------------------------------------------------------------------------
\* Every variable keeps its type.
TypeOK ==
    /\ LiveTyped(c) /\ c.val \in Value /\ c.base \in Value /\ c.get \in Get
    /\ c.flows \in [Saves -> Flow] /\ c.n \in 0..MaxSaves
    /\ c.busy \in {"none", "saving", "verifying"} /\ c.dialog \in Dialogs
    /\ c.tok \in {"none", "live", "dead"}
    /\ c.latest \in [known : BOOLEAN, v : Value]
    /\ {c.mounted, c.open, c.pw, c.known, c.check} \subseteq BOOLEAN
    /\ dev \in [up : BOOLEAN, cfg : Value, tr : {"none", "started", "over"}, want : Value,
               for : Saves, done : SUBSET Saves, late : SUBSET Saves]
    /\ acts \in 0..MaxActs /\ events \in 0..MaxEvents

\* No poll, no late answer and no recovery overwrites what the user has changed on
\* a form that is still on the page: only the user's own acts change a dirty draft.
DraftKept == [][c.open /\ c'.open /\ HasChanges(c) /\ acts' = acts => c'.val = c.val]_vars

\* A save reported as done has been applied by the device, also when the answer was
\* read by the poll of a transition, or another save's transition was in the way.  Or
\* else the device has applied an older one, which it took up after this one had begun:
\* the poll of wifi-controller.js does not learn whose transition it is told about.
Applied(i) == i \in dev.done \/ \E j \in dev.done \cap dev.late : j < i
SavedWasApplied == \A i \in Saves : c.flows[i].ph = "saved" => Applied(i)

\* The page's state is well formed and no save is reported that was not carried out,
\* over every order of polls, saves, logins and outages.
SetupInv == TypeOK /\ SavedWasApplied

\* A save, followed or not, ends: the form is free again and the monitor may judge
\* again, however the device, the session or the page behave meanwhile.
SaveEnds == []<>(c.busy = "none" /\ ~c.hushed)

-----------------------------------------------------------------------------
\* Properties the documents state and the code does not have (SPEC_TECHNICAL.md:987).
\* Only the end of a save's own transition makes what it sent the baseline.
SavedIsOwn == \A i \in Saves : c.flows[i].ph = "saved" => i \in dev.done

\* A section of the device's settings changes only through a save in whose mode
\* the user could see that section: hidden drafts never reach the device.
HiddenStays ==
    /\ dev.cfg.ap # First.ap   => \E i \in Saves : Shows(c.flows[i].sent.mode, "ap")
                                                   /\ c.flows[i].ph # "none"
    /\ dev.cfg.sta # First.sta => \E i \in Saves : Shows(c.flows[i].sent.mode, "sta")
==============================================================================
