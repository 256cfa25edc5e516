---------------------------- MODULE AdminConsole ----------------------------
(***************************************************************************)
(* The administration web console the firmware serves (builtin-web): the   *)
(* router and its guarded settings page (app/router.js, modules/auth.js),  *)
(* the Wi-Fi form, its save and what follows it (modules/wifi, pages/      *)
(* settings.js), the resource snapshots (core/resource-store.js, main.js), *)
(* the scan dialog and the requests that end the session.  The device is   *)
(* the repository's preview of it (preview/mockApi.js).                    *)
(*                                                                         *)
(* Console record c:                                                       *)
(*   hash, event         the address, and a hashchange not yet handled     *)
(*   target, nav         handleRoute: the route it read, what it waits for *)
(*   page, last, pending mountedPage, lastAcceptedHash, pendingHash        *)
(*   dialog, login, grant   the open dialog, the login request, its token *)
(*   token, named        state.token, state.auth                           *)
(*   features, asking, queued   state.features, its request, and the       *)
(*                       refresh that waits for it                         *)
(*   wifi, gets          state.wifi, and the reads of it that are out      *)
(*   form, base, based, busy   the Wi-Fi form and wifiFormBaseline         *)
(*   put, poll, retry    a save: its request, pollWifiTransition,          *)
(*                       retryWifiStatus                                   *)
(*   strays              saves given up here which may still arrive        *)
(*   scan, found, shut, cooling   the scan request, scanNetworks, a        *)
(*                       disabled rescan button, the cooldown timer        *)
(*   leave               a logout, new password or reset that is out       *)
(*   acked, proven       history: the newest change of the device this     *)
(*                       page knows of, the token it last saw confirmed    *)
(* The IP, security and password fields are abstracted into net, and the   *)
(* hardware page and the builds without the auth feature are left out.     *)
(***************************************************************************)
EXTENDS Naturals, FiniteSets

CONSTANT MaxActs       \* acts of the user and of other clients, together

ASSUME ConsoleBounds == MaxActs \in Nat

VARIABLES c,        \* the console, above
          dev,      \* preview: wifiConfig and how often it changed, activeToken, the
                    \* candidate of a transition, wifiConnection, a restart scheduled
          acts      \* acts left

vars == <<c, dev, acts>>

Hashes == {"network", "wifi", "system"}
PageOf(h) == IF h = "network" THEN "network" ELSE "settings"
Value  == [mode : {"ap", "sta"}, net : {"home", "new"}, prot : BOOLEAN]
First  == [mode |-> "ap", net |-> "home", prot |-> FALSE]
Snap   == [cfg : Value, rev : Nat]
NoSnap == [cfg |-> First, rev |-> 0]
\* The reads of /api/wifi: a page's refresh, one after a save, a status retry.
\* newest: its version is the current one; sync: what it may do to the form.
Whys   == {"page", "save", "retry"}
Syncs  == {"none", "force", "if-clean"}
Get    == [st : {"idle", "asked", "back"}, newest : BOOLEAN, own : BOOLEAN, sync : Syncs,
           snap : Snap]
NoGet  == [st |-> "idle", newest |-> FALSE, own |-> FALSE, sync |-> "none", snap |-> NoSnap]
Put    == [st : {"idle", "asked", "ok", "connecting", "refused", "polling"}, val : Value,
           tok : Nat, rev : Nat, prot : BOOLEAN]
NoPut  == [st |-> "idle", val |-> First, tok |-> 0, rev |-> 0, prot |-> FALSE]
Conn   == [st : {"idle", "connecting", "connected", "failed"}, rev : Nat]
NoConn == [st |-> "idle", rev |-> 0]
Poll   == [st : {"off", "wait", "asked", "back"}, conn : Conn]
NoPoll == [st |-> "off", conn |-> NoConn]

RetryDelays == 3       \* retryWifiStatus: delays.length

-----------------------------------------------------------------------------
(* Snapshots of the device (core/resource-store.js).                        *)

Superseded(k) == [w \in Whys |-> [k.gets[w] EXCEPT !.newest = FALSE]]

\* A change that leaves the reads under way in force.
InvalidateNothing(k) == k

Invalidate(k) == [k EXCEPT !.gets = Superseded(k)]

LoadSnapshot(k, w, sync) ==
    [k EXCEPT !.gets = [Superseded(k) EXCEPT
        ![w] = [NoGet EXCEPT !.st = "asked", !.newest = TRUE, !.own = TRUE, !.sync = sync]]]

-----------------------------------------------------------------------------
(* The Wi-Fi form (modules/wifi/view.js, pages/settings.js).                *)

FormHasChanges(k) == k.page = "settings" /\ k.based /\ k.form # k.base

FillForm(k) ==
    IF k.page = "settings" /\ k.wifi.rev > 0
    THEN [k EXCEPT !.form = k.wifi.cfg, !.base = k.wifi.cfg, !.based = TRUE] ELSE k

\* router.renderCurrent: every page draws what state holds.
RenderCurrent(k) == IF FormHasChanges(k) THEN k ELSE FillForm(k)

SyncViews(k, committed, sync) ==
    IF committed /\ (sync = "force" \/ (sync = "if-clean" /\ ~FormHasChanges(RenderCurrent(k))))
    THEN FillForm(k) ELSE RenderCurrent(k)

\* acceptSavedWifiForm: what was sent is the baseline, the form may have moved on.
AcceptSaved(k) == [k EXCEPT !.base = k.put.val, !.based = TRUE]

-----------------------------------------------------------------------------
(* The router (app/router.js).                                              *)

\* requests.rotate() and what handleRoute resets with it: the page's requests are
\* aborted, wherever they are; a login dialog about to open is closed instead.
Rotate(k) ==
    [k EXCEPT !.strays = IF k.put.st = "asked" THEN @ \cup {[val |-> k.put.val, tok |-> k.put.tok]}
                         ELSE @,
              !.dialog = IF k.nav = "auth" THEN "none" ELSE @,
              !.put = NoPut, !.poll = NoPoll, !.retry = 0, !.busy = FALSE,
              !.gets["retry"].own = FALSE,
              !.login = "idle", !.leave = "none", !.scan = FALSE, !.nav = "idle"]

\* page.mount of the settings page fills its new form; unmount stops the cooldown.
MountRoute(k) ==
    LET p == PageOf(k.target)
        m == [k EXCEPT !.page = p, !.form = First, !.base = First, !.based = FALSE,
                       !.cooling = IF p = "settings" THEN @ ELSE FALSE]
    IN  IF p = k.page THEN k ELSE FillForm(m)

Land(k) ==
    LET d == [k EXCEPT !.nav = "idle", !.last = k.hash, !.pending = "none",
                       !.dialog = IF k.target = "network" THEN "none" ELSE @]
    IN  MountRoute(d)

\* No session: remember where the user wanted to go, and ask for the password.
OpenLogin(k) ==
    LET d == [k EXCEPT !.pending = k.hash]
    IN  IF k.named THEN [d EXCEPT !.nav = "idle", !.dialog = "login"] ELSE [d EXCEPT !.nav = "auth"]

Verify(k, sessionKnown) ==
    IF k.target = "network" \/ sessionKnown THEN Land(k)
    ELSE IF k.token = 0 THEN OpenLogin(k)
    ELSE [k EXCEPT !.nav = "verify"]

HandleRoute(k, sessionKnown) ==
    LET r == [Rotate(k) EXCEPT !.target = k.hash]
    IN  IF PageOf(k.hash) = "settings" /\ ~k.features
        THEN [r EXCEPT !.nav = IF sessionKnown THEN "featuresKnown" ELSE "features",
                       !.asking = TRUE]
        ELSE Verify(r, sessionKnown)

\* requestRoute: the same address is handled at once, another one by its event.
Navigate(k, h) == IF k.hash = h THEN HandleRoute(k, FALSE) ELSE [k EXCEPT !.hash = h, !.event = TRUE]

EndSession(k) == Navigate([k EXCEPT !.token = 0], "network")

-----------------------------------------------------------------------------
(* Steps of the console.                                                    *)

Keep == UNCHANGED <<dev, acts>>

HashChanged == /\ c.event /\ c' = HandleRoute([c EXCEPT !.event = FALSE], FALSE) /\ Keep

\* refreshFeatures: one request for all who wait.  A page's refresh follows a good
\* answer, the first refresh follows any.
FeaturesSettle(known) ==
    LET f == IF known THEN RenderCurrent([c EXCEPT !.features = TRUE, !.asking = FALSE])
             ELSE [c EXCEPT !.asking = FALSE]
        n == IF f.nav \in {"features", "featuresKnown"} THEN Verify(f, f.nav = "featuresKnown") ELSE f
    IN  /\ c.asking
        /\ c' = IF c.queued = "none" THEN n
                ELSE IF known \/ c.queued = "force"
                     THEN [LoadSnapshot(n, "page", c.queued) EXCEPT !.queued = "none"]
                     ELSE [n EXCEPT !.queued = "none"]
        /\ Keep

\* The answer is about the token the request carried: the session may have ended on the
\* page since, and then the address has changed without being handled yet.
SessionConfirmed ==
    /\ c.nav = "verify" /\ Keep
    /\ \/ c.token = dev.token /\ c' = Land([c EXCEPT !.proven = c.token])
       \/ c.token = 0 /\ c' = Land(c)

SessionDenied ==
    /\ c.nav = "verify" /\ c.token # dev.token
    /\ c' = OpenLogin([c EXCEPT !.token = 0]) /\ Keep

SessionFails == c.nav = "verify" /\ c' = OpenLogin(c) /\ Keep

\* The dialog opens whether or not the username came.
AuthSettles(named) ==
    /\ c.nav = "auth" /\ c' = [c EXCEPT !.nav = "idle", !.named = named, !.dialog = "login"] /\ Keep

LoginHandled ==
    /\ c.login = "asked" /\ dev' = [dev EXCEPT !.token = @ + 1]
    /\ c' = [c EXCEPT !.login = "granted", !.grant = dev'.token] /\ UNCHANGED acts

LoginDone ==
    /\ c.login = "granted"
    /\ c' = HandleRoute([c EXCEPT !.token = c.grant, !.proven = c.grant, !.dialog = "none"], TRUE)
    /\ Keep

LoginFails == c.login # "idle" /\ c' = [c EXCEPT !.login = "idle"] /\ Keep

-----------------------------------------------------------------------------
(* A save (modules/wifi/controller.js).                                     *)

\* The device took the save: what is under way was read before it.
Accepted(k, rev) == [Invalidate(AcceptSaved([k EXCEPT !.busy = FALSE, !.acked = rev])) EXCEPT
                        !.put = NoPut, !.poll = NoPoll]

PutAnswered ==
    \/ /\ c.put.st = "ok"
       /\ c' = LET a == Accepted(c, c.put.rev)
               IN  IF c.put.prot THEN EndSession(a) ELSE [a EXCEPT !.retry = 1]
       /\ Keep
    \/ /\ c.put.st = "connecting"
       /\ c' = [c EXCEPT !.put.st = "polling", !.poll = [NoPoll EXCEPT !.st = "asked"]] /\ Keep

\* Refused, lost, or without an answer in time.
PutFails == /\ c.put.st \in {"asked", "refused"}
            /\ c' = [c EXCEPT !.put = NoPut, !.busy = FALSE,
                              !.strays = IF c.put.st = "asked"
                                         THEN @ \cup {[val |-> c.put.val, tok |-> c.put.tok]} ELSE @]
            /\ Keep

PollAsks == c.poll.st = "wait" /\ c' = [c EXCEPT !.poll.st = "asked"] /\ Keep

TransitionFailed(k) ==
    LoadSnapshot([k EXCEPT !.busy = FALSE, !.put = NoPut, !.poll = NoPoll], "save", "none")

PollAnswered ==
    /\ c.poll.st = "back"
    /\ c' = CASE c.poll.conn.st = "connected" -> LoadSnapshot(Accepted(c, c.poll.conn.rev), "save", "none")
              [] c.poll.conn.st = "failed" -> TransitionFailed(c)
              [] OTHER -> [c EXCEPT !.poll = [NoPoll EXCEPT !.st = "wait"]]
    /\ Keep

PollFails == /\ c.poll.st = "asked" /\ c' = [c EXCEPT !.poll = [NoPoll EXCEPT !.st = "wait"]] /\ Keep

\* WIFI_TRANSITION_POLL_DEADLINE_MS bounds the loop and the request in it.
Deadline == c.poll.st \in {"wait", "asked"} /\ c' = TransitionFailed(c) /\ Keep

RetryFires == /\ c.retry > 0 /\ c.gets["retry"].st = "idle"
              /\ c' = LoadSnapshot(c, "retry", "none") /\ Keep

-----------------------------------------------------------------------------
(* The end of a read.                                                       *)

RetryAgain(k) == [k EXCEPT !.retry = IF @ >= RetryDelays THEN 0 ELSE @ + 1]

\* Only the newest read is taken.  settled: wifiStatusIsSettled, of data left out.
\* A superseded status read throws before any view is drawn.
SnapshotRead(w, settled) ==
    LET g == c.gets[w]
        r == [c EXCEPT !.gets[w] = NoGet]
        s == IF g.newest THEN SyncViews([r EXCEPT !.wifi = g.snap], TRUE, g.sync)
             ELSE IF w = "page" THEN SyncViews(r, FALSE, g.sync) ELSE r
    IN  /\ g.st = "back" /\ (~g.newest => ~settled)
        /\ c' = IF w # "retry" \/ ~g.own \/ c.retry = 0 THEN s
                ELSE IF settled THEN [s EXCEPT !.retry = 0] ELSE RetryAgain(s)
        /\ Keep

ReadFails(w) ==
    LET g == c.gets[w]
        r == [c EXCEPT !.gets[w] = NoGet]
    IN  /\ g.st = "asked"
        /\ c' = IF w = "retry" /\ g.own /\ c.retry > 0 THEN RetryAgain(r)
                ELSE IF w = "page" THEN SyncViews(r, FALSE, g.sync) ELSE r
        /\ Keep

-----------------------------------------------------------------------------
(* The scan dialog, and the requests that end the session.                  *)

ScanWifi(k) == [k EXCEPT !.scan = TRUE, !.shut = TRUE]

\* startScanCooldown follows an answer and a failure alike.
ScanEnds(found) ==
    /\ c.scan /\ c' = [c EXCEPT !.scan = FALSE, !.found = @ \/ found, !.cooling = TRUE] /\ Keep

CooldownOver == /\ c.cooling /\ c' = [c EXCEPT !.cooling = FALSE, !.shut = FALSE] /\ Keep

LeaveDone ==
    /\ c.leave # "none"
    /\ c.leave = "logout" \/ c.token = dev.token
    /\ dev' = [dev EXCEPT !.token = IF c.token = dev.token /\ c.leave # "reset" THEN dev.token + 1 ELSE @,
                          !.restart = CASE c.leave = "reset" -> "factory"
                                        [] c.leave = "password" /\ dev.cfg.prot -> "again"
                                        [] OTHER -> @]
    /\ c' = EndSession([c EXCEPT !.leave = "none",
                                 !.dialog = IF c.leave = "reset" THEN "none" ELSE @])
    /\ UNCHANGED acts

LeaveFails == /\ c.leave # "none"
              /\ c' = [c EXCEPT !.leave = "none", !.dialog = IF c.leave = "reset" THEN "none" ELSE @]
              /\ Keep

-----------------------------------------------------------------------------
(* The user.  An open dialog makes the page behind it inert; the browser's  *)
(* own history still moves.                                                 *)

Act == acts > 0 /\ acts' = acts - 1 /\ UNCHANGED dev
OnPage == c.dialog = "none"
OnForm == OnPage /\ c.page = "settings" /\ c.based

ChangeHash(h) == Act /\ h # c.hash /\ c' = [c EXCEPT !.hash = h, !.event = TRUE]
ClickHere == Act /\ OnPage /\ c' = HandleRoute(c, FALSE)
SubmitLogin == Act /\ c.dialog = "login" /\ c.named /\ c.login = "idle" /\ c' = [c EXCEPT !.login = "asked"]

\* Cancelling that leaves the address where it was.
CancelLoginHere == /\ c.dialog = "login" /\ Keep
                   /\ c' = IF c.pending = "none" THEN [c EXCEPT !.dialog = "none"]
                           ELSE HandleRoute([c EXCEPT !.dialog = "none", !.pending = "none"], TRUE)

CancelLogin == /\ c.dialog = "login" /\ Keep
               /\ c' = IF c.pending = "none" THEN [c EXCEPT !.dialog = "none"]
                       ELSE HandleRoute([c EXCEPT !.dialog = "none", !.pending = "none",
                                                  !.hash = c.last], TRUE)

\* One field at a time.
EditForm == Act /\ OnForm /\ c' \in {[c EXCEPT !.form.mode = IF @ = "ap" THEN "sta" ELSE "ap"],
                                     [c EXCEPT !.form.net = IF @ = "home" THEN "new" ELSE "home"],
                                     [c EXCEPT !.form.prot = ~@]}

SaveWifi == /\ Act /\ OnForm /\ FormHasChanges(c) /\ ~c.busy
            /\ c' = [c EXCEPT !.busy = TRUE, !.poll = NoPoll, !.retry = 0, !.gets["retry"].own = FALSE,
                              !.put = [NoPut EXCEPT !.st = "asked", !.val = c.form, !.tok = c.token,
                                           !.prot = c.wifi.cfg.prot # c.form.prot]]

RefreshButton == /\ Act /\ OnPage /\ c.queued = "none" /\ c.gets["page"].st = "idle"
                 /\ c' = [c EXCEPT !.asking = TRUE, !.queued = "if-clean"]

OpenScan == /\ Act /\ OnPage /\ c.page = "settings"
            /\ c' = LET d == [c EXCEPT !.dialog = "scan"] IN IF c.found THEN d ELSE ScanWifi(d)
Rescan == Act /\ c.dialog = "scan" /\ ~c.shut /\ c' = ScanWifi(c)
CloseDialog == c.dialog \in {"scan", "reset"} /\ c' = [c EXCEPT !.dialog = "none"] /\ Keep

Leave(how) == /\ Act /\ c.page = "settings" /\ c.leave = "none" /\ c.token # 0
              /\ IF how = "reset" THEN c.dialog = "reset" ELSE OnPage
              /\ c' = [c EXCEPT !.leave = how]
OpenReset == OnPage /\ c.page = "settings" /\ acts > 0 /\ c' = [c EXCEPT !.dialog = "reset"] /\ Keep
ChangeLanguage == Act /\ c' = RenderCurrent(c)

-----------------------------------------------------------------------------
(* The device (preview/mockApi.js).                                         *)

Changed(d, v) == [d EXCEPT !.cfg = v, !.rev = @ + 1]

\* updateWifi: refused during a transition; leaving AP mode starts one.
Update(d, v) ==
    IF d.cand # {} THEN d
    ELSE IF d.cfg.mode = "ap" /\ v.mode = "sta" THEN [d EXCEPT !.cand = {v}, !.conn = [NoConn EXCEPT !.st = "connecting"]]
    ELSE [Changed(d, v) EXCEPT !.conn = NoConn, !.restart = IF v.prot # d.cfg.prot THEN "again" ELSE @]

PutReply(d, tok, v) ==
    IF tok # d.token \/ d.cand # {} THEN "refused"
    ELSE IF d.cfg.mode = "ap" /\ v.mode = "sta" THEN "connecting" ELSE "ok"

HandlePut ==
    /\ c.put.st = "asked"
    /\ dev' = IF c.put.tok = dev.token THEN Update(dev, c.put.val) ELSE dev
    /\ c' = [c EXCEPT !.put.st = PutReply(dev, c.put.tok, c.put.val), !.put.rev = dev'.rev]
    /\ UNCHANGED acts

\* A save the page gave up may arrive after all, or never.
HandleStray ==
    \E s \in c.strays :
        /\ c' = [c EXCEPT !.strays = @ \ {s}]
        /\ dev' \in {dev, IF s.tok = dev.token THEN Update(dev, s.val) ELSE dev}
        /\ UNCHANGED acts

AnswerRead(w) == /\ c.gets[w].st = "asked" /\ Keep
                 /\ c' = [c EXCEPT !.gets[w].st = "back", !.gets[w].snap = [cfg |-> dev.cfg, rev |-> dev.rev]]

AnswerPoll == /\ c.poll.st = "asked" /\ c.token = dev.token /\ Keep
              /\ c' = [c EXCEPT !.poll.st = "back", !.poll.conn = dev.conn]

\* startSafeWifiTransition ends: the candidate is the configuration, or is dropped
\* (the preview only succeeds; the firmware it stands for rolls back).
TransitionEnds ==
    \E v \in dev.cand :
        /\ dev' \in {[Changed(dev, v) EXCEPT !.cand = {}, !.conn = [st |-> "connected", rev |-> dev.rev + 1]],
                     [dev EXCEPT !.cand = {}, !.conn = [NoConn EXCEPT !.st = "failed"]]}
        /\ UNCHANGED <<c, acts>>

\* scheduleDeviceRestart and scheduleReset: the session ends; a reset also restores
\* the factory configuration.
RestartDone ==
    /\ dev.restart # "none"
    /\ dev' = [(IF dev.restart = "factory" THEN Changed(dev, First) ELSE dev) EXCEPT
                  !.token = @ + 1, !.cand = {}, !.conn = NoConn, !.restart = "none"]
    /\ UNCHANGED <<c, acts>>

\* Another client logs in and saves another network.
OtherClient ==
    /\ acts > 0 /\ acts' = acts - 1
    /\ LET v == [dev.cfg EXCEPT !.net = IF @ = "home" THEN "new" ELSE "home"]
       IN  dev' = Update([dev EXCEPT !.token = @ + 1], v)
    /\ UNCHANGED c

-----------------------------------------------------------------------------
Init ==
    /\ \E t \in {0, 1} :
         c = [hash |-> "network", event |-> FALSE, target |-> "network", nav |-> "idle",
              page |-> "network", last |-> "network", pending |-> "none", dialog |-> "none",
              login |-> "idle", token |-> t, named |-> FALSE, features |-> FALSE, asking |-> TRUE,
              queued |-> "force", wifi |-> NoSnap, gets |-> [w \in Whys |-> NoGet],
              form |-> First, base |-> First, based |-> FALSE, busy |-> FALSE, put |-> NoPut,
              poll |-> NoPoll, retry |-> 0, strays |-> {}, scan |-> FALSE, found |-> FALSE,
              shut |-> FALSE, cooling |-> FALSE, leave |-> "none", acked |-> 0, proven |-> 0, grant |-> 0]
    /\ dev = [cfg |-> First, rev |-> 1, token |-> 1, cand |-> {}, conn |-> NoConn, restart |-> "none"]
    /\ acts = MaxActs

Route == HashChanged \/ (\E b \in BOOLEAN : FeaturesSettle(b) \/ AuthSettles(b))
         \/ SessionConfirmed \/ SessionDenied \/ SessionFails
Login == LoginHandled \/ LoginDone \/ LoginFails
Save  == PutAnswered \/ PutFails \/ PollAsks \/ PollAnswered \/ PollFails \/ RetryFires
Reads == \E w \in Whys : ReadFails(w) \/ AnswerRead(w) \/ \E b \in BOOLEAN : SnapshotRead(w, b)
Dialog == (\E b \in BOOLEAN : ScanEnds(b)) \/ CooldownOver \/ LeaveDone \/ LeaveFails
User  == \/ \E h \in Hashes : ChangeHash(h)
         \/ \E how \in {"logout", "password", "reset"} : Leave(how)
         \/ ClickHere \/ SubmitLogin \/ CancelLogin \/ EditForm \/ SaveWifi \/ RefreshButton
         \/ OpenScan \/ Rescan \/ CloseDialog \/ OpenReset \/ ChangeLanguage
Device == HandlePut \/ HandleStray \/ AnswerPoll \/ TransitionEnds \/ RestartDone \/ OtherClient

Next == Route \/ Login \/ Save \/ Deadline \/ Reads \/ Dialog \/ User \/ Device

\* Requests end, by an answer or their time limit, and timers fire.  Deadline is met
\* again and again between the polls, and time passes: strong fairness.
Spec == /\ Init /\ [][Next]_vars
        /\ WF_vars(Route) /\ WF_vars(PutAnswered \/ PutFails) /\ SF_vars(Deadline)
        /\ WF_vars(PollAnswered) /\ WF_vars(CooldownOver) /\ WF_vars(\E b \in BOOLEAN : ScanEnds(b))

-----------------------------------------------------------------------------
\* Every variable keeps its type.
TypeOK ==
    /\ {c.hash, c.target, c.last} \subseteq Hashes /\ c.pending \in Hashes \cup {"none"}
    /\ c.page \in {"network", "settings"} /\ c.dialog \in {"none", "login", "scan", "reset"}
    /\ c.nav \in {"idle", "features", "featuresKnown", "verify", "auth"}
    /\ c.login \in {"idle", "asked", "granted"} /\ c.leave \in {"none", "logout", "password", "reset"}
    /\ c.queued \in Syncs
    /\ c.wifi \in Snap /\ c.gets \in [Whys -> Get] /\ {c.form, c.base} \subseteq Value
    /\ c.put \in Put /\ c.poll \in Poll /\ c.retry \in 0..RetryDelays
    /\ {c.token, c.acked, c.proven, c.grant} \subseteq Nat /\ c.strays \subseteq [val : Value, tok : Nat]
    /\ {c.event, c.named, c.features, c.asking, c.based, c.busy, c.scan, c.found, c.shut, c.cooling} \subseteq BOOLEAN
    /\ dev.cfg \in Value /\ dev.cand \subseteq Value /\ dev.conn \in Conn /\ {dev.rev, dev.token} \subseteq Nat
    /\ dev.restart \in {"none", "again", "factory"} /\ acts \in 0..MaxActs

\* The settings page opens only to a session the device has confirmed: however routes,
\* logins, cancellations and answers interleave.
SettingsGuarded ==
    [][c.page = "network" /\ c'.page = "settings" => c'.token # 0 /\ c'.token = c'.proven]_vars

\* The page never goes back: a snapshot it takes is not older than the one it has, nor
\* than a save it has reported as done.
SnapshotAdvances ==
    [][c'.wifi # c.wifi => c'.wifi.rev >= c.wifi.rev /\ c'.wifi.rev >= c'.acked]_vars

-----------------------------------------------------------------------------
\* Two properties the documents state and the code does not have.
\* With results shown the rescan button is disabled only while a scan or its cooldown
\* runs, or it never comes back (SPEC_FRONTEND_BEHAVIOR.md, Wi-Fi scan).
RescanReturns == c.found /\ c.shut => c.scan \/ c.cooling

\* A form without changes holds what the device held when this page last saved, or newer
\* (SPEC_FRONTEND_BEHAVIOR.md, states and errors).
CleanIsCurrent ==
    c.based /\ c.form = c.base /\ ~c.busy /\ dev.rev = c.acked => c.base = dev.cfg
=============================================================================
