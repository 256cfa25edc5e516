----------------------------- MODULE PanelClient -----------------------------
(***************************************************************************)
(* The browser's owner of the e-paper operation (device-epaper.js), the    *)
(* page that starts one (device-epaper-test/page.js) and what it knows of  *)
(* the device: capability discovery, one shared status request, one        *)
(* operation with its run id, the poll, the 700 ms hold after a success,   *)
(* and callers that wait for the end of a draw.                            *)
(*                                                                         *)
(* Requests are asynchronous: the device handles a request in one step and *)
(* the browser sees the answer, or a failure, in a later one; answers of   *)
(* different requests arrive in any order.  Promise continuations of one   *)
(* answer run in the step that delivers it, as microtasks do.              *)
(*                                                                         *)
(* The client's own state is the record c:                                 *)
(*   active, accepted, kind, stage, pct, run   state.operation             *)
(*   cur       currentRunId              blocking  blockingOperation       *)
(*   poll      activePollTimer # null    holds     pending hold timers     *)
(*   waiters   runs whose caller awaits  mode      state.mode            *)
(*   can       can_draw of state.status  cooling   cooldownEndsAt # 0    *)
(*                                                                         *)
(* The device reserves the panel for a request before it queues the draw   *)
(* (EpaperService.cpp: beginUpload, queueDraw), the reservation can come   *)
(* to nothing, admission closes while a restart or a sleep drains the      *)
(* panel, and a reset forgets the last result.                             *)
(***************************************************************************)
EXTENDS Naturals, FiniteSets

CONSTANTS MaxRuns,    \* operations the browser numbers, observed ones included
          MaxEvents,  \* connection losses, draws of other clients, drains and resets, together
          MaxHolds    \* hold timers pending at once

ASSUME PanelBounds == /\ MaxRuns \in Nat \ {0} /\ MaxEvents \in Nat
                      /\ MaxHolds \in Nat \ {0}

VARIABLES c,        \* the client's state, above
          built,    \* whether the device's firmware has the panel: "yes", "no"
          live,     \* device-live: "online" or "offline"
          feat,     \* device-features' answer for e-paper: "unknown", "yes", "no"
          capReq,   \* discoveryRequest: "none", "asked", "status" (awaits a status)
          statReq,  \* statusRequest: NoStatus, Asked, or the status it carries back
          begins,   \* beginOperation calls that await the status request
          reqs,     \* run |-> its draw request
          dev,      \* the device: state, last result, whether the marker stayed, whether
                    \* admission is open, whether the panel is only reserved, and for whom
          served,   \* run |-> what the device did for it
          budget    \* MaxEvents' events left

vars == <<c, built, live, feat, capReq, statReq, begins, reqs, dev, served, budget>>
env  == <<built, live, feat, budget>>
device == <<dev, served>>

Runs   == 1..MaxRuns
Kinds  == {"upload", "action"}
Busy   == {"uploading", "queued", "drawing"}
States == Busy \cup {"idle", "cooldown", "unavailable"}
Results == {"none", "ok", "failed"}
Status == [st : States, last : Results, marker : BOOLEAN, can : BOOLEAN]
Blank(st) == [st |-> st, last |-> "none", marker |-> FALSE, can |-> FALSE]
NoStatus == Blank("none")     \* nothing known, and no request
Asked    == Blank("sent")     \* a request the device has not answered

Bigger(a, b) == IF a > b THEN a ELSE b

\* Where each stage's progress interval starts, in percent.
PhaseStart == [preflight |-> 0, uploading |-> 11, queued |-> 17, drawing |-> 42, success |-> 100]

-----------------------------------------------------------------------------
(* Operation state machine, as functions of the client record.              *)

\* can_upload and can_draw, which the device publishes as one value.
StatusAllows(s) == s.can

IsSupported(k) == k.mode = "epaper"

CanDraw == /\ feat = "yes" /\ IsSupported(c) /\ live = "online"
           /\ ~c.active /\ ~c.cooling /\ c.can

\* A stage that sets the percentage as it comes.
SetStageAnyOrder(k, stage) == [k EXCEPT !.stage = stage, !.pct = PhaseStart[stage]]

SetStage(k, stage) == [k EXCEPT !.stage = stage, !.pct = Bigger(@, PhaseStart[stage])]

\* The callers that wait are told; the stage tells them apart.
Settle(k) == [k EXCEPT !.waiters = {}]

ResetOperation(k) ==
    [k EXCEPT !.active = FALSE, !.accepted = FALSE, !.kind = "none", !.stage = "idle",
              !.pct = 0, !.run = k.cur, !.poll = FALSE, !.blocking = FALSE]

CompleteOperation(k) ==
    IF k.active THEN Settle([SetStage(k, "success") EXCEPT !.holds = @ + 1]) ELSE k

FailOperation(k, r) == IF r = k.run THEN ResetOperation(Settle(k)) ELSE k

StartOperation(k, kind, stage) ==
    SetStage([k EXCEPT !.cur = @ + 1, !.run = k.cur + 1, !.active = TRUE, !.accepted = FALSE,
                       !.kind = kind, !.pct = 0, !.blocking = TRUE], stage)

StartObserved(k, stage) ==
    IF k.active THEN k
    ELSE [StartOperation(k, "observed", stage) EXCEPT !.accepted = TRUE,
             !.pct = Bigger(PhaseStart["queued"], PhaseStart[stage]), !.poll = TRUE]

\* Cooldown: a failed draw fails the operation, any other one completes it.
ApplyCooldown(k, s) ==
    IF s.last = "failed" /\ k.active THEN FailOperation(k, k.run) ELSE CompleteOperation(k)

\* The device is at work: an operation nobody here started is observed.
ApplyBusy(k, s) == [SetStage(StartObserved(k, s.st), s.st) EXCEPT !.poll = TRUE]

ApplyUnavailable(k, s) ==
    LET f == IF k.active THEN FailOperation(k, k.run) ELSE k
    IN  IF s.marker THEN [f EXCEPT !.cooling = FALSE] ELSE f

\* Idle without the success of an operation whose cooldown was not seen.
ApplyIdleOnlyFailure(k, s) ==
    IF k.active /\ k.accepted /\ s.last = "failed" THEN FailOperation(k, k.run)
    ELSE [k EXCEPT !.cooling = FALSE]

\* Idle: the last result settles an accepted operation, for a reconnection can
\* skip the whole cooldown; a success only once the panel can be drawn to again.
ApplyIdle(k, s) ==
    LET mine == k.active /\ k.accepted IN
    CASE mine /\ s.last = "failed"        -> FailOperation(k, k.run)
      [] mine /\ s.last = "ok" /\ s.can   -> [CompleteOperation(k) EXCEPT !.cooling = FALSE]
      [] OTHER                            -> [k EXCEPT !.cooling = FALSE]

ApplyStatus(k, s) ==
    LET seen == [k EXCEPT !.can = s.can] IN
    CASE s.st = "cooldown"    -> ApplyCooldown([seen EXCEPT !.cooling = TRUE], s)
      [] s.st \in Busy        -> ApplyBusy(seen, s)
      [] s.st = "unavailable" -> ApplyUnavailable(seen, s)
      [] s.st = "idle"        -> ApplyIdle(seen, s)

-----------------------------------------------------------------------------
(* Requests.                                                                *)

\* refreshStatus: one request at a time, every caller shares it.
Refreshed(k) == IF k.mode = "epaper" /\ live = "online" /\ statReq = NoStatus THEN Asked ELSE statReq

\* The first of the waiting beginOperation calls that the answer admits.
Admitted(k, s) == IF k.active \/ feat # "yes" \/ ~StatusAllows(s) THEN {} ELSE begins

DeliverStatus ==
    /\ statReq \in Status
    /\ LET k == IF feat = "yes" THEN ApplyStatus(c, statReq) ELSE c IN
       /\ k.cur <= MaxRuns /\ k.holds <= MaxHolds
       /\ \/ /\ Admitted(k, statReq) = {}
             /\ c' = k
             /\ UNCHANGED reqs
          \/ \E kind \in Admitted(k, statReq) :
             /\ k.cur < MaxRuns
             /\ c' = StartOperation(k, kind, "preflight")
             /\ reqs' = [reqs EXCEPT ![k.cur + 1] = IF kind = "action" THEN "sent" ELSE "preparing"]
    /\ statReq' = NoStatus /\ begins' = {}
    /\ capReq' = IF capReq = "status" THEN "none" ELSE capReq
    /\ UNCHANGED <<env, device>>

StatusFails ==
    /\ statReq # NoStatus
    /\ statReq' = NoStatus /\ begins' = {}
    /\ capReq' = IF capReq = "status" THEN "none" ELSE capReq
    /\ UNCHANGED <<c, reqs, env, device>>

\* The 5 s status timer, the 750 ms poll of an operation, and a page that mounts.
StatusTimer == c.mode = "epaper" /\ live = "online" /\ ~c.active
PollTimer   == c.poll
PageMount   == TRUE

AskStatus(caller) ==
    /\ caller
    /\ statReq = NoStatus /\ Refreshed(c) = Asked
    /\ statReq' = Asked
    /\ UNCHANGED <<c, capReq, begins, reqs, env, device>>

\* A page starts an operation: its button is enabled only while CanDraw, and
\* admission asks the device once more before it takes the operation.
BeginOperation(kind) ==
    /\ CanDraw
    /\ c.cur < MaxRuns
    /\ begins' = begins \cup {kind}
    /\ statReq' = Refreshed(c)
    /\ UNCHANGED <<c, capReq, reqs, env, device>>

Current(r) == c.active /\ c.run = r

\* A request that ends in an error fails its operation unless one was accepted.
Rejected(r) ==
    /\ reqs' = [reqs EXCEPT ![r] = "closed"]
    /\ c' = IF c.accepted THEN c ELSE FailOperation(c, r)

\* Processing or encoding of an upload fails, or its payload has another size.
PrepareFails(r) ==
    /\ reqs[r] = "preparing"
    /\ reqs' = [reqs EXCEPT ![r] = "closed"]
    /\ c' = FailOperation(c, r)
    /\ UNCHANGED <<statReq, capReq, begins, env, device>>

SubmitUpload(r) ==
    /\ reqs[r] = "preparing"
    /\ \/ /\ Current(r) /\ ~c.accepted
          /\ reqs' = [reqs EXCEPT ![r] = "compressing"]
          /\ c' = SetStage(c, "uploading")
       \/ /\ ~(Current(r) /\ ~c.accepted)
          /\ reqs' = [reqs EXCEPT ![r] = "closed"]
          /\ UNCHANGED c
    /\ UNCHANGED <<statReq, capReq, begins, env, device>>

\* gzip has run: checked again before anything is sent.
Compressed(r) ==
    /\ reqs[r] = "compressing"
    /\ \/ /\ Current(r) /\ ~c.accepted
          /\ reqs' = [reqs EXCEPT ![r] = "sent"]
          /\ UNCHANGED c
       \/ Rejected(r)
    /\ UNCHANGED <<statReq, capReq, begins, env, device>>

\* acceptAndWait that adopts any answer while an operation is active.
AcceptedByAnyone(r) ==
    /\ reqs[r] = "accepted" /\ c.active
    /\ c' = [SetStage(c, "queued") EXCEPT !.accepted = TRUE, !.poll = TRUE]
    /\ reqs' = [reqs EXCEPT ![r] = "closed"]
    /\ statReq' = Refreshed(c)
    /\ UNCHANGED <<capReq, begins, env, device>>

\* HTTP 202 comes back: acceptAndWait.
Accepted(r) ==
    /\ reqs[r] = "accepted"
    /\ IF Current(r)
       THEN LET k == [SetStage(c, "queued") EXCEPT !.accepted = TRUE, !.poll = TRUE,
                                                   !.waiters = @ \cup {r}]
            IN  /\ c' = k
                /\ reqs' = [reqs EXCEPT ![r] = "closed"]
                /\ statReq' = Refreshed(k)
       ELSE Rejected(r) /\ UNCHANGED statReq
    /\ UNCHANGED <<capReq, begins, env, device>>

Refused(r) ==
    /\ reqs[r] = "refused"
    /\ Rejected(r)
    /\ UNCHANGED <<statReq, capReq, begins, env, device>>

\* A transport error or a timeout; the device may still get what was sent.
RequestFails(r) ==
    /\ reqs[r] \in {"sent", "accepted"}
    /\ c' = IF c.accepted THEN c ELSE FailOperation(c, r)
    /\ reqs' = [reqs EXCEPT ![r] = IF @ = "sent" THEN "orphan" ELSE "closed"]
    /\ UNCHANGED <<statReq, capReq, begins, env, device>>

\* The timeout of a completed operation: it does not look at the run.
HoldFires ==
    /\ c.holds > 0
    /\ c' = [ResetOperation(c) EXCEPT !.holds = @ - 1]
    /\ UNCHANGED <<statReq, capReq, begins, reqs, env, device>>

CooldownTick ==
    /\ c.cooling
    /\ c' = [c EXCEPT !.cooling = FALSE]
    /\ UNCHANGED <<statReq, capReq, begins, reqs, env, device>>

-----------------------------------------------------------------------------
(* Discovery.                                                               *)

\* Features become known: probe.
FeaturesKnown ==
    /\ live = "online" /\ feat # built
    /\ feat' = built
    /\ IF built = "no"
       THEN /\ c' = [(IF c.active THEN FailOperation(c, c.run) ELSE c)
                        EXCEPT !.mode = "standalone", !.can = FALSE]
            /\ UNCHANGED capReq
       ELSE /\ capReq' = IF capReq = "none" THEN "asked" ELSE capReq
            /\ UNCHANGED c
    /\ UNCHANGED <<built, live, budget, statReq, begins, reqs, device>>

CapabilitiesKnown ==
    /\ capReq = "asked"
    /\ IF feat = "yes"
       THEN LET k == [c EXCEPT !.mode = "epaper"] IN
            /\ c' = k
            /\ statReq' = Refreshed(k)
            /\ capReq' = IF live = "online" THEN "status" ELSE "none"
       ELSE capReq' = "none" /\ UNCHANGED <<c, statReq>>
    /\ UNCHANGED <<begins, reqs, env, device>>

\* A panel that was found once stays the editor's target.
CapabilitiesFail ==
    /\ capReq = "asked" /\ capReq' = "none"
    /\ UNCHANGED <<c, statReq, begins, reqs, env, device>>

GoOffline ==
    /\ live = "online" /\ budget > 0
    /\ live' = "offline" /\ feat' = "unknown"
    /\ budget' = budget - 1
    /\ UNCHANGED <<c, built, statReq, capReq, begins, reqs, device>>

GoOnline ==
    /\ live = "offline" /\ live' = "online"
    /\ UNCHANGED <<c, built, feat, budget, statReq, capReq, begins, reqs, device>>

\* Other firmware is flashed, which outlasts every request's timeout.
Reflash ==
    /\ live = "offline" /\ built = "yes"
    /\ statReq = NoStatus /\ capReq = "none" /\ begins = {}
    /\ \A r \in Runs : reqs[r] \notin {"sent", "accepted", "refused", "orphan"}
    /\ built' = "no"
    /\ UNCHANGED <<c, live, feat, budget, statReq, capReq, begins, reqs, device>>

-----------------------------------------------------------------------------
(* The device.                                                              *)

Admits == dev.st = "idle" /\ dev.open

Snapshot == [st |-> dev.st, last |-> dev.last, marker |-> dev.marker, can |-> Admits]

AnswerStatus ==
    /\ statReq = Asked
    /\ statReq' = Snapshot
    /\ UNCHANGED <<c, capReq, begins, reqs, env, device>>

\* What the request of run r comes to; an orphan's answer reaches nobody.
Answered(r, st) == [reqs EXCEPT ![r] = IF @ = "sent" THEN st ELSE "closed"]

\* The panel is reserved: for an upload while its body comes in, for a draw of the
\* stored picture while that is validated.
Reserve(r) ==
    /\ reqs[r] \in {"sent", "orphan"} /\ Admits
    /\ \E st \in {"uploading", "queued"} : dev' = [dev EXCEPT !.st = st, !.held = TRUE, !.owner = r]
    /\ UNCHANGED <<c, statReq, capReq, begins, reqs, env, served>>

Refuse(r) ==
    /\ reqs[r] \in {"sent", "orphan"} /\ ~Admits /\ ~(dev.held /\ dev.owner = r)
    /\ reqs' = Answered(r, "refused")
    /\ UNCHANGED <<c, statReq, capReq, begins, env, device>>

OtherClientReserves ==
    /\ Admits /\ budget > 0
    /\ budget' = budget - 1
    /\ \E st \in {"uploading", "queued"} : dev' = [dev EXCEPT !.st = st, !.held = TRUE, !.owner = 0]
    /\ UNCHANGED <<c, built, live, feat, statReq, capReq, begins, reqs, served>>

\* HTTP 202: the draw is in the worker's queue.
QueueDraw ==
    /\ dev.held
    /\ dev' = [dev EXCEPT !.st = "queued", !.held = FALSE]
    /\ IF dev.owner = 0 THEN UNCHANGED <<served, reqs>>
       ELSE /\ served' = [served EXCEPT ![dev.owner] = "accepted"]
            /\ reqs' = Answered(dev.owner, "accepted")
    /\ UNCHANGED <<c, statReq, capReq, begins, env>>

\* An upload that fails is the last result; a stored picture that is missing or
\* invalid leaves that result as it was.
ReservationFails ==
    /\ dev.held
    /\ dev' = [dev EXCEPT !.st = "idle", !.held = FALSE, !.owner = 0,
                          !.last = IF dev.st = "uploading" THEN "failed" ELSE @]
    /\ reqs' = IF dev.owner = 0 THEN reqs ELSE Answered(dev.owner, "refused")
    /\ UNCHANGED <<c, statReq, capReq, begins, env, served>>

DeviceMoves(next, result) ==
    /\ dev' = [dev EXCEPT !.st = next, !.marker = FALSE,
                          !.last  = IF result = "same" THEN @ ELSE result,
                          !.owner = IF result = "same" THEN @ ELSE 0]
    /\ served' = IF dev.owner = 0 \/ result = "same" THEN served
                 ELSE [served EXCEPT ![dev.owner] = result]
    /\ UNCHANGED <<c, env, statReq, capReq, begins, reqs>>

Queued       == dev.st = "queued" /\ ~dev.held
StartDraw    == Queued /\ DeviceMoves("drawing", "same")
RejectStored == Queued /\ DeviceMoves("idle", "failed")
FinishDraw ==
    /\ dev.st = "drawing"
    /\ \/ \E result \in {"ok", "failed"} : DeviceMoves("cooldown", result)
       \/ DeviceMoves("idle", "failed")        \* the panel was not woken
ShutdownFails == dev.st = "drawing" /\ DeviceMoves("unavailable", "failed")
MarkerCleared == dev.open /\ (dev.st = "cooldown" \/ dev.marker) /\ DeviceMoves("idle", "same")
MarkerStays ==
    /\ dev.open /\ dev.st = "cooldown"
    /\ dev' = [dev EXCEPT !.st = "unavailable", !.last = "failed", !.marker = TRUE]
    /\ UNCHANGED <<c, env, statReq, capReq, begins, reqs, served>>

\* A restart or a sleep asks for the panel: nothing more is admitted.
CloseAdmission ==
    /\ dev.open /\ budget > 0
    /\ budget' = budget - 1
    /\ dev' = [dev EXCEPT !.open = FALSE]
    /\ UNCHANGED <<c, built, live, feat, statReq, capReq, begins, reqs, served>>

\* Where the protection marker lets the device begin.
Recovered(st) ==
    CASE st \in {"drawing", "unavailable"} -> {"idle", "cooldown", "unavailable"}
      [] st = "cooldown"                   -> {"cooldown", "idle"}
      [] OTHER                             -> {"idle"}

\* The device starts anew, without a result; a request it was serving breaks off.
Restarted ==
    /\ \E st \in Recovered(dev.st) :
          dev' = [st |-> st, last |-> "none", marker |-> FALSE, open |-> TRUE, held |-> FALSE,
                  owner |-> 0]
    /\ reqs' = IF dev.held /\ dev.owner # 0 THEN Answered(dev.owner, "refused") ELSE reqs

Reboot ==
    /\ budget > 0 /\ budget' = budget - 1
    /\ Restarted
    /\ UNCHANGED <<c, built, live, feat, statReq, capReq, begins, served>>

\* The drain ends in the restart or the sleep it was for, or admission opens again.
DrainEnds ==
    /\ ~dev.open
    /\ \/ dev' = [dev EXCEPT !.open = TRUE] /\ UNCHANGED reqs
       \/ Restarted
    /\ UNCHANGED <<c, env, statReq, capReq, begins, served>>

-----------------------------------------------------------------------------
Init ==
    /\ c = [active |-> FALSE, accepted |-> FALSE, kind |-> "none", stage |-> "idle", pct |-> 0,
            run |-> 0, cur |-> 0, poll |-> FALSE, blocking |-> FALSE, holds |-> 0,
            waiters |-> {}, mode |-> "standalone", can |-> FALSE, cooling |-> FALSE]
    /\ built = "yes" /\ live = "offline" /\ feat = "unknown"
    /\ capReq = "none" /\ statReq = NoStatus /\ begins = {}
    /\ reqs = [r \in Runs |-> "none"]
    /\ dev = [st |-> "idle", last |-> "none", marker |-> FALSE, open |-> TRUE, held |-> FALSE,
              owner |-> 0]
    /\ served = [r \in Runs |-> "none"]
    /\ budget = MaxEvents

Client ==
    \/ DeliverStatus \/ StatusFails
    \/ AskStatus(StatusTimer) \/ AskStatus(PollTimer) \/ AskStatus(PageMount)
    \/ \E kind \in Kinds : BeginOperation(kind)
    \/ \E r \in Runs : \/ PrepareFails(r) \/ SubmitUpload(r) \/ Compressed(r)
                       \/ Accepted(r) \/ Refused(r) \/ RequestFails(r)
    \/ HoldFires \/ CooldownTick
    \/ FeaturesKnown \/ CapabilitiesKnown \/ CapabilitiesFail
    \/ GoOffline \/ GoOnline \/ Reflash

Device ==
    \/ AnswerStatus \/ (\E r \in Runs : Reserve(r) \/ Refuse(r)) \/ OtherClientReserves
    \/ QueueDraw \/ ReservationFails
    \/ StartDraw \/ RejectStored \/ FinishDraw \/ ShutdownFails \/ MarkerCleared \/ MarkerStays
    \/ CloseAdmission \/ DrainEnds \/ Reboot

Next == Client \/ Device

Safety == Init /\ [][Next]_vars

(* Fairness: timers fire; a request is answered or times out; the device     *)
(* finishes what it started, a drain included unless the panel is            *)
(* unavailable; the connection comes back; and of the status requests sent   *)
(* again and again one gets through.                                         *)
Fairness ==
    /\ SF_vars(DeliverStatus) /\ SF_vars(AnswerStatus)
    /\ WF_vars(AskStatus(PollTimer)) /\ WF_vars(HoldFires)
    /\ WF_vars(\E r \in Runs : \/ SubmitUpload(r) \/ Compressed(r)
                               \/ Reserve(r) \/ Refuse(r) \/ Accepted(r) \/ Refused(r))
    /\ WF_vars(QueueDraw \/ ReservationFails)
    /\ WF_vars(StartDraw \/ FinishDraw \/ MarkerCleared)
    /\ WF_vars(dev.st # "unavailable" /\ DrainEnds)
    /\ WF_vars(GoOnline \/ FeaturesKnown)

Spec == Safety /\ Fairness

-----------------------------------------------------------------------------
TypeOK ==
    /\ c \in [active : BOOLEAN, accepted : BOOLEAN, kind : Kinds \cup {"none", "observed"},
              stage : DOMAIN PhaseStart \cup {"idle"}, pct : 0..100, run : 0..MaxRuns,
              cur : 0..MaxRuns, poll : BOOLEAN, blocking : BOOLEAN, holds : 0..MaxHolds,
              waiters : SUBSET Runs,
              mode : {"standalone", "epaper"}, can : BOOLEAN, cooling : BOOLEAN]
    /\ built \in {"yes", "no"} /\ live \in {"online", "offline"} /\ feat \in {"unknown", "yes", "no"}
    /\ capReq \in {"none", "asked", "status"}
    /\ statReq \in Status \cup {NoStatus, Asked} /\ begins \subseteq Kinds
    /\ reqs \in [Runs -> {"none", "preparing", "compressing", "sent", "accepted", "refused",
                          "orphan", "closed"}]
    /\ dev \in [st : States, last : Results, marker : BOOLEAN, open : BOOLEAN, held : BOOLEAN,
                owner : 0..MaxRuns]
    /\ budget \in 0..MaxEvents
    /\ served \in [Runs -> {"none", "accepted", "ok", "failed"}]

(* A run that the client counts as accepted, or whose caller waits for its  *)
(* end, is one the device has accepted: device-epaper.js compares the run   *)
(* of every answer with the running operation before it adopts it.          *)
AcceptedIsOwn ==
    /\ c.active /\ c.accepted /\ c.kind # "observed" => served[c.run] # "none"
    /\ \A r \in c.waiters : served[r] # "none"

(* An accepted operation is being polled, for nothing else would ever see   *)
(* its end: the status timer does not run while an operation is active.     *)
AcceptedIsPolled == c.active /\ c.accepted => c.poll

(* The state is well formed, and both bonds between the run on the screen    *)
(* and the run on the device hold.                                           *)
PanelInv == TypeOK /\ AcceptedIsOwn /\ AcceptedIsPolled

(* The percentage a run shows never goes back, whatever order of phases the *)
(* device reports (another client's draw can follow unseen).                *)
ProgressNeverFalls == [][c.active /\ c'.active /\ c'.run = c.run => c'.pct >= c.pct]_vars

(* An accepted operation of whose end the device knows nothing: it was reset, *)
(* or what the page observes was a reservation that came to nothing; and no   *)
(* draw has ended since.                                                     *)
NoResult == c.active /\ c.accepted /\ dev.st = "idle" /\ dev.last = "none"

(* The page is unlocked again: no operation stays active for ever, through   *)
(* lost answers, refusals, a lost connection, a panel that fails, closed      *)
(* admission and resets -- but for one the device settles in an idle state    *)
(* without any result, which leaves applyStatus nothing to end it by.        *)
OperationEnds == []<>~c.active \/ <>[]NoResult

-----------------------------------------------------------------------------
(* Properties the pages rely on and the code does not have: what the caller *)
(* is told to be drawn was drawn by the device, and every operation ends.   *)
SuccessIsReal ==
    [][c'.stage = "success" /\ c'.waiters = {} => \A r \in c.waiters : served[r] = "ok"]_vars

OperationSettles == []<>~c.active
=============================================================================
