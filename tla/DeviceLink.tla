------------------------------ MODULE DeviceLink ------------------------------
(***************************************************************************)
(* What the product web UI knows of the device: the connection monitor,    *)
(* the feature list (device-features.js) and the sleep service             *)
(* (device-sleep.js), which listen to one another in the order main.js     *)
(* starts them.  Every request is answered, refused or lost on its own, so  *)
(* answers arrive in any order, also after the epoch they were asked in.   *)
(*                                                                         *)
(* Client record c: the monitor's fields, and                              *)
(*   hidden   document.hidden          authed    auth.canManage()          *)
(*   feats    values and their age     disc      a discover() awaits feats *)
(*   known, supported, status, keepBusy, ticking, clockDue   the service    *)
(*   net      requests out; "own" ones belong to the current epoch          *)
(* An epoch (generation, and session for "time") is not a number here: a   *)
(* new one disowns the requests of the old one.                            *)
(***************************************************************************)
EXTENDS LiveMonitor

CONSTANT MaxEvents   \* outages, answers lost while the device is there, tabs hidden,
                     \* logins and logouts, user commands: all of them together

ASSUME LinkBounds == MaxEvents \in Nat

VARIABLES c,       \* the client, above
          dev,     \* the device: reachable, has the sleep feature, has its clock
          budget   \* events left

vars == <<c, dev, budget>>

Requests == {"features", "sleep", "keep", "put", "time"}
\* Requests whose answer carries nothing of the device's: answered and delivered in
\* one step.
AtOnce   == {"keep", "time"}
\* val: the sleep feature is built (features), the clock is set (sleep, put).
\* fresh: not answered before an outage the client has noticed since.
Msg     == [kind : Requests, own : BOOLEAN, st : {"sent", "back"}, val : BOOLEAN, fresh : BOOLEAN]
Unknown == [known |-> FALSE, sleep |-> FALSE, fresh |-> TRUE]
Nothing == [has |-> FALSE, fresh |-> TRUE, saved |-> FALSE]

-----------------------------------------------------------------------------
\* The element of a set of one.  A chain of updates is a chain of such sets: the tools
\* evaluate an operator's argument anew at every use, an element once.
The(S) == CHOOSE x \in S : TRUE

Online(k)    == k.state = "online" /\ ~k.hidden
Own(k, kind) == \E m \in k.net : m.kind = kind /\ m.own
Ask(k, kind) == [k EXCEPT !.net = @ \cup
                    {[kind |-> kind, own |-> TRUE, st |-> "sent", val |-> FALSE, fresh |-> TRUE]}]
Done(k, m)   == [k EXCEPT !.net = @ \ {m}]
Disown(k, kinds) ==
    [k EXCEPT !.net = {[m EXCEPT !.own = @ /\ m.kind \notin kinds] : m \in k.net}]

RefreshFeatures(k) == IF Own(k, "features") THEN k ELSE Ask(k, "features")

RefreshSleep(k) == IF k.known /\ k.supported /\ Online(k) /\ ~Own(k, "sleep")
                   THEN Ask(k, "sleep") ELSE k

NewEpoch(k) == [Disown(k, {"sleep", "keep"}) EXCEPT !.disc = FALSE]

Discover(k) == IF Online(k) THEN [RefreshFeatures(k) EXCEPT !.disc = TRUE] ELSE k

Learnt(k) == [k EXCEPT !.known = k.feats.known, !.supported = k.feats.sleep]

\* discover() continues when the feature request it shared has ended.
Discovered(k) ==
    LET n == [Learnt(k) EXCEPT !.disc = FALSE, !.status = Nothing]
    IN  IF k.disc THEN The({RefreshSleep(x) : x \in {n}}) ELSE k

\* The sleep service hears of a login, a logout or an expired session.
AuthNotified(k) == The({Discover(x) : x \in {NewEpoch(k)}})

\* New features: device-auth hears first and notifies, then the sleep service.
DropUnsupported(k)  == IF k.supported THEN k ELSE [k EXCEPT !.status = Nothing]
FeaturesNotified(k) ==
    The({RefreshSleep(x) : x \in {DropUnsupported(l) : l \in {Learnt(a) : a \in {AuthNotified(k)}}}})

\* What the device gave before an outage is old from now on.
Outage(k) == [k EXCEPT !.feats.fresh = FALSE, !.status.fresh = FALSE,
                       !.net = {[m EXCEPT !.fresh = m.st = "sent"] : m \in k.net}]

ForgetFeatures(k) ==
    LET gone == [Disown(Outage(k), {"features"}) EXCEPT !.feats = Unknown]
    IN  The({FeaturesNotified(x) : x \in {gone}})

\* The monitor's listeners, features before sleep.
FeaturesHear(k) == CASE k.state = "online"  -> RefreshFeatures(k)
                     [] k.state = "offline" -> ForgetFeatures(k)
                     [] OTHER               -> k
SleepHears(k)  == IF Online(k) THEN Discover([k EXCEPT !.ticking = TRUE])
                  ELSE [k EXCEPT !.ticking = FALSE, !.status = Nothing]
LiveChanged(k) == The({SleepHears(x) : x \in {NewEpoch(f) : f \in {FeaturesHear(k)}}})

Judged(was, k) == IF was = k.state THEN k ELSE The({LiveChanged(x) : x \in {k}})

Succeeded(k) == Judged(k.state, NoteSuccess(k))

\* A status says the clock is not set: send the browser's, once in ten minutes.
MaybeSyncClock(k, synced) ==
    IF k.authed /\ Online(k) /\ k.clockDue /\ ~synced
    THEN [Ask(k, "time") EXCEPT !.clockDue = FALSE] ELSE k

Accept(k, m, saved) ==
    LET next == [has |-> TRUE, fresh |-> m.fresh, saved |-> saved]
    IN  MaybeSyncClock([k EXCEPT !.status = next], m.val)

-----------------------------------------------------------------------------
(* What an answer does.  api.request reports the success before the caller's *)
(* continuation runs, so a reply that ends an outage is of an old epoch by    *)
(* then if its epoch ends with the outage.                                    *)

\* Any feature list is taken.
FeaturesAnswerAnyEpoch(k, m) ==
    LET next == [known |-> TRUE, sleep |-> m.val, fresh |-> m.fresh]
        set  == [k EXCEPT !.feats = next]
        same == k.feats.known /\ k.feats.sleep = m.val
        told == IF same THEN set ELSE FeaturesNotified(set)
    IN  The({Discovered(x) : x \in {Done(told, m)}})

FeaturesAnswer(k, m) == IF m.own THEN FeaturesAnswerAnyEpoch(k, m) ELSE Done(k, m)

SleepAnswer(k, m) == IF m.own THEN Accept(Done(k, m), m, FALSE) ELSE Done(k, m)

KeepAnswer(k, m) == [Done(k, m) EXCEPT !.keepBusy = FALSE]

\* update() takes its result whatever has happened since.
PutAnswer(k, m) == Accept([Done(k, m) EXCEPT !.clockDue = FALSE], m, TRUE)

TimeAnswer(k, m) == IF m.own THEN RefreshSleep(Done(k, m)) ELSE Done(k, m)

Answered(k, m) == CASE m.kind = "features" -> FeaturesAnswer(k, m)
                    [] m.kind = "sleep"    -> SleepAnswer(k, m)
                    [] m.kind = "keep"     -> KeepAnswer(k, m)
                    [] m.kind = "put"      -> PutAnswer(k, m)
                    [] m.kind = "time"     -> TimeAnswer(k, m)

\* A failed feature request leaves the values as they are and its waiters go on.
Failed(k, m) ==
    LET d == Done(k, m) IN
    CASE m.kind = "features" /\ m.own -> Discovered(d)
      [] m.kind = "keep"              -> [d EXCEPT !.keepBusy = FALSE]
      [] OTHER                        -> d

Event == budget > 0 /\ budget' = budget - 1

\* m as the epochs of k leave it.
Aged(m, k) == IF m \in k.net THEN m ELSE [m EXCEPT !.own = FALSE]

Deliver(kind, own) == \E m \in c.net :
    /\ m.kind = kind /\ m.own = own
    /\ \/ m.st = "back" /\ UNCHANGED dev
       \/ /\ kind \in AtOnce /\ dev.up /\ (kind = "keep" => dev.sleep)
          /\ dev' = [dev EXCEPT !.synced = @ \/ kind = "time"]
    /\ \E k \in {Succeeded(c)} : c' = Answered(k, Aged(m, k))
    /\ UNCHANGED budget

\* No answer: the device is away, or the answer is lost.
Fail(kind, own) == \E m \in c.net :
    /\ m.kind = kind /\ m.own = own
    /\ \/ ~dev.up /\ UNCHANGED budget
       \/ dev.up /\ Event
    /\ c' = Failed(NoteRequestFailure(c), m)
    /\ UNCHANGED dev

\* A check lasts 2.5 s at most: answered and delivered in one step.
DeliverAlive == /\ c.asking /\ dev.up
                /\ c' = Succeeded([c EXCEPT !.asking = FALSE])
                /\ UNCHANGED <<dev, budget>>

FailAlive == /\ c.asking
             /\ \/ ~dev.up /\ UNCHANGED budget
                \/ dev.up /\ Event
             /\ c' = Judged(c.state, NoteCheckFailure([c EXCEPT !.asking = FALSE]))
             /\ UNCHANGED dev

-----------------------------------------------------------------------------
(* Timers and the user.                                                     *)

LivePoll     == /\ ~c.hidden /\ ~c.asking /\ c' = Check(c) /\ UNCHANGED <<dev, budget>>
FeaturesPoll == /\ Online(c) /\ ~Own(c, "features")
                /\ c' = RefreshFeatures(c) /\ UNCHANGED <<dev, budget>>
SleepPoll    == /\ c.ticking /\ RefreshSleep(c) # c
                /\ c' = RefreshSleep(c) /\ UNCHANGED <<dev, budget>>
\* CLOCK_SYNC_MS have passed, far longer than a request lasts.
ClockDue     == /\ ~c.clockDue /\ ~(\E m \in c.net : m.kind \in {"time", "put"})
                /\ c' = [c EXCEPT !.clockDue = TRUE] /\ UNCHANGED <<dev, budget>>

Switch == Event /\ UNCHANGED dev

HideTab == /\ Switch /\ ~c.hidden
           /\ c' = [NewEpoch(c) EXCEPT !.hidden = TRUE, !.ticking = FALSE]

\* Shown again, but the 15 s timer stays stopped and nothing is looked up.
ShownAgainIdle(k) == [NewEpoch(Check(k)) EXCEPT !.hidden = FALSE]

\* Shown: the monitor checks at once, the service looks again if it may.
ShownAgain(k) == LET v == [NewEpoch(Check(k)) EXCEPT !.hidden = FALSE]
                 IN  IF v.state = "online" THEN Discover([v EXCEPT !.ticking = TRUE]) ELSE v
ShowTab == /\ c.hidden /\ c' = ShownAgain(c) /\ UNCHANGED <<dev, budget>>

ChangeSession == /\ Switch
                 /\ c' = AuthNotified(Disown([c EXCEPT !.authed = ~@], {"time"}))

KeepAwake == /\ Switch /\ ~c.keepBusy /\ c.supported /\ Online(c)
             /\ c' = [Ask(c, "keep") EXCEPT !.keepBusy = TRUE]

SaveSleep == /\ Switch /\ c.authed /\ c.supported /\ Online(c)
             /\ ~(\E m \in c.net : m.kind = "put")
             /\ c' = Ask(c, "put")

-----------------------------------------------------------------------------
(* The device (external to these files).                                    *)

Answer(kind, own) == \E m \in c.net :
    /\ m.kind = kind /\ m.own = own /\ m.st = "sent" /\ dev.up
    /\ kind \notin AtOnce /\ (kind # "features" => dev.sleep)
    /\ LET val == IF kind = "features" THEN dev.sleep ELSE dev.synced
       IN  c' = [c EXCEPT !.net = (@ \ {m}) \cup {[m EXCEPT !.st = "back", !.val = val]}]
    /\ UNCHANGED <<dev, budget>>

\* Firmware without the feature refuses its requests; no transport failure.
Refuse(kind, own) == \E m \in c.net :
    /\ m.kind = kind /\ m.own = own /\ m.st = "sent" /\ dev.up
    /\ kind \in {"sleep", "keep", "put"} /\ ~dev.sleep
    /\ c' = Failed(c, m) /\ UNCHANGED <<dev, budget>>

GoDown == /\ dev.up /\ Event
          /\ dev' = [dev EXCEPT !.up = FALSE] /\ UNCHANGED c

\* Back, the same or restarted, perhaps with other firmware.
ComeUp == /\ ~dev.up
          /\ \E s \in BOOLEAN, t \in {dev.synced, FALSE} :
             dev' = [up |-> TRUE, sleep |-> s, synced |-> t]
          /\ UNCHANGED <<c, budget>>

-----------------------------------------------------------------------------
Init == /\ c = [state |-> LiveStart.state, ever |-> LiveStart.ever, fails |-> LiveStart.fails,
                asking |-> LiveStart.asking, hushed |-> LiveStart.hushed,
                hidden |-> FALSE, authed |-> TRUE, feats |-> Unknown, disc |-> FALSE,
                known |-> FALSE, supported |-> FALSE, status |-> Nothing, keepBusy |-> FALSE,
                ticking |-> FALSE, clockDue |-> TRUE,
                net |-> {[kind |-> "features", own |-> TRUE, st |-> "sent", val |-> FALSE,
                          fresh |-> TRUE]}]
        /\ \E u, s \in BOOLEAN : dev = [up |-> u, sleep |-> s, synced |-> FALSE]
        /\ budget = MaxEvents

Client == \/ DeliverAlive \/ FailAlive \/ LivePoll \/ FeaturesPoll \/ SleepPoll \/ ClockDue
          \/ \E kind \in Requests, own \in BOOLEAN : Deliver(kind, own) \/ Fail(kind, own)
User   == HideTab \/ ShowTab \/ ChangeSession \/ KeepAwake \/ SaveSleep
Device == \/ GoDown \/ ComeUp
          \/ \E kind \in Requests, own \in BOOLEAN : Answer(kind, own) \/ Refuse(kind, own)

Next == Client \/ User \/ Device

\* Timers fire and every request ends (the client aborts it after its timeout);
\* nothing makes the device come back, the user act or an answer get lost.
Fairness ==
    /\ WF_vars(DeliverAlive) /\ WF_vars(FailAlive /\ ~dev.up)
    /\ WF_vars(LivePoll) /\ WF_vars(FeaturesPoll) /\ WF_vars(SleepPoll) /\ WF_vars(ClockDue)
    /\ \A kind \in Requests, own \in BOOLEAN :
         /\ WF_vars(Answer(kind, own) \/ Refuse(kind, own))
         /\ WF_vars(Deliver(kind, own))
         /\ WF_vars(Fail(kind, own) /\ ~dev.up)

Spec == Init /\ [][Next]_vars /\ Fairness

-----------------------------------------------------------------------------
\* Every variable keeps its type.
TypeOK ==
    /\ LiveTyped(c) /\ c.net \subseteq Msg
    /\ c.feats \in [known : BOOLEAN, sleep : BOOLEAN, fresh : BOOLEAN]
    /\ c.status \in [has : BOOLEAN, fresh : BOOLEAN, saved : BOOLEAN]
    /\ {c.hidden, c.authed, c.disc, c.known, c.supported, c.keepBusy, c.ticking, c.clockDue}
          \subseteq BOOLEAN
    /\ dev \in [up : BOOLEAN, sleep : BOOLEAN, synced : BOOLEAN]
    /\ budget \in 0..MaxEvents

\* No page is shown a feature list or a sleep status that the device gave before
\* an outage the browser has noticed, however late the answer came.  The result of
\* the user's own save is the exception: update() does not look at the epoch.
KnowledgeIsFresh == /\ c.feats.known => c.feats.fresh
                    /\ c.status.has /\ ~c.status.saved => c.status.fresh

\* The link's state is well formed and what the pages are shown is never older than an
\* outage, over every order of answers, failures, sessions and tab changes.
LinkInv == TypeOK /\ KnowledgeIsFresh

\* While the device stays reachable and the tab visible, the pages end up told so,
\* with the features the device really has and, if it sleeps, with its sleep status.
LinkSettles ==
    <>[](dev.up /\ ~c.hidden) =>
        <>[](/\ c.state = "online" /\ c.known /\ c.supported = dev.sleep
             /\ dev.sleep => c.status.has)
==============================================================================
