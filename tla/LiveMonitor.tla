----------------------------- MODULE LiveMonitor -----------------------------
(***************************************************************************)
(* The browser's connection monitor (device-live.js), the only judge of    *)
(* whether the device is reachable, as functions of a record with the      *)
(* fields                                                                  *)
(*   state   what every page is told        ever   everOnline              *)
(*   fails   failures, capped               hushed suppressReasons is set   *)
(*   asking  checking: a check is out                                       *)
(* The modules that EXTEND this one keep these fields in their own client  *)
(* record, next to what their component keeps.                             *)
(***************************************************************************)
EXTENDS Naturals

OFFLINE_AFTER_FAILURES == 2

LiveStates == {"checking", "standalone", "online", "offline"}

\* A first check is out as soon as the monitor starts.
LiveStart == [state |-> "checking", ever |-> FALSE, fails |-> 0, asking |-> TRUE, hushed |-> FALSE]

LiveTyped(l) == /\ l.state \in LiveStates /\ l.fails \in 0..OFFLINE_AFTER_FAILURES
                /\ {l.asking, l.ever, l.hushed} \subseteq BOOLEAN

NoteSuccess(l) == [l EXCEPT !.fails = 0, !.ever = TRUE, !.state = "online"]

Judgement(l) == IF ~l.ever THEN "standalone"
                ELSE IF l.fails = OFFLINE_AFTER_FAILURES THEN "offline" ELSE l.state

NoteCheckFailure(l) ==
    LET f == [l EXCEPT !.fails = IF @ < OFFLINE_AFTER_FAILURES THEN @ + 1 ELSE @]
    IN  [f EXCEPT !.state = IF l.hushed THEN @ ELSE Judgement(f)]

Check(l) == [l EXCEPT !.asking = TRUE]

\* A transport failure of any other request brings the next check forward.
NoteRequestFailure(l) == IF l.state \in {"offline", "standalone"} THEN l ELSE Check(l)

Suppress(l) == [l EXCEPT !.hushed = TRUE]

Release(l) == Check([l EXCEPT !.hushed = FALSE, !.fails = 0])

\* The gate of every device page (device-gate.js): locked without a device, and
\* told to load again when the device comes back.
Locked(state) == state \in {"offline", "standalone"}
Recovered(was, state) == Locked(was) /\ state = "online"
==============================================================================
