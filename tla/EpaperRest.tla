------------------------------ MODULE EpaperRest ------------------------------
(***************************************************************************)
(* The rest of the panel across draws, resets and sleep.  loop() reads the *)
(* time once per pass (main.cpp:949) while the worker runs on, so a        *)
(* cooldown may begin ahead of the time the loop polls with: poll() then   *)
(* takes it for elapsed and the marker is cleared early.  What that costs  *)
(* the panel shows only after a reset, which finds no marker.  The history *)
(* variable rest follows the case; no step of the service depends on it.   *)
(***************************************************************************)
EXTENDS EpaperService

VARIABLE
    rest        \* "kept":  the rest that is owed, if any, is still accounted for,
                \* "hasty": this boot's cooldown began ahead of the loop's time,
                \* "lost":  it did, and a reset found its marker already cleared

restVars == <<vars, rest>>

\* The worker begins a cooldown at a later millisecond than the one the loop
\* polls with in its present pass.
BeginsAhead ==
    clear.cool # "cooling" /\ clear'.cool = "cooling" /\ clear'.seen = "elapsed"

PoweredOn == panel.power = "off" /\ panel'.power = "on"

NextRest ==
    IF panel'.debt = 0 \/ PoweredOn THEN "kept"
    ELSE IF rest = "hasty" /\ ~Running' THEN (IF flash'.marker = "none" THEN "lost" ELSE "kept")
    ELSE IF BeginsAhead THEN "hasty" ELSE rest

RestInit == Init /\ rest = "kept"
RestNext == Next /\ rest' = NextRest
RestSpec == RestInit /\ [][RestNext]_restVars

(* Admission is only for a panel that has no marker and owes no rest: across *)
(* draws, failed clears, restarts, sleep and lost power, with one exception. *)
(* A cooldown that began ahead of the time the loop polls with loses its     *)
(* marker early; within that boot admission waits all the same, and only a   *)
(* reset or deep sleep before the rest is over lets the next boot admit.     *)
IdleMeansRested ==
    svc.state \in {"idle", "uploading", "queued"} =>
        flash.marker = "none" /\ (panel.debt = 0 \/ rest = "lost")

Protection == INSTANCE PanelProtection
                WITH power <- panel.power, debt <- panel.debt, marker <- flash.marker

(* The service implements the panel's protection protocol, with a loop that  *)
(* lags behind the worker as with one that does not.                         *)
ProtectionSpec == Protection!Spec

=============================================================================
