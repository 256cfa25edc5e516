--------------------------- MODULE EpaperInvariant ---------------------------
(***************************************************************************)
(* The inductive invariant of EpaperService: why its safety properties     *)
(* hold.  Each part says what one piece of state implies about the others  *)
(* at every step of the worker, the main loop and the clients.             *)
(***************************************************************************)
EXTENDS EpaperRest

UploadPcs   == {"upReserved", "upload", "upCommitted"}
AcceptedPcs == {"validate", "validating", "open", "draw"}   \* state still "queued"
FramePcs    == {"validating", "draw", "mark", "prewake", "init", "transfer"}
SlowPcs     == {"init", "transfer", "refresh", "shutdown", "confirm", "finish"}

\* RAM holds its initial values until boot is done, and during deep sleep.
DeviceKnown ==
    /\ ~Running =>
          /\ hw = FreshHw /\ svc = FreshSvc /\ drain = FreshDrain /\ clear = FreshClear
          /\ image = FreshImage /\ gate = "free" /\ queue = "empty"
          /\ worker = "none" /\ client = Nobody /\ sleep = "none"
    /\ Running => device.reset = "other"
    /\ device.sys = "boot" /\ Recovers => panel.power = "off" /\ panel.debt = 0
    /\ device.sys = "asleep" \/ device.reset = "deep_sleep" =>
          panel.power = "off" /\ panel.debt + device.slept <= Cool

\* Each owner of accepted work holds its own busy state, alone ...
OwnerKnown ==
    /\ \A c \in Clients : client[c] \in OwnerPcs =>
          /\ svc.state = IF client[c] \in UploadPcs THEN "uploading" ELSE "queued"
          /\ queue = "empty" /\ worker \notin DrawPcs
          /\ \A d \in Clients : client[d] \in OwnerPcs => c = d
    /\ queue # "empty" => svc.state = "queued" /\ worker \notin DrawPcs
    /\ worker \in AcceptedPcs => svc.state = "queued"
    /\ worker \in DrawPcs \ AcceptedPcs => svc.state = "drawing"

\* ... and a busy state has an owner.
BusyKnown ==
    /\ svc.state = "drawing" => worker \in DrawPcs
    /\ svc.state = "uploading" => \E c \in Clients : client[c] \in UploadPcs
    /\ svc.state = "queued" =>
          \/ queue # "empty" \/ worker \in AcceptedPcs
          \/ \E c \in Clients : client[c] \in OwnerPcs \ UploadPcs

\* Holders of the storage gate.
GateKnown ==
    /\ \A c \in Clients :
          gate = c <=> client[c] \in {"upload", "drawValidate", "metaValidate", "download"}
    /\ gate = "worker" => worker \in FramePcs
    /\ worker = "validating" => gate = "worker"
    /\ gate = "restart" => drain.restart = "ready"
    /\ gate = "sleep" => sleep = "reserved"

\* The two drains share one flag and exclude each other.
DrainKnown ==
    /\ drain.restart \in {"draining", "ready"} \/ drain.sleeping => drain.closed /\ hw.coord
    /\ drain.closed => drain.sleeping \/ drain.restart # "idle"
    /\ drain.sleeping <=> sleep \in {"draining", "reserved"}
    /\ drain.sleeping => drain.restart = "idle"
    /\ drain.restart = "ready" <=> worker = "restart"
    /\ svc.ready => hw.coord

\* A running cooldown bounds the rest that is owed.
CooldownKnown ==
    /\ clear.running <=> worker = "clear"
    /\ clear.pending => ~clear.running
    /\ clear.pending \/ clear.running => clear.cool = "cooling" /\ hw.cpu = 160
    /\ svc.state = "cooldown" => clear.cool = "cooling"
    /\ clear.cool = "cooling" =>
          /\ svc.state \in {"cooldown", "unavailable"}
          /\ PanelSafe /\ panel.power = "off" /\ flash.marker # "active"
          /\ panel.debt = 0 \/ panel.debt + clear.age <= Cool

\* A panel with power has an active marker, and RAM knows of it or recovery is
\* required.
PanelKnown ==
    /\ panel.power = "on" => flash.marker = "active"
    /\ hw.coord /\ panel.power = "on" => hw.stage = "active"
    /\ hw.coord /\ flash.marker = "active" => hw.stage = "active" \/ svc.recovery
    /\ svc.state \in {"idle", "uploading", "queued"} \/ worker = "mark" =>
          flash.marker = "none" /\ hw.stage = "none" /\ ~hw.mayBeActive /\ ~hw.unavailable
    /\ svc.recovery => svc.state = "unavailable"
    /\ hw.cpu = 80 => worker \in SlowPcs \/ (svc.recovery /\ ~svc.clearFailed)

\* The same, at each step of a draw that has its marker.
DrawKnown ==
    /\ worker \in {"prewake", "init", "transfer", "refresh", "shutdown", "confirm"} =>
          flash.marker = "active" /\ hw.stage = "active" /\ ~hw.unavailable
    /\ worker \in {"prewake", "init"} => ~hw.mayBeActive
    /\ worker \in {"transfer", "refresh"} => hw.mayBeActive
    /\ worker \in {"prewake", "init", "transfer", "refresh", "shutdown"} =>
          panel.power = IF hw.mayBeActive THEN "on" ELSE "off"
    /\ worker = "confirm" => ~hw.mayBeActive /\ panel.power = "off"
    /\ worker = "finish" /\ ~hw.unavailable =>
          /\ ~hw.mayBeActive /\ panel.power = "off"
          /\ hw.stage # "active" /\ flash.marker = hw.stage

\* An approval stays true until it is used.
ApprovalKnown ==
    /\ drain.restart = "ready" =>
          /\ PanelSafe /\ panel.power = "off" /\ flash.marker # "active" /\ hw.cpu = 160
          /\ gate = "restart" /\ svc.state \notin BusyStates
    /\ drain.sleepReady =>
          drain.sleeping /\ SleepSafe /\ ~Busy /\ panel.power = "off"
    /\ sleep = "reserved" => drain.sleepReady /\ gate = "sleep"

Inductive ==
    /\ TypeOK /\ DeviceKnown /\ OwnerKnown /\ BusyKnown /\ GateKnown
    /\ DrainKnown /\ CooldownKnown /\ PanelKnown /\ DrawKnown /\ ApprovalKnown

\* The metadata is published after the storage is released, by the client that
\* committed the image; whoever validates publishes what it finds.  No other part
\* needs this, and only OwnerKnown is needed for it.
ImageKnown ==
    /\ \A c \in Clients : client[c] = "upCommitted" => flash.file = "good"
    /\ svc.ready => \/ image.stored = flash.file
                    \/ \E c \in Clients : client[c] = "upCommitted"

\* A draw keeps the id it was accepted with.
DrawIdKnown == queue # "empty" \/ worker \in DrawPcs => svc.draw = svc.op

\* The loop takes the cooldown for elapsed, or the marker clear that follows is
\* scheduled or running.
Clearing ==
    clear.pending \/ clear.running \/ (clear.cool = "cooling" /\ clear.seen = "elapsed")

\* What rest says of the panel, the marker and the cooldown, on top of the above:
\* a clear is begun only of a rested panel or in a hasty cooldown, and no marker
\* means a rested panel unless the cooldown was hasty.
RestKnown ==
    /\ rest \in {"kept", "hasty", "lost"}
    /\ rest # "kept" => panel.power = "off" /\ panel.debt > 0
    /\ rest = "hasty" => Running /\ clear.cool = "cooling"
    /\ Clearing => panel.debt = 0 \/ rest = "hasty"
    /\ clear.running /\ clear.rested => panel.debt = 0
    /\ flash.marker = "none" => panel.debt = 0 \/ rest # "kept"
    /\ worker \in {"prewake", "init", "shutdown"} /\ ~hw.mayBeActive =>
          panel.debt = 0 \/ rest = "lost"
=============================================================================
