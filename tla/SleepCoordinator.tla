-------------------------- MODULE SleepCoordinator --------------------------
(***************************************************************************)
(* The sleep coordinator: the main loop runs the wake agenda, prepares the *)
(* deep sleep and commits it; HTTP requests run beside it, hold leases,    *)
(* keep the device awake, set the clock and replace the schedule.  The     *)
(* device may be reset between any two steps; what survives is the record  *)
(* of SleepStore and, over a deep sleep, the record in RTC memory.         *)
(*                                                                         *)
(* Clocks are abstracted to what the code compares: how far a planned due  *)
(* is (Phases), and whether the running deadline has passed.  An armed     *)
(* idle timer may be found expired.  A clock that is set moves every phase *)
(* anywhere.                                                               *)
(*                                                                         *)
(* A definition marked "variant" is a wrong version of the one after it;   *)
(* nothing uses it, except to see which property notices (README).         *)
(***************************************************************************)
EXTENDS Integers

CONSTANTS
    MaxRequests,    \* bound: HTTP requests holding a lease at once
    MaxGen,         \* bound: schedule generations
    MaxSlot,        \* bound: slots handled within a generation
    FirstOn,        \* bound: the first boot finds a schedule that is on, or off
    Faults          \* the operations that may fail

AllFaults == {"arm", "hold", "led", "wifi", "pins", "timer", "mount", "services", "save", "clock"}

ASSUME SleepAssumption ==
    /\ MaxRequests \in Nat \ {0} /\ MaxGen \in Nat \ {0} /\ MaxSlot \in Nat
    /\ FirstOn \subseteq BOOLEAN
    /\ Faults \subseteq AllFaults

VARIABLES
    disk,       \* SleepStore: the durable record, and whether the store works
    record,     \* record_, the coordinator's copy
    time,       \* TimeSource: synced, and its revision not yet observed
    due,        \* due_ with its slot, and relativeDueClock_
    mode,       \* WakeMode; "checkpoint" is a wake cycle with checkpointWake_
    agenda,     \* agenda_, its generation, its result
    late,       \* the deadline of the running agenda or prepare has passed
    idle,       \* IdleTimer is armed
    request,    \* a sleep-now request is pending
    gate,       \* what the critical sections of mux_ protect
    prepare,    \* prepare_
    panel,      \* EpaperService: working on an operation, asked to sleep
    hw,         \* timer, pins, storage, services; what could not be restored
    rtc,        \* SleepRtcRecord
    device,     \* running or in deep sleep
    pc,         \* where the main loop is in poll()
    cand,       \* the record finishAgenda is about to save
    put,        \* the PUT request that holds the time-update lease
    lock,       \* writeMutex_
    acked       \* the last schedule a PUT has acknowledged

vars == <<disk, record, time, due, mode, agenda, late, idle, request, gate, prepare,
          panel, hw, rtc, device, pc, cand, put, lock, acked>>

\* More than 60 s ahead; at most 60 s ahead; reached.
Phases == {"early", "near", "due"}
Steps  == {"none", "sta", "ntp", "draw", "wait"}
Slots  == 0..MaxSlot + 1

Record   == [gen: 0..MaxGen, on: BOOLEAN, slot: -1..MaxSlot]
DueType  == [slot: Slots \cup {-1}, at: Phases \cup {"none"}, rel: Phases \cup {"none"}]
PutKinds == {"time", "on", "off"}
NoCand   == [rec |-> [gen |-> 0, on |-> FALSE, slot |-> -1], synced |-> FALSE]
NoPut    == [step |-> "none", kind |-> "time", was |-> FALSE]
NoPlan   == [intent |-> FALSE, gen |-> 0, slot |-> -1, synced |-> FALSE, capped |-> FALSE]
NoDue    == [slot |-> -1, at |-> "none", rel |-> "none"]
Whole    == [timer |-> FALSE, pins |-> FALSE, held |-> FALSE, reserved |-> FALSE,
             up |-> TRUE, broken |-> FALSE]
OpenGate == [closed |-> FALSE, keep |-> TRUE, changed |-> FALSE, leases |-> 0,
             timing |-> FALSE, pending |-> FALSE]
NoAgenda == [step |-> "none", gen |-> 0, early |-> FALSE]

DiskType   == [rec: Record, ok: BOOLEAN]
TimeType   == [synced: BOOLEAN, moved: BOOLEAN]
AgendaType == [step: Steps, gen: 0..MaxGen, early: BOOLEAN]
GateType   == [closed: BOOLEAN, keep: BOOLEAN, changed: BOOLEAN,
               leases: 0..MaxRequests, timing: BOOLEAN, pending: BOOLEAN]
PanelType  == [busy: BOOLEAN, asked: BOOLEAN]
HwType     == [timer: BOOLEAN, pins: BOOLEAN, held: BOOLEAN, reserved: BOOLEAN,
               up: BOOLEAN, broken: BOOLEAN]
RtcType    == [intent: BOOLEAN, gen: 0..MaxGen, slot: Slots \cup {-1},
               synced: BOOLEAN, capped: BOOLEAN]
Pcs        == {"start", "work", "begin", "draw", "finish", "save", "close", "commit", "teardown"}
CandType   == [rec: Record, synced: BOOLEAN]
PutType    == [step: {"none", "timed", "ready", "locked"}, kind: PutKinds, was: BOOLEAN]
AckedType  == [gen: 0..MaxGen, on: BOOLEAN]

\* Every variable stays in its range, whatever requests, faults and resets
\* interleave; in particular a lease is returned once (endApiRequest).
TypeOK ==
    /\ disk \in DiskType /\ record \in Record /\ acked \in AckedType
    /\ time \in TimeType /\ due \in DueType
    /\ mode \in {"normal", "wake", "checkpoint"}
    /\ agenda \in AgendaType /\ late \in BOOLEAN
    /\ idle \in BOOLEAN /\ request \in BOOLEAN
    /\ gate \in GateType
    /\ prepare \in {"none", "epaper", "storage", "teardown"}
    /\ panel \in PanelType /\ hw \in HwType
    /\ rtc \in RtcType /\ device \in {"on", "asleep"}
    /\ pc \in Pcs /\ cand \in CandType
    /\ put \in PutType /\ lock \in {"free", "loop", "http"}

-----------------------------------------------------------------------------
(* The schedule *)

\* nextSlot: a later slot than the last handled one; "inclusive" allows a
\* slot that is due at this very moment.
NextSlotRepeats(handled, inclusive) ==          \* variant: no look at lastHandledIndex
    [slot: 0..MaxSlot, at: IF inclusive THEN Phases ELSE Phases \ {"due"}]
NextSlot(handled, inclusive) ==
    [slot: (handled + 1)..(IF handled < MaxSlot THEN MaxSlot ELSE MaxSlot + 1),
     at: IF inclusive THEN Phases ELSE Phases \ {"due"}]

\* A relative due is one period ahead.
Ahead == {"early", "near"}

\* The values rebuildDue may give the plan.
RebuiltDue(rec, synced, inclusive) ==
    IF ~rec.on THEN {NoDue}
    ELSE IF synced
         THEN {[slot |-> s.slot, at |-> s.at, rel |-> "none"] : s \in NextSlot(rec.slot, inclusive)}
         ELSE {[slot |-> -1, at |-> "none", rel |-> r] : r \in Ahead}

\* What the clock does to the plan when it is set.
MovedDue == {d \in DueType : /\ d.slot = due.slot
                             /\ (d.at = "none") = (due.at = "none")
                             /\ (d.rel = "none") = (due.rel = "none")}

Wakes == mode # "normal"                         \* WakeMode::WakeCycle
PlannedPhase(d, synced) == IF synced THEN d.at ELSE d.rel

NotedGate(g) == [g EXCEPT !.changed = g.closed, !.pending = TRUE]

-----------------------------------------------------------------------------
(* begin, attach: a boot *)

Boot(wakes) ==
    /\ device' = "on"
    /\ record' = disk.rec
    /\ disk' = [disk EXCEPT !.ok = TRUE]
    /\ mode' = IF ~wakes THEN "normal" ELSE IF rtc.capped THEN "checkpoint" ELSE "wake"
    /\ time' = [synced |-> wakes /\ rtc.synced, moved |-> FALSE]
    /\ due' \in IF ~wakes THEN RebuiltDue(disk.rec, FALSE, FALSE)
                ELSE IF rtc.synced
                THEN {[slot |-> rtc.slot, at |-> p, rel |-> "none"] : p \in Phases}
                ELSE {[slot |-> -1, at |-> "none", rel |-> p] : p \in Phases}
    /\ rtc' = NoPlan
    /\ idle' = (disk.rec.on /\ ~wakes)
    /\ agenda' = NoAgenda /\ late' = FALSE /\ request' = FALSE
    /\ gate' = OpenGate /\ prepare' = "none"
    /\ panel' = [busy |-> FALSE, asked |-> FALSE]
    /\ hw' = Whole
    /\ pc' = "start" /\ cand' = NoCand /\ put' = NoPut /\ lock' = "free"
    /\ UNCHANGED acked

Init ==
    /\ \E on \in FirstOn :
         LET rec == [gen |-> IF on THEN 1 ELSE 0, on |-> on, slot |-> -1]
         IN  /\ disk = [rec |-> rec, ok |-> TRUE]
             /\ record = rec
             /\ due \in RebuiltDue(rec, FALSE, FALSE)
             /\ idle = on
             /\ acked = [gen |-> rec.gen, on |-> on]
    /\ time = [synced |-> FALSE, moved |-> FALSE]
    /\ mode = "normal"
    /\ agenda = NoAgenda /\ late = FALSE /\ request = FALSE
    /\ gate = OpenGate /\ prepare = "none"
    /\ panel = [busy |-> FALSE, asked |-> FALSE]
    /\ hw = Whole /\ rtc = NoPlan /\ device = "on"
    /\ pc = "start" /\ cand = NoCand /\ put = NoPut /\ lock = "free"

\* classifyWake and sleepWakeEvidence; the evidence may be refused for the
\* time that has passed.
WakeCycleBoot == disk.rec.on /\ rtc.intent /\ rtc.gen = disk.rec.gen

WakeByTimer == device = "asleep" /\ \E evidence \in BOOLEAN : Boot(evidence /\ WakeCycleBoot)
Reset       == Boot(FALSE)

-----------------------------------------------------------------------------
(* cancelPrepare: what was reserved for the sleep is given back in order;    *)
(* admission opens only when all of it came back.  h is the hardware as the  *)
(* failing step left it, failed the operations that fail now.                *)

CancelPrepare(h) ==
    \E failed \in SUBSET (Faults \cap {"pins", "timer", "led", "mount", "services"}) :
      LET pinsStuck  == h.held /\ "pins" \in failed
          timerStuck == h.timer /\ "timer" \in failed
          storeStuck == h.reserved /\ "mount" \in failed
          servStuck  == ~storeStuck /\ "services" \in failed
          broken     == pinsStuck \/ timerStuck \/ storeStuck \/ servStuck \/ "led" \in failed
      IN  /\ hw' = [timer |-> timerStuck, held |-> pinsStuck,
                    pins |-> h.pins /\ (h.held => pinsStuck),
                    reserved |-> storeStuck,
                    up |-> IF storeStuck THEN h.up ELSE ~servStuck,
                    broken |-> broken]
          /\ panel' = [panel EXCEPT !.asked = @ /\ storeStuck]
          /\ gate' = [gate EXCEPT !.closed = broken, !.keep = ~broken,
                                  !.changed = @ /\ broken]
          /\ prepare' = "none" /\ request' = FALSE /\ late' = FALSE
          /\ rtc' = NoPlan /\ pc' = "start"

-----------------------------------------------------------------------------
(* poll() of the main loop, one pass from "start" to "start" *)

\* Recovery first; then what happened since the last pass is taken in, unless
\* a time update is running or the schedule is off.
LoopRecover ==
    /\ device = "on" /\ pc = "start" /\ hw.broken
    /\ CancelPrepare(hw)
    /\ UNCHANGED <<disk, record, time, due, mode, agenda, idle, device, cand, put, lock, acked>>

EnabledAssumed == TRUE                          \* variant: the gate does not ask
Enabled        == record.on \/ agenda.step = "wait"

LoopGate ==
    /\ device = "on" /\ pc = "start" /\ ~hw.broken
    /\ \E unplugged \in BOOLEAN :      \* the USB host has just gone
         LET rearm == \/ unplugged /\ record.on /\ ~Wakes
                      \/ gate.pending /\ Wakes
         IN  idle' = (idle \/ rearm)
    /\ gate' = [gate EXCEPT !.pending = FALSE]
    /\ mode' = IF gate.pending THEN "normal" ELSE mode
    /\ agenda' = IF gate.pending /\ agenda.step \in {"sta", "ntp"}
                 THEN [agenda EXCEPT !.step = "draw"] ELSE agenda
    /\ pc' = IF ~gate.timing /\ Enabled THEN "work" ELSE "start"
    /\ UNCHANGED <<disk, record, time, due, late, request, prepare, panel, hw, rtc,
                   device, cand, put, lock, acked>>

\* A new time revision gives an idle normal-mode device a plan it has not.
ObservedDue ==
    IF time.moved /\ agenda.step = "none" /\ ~Wakes
    THEN IF time.synced /\ due.at = "none" THEN RebuiltDue(record, TRUE, FALSE)
         ELSE IF ~time.synced /\ due.rel = "none"
         THEN {[slot |-> -1, at |-> "none", rel |-> r] : r \in Ahead}
         ELSE {due}
    ELSE {due}

\* blockers(): what this module knows of; other owners may block as well.
MayClose(rec, ok, d, synced) ==
    /\ ok /\ rec.on
    /\ PlannedPhase(d, synced) \in {"early", "near"}
    /\ ~panel.busy
    /\ gate.leases = 0 /\ ~gate.timing

\* beginPrepare up to the critical section.
TryPrepare(rec, ok, d, synced) ==
    pc' \in IF MayClose(rec, ok, d, synced) THEN {"start", "close"} ELSE {"start"}

LoopDecide ==
    /\ pc = "work" /\ device = "on" /\ prepare = "none" /\ agenda.step = "none"
    /\ time' = [time EXCEPT !.moved = FALSE]
    /\ due' \in ObservedDue
    /\ LET phase == PlannedPhase(due', time.synced)
           early == Wakes /\ time.synced /\ phase = "early"
           start == phase = "due" \/ (Wakes /\ phase = "near")
       IN  \/ /\ early /\ mode = "checkpoint"
              /\ TryPrepare(record, disk.ok, due', time.synced)
              /\ UNCHANGED agenda
           \/ /\ early /\ mode = "wake"        \* startAgenda, finishAgenda(ResultEarly)
              /\ agenda' = [step |-> "none", gen |-> record.gen, early |-> TRUE]
              /\ pc' = "finish"
           \/ /\ ~early /\ start
              /\ due'.slot <= MaxSlot             \* bound
              /\ pc' = "begin" /\ UNCHANGED agenda
           \/ /\ ~early /\ ~start /\ request      \* the response grace is over
              /\ TryPrepare(record, disk.ok, due', time.synced)
              /\ UNCHANGED agenda
           \/ /\ ~early /\ ~start /\ (Wakes \/ idle)   \* expired, and the retry delay over
              /\ TryPrepare(record, disk.ok, due', time.synced)
              /\ UNCHANGED agenda
           \/ /\ ~early                           \* nothing to do, or not yet
              /\ IF start THEN due'.slot > MaxSlot ELSE ~Wakes
              /\ pc' = "start" /\ UNCHANGED agenda
    /\ UNCHANGED <<disk, record, mode, late, idle, request, gate, prepare, panel, hw, rtc,
                   device, cand, put, lock, acked>>

LoopBegin ==                                    \* startAgenda
    /\ pc = "begin" /\ device = "on"
    /\ \E first \in IF Wakes THEN {"sta", "draw"} ELSE {"draw"} :
         agenda' = [step |-> first, gen |-> record.gen, early |-> FALSE]
    /\ late' = FALSE /\ pc' = "start"
    /\ UNCHANGED <<disk, record, time, due, mode, idle, request, gate, prepare, panel,
                   hw, rtc, device, cand, put, lock, acked>>

-----------------------------------------------------------------------------
(* pollAgenda *)

Finish(early) == /\ agenda' = [agenda EXCEPT !.step = "none", !.early = early]
                 /\ pc' = "finish" /\ late' = FALSE
Proceed(step) == /\ agenda' = [agenda EXCEPT !.step = step]
                 /\ pc' = "start" /\ UNCHANGED late

\* An SNTP sample sets the clock; an early wake goes back to sleep.
Sampled ==
    /\ time' = [synced |-> TRUE, moved |-> TRUE]
    /\ due' \in MovedDue
    /\ IF due'.at = "early" THEN Finish(TRUE) ELSE Proceed("draw")

LoopAgenda ==
    /\ pc = "work" /\ device = "on" /\ prepare = "none" /\ agenda.step # "none"
    /\ \/ ~late /\ agenda.step = "ntp" /\ Sampled
       \/ /\ time' = [time EXCEPT !.moved = FALSE] /\ UNCHANGED due
          /\ IF late THEN Finish(FALSE)           \* the watchdog
             ELSE \/ /\ agenda.step = "sta"       \* connected, given up, still trying
                     /\ \E step \in {"sta", "ntp", "draw"} : Proceed(step)
                  \/ /\ agenda.step = "ntp"       \* no sample, not yet or not at all
                     /\ \E step \in {"ntp", "draw"} : Proceed(step)
                  \/ /\ agenda.step = "draw"      \* no image, or the panel is not free
                     /\ \/ Finish(FALSE)
                        \/ ~panel.busy /\ pc' = "draw" /\ UNCHANGED <<agenda, late>>
                  \/ /\ agenda.step = "wait"      \* completedOperationId
                     /\ Proceed("wait") \/ (~panel.busy /\ Finish(FALSE))
    /\ UNCHANGED <<disk, record, mode, idle, request, gate, prepare, panel, hw, rtc,
                   device, cand, put, lock, acked>>

\* requestDraw; the coordinator waits for it even if the schedule has been
\* replaced meanwhile.
LoopDraw ==
    /\ pc = "draw" /\ device = "on"
    /\ \/ /\ ~panel.busy
          /\ panel' = [panel EXCEPT !.busy = TRUE]
          /\ Proceed("wait")
       \/ /\ Finish(FALSE) /\ UNCHANGED panel
    /\ UNCHANGED <<disk, record, time, due, mode, idle, request, gate, prepare, hw,
                   rtc, device, cand, put, lock, acked>>

-----------------------------------------------------------------------------
(* finishAgenda *)

\* What is saved: the slot is handled unless the schedule was replaced while
\* the agenda ran, or the wake was early.
Finished ==
    IF record.gen = agenda.gen /\ ~agenda.early /\ time.synced /\ due.at # "none"
    THEN [record EXCEPT !.slot = due.slot] ELSE record

WriteLockFree    == lock = "free"

LoopFinish ==
    /\ pc = "finish" /\ device = "on"
    /\ \/ /\ WriteLockFree
          /\ lock' = "loop"
          /\ cand' = [rec |-> Finished, synced |-> time.synced] /\ pc' = "save"
          /\ UNCHANGED agenda
       \/ /\ lock # "free"                        \* not within a second
          /\ agenda' = NoAgenda /\ pc' = "start" /\ UNCHANGED <<cand, lock>>
    /\ UNCHANGED <<disk, record, time, due, mode, late, idle, request, gate,
                   prepare, panel, hw, rtc, device, put, acked>>

\* advancePast: the plan after a saved agenda.
AdvancedDue ==
    IF cand.rec.gen # agenda.gen THEN RebuiltDue(cand.rec, time.synced, FALSE)
    ELSE IF agenda.early THEN {due}
    ELSE IF cand.synced
         THEN {[slot |-> s.slot, at |-> s.at, rel |-> due.rel] :
                 s \in NextSlot(cand.rec.slot, FALSE)}
         ELSE {[due EXCEPT !.rel = r] : r \in Phases \ {"due"}}

LoopSave ==
    /\ pc = "save" /\ device = "on"
    /\ cand' = NoCand /\ agenda' = NoAgenda
    /\ \/ /\ disk.ok
          /\ disk' = [disk EXCEPT !.rec = cand.rec] /\ record' = cand.rec
          /\ due' \in AdvancedDue
          /\ IF Wakes THEN TryPrepare(cand.rec, TRUE, due', time.synced)
                          ELSE pc' = "start"
       \/ /\ ~disk.ok \/ "save" \in Faults
          /\ \E rec \in IF disk.ok THEN {disk.rec, cand.rec} ELSE {disk.rec} :
               disk' = [rec |-> rec, ok |-> FALSE]
          /\ pc' = "start" /\ UNCHANGED <<record, due>>
    /\ lock' = IF pc' = "close" THEN "loop" ELSE "free"
    /\ UNCHANGED <<time, mode, late, idle, request, gate, prepare, panel, hw, rtc,
                   device, put, acked>>

-----------------------------------------------------------------------------
(* beginPrepare, from its critical section on; called by finishAgenda it     *)
(* still holds writeMutex_.                                                  *)

LoopClose ==
    /\ pc = "close" /\ device = "on"
    /\ IF gate.leases # 0 \/ gate.timing
       THEN pc' = "start" /\ UNCHANGED <<gate, panel, prepare, request, late, hw, rtc>>
       ELSE \/ pc' = "start"                     \* requestSleep refuses: admission reopens
               /\ UNCHANGED <<gate, panel, prepare, request, late, hw, rtc>>
            \/ /\ gate' = [gate EXCEPT !.closed = TRUE, !.keep = TRUE, !.changed = FALSE]
               /\ panel' = [panel EXCEPT !.asked = TRUE]
               /\ prepare' = "epaper" /\ request' = FALSE /\ late' = FALSE
               /\ pc' = "start"
               /\ UNCHANGED <<hw, rtc>>
            \/ "led" \in Faults /\ CancelPrepare(hw)
    /\ lock' = IF lock = "loop" THEN "free" ELSE lock
    /\ UNCHANGED <<disk, record, time, due, mode, agenda, idle, device, cand, put, acked>>

-----------------------------------------------------------------------------
(* pollPrepare *)

\* sleepReady and reserveSleep: as many steps as succeed in this pass.
Ready == panel.asked /\ ~panel.busy

GoesOnForEver == ~gate.changed /\ gate.leases = 0            \* variant: no deadline
GoesOn        == ~late /\ ~gate.changed /\ gate.leases = 0

LoopPrepare ==
    /\ pc = "work" /\ device = "on" /\ prepare # "none"
    /\ LET asleepReady == prepare # "epaper" \/ Ready
           onTime      == PlannedPhase(due, time.synced) \in {"early", "near"}
           reserved    == [hw EXCEPT !.reserved = TRUE]
       IN  \/ CancelPrepare(hw)                   \* activity, timeout, or a restart pending
           \/ /\ GoesOn
              /\ \/ /\ ~asleepReady
                    /\ pc' = "start" /\ UNCHANGED <<gate, panel, prepare, request, late, hw, rtc>>
                 \/ /\ asleepReady              \* the operation gate is taken
                    /\ prepare' = "storage" /\ pc' = "start"
                    /\ UNCHANGED <<gate, panel, request, late, hw, rtc>>
                 \/ /\ asleepReady /\ onTime
                    /\ hw' = reserved /\ prepare' = "teardown" /\ pc' = "commit"
                    /\ UNCHANGED <<gate, panel, request, late, rtc>>
                 \/ asleepReady /\ ~onTime /\ CancelPrepare(reserved)
    /\ UNCHANGED <<disk, record, time, due, mode, agenda, idle, device, cand, put, lock, acked>>

\* The final critical section: from here on keep-awake is refused.
UncontestedUnlooked == gate.leases = 0 /\ ~gate.timing       \* variant: activityGeneration_ as first read
Uncontested         == ~gate.changed /\ gate.leases = 0 /\ ~gate.timing

LoopCommit ==
    /\ pc = "commit" /\ device = "on"
    /\ \/ CancelPrepare(hw)                       \* ... or a restart pending
       \/ /\ Uncontested
          /\ gate' = [gate EXCEPT !.keep = FALSE] /\ pc' = "teardown"
          /\ UNCHANGED <<panel, prepare, request, late, hw, rtc>>
    /\ UNCHANGED <<disk, record, time, due, mode, agenda, idle, device, cand, put, lock, acked>>

\* Timer, pins and LED, services and radio, storage, RTC record, deep sleep;
\* the first failure hands back what was done.  A failed hold may have held
\* some pins.
TimerArmed == [hw EXCEPT !.timer = TRUE]
PinsHeld   == [TimerArmed EXCEPT !.held = TRUE, !.pins = TRUE]
PartlyHeldUnnoticed == {TimerArmed, [TimerArmed EXCEPT !.pins = TRUE]}  \* variant: pinsHeld_ stays false
PartlyHeld == {[PinsHeld EXCEPT !.pins = p] : p \in BOOLEAN}

LoopTeardown ==
    /\ pc = "teardown" /\ device = "on"
    /\ \/ /\ \/ "arm" \in Faults /\ CancelPrepare(hw)
             \/ "hold" \in Faults /\ \E h \in PartlyHeld : CancelPrepare(h)
             \/ "led" \in Faults /\ CancelPrepare(PinsHeld)
             \/ "wifi" \in Faults /\ CancelPrepare([PinsHeld EXCEPT !.up = FALSE])
          /\ UNCHANGED device
       \/ /\ device' = "asleep"
          /\ hw' = [PinsHeld EXCEPT !.up = FALSE]
          /\ \E capped \in BOOLEAN :              \* the timer runs at most one period
               rtc' = [intent |-> TRUE, gen |-> record.gen, synced |-> time.synced,
                       slot |-> IF time.synced THEN due.slot ELSE -1, capped |-> capped]
          /\ UNCHANGED <<gate, panel, prepare, request, late, pc>>
    /\ UNCHANGED <<disk, record, time, due, mode, agenda, idle, cand, put, lock, acked>>

LoopWork == LoopDecide \/ LoopBegin \/ LoopAgenda \/ LoopDraw \/ LoopFinish \/ LoopSave
            \/ LoopClose \/ LoopPrepare \/ LoopCommit \/ LoopTeardown
Loop == LoopRecover \/ LoopGate \/ LoopWork

-----------------------------------------------------------------------------
(* HTTP requests *)

AdmittedAlways == TRUE                          \* variant: a lease after admission has closed
Admitted       == ~gate.closed

BeginRequest ==                                 \* beginApiRequest
    /\ device = "on" /\ Admitted /\ gate.leases < MaxRequests
    /\ \E activity \in BOOLEAN :
         LET g == [gate EXCEPT !.leases = @ + 1]
         IN  gate' = IF activity THEN NotedGate(g) ELSE g

HasLease        == gate.leases > IF put.step = "none" THEN 0 ELSE 1

EndRequest ==                                   \* endApiRequest
    /\ device = "on" /\ HasLease
    /\ gate' = [gate EXCEPT !.leases = @ - 1]

KeepAwake ==
    /\ device = "on" /\ gate.keep
    /\ gate' = NotedGate(gate)

ConsoleLine ==                                  \* noteActivity, called from the main loop
    /\ device = "on" /\ pc = "start"
    /\ gate' = NotedGate(gate)

Activity ==
    /\ BeginRequest \/ EndRequest \/ KeepAwake \/ ConsoleLine
    /\ UNCHANGED <<disk, record, time, due, mode, agenda, late, idle, request, prepare, panel,
                   hw, rtc, device, pc, cand, put, lock, acked>>

\* The request's own lease does not block it.
RequestNow ==
    /\ device = "on" /\ ~gate.closed /\ gate.leases = 1 /\ ~gate.timing /\ ~request
    /\ disk.ok /\ record.on /\ ~panel.busy
    /\ PlannedPhase(due, time.synced) \in {"early", "near"}
    /\ request' = TRUE
    /\ UNCHANGED <<disk, record, time, due, mode, agenda, late, idle, gate, prepare, panel,
                   hw, rtc, device, pc, cand, put, lock, acked>>

\* PUT /api/sleep and PUT /api/system/time, under beginTimeUpdate.
PutBegin ==
    /\ device = "on" /\ gate.leases > 0 /\ ~gate.closed /\ ~gate.timing
    /\ \E kind \in PutKinds :
         /\ kind # "time" => record.gen < MaxGen  \* bound
         /\ \E step \in IF kind = "off" THEN {"timed", "ready"} ELSE {"timed"} :
              put' = [step |-> step, kind |-> kind, was |-> time.synced]
    /\ gate' = [gate EXCEPT !.timing = TRUE]
    /\ UNCHANGED <<disk, record, time, due, mode, agenda, late, idle, request, prepare, panel,
                   hw, rtc, device, pc, cand, lock, acked>>

EndPut == /\ put' = NoPut
          /\ gate' = [gate EXCEPT !.timing = FALSE]

\* restoreClock: the clock is what it was, or no longer trusted.
RestoreClock == /\ \E restored \in IF "clock" \in Faults THEN BOOLEAN ELSE {TRUE} :
                     time' = [synced |-> put.was /\ restored, moved |-> TRUE]
                /\ due' \in MovedDue

PutClock ==
    /\ device = "on" /\ put.step = "timed"
    /\ \/ /\ time' = [synced |-> TRUE, moved |-> TRUE] /\ due' \in MovedDue
          /\ IF put.kind = "time" THEN EndPut
             ELSE put' = [put EXCEPT !.step = "ready"] /\ UNCHANGED gate
       \/ RestoreClock /\ EndPut
    /\ UNCHANGED <<disk, record, mode, agenda, late, idle, request, prepare, panel, hw, rtc,
                   device, pc, cand, lock, acked>>

\* update: the write lock, or a second has passed and the clock is restored.
PutLock ==
    /\ device = "on" /\ put.step = "ready"
    /\ \/ /\ lock = "free" /\ lock' = "http"
          /\ put' = [put EXCEPT !.step = "locked"]
          /\ UNCHANGED <<time, due, gate>>
       \/ /\ lock # "free" /\ RestoreClock /\ EndPut /\ UNCHANGED lock
    /\ UNCHANGED <<disk, record, mode, agenda, late, idle, request, prepare, panel, hw, rtc,
                   device, pc, cand, acked>>

\* The new schedule replaces the old one and any agenda that has not drawn.
PutSaved ==
    LET rec == [gen |-> record.gen + 1, on |-> put.kind = "on", slot |-> -1]
    IN  /\ disk.ok
        /\ disk' = [disk EXCEPT !.rec = rec] /\ record' = rec
        /\ acked' = [gen |-> rec.gen, on |-> rec.on]
        /\ mode' = "normal"
        /\ agenda' = IF agenda.step = "wait" THEN agenda
                     ELSE IF pc \in {"draw", "finish"} THEN [agenda EXCEPT !.step = "none"]
                     ELSE NoAgenda
        /\ late' = (late /\ agenda.step = "wait")
        /\ IF rec.on
           THEN due' \in RebuiltDue(rec, time.synced, TRUE) /\ idle' = TRUE /\ UNCHANGED request
           ELSE idle' = FALSE /\ request' = FALSE /\ UNCHANGED due
        /\ time' = [time EXCEPT !.moved = FALSE]
        /\ gate' = [NotedGate(gate) EXCEPT !.timing = FALSE]

AckedAnyway == acked' = [gen |-> record.gen + 1, on |-> put.kind = "on"]  \* variant
NotAcked    == UNCHANGED acked

PutNotSaved ==
    /\ ~disk.ok \/ "save" \in Faults
    /\ \E rec \in IF disk.ok
                  THEN {disk.rec, [gen |-> record.gen + 1, on |-> put.kind = "on", slot |-> -1]}
                  ELSE {disk.rec} :
         disk' = [rec |-> rec, ok |-> FALSE]
    /\ RestoreClock
    /\ NotAcked
    /\ gate' = [gate EXCEPT !.timing = FALSE]
    /\ UNCHANGED <<record, mode, agenda, late, idle, request>>

PutSave ==
    /\ device = "on" /\ put.step = "locked"
    /\ PutSaved \/ PutNotSaved
    /\ put' = NoPut /\ lock' = "free"
    /\ UNCHANGED <<prepare, panel, hw, rtc, device, pc, cand>>

Http == Activity \/ RequestNow \/ PutBegin \/ PutClock \/ PutLock \/ PutSave

-----------------------------------------------------------------------------
(* The panel's worker, and time *)

\* A request with a lease starts an operation; the worker finishes it.
PanelStarts   == ~panel.busy /\ ~panel.asked /\ gate.leases > 0
PanelOperates ==
    /\ device = "on" /\ (panel.busy \/ PanelStarts)
    /\ panel' = [panel EXCEPT !.busy = ~@]
    /\ UNCHANGED <<disk, record, time, due, mode, agenda, late, idle, request, gate, prepare,
                   hw, rtc, device, pc, cand, put, lock, acked>>

Later(p) == CASE p = "early" -> "near" [] p = "near" -> "due" [] OTHER -> p

TimePasses ==
    /\ device = "on"
    /\ due' \in {[due EXCEPT !.at = Later(due.at)], [due EXCEPT !.rel = Later(due.rel)]} \ {due}
    /\ UNCHANGED <<disk, record, time, mode, agenda, late, idle, request, gate, prepare, panel,
                   hw, rtc, device, pc, cand, put, lock, acked>>

DeadlinePasses ==
    /\ device = "on" /\ ~late /\ (prepare # "none" \/ agenda.step # "none")
    /\ late' = TRUE
    /\ UNCHANGED <<disk, record, time, due, mode, agenda, idle, request, gate, prepare, panel,
                   hw, rtc, device, pc, cand, put, lock, acked>>

Next == Loop \/ Http \/ PanelOperates \/ TimePasses \/ DeadlinePasses \/ WakeByTimer \/ Reset

\* loop() comes round again, deadlines pass, and a restore that is tried again
\* and again is not refused for ever.  No request has to come, or to end.
Restored == LoopRecover /\ ~hw'.broken
Fairness == /\ WF_vars(Loop) /\ WF_vars(DeadlinePasses)
            /\ SF_vars(Restored)

Spec == Init /\ [][Next]_vars /\ Fairness

-----------------------------------------------------------------------------
(* Properties *)

\* The device is in deep sleep only when nobody is using it: no admitted request,
\* no schedule or clock update, no agenda, a panel that has acknowledged the
\* sleep; and only with the timer armed, the pins held, the storage reserved and
\* the services down.  (pollPrepare)
SleepsQuiet ==
    device = "asleep" =>
        /\ gate.leases = 0 /\ ~gate.timing /\ put.step = "none" /\ lock = "free"
        /\ agenda.step = "none" /\ ~panel.busy /\ panel.asked
        /\ hw.timer /\ hw.pins /\ hw.reserved /\ ~hw.up

\* A keep-awake, or any activity, accepted after admission has closed is never
\* answered with success and then slept over: keepAwake, read again in the final
\* critical section of pollPrepare.
KeepAwakeHonoured == device = "asleep" => ~gate.changed

\* As long as requests are admitted nothing of an abandoned sleep is left: no
\* timer, no held pin, no reserved storage, no stopped service, no panel that
\* still waits to sleep.  (cancelPrepare opens admission last, and only if every
\* part came back)
OpenIsWhole == device = "on" /\ ~gate.closed =>
    /\ ~hw.timer /\ ~hw.pins /\ ~hw.reserved /\ hw.up
    /\ ~panel.asked /\ prepare = "none"

\* The schedule a PUT has acknowledged is the one in flash and in memory, or an
\* older one than those: neither an agenda that ends at the same time nor a reset
\* brings an earlier schedule back.  (update, finishAgenda)
AckedSurvives ==
    \A rec \in {disk.rec, record} :
        acked.gen <= rec.gen /\ (acked.gen = rec.gen => acked.on = rec.on)

\* A planned slot is later than the last slot recorded as handled: whatever updates, clock
\* corrections and wakes come in between, a slot whose handling was saved is not planned
\* again under its schedule.  It says nothing of a slot that was drawn and not recorded: when
\* the save fails, the write lock is not had in time or a reset comes before it, finishAgenda
\* leaves record and plan as they are and the same slot is drawn again.
\* (nextSlot, rebuildDue, advancePast, finishAgenda)
DueIsFresh == due.at # "none" => due.slot > record.slot

\* The durable record never goes back: not to an older schedule, and within one
\* schedule not to an earlier handled slot.  (finishAgenda and update share
\* writeMutex_)
HandledOnlyGrows ==
    [][/\ disk'.rec.gen >= disk.rec.gen
       /\ disk'.rec.gen = disk.rec.gen => disk'.rec.slot >= disk.rec.slot]_vars

\* A device that went to sleep recognises the timer wake as its own wake cycle:
\* what RTC memory says still agrees with the stored schedule.  (pollPrepare
\* seals, classifyWake compares)
WakeIsRecognised == device = "asleep" => WakeCycleBoot

\* An attempt to sleep ends: the device sleeps or requests are admitted again,
\* whatever fails on the way.  A schedule switched off just before admission
\* closed is the exception, see KeepAwakeCancels.
EntryEnds == gate.closed ~> ~gate.closed \/ device = "asleep" \/ ~record.on

\* docs/SPEC_API_REFERENCE.md:1026, of a successful keep-awake: it cancels the
\* intent of the prepare phase.  Does not hold: a PUT that switches the schedule
\* off between blockers() and the critical section of beginPrepare lets admission
\* close with the schedule off, and poll() then returns before it reaches
\* pollPrepare, on every pass.
KeepAwakeCancels == gate.closed /\ gate.changed ~> ~gate.closed
=============================================================================
