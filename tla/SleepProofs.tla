---------------------------- MODULE SleepProofs ----------------------------
(***************************************************************************)
(* Theorems of SleepCoordinator, for every number of requests, schedules   *)
(* and slots, and for every set of operations that may fail.  First every  *)
(* action preserves the inductive invariant: one lemma for each, and what  *)
(* cancelPrepare, the clock and the rebuilt plan contribute to several.    *)
(***************************************************************************)
EXTENDS SleepInvariant, TLAPS

(* What is left of an attempt that cancelPrepare has ended: admission is     *)
(* open and everything back in place, or closed with something broken.       *)
Cancelled ==
    /\ hw' \in HwType /\ gate' \in GateType /\ panel' \in PanelType
    /\ \/ gate'.closed /\ hw'.broken
       \/ ~gate'.closed /\ gate'.keep /\ ~gate'.changed /\ hw' = Whole /\ ~panel'.asked
    /\ hw'.pins => hw'.held
    /\ gate'.leases = gate.leases /\ gate'.timing = gate.timing
    /\ prepare' = "none" /\ request' = FALSE /\ late' = FALSE
    /\ rtc' = NoPlan /\ pc' = "start"

(* cancelPrepare does that, whatever it finds and whatever fails. *)
LEMMA CancelEffect ==
    ASSUME TypeOK, NEW h \in HwType, h.pins => h.held, CancelPrepare(h)
    PROVE  Cancelled
<1>1. PICK failed \in SUBSET (Faults \cap {"pins", "timer", "led", "mount", "services"}) :
        LET pinsStuck  == h.held /\ "pins" \in failed
            timerStuck == h.timer /\ "timer" \in failed
            storeStuck == h.reserved /\ "mount" \in failed
            servStuck  == ~storeStuck /\ "services" \in failed
            broken     == pinsStuck \/ timerStuck \/ storeStuck \/ servStuck \/ "led" \in failed
        IN  /\ hw' = [timer |-> timerStuck, held |-> pinsStuck,
                      pins |-> h.pins /\ (h.held => pinsStuck),
                      reserved |-> storeStuck,
                      up |-> IF storeStuck THEN h.up ELSE ~servStuck,
                      broken |-> broken]
            /\ panel' = [panel EXCEPT !.asked = @ /\ storeStuck]
            /\ gate' = [gate EXCEPT !.closed = broken, !.keep = ~broken,
                                    !.changed = @ /\ broken]
            /\ prepare' = "none" /\ request' = FALSE /\ late' = FALSE
            /\ rtc' = NoPlan /\ pc' = "start"
    BY DEF CancelPrepare
<1>2. gate \in GateType /\ panel \in PanelType
    BY DEF TypeOK
<1> QED BY <1>1, <1>2 DEF Cancelled, HwType, GateType, PanelType, Whole

(* Ending an attempt that was alone keeps the invariant. *)
LEMMA CancelKeeps ==
    ASSUME Inductive, Cancelled, device = "on", gate.leases = 0, ~gate.timing,
           agenda.step = "none", disk.rec = record \/ disk.rec.gen > record.gen,
           lock' = IF lock = "loop" THEN "free" ELSE lock,
           UNCHANGED <<disk, record, time, due, mode, agenda, idle, device, cand, put, acked>>
    PROVE  Inductive'
<1>1. TypeOK'
  <2>1. rtc' \in RtcType
    BY SleepAssumption DEF Cancelled, NoPlan, RtcType
  <2> QED BY <2>1 DEF Inductive, TypeOK, Cancelled, Pcs
<1>2. GateKnown'
    BY DEF Inductive, GateKnown, Cancelled, Whole
<1>3. PutKnown'
    BY DEF Inductive, PutKnown, GateKnown, Cancelled
<1>4. LoopKnown'
    BY DEF Inductive, LoopKnown, Cancelled
<1>5. CommitKnown'
    BY DEF Inductive, CommitKnown, Cancelled, NoPlan
<1>6. RecordKnown'
    BY DEF Inductive, RecordKnown, Cancelled, AtLeast
<1>7. SlotKnown'
    BY DEF Inductive, SlotKnown, DueIsFresh, Cancelled
<1> QED BY <1>1, <1>2, <1>3, <1>4, <1>5, <1>6, <1>7 DEF Inductive

-----------------------------------------------------------------------------
(* Requests.                                                                 *)

(* Setting or restoring the clock moves the phases and nothing else. *)
LEMMA ClockEffect ==
    ASSUME TypeOK,
           \/ RestoreClock
           \/ time' = [synced |-> TRUE, moved |-> TRUE] /\ due' \in MovedDue
    PROVE  /\ time' \in TimeType /\ due' \in DueType
           /\ due'.slot = due.slot /\ (due'.at = "none") = (due.at = "none")
<1>1. due' \in MovedDue
    BY DEF RestoreClock
<1>2. time' \in TimeType
  <2>1. put.was \in BOOLEAN
    BY DEF TypeOK, PutType
  <2>2. CASE RestoreClock
    <3>1. PICK restored \in BOOLEAN :
            time' = [synced |-> put.was /\ restored, moved |-> TRUE]
      BY <2>2 DEF RestoreClock
    <3> QED BY <2>1, <3>1 DEF TimeType
  <2>3. CASE time' = [synced |-> TRUE, moved |-> TRUE]
    BY <2>3 DEF TimeType
  <2> QED BY <2>2, <2>3
<1> QED BY <1>1, <1>2 DEF MovedDue

(* What is left of a PUT that has ended. *)
LEMMA EndPutEffect ==
    ASSUME TypeOK, EndPut
    PROVE  /\ put' \in PutType /\ put'.step = "none"
           /\ gate' \in GateType /\ gate' = [gate EXCEPT !.timing = FALSE]
BY DEF TypeOK, EndPut, NoPut, PutType, PutKinds, GateType

(* A PUT sets the clock, or puts it back and ends. *)
LEMMA PutClockKeeps ==
    ASSUME Inductive, PutClock
    PROVE  Inductive'
<1>1. /\ time' \in TimeType /\ due' \in DueType
      /\ due'.slot = due.slot /\ (due'.at = "none") = (due.at = "none")
    BY ClockEffect DEF Inductive, PutClock
<1>2. /\ put' \in PutType /\ gate' \in GateType
      /\ \/ put'.step = "none" /\ gate' = [gate EXCEPT !.timing = FALSE]
         \/ /\ put' = [put EXCEPT !.step = "ready"] /\ put.kind # "time" /\ gate' = gate
  <2>1. CASE EndPut
    BY <2>1, EndPutEffect DEF Inductive
  <2>2. CASE put' = [put EXCEPT !.step = "ready"] /\ UNCHANGED gate /\ put.kind # "time"
    BY <2>2 DEF Inductive, TypeOK, PutType
  <2> QED BY <2>1, <2>2 DEF PutClock
<1>3. put.step = "timed" /\ gate \in GateType /\ ~gate.closed
    BY DEF Inductive, TypeOK, PutClock, GateKnown
<1>4. TypeOK'
    BY <1>1, <1>2 DEF Inductive, TypeOK, PutClock
<1>5. GateKnown'
    BY <1>2, <1>3 DEF Inductive, TypeOK, GateKnown, PutClock, PutType, GateType
<1>6. PutKnown'
    BY <1>2, <1>3 DEF Inductive, TypeOK, PutKnown, PutClock, PutType
<1>7. LoopKnown'
    BY <1>2, <1>3 DEF Inductive, LoopKnown, PutClock, GateType
<1>8. CommitKnown'
    BY <1>2, <1>3 DEF Inductive, LoopKnown, GateKnown, CommitKnown, PutClock, GateType
<1>9. RecordKnown'
    BY <1>2, <1>3 DEF Inductive, RecordKnown, AtLeast, PutClock, GateType
<1>10. SlotKnown'
    BY <1>1 DEF Inductive, SlotKnown, DueIsFresh, PutClock
<1> QED BY <1>4, <1>5, <1>6, <1>7, <1>8, <1>9, <1>10 DEF Inductive

(* A PUT takes the write lock, or gives up. *)
LEMMA PutLockKeeps ==
    ASSUME Inductive, PutLock
    PROVE  Inductive'
<1>1. /\ time' \in TimeType /\ due' \in DueType
      /\ due'.slot = due.slot /\ (due'.at = "none") = (due.at = "none")
    BY ClockEffect DEF Inductive, TypeOK, PutLock
<1>2. /\ put' \in PutType /\ gate' \in GateType
      /\ \/ put'.step = "none" /\ gate' = [gate EXCEPT !.timing = FALSE] /\ lock' = lock
         \/ /\ put' = [put EXCEPT !.step = "locked"] /\ gate' = gate
            /\ lock = "free" /\ lock' = "http"
  <2>1. CASE EndPut /\ UNCHANGED lock
    BY <2>1, EndPutEffect DEF Inductive
  <2>2. CASE put' = [put EXCEPT !.step = "locked"] /\ UNCHANGED gate
             /\ lock = "free" /\ lock' = "http"
    BY <2>2 DEF Inductive, TypeOK, PutType
  <2> QED BY <2>1, <2>2 DEF PutLock
<1>3. put.step = "ready" /\ gate \in GateType /\ ~gate.closed
    BY DEF Inductive, TypeOK, PutLock, GateKnown
<1>4. TypeOK'
    BY <1>1, <1>2 DEF Inductive, TypeOK, PutLock
<1>5. GateKnown'
    BY <1>2, <1>3 DEF Inductive, TypeOK, GateKnown, PutLock, PutType, GateType
<1>6. PutKnown'
    BY <1>2, <1>3 DEF Inductive, TypeOK, PutKnown, PutLock, PutType
<1>7. LoopKnown'
    BY <1>2, <1>3 DEF Inductive, LoopKnown, PutLock, GateType
<1>8. CommitKnown'
    BY <1>2, <1>3 DEF Inductive, LoopKnown, GateKnown, CommitKnown, PutLock, GateType
<1>9. RecordKnown'
    BY <1>2, <1>3 DEF Inductive, RecordKnown, AtLeast, PutLock, GateType
<1>10. SlotKnown'
    BY <1>1 DEF Inductive, SlotKnown, DueIsFresh, PutLock
<1> QED BY <1>4, <1>5, <1>6, <1>7, <1>8, <1>9, <1>10 DEF Inductive

(* A PUT begins: admission is open and stays so while it runs. *)
LEMMA PutBeginKeeps ==
    ASSUME Inductive, PutBegin
    PROVE  Inductive'
<1>1. PICK kind \in PutKinds, step \in {"timed", "ready"} :
        /\ kind # "time" => record.gen < MaxGen
        /\ step = "ready" => kind = "off"
        /\ put' = [step |-> step, kind |-> kind, was |-> time.synced]
    BY DEF PutBegin
<1>2. /\ gate \in GateType /\ gate.leases > 0 /\ ~gate.closed /\ ~gate.timing
      /\ gate' = [gate EXCEPT !.timing = TRUE]
    BY DEF Inductive, TypeOK, PutBegin
<1>3. put' \in PutType
    BY <1>1 DEF PutType, Inductive, TypeOK, TimeType
<1>4. TypeOK'
    BY <1>2, <1>3 DEF Inductive, TypeOK, PutBegin, GateType
<1>5. GateKnown'
    BY <1>1, <1>2 DEF Inductive, GateKnown, PutBegin, GateType
<1>6. PutKnown'
    BY <1>1, <1>2 DEF Inductive, GateKnown, PutKnown, PutBegin
<1>7. LoopKnown' /\ CommitKnown'
    BY <1>2 DEF Inductive, GateKnown, LoopKnown, CommitKnown, PutBegin, GateType
<1>8. RecordKnown' /\ SlotKnown'
    BY <1>2 DEF Inductive, RecordKnown, AtLeast, SlotKnown, DueIsFresh, PutBegin, GateType
<1> QED BY <1>4, <1>5, <1>6, <1>7, <1>8 DEF Inductive

(* A rebuilt plan is typed, and ahead of the record it is rebuilt from. *)
LEMMA RebuiltTyped ==
    ASSUME NEW rec \in Record, NEW synced \in BOOLEAN, NEW inclusive \in BOOLEAN,
           NEW d \in RebuiltDue(rec, synced, inclusive)
    PROVE  /\ d \in DueType
           /\ d.at # "none" => d.slot > rec.slot
           /\ rec.slot = -1 => d.slot <= MaxSlot
<1>1. CASE ~rec.on
    BY <1>1, SleepAssumption DEF RebuiltDue, NoDue, DueType
<1>2. CASE rec.on /\ ~synced
    BY <1>2, SleepAssumption DEF RebuiltDue, DueType, Ahead, Phases
<1>3. CASE rec.on /\ synced
  <2>1. PICK s \in NextSlot(rec.slot, inclusive) :
            d = [slot |-> s.slot, at |-> s.at, rel |-> "none"]
    BY <1>3 DEF RebuiltDue
  <2>2. rec.slot \in -1..MaxSlot
    BY DEF Record
  <2>3. s.at \in Phases /\ s.slot \in (rec.slot + 1)..(IF rec.slot < MaxSlot THEN MaxSlot ELSE MaxSlot + 1)
    BY DEF NextSlot
  <2>4. s.slot \in Slots /\ s.slot > rec.slot /\ (rec.slot = -1 => s.slot <= MaxSlot)
    BY <2>2, <2>3, SleepAssumption DEF Slots
  <2> QED BY <2>1, <2>3, <2>4 DEF DueType, Phases
<1> QED BY <1>1, <1>2, <1>3

(* A PUT saves its schedule: flash and memory move to a new generation       *)
(* together, or flash alone does and the store is not trusted any more.      *)
LEMMA PutSaveKeeps ==
    ASSUME Inductive, PutSave
    PROVE  Inductive'
<1>1. /\ put.step = "locked" /\ put.kind # "time" /\ lock = "http" /\ device = "on"
      /\ gate \in GateType /\ ~gate.closed /\ gate.timing /\ gate.leases > 0
      /\ record \in Record /\ record.gen \in 0..MaxGen /\ record.gen < MaxGen
      /\ pc \notin {"save", "commit", "teardown"} /\ prepare = "none"
      /\ put' \in PutType /\ put'.step = "none" /\ lock' = "free"
    BY SleepAssumption DEF Inductive, TypeOK, PutSave, PutKnown, GateKnown, LoopKnown,
       Record, NoPut, PutType, PutKinds
<1>2. CASE PutSaved
  <2> DEFINE rec == [gen |-> record.gen + 1, on |-> put.kind = "on", slot |-> -1]
  <2>1. rec \in Record /\ rec.gen > record.gen /\ rec.slot = -1
    BY <1>1, SleepAssumption DEF Record
  <2>2. disk.ok /\ disk' = [disk EXCEPT !.rec = rec] /\ record' = rec
        /\ acked' = [gen |-> rec.gen, on |-> rec.on]
    BY <1>2 DEF PutSaved
  <2>3. disk' \in DiskType /\ disk'.rec = rec /\ acked' \in AckedType
    BY <2>1, <2>2 DEF Inductive, TypeOK, DiskType, AckedType, Record
  <2>4. due' \in DueType /\ (due'.at # "none" => due'.slot > -1)
        /\ (due.slot <= MaxSlot => due'.slot <= MaxSlot)
    <3>1. CASE rec.on
      <4>1. time.synced \in BOOLEAN
        BY DEF Inductive, TypeOK, TimeType
      <4>2. due' \in RebuiltDue(rec, time.synced, TRUE)
        BY <1>2, <3>1 DEF PutSaved
      <4> QED BY <2>1, <4>1, <4>2, RebuiltTyped
    <3>2. CASE ~rec.on
      <4>1. due' = due
        BY <1>2, <3>2 DEF PutSaved
      <4>2. record.slot \in -1..MaxSlot
        BY <1>1 DEF Record
      <4> QED BY <4>1, <4>2, SleepAssumption DEF Inductive, TypeOK, SlotKnown, DueIsFresh, DueType, Slots
    <3> QED BY <3>1, <3>2
  <2>5. /\ agenda' \in AgendaType
        /\ agenda'.step # "none" => agenda.step # "none"
        /\ pc = "finish" => agenda'.early = agenda.early \/ agenda'.step # "none"
        /\ pc = "draw" => agenda'.step \in {"none", "draw"}
    <3>1. agenda \in AgendaType /\ agenda.gen \in 0..MaxGen /\ NoAgenda \in AgendaType
      BY SleepAssumption DEF Inductive, TypeOK, AgendaType, NoAgenda, Steps
    <3>2. CASE agenda' = agenda /\ agenda.step = "wait"
      BY <3>1, <3>2 DEF Inductive, LoopKnown
    <3>3. CASE agenda' = [agenda EXCEPT !.step = "none"]
      BY <3>1, <3>3 DEF AgendaType, Steps
    <3>4. CASE agenda' = NoAgenda /\ pc \notin {"draw", "finish"}
      BY <3>1, <3>4 DEF NoAgenda
    <3> QED BY <1>2, <3>2, <3>3, <3>4 DEF PutSaved
  <2>6. gate' \in GateType /\ gate'.closed = FALSE /\ gate'.leases = gate.leases
        /\ ~gate'.timing /\ gate'.keep = gate.keep /\ ~gate'.changed
    BY <1>1, <1>2 DEF PutSaved, NotedGate, GateType
  <2>7. time' \in TimeType /\ late' \in BOOLEAN /\ idle' \in BOOLEAN /\ request' \in BOOLEAN
        /\ mode' = "normal"
    BY <1>2 DEF PutSaved, Inductive, TypeOK, TimeType
  <2>8. TypeOK'
    BY <1>1, <2>1, <2>2, <2>3, <2>4, <2>5, <2>6, <2>7 DEF Inductive, TypeOK, PutSave
  <2>9. GateKnown' /\ PutKnown'
    BY <1>1, <2>6 DEF Inductive, GateKnown, PutKnown, PutSave
  <2>10. LoopKnown' /\ CommitKnown'
    BY <1>1, <2>5, <2>6 DEF Inductive, LoopKnown, CommitKnown, PutSave
  <2>11. RecordKnown'
    BY <1>1, <2>1, <2>2, <2>3, SleepAssumption DEF Inductive, RecordKnown, AtLeast, PutSave, Record
  <2>12. SlotKnown'
    BY <1>1, <2>1, <2>2, <2>4, <2>5 DEF Inductive, SlotKnown, LoopKnown, DueIsFresh, PutSave
  <2> QED BY <2>8, <2>9, <2>10, <2>11, <2>12 DEF Inductive
<1>3. CASE PutNotSaved
  <2>1. PICK rec \in {disk.rec, [gen |-> record.gen + 1, on |-> put.kind = "on", slot |-> -1]} :
          disk' = [rec |-> rec, ok |-> FALSE]
    BY <1>3 DEF PutNotSaved
  <2>2. rec \in Record /\ AtLeast(rec, record)
    <3>1. CASE rec = disk.rec
      BY <3>1 DEF Inductive, TypeOK, DiskType, RecordKnown
    <3>2. CASE rec = [gen |-> record.gen + 1, on |-> put.kind = "on", slot |-> -1]
      BY <1>1, <3>2, SleepAssumption DEF AtLeast, Record
    <3> QED BY <2>1, <3>1, <3>2
  <2>3. /\ time' \in TimeType /\ due' \in DueType
        /\ due'.slot = due.slot /\ (due'.at = "none") = (due.at = "none")
    BY <1>3, ClockEffect DEF Inductive, PutNotSaved
  <2>4. gate' \in GateType /\ gate' = [gate EXCEPT !.timing = FALSE]
    BY <1>1, <1>3 DEF PutNotSaved, GateType
  <2>5. disk' \in DiskType /\ disk'.rec = rec /\ disk'.ok = FALSE
    BY <2>1, <2>2 DEF DiskType
  <2>6. record' = record /\ acked' = acked /\ agenda' = agenda
    BY <1>3 DEF PutNotSaved, NotAcked
  <2>7. TypeOK'
    BY <1>1, <1>3, <2>3, <2>4, <2>5, <2>6 DEF Inductive, TypeOK, PutSave, PutNotSaved
  <2>8. GateKnown' /\ PutKnown'
    BY <1>1, <2>4, <2>6 DEF Inductive, GateKnown, PutKnown, PutSave, GateType
  <2>9. LoopKnown' /\ CommitKnown'
    BY <1>1, <2>4, <2>6 DEF Inductive, LoopKnown, CommitKnown, PutSave, GateType
  <2>10. gate'.closed \/ pc' = "close" => disk'.rec = record' \/ disk'.rec.gen > record'.gen
    <3>1. pc = "close" => disk.rec = record \/ disk.rec.gen > record.gen
      BY DEF Inductive, RecordKnown
    <3> QED BY <1>1, <2>1, <2>4, <2>5, <2>6, <3>1, SleepAssumption DEF PutSave, GateType
  <2>11. RecordKnown'
    BY <1>1, <2>2, <2>5, <2>6, <2>10 DEF Inductive, RecordKnown, PutSave, AtLeast
  <2>12. SlotKnown'
    BY <2>3, <2>6 DEF Inductive, SlotKnown, DueIsFresh, PutSave
  <2> QED BY <2>7, <2>8, <2>9, <2>11, <2>12 DEF Inductive
<1> QED BY <1>2, <1>3 DEF PutSave

(* Requests that come, end, or keep the device awake: only the gate moves,   *)
(* nothing opens or closes, and nothing is noted once keep-awake is refused. *)
LEMMA ActivityKeeps ==
    ASSUME Inductive, Activity
    PROVE  Inductive'
<1>1. gate \in GateType /\ put \in PutType /\ MaxRequests \in Nat
    BY SleepAssumption DEF Inductive, TypeOK
<1>2. /\ gate' \in GateType
      /\ gate'.closed = gate.closed /\ gate'.keep = gate.keep /\ gate'.timing = gate.timing
      /\ gate.closed => gate'.leases = 0
      /\ gate.timing => gate'.leases > 0
      /\ ~gate.closed \/ pc = "teardown" => gate'.changed = gate.changed
  <2>1. CASE BeginRequest
    <3>1. PICK g \in {[gate EXCEPT !.leases = @ + 1]} :
            gate' = g \/ gate' = NotedGate(g)
      BY <2>1 DEF BeginRequest
    <3>2. g \in GateType /\ g = [gate EXCEPT !.leases = @ + 1] /\ ~gate.closed
      BY <1>1, <2>1, <3>1 DEF BeginRequest, Admitted, GateType
    <3>3. NotedGate(g) \in GateType
      BY <3>2 DEF NotedGate, GateType
    <3>4. gate.leases \in 0..MaxRequests /\ ~gate.changed /\ pc # "teardown"
      BY <1>1, <3>2 DEF GateType, Inductive, GateKnown, LoopKnown
    <3>5. /\ g.closed = gate.closed /\ g.keep = gate.keep /\ g.timing = gate.timing
          /\ g.changed = gate.changed /\ g.leases > 0
      BY <1>1, <3>2, <3>4 DEF GateType
    <3>6. CASE gate' = g
      BY <3>2, <3>4, <3>5, <3>6
    <3>7. CASE gate' = NotedGate(g)
      BY <3>2, <3>3, <3>4, <3>5, <3>7 DEF NotedGate, GateType
    <3> QED BY <3>1, <3>6, <3>7
  <2>2. CASE EndRequest
    <3>1. gate.leases \in 0..MaxRequests /\ gate.leases > (IF put.step = "none" THEN 0 ELSE 1)
      BY <1>1, <2>2 DEF GateType, EndRequest, HasLease
    <3>2. gate' = [gate EXCEPT !.leases = @ - 1]
      BY <2>2 DEF EndRequest
    <3> QED BY <1>1, <3>1, <3>2 DEF GateType, Inductive, GateKnown
  <2>3. CASE KeepAwake \/ ConsoleLine
    <3>1. gate' = NotedGate(gate) /\ (pc = "teardown" => ~gate.keep /\ pc # "start")
      BY <2>3 DEF KeepAwake, ConsoleLine, Inductive, CommitKnown
    <3>2. pc # "teardown"
      BY <2>3, <3>1 DEF KeepAwake, ConsoleLine
    <3> QED BY <1>1, <3>1, <3>2 DEF NotedGate, GateType, Inductive, GateKnown
  <2> QED BY <2>1, <2>2, <2>3 DEF Activity
<1>3. UNCHANGED <<disk, record, time, due, mode, agenda, late, idle, request, prepare, panel,
                  hw, rtc, device, pc, cand, put, lock, acked>>
    BY DEF Activity
<1>4. TypeOK'
    BY <1>2, <1>3 DEF Inductive, TypeOK
<1>5. GateKnown' /\ PutKnown'
    BY <1>2, <1>3 DEF Inductive, GateKnown, PutKnown
<1>6. LoopKnown' /\ CommitKnown'
    BY <1>2, <1>3 DEF Inductive, LoopKnown, CommitKnown
<1>7. RecordKnown' /\ SlotKnown'
    BY <1>2, <1>3 DEF Inductive, RecordKnown, AtLeast, SlotKnown, DueIsFresh
<1> QED BY <1>4, <1>5, <1>6, <1>7 DEF Inductive

(* Asking to sleep now is only remembered. *)
LEMMA RequestNowKeeps ==
    ASSUME Inductive, RequestNow
    PROVE  Inductive'
<1>1. TypeOK' /\ GateKnown' /\ PutKnown'
    BY DEF Inductive, TypeOK, GateKnown, PutKnown, RequestNow
<1>2. LoopKnown' /\ CommitKnown'
    BY DEF Inductive, LoopKnown, CommitKnown, RequestNow
<1>3. RecordKnown' /\ SlotKnown'
    BY DEF Inductive, RecordKnown, AtLeast, SlotKnown, DueIsFresh, RequestNow
<1> QED BY <1>1, <1>2, <1>3 DEF Inductive

-----------------------------------------------------------------------------
(* The panel, and time.                                                      *)

(* Once asked to sleep the panel only finishes, so it stays idle from the    *)
(* moment it has acknowledged.                                               *)
LEMMA PanelOperatesKeeps ==
    ASSUME Inductive, PanelOperates
    PROVE  Inductive'
<1>1. /\ panel \in PanelType /\ panel' = [panel EXCEPT !.busy = ~@]
      /\ panel.busy \/ ~panel.asked
    BY DEF PanelOperates, PanelStarts, Inductive, TypeOK
<1>2. TypeOK'
    BY <1>1 DEF Inductive, TypeOK, PanelOperates, PanelType
<1>3. GateKnown' /\ PutKnown'
    BY <1>1 DEF Inductive, GateKnown, PutKnown, PanelOperates, PanelType
<1>4. LoopKnown' /\ CommitKnown'
    BY <1>1 DEF Inductive, LoopKnown, CommitKnown, PanelOperates, PanelType
<1>5. RecordKnown' /\ SlotKnown'
    BY DEF Inductive, RecordKnown, AtLeast, SlotKnown, DueIsFresh, PanelOperates
<1> QED BY <1>2, <1>3, <1>4, <1>5 DEF Inductive

(* Time brings a plan nearer; it neither makes nor loses one. *)
LEMMA TimePassesKeeps ==
    ASSUME Inductive, TimePasses
    PROVE  Inductive'
<1>1. /\ due' \in DueType /\ due'.slot = due.slot
      /\ (due'.at = "none") = (due.at = "none")
  <2>1. due \in DueType
    BY DEF Inductive, TypeOK
  <2>2. \A p \in Phases \cup {"none"} :
            Later(p) \in Phases \cup {"none"} /\ (Later(p) = "none" <=> p = "none")
    BY DEF Later, Phases
  <2>3. due.at \in Phases \cup {"none"} /\ due.rel \in Phases \cup {"none"}
    BY <2>1 DEF DueType
  <2>4. CASE due' = [due EXCEPT !.at = Later(due.at)]
    BY <2>1, <2>2, <2>3, <2>4 DEF DueType
  <2>5. CASE due' = [due EXCEPT !.rel = Later(due.rel)]
    BY <2>1, <2>2, <2>3, <2>5 DEF DueType
  <2> QED BY <2>4, <2>5 DEF TimePasses
<1>2. TypeOK' /\ GateKnown' /\ PutKnown'
    BY <1>1 DEF Inductive, TypeOK, GateKnown, PutKnown, TimePasses
<1>3. LoopKnown' /\ CommitKnown'
    BY <1>1 DEF Inductive, LoopKnown, CommitKnown, TimePasses
<1>4. RecordKnown' /\ SlotKnown'
    BY <1>1 DEF Inductive, RecordKnown, AtLeast, SlotKnown, DueIsFresh, TimePasses
<1> QED BY <1>2, <1>3, <1>4 DEF Inductive

(* A deadline that has passed is only remembered. *)
LEMMA DeadlinePassesKeeps ==
    ASSUME Inductive, DeadlinePasses
    PROVE  Inductive'
<1>1. TypeOK' /\ GateKnown' /\ PutKnown'
    BY DEF Inductive, TypeOK, GateKnown, PutKnown, DeadlinePasses
<1>2. LoopKnown' /\ CommitKnown'
    BY DEF Inductive, LoopKnown, CommitKnown, DeadlinePasses
<1>3. RecordKnown' /\ SlotKnown'
    BY DEF Inductive, RecordKnown, AtLeast, SlotKnown, DueIsFresh, DeadlinePasses
<1> QED BY <1>1, <1>2, <1>3 DEF Inductive

-----------------------------------------------------------------------------
(* The main loop, up to the record it saves.                                 *)

(* Taking in what happened since the last pass: the loop goes on to work     *)
(* only with the schedule on, or with a draw to wait for.                    *)
LEMMA LoopGateKeeps ==
    ASSUME Inductive, LoopGate
    PROVE  Inductive'
<1>1. /\ gate \in GateType /\ gate' = [gate EXCEPT !.pending = FALSE]
      /\ agenda \in AgendaType /\ pc = "start" /\ device = "on" /\ ~hw.broken
      /\ pc' \in {"start", "work"}
      /\ gate.closed /\ pc' = "work" => record.on
    BY DEF Inductive, TypeOK, LoopKnown, LoopGate, Enabled
<1>2. /\ agenda' \in AgendaType
      /\ agenda'.step = "none" <=> agenda.step = "none"
    BY <1>1 DEF LoopGate, AgendaType, Steps
<1>3. TypeOK'
    BY <1>1, <1>2 DEF Inductive, TypeOK, LoopGate, GateType, Pcs
<1>4. GateKnown' /\ PutKnown'
    BY <1>1 DEF Inductive, GateKnown, PutKnown, LoopGate, GateType
<1>5. LoopKnown'
    BY <1>1, <1>2 DEF Inductive, GateKnown, LoopKnown, LoopGate, GateType
<1>6. CommitKnown'
    BY <1>1 DEF Inductive, CommitKnown, LoopGate, GateType
<1>7. RecordKnown' /\ SlotKnown'
    BY <1>1, <1>2 DEF Inductive, RecordKnown, AtLeast, SlotKnown, DueIsFresh, LoopGate, GateType
<1> QED BY <1>3, <1>4, <1>5, <1>6, <1>7 DEF Inductive

(* A plan observed after the clock has been set is typed and fresh. *)
LEMMA ObservedTyped ==
    ASSUME Inductive, NEW d \in ObservedDue
    PROVE  d \in DueType /\ (d.at # "none" => d.slot > record.slot)
<1>1. record \in Record /\ time.synced \in BOOLEAN /\ due \in DueType
      /\ (due.at # "none" => due.slot > record.slot)
    BY DEF Inductive, TypeOK, TimeType, SlotKnown, DueIsFresh
<1>2. CASE d = due
    BY <1>1, <1>2
<1>3. CASE d \in RebuiltDue(record, TRUE, FALSE)
    BY <1>1, <1>3, RebuiltTyped
<1>4. CASE d \in {[slot |-> -1, at |-> "none", rel |-> r] : r \in Ahead}
    BY <1>4 DEF DueType, Ahead, Phases
<1> QED BY <1>2, <1>3, <1>4 DEF ObservedDue

(* A pass without an agenda: it closes admission only when flash and memory  *)
(* agree, and begins an agenda only for a slot there is.                     *)
LEMMA LoopDecideKeeps ==
    ASSUME Inductive, LoopDecide
    PROVE  Inductive'
<1>1. /\ pc = "work" /\ device = "on" /\ prepare = "none" /\ agenda.step = "none"
      /\ ~gate.closed /\ lock # "loop" /\ time \in TimeType /\ agenda \in AgendaType
      /\ record \in Record /\ record.gen \in 0..MaxGen
    BY DEF Inductive, TypeOK, GateKnown, LoopKnown, PutKnown, LoopDecide, Record
<1>2. due' \in DueType /\ (due'.at # "none" => due'.slot > record.slot)
    BY ObservedTyped DEF LoopDecide
<1>3. /\ pc' \in {"start", "begin", "finish", "close"}
      /\ pc' = "begin" => due'.slot <= MaxSlot
      /\ pc' = "close" => disk.ok
      /\ \/ agenda' = agenda /\ pc' # "finish"
         \/ agenda' = [step |-> "none", gen |-> record.gen, early |-> TRUE]
    BY <1>1 DEF LoopDecide, TryPrepare, MayClose
<1>4. /\ agenda' \in AgendaType /\ agenda'.step = "none"
      /\ pc' = "finish" => agenda'.early
  <2>1. CASE agenda' = agenda /\ pc' # "finish"
    BY <1>1, <2>1
  <2>2. CASE agenda' = [step |-> "none", gen |-> record.gen, early |-> TRUE]
    BY <1>1, <2>2 DEF AgendaType, Steps
  <2> QED BY <1>3, <2>1, <2>2
<1>5. TypeOK'
    BY <1>1, <1>2, <1>3, <1>4 DEF Inductive, TypeOK, LoopDecide, TimeType, Pcs
<1>6. GateKnown' /\ PutKnown'
    BY <1>1, <1>3 DEF Inductive, GateKnown, PutKnown, LoopDecide
<1>7. LoopKnown' /\ CommitKnown'
    BY <1>1, <1>3, <1>4 DEF Inductive, LoopKnown, CommitKnown, LoopDecide
<1>8. RecordKnown' /\ SlotKnown'
    BY <1>1, <1>2, <1>3, <1>4 DEF Inductive, RecordKnown, AtLeast, SlotKnown, DueIsFresh, LoopDecide
<1> QED BY <1>5, <1>6, <1>7, <1>8 DEF Inductive

(* The agenda begins. *)
LEMMA LoopBeginKeeps ==
    ASSUME Inductive, LoopBegin
    PROVE  Inductive'
<1>1. /\ pc = "begin" /\ pc' = "start" /\ device = "on" /\ ~gate.closed /\ lock # "loop"
      /\ prepare = "none" /\ record.gen \in 0..MaxGen
    BY DEF Inductive, TypeOK, Record, GateKnown, LoopKnown, PutKnown, LoopBegin
<1>2. agenda' \in AgendaType
    BY <1>1 DEF LoopBegin, AgendaType, Steps
<1>3. TypeOK'
    BY <1>1, <1>2 DEF Inductive, TypeOK, LoopBegin, Pcs
<1>4. GateKnown' /\ PutKnown'
    BY <1>1 DEF Inductive, GateKnown, PutKnown, LoopBegin
<1>5. LoopKnown' /\ CommitKnown'
    BY <1>1 DEF Inductive, LoopKnown, CommitKnown, LoopBegin
<1>6. RecordKnown' /\ SlotKnown'
    BY <1>1 DEF Inductive, RecordKnown, AtLeast, SlotKnown, DueIsFresh, LoopBegin
<1> QED BY <1>3, <1>4, <1>5, <1>6 DEF Inductive

(* A step of the agenda; an SNTP sample moves the planned slot in time only. *)
LEMMA LoopAgendaKeeps ==
    ASSUME Inductive, LoopAgenda
    PROVE  Inductive'
<1>1. /\ pc = "work" /\ device = "on" /\ prepare = "none" /\ agenda.step # "none"
      /\ ~gate.closed /\ lock # "loop" /\ agenda \in AgendaType /\ time \in TimeType
    BY DEF Inductive, TypeOK, LoopKnown, PutKnown, LoopAgenda
<1>2. /\ time' \in TimeType /\ due' \in DueType
      /\ due'.slot = due.slot /\ (due'.at = "none") = (due.at = "none")
  <2>1. CASE Sampled
    BY <2>1 DEF Sampled, TimeType, MovedDue
  <2>2. CASE time' = [time EXCEPT !.moved = FALSE] /\ UNCHANGED due
    BY <1>1, <2>2 DEF TimeType, Inductive, TypeOK
  <2> QED BY <2>1, <2>2 DEF LoopAgenda
<1>3. /\ agenda' \in AgendaType /\ late' \in BOOLEAN
      /\ \/ pc' = "finish" /\ agenda'.step = "none"
         \/ pc' = "start"
         \/ pc' = "draw" /\ agenda'.step = "draw"
  <2>1. /\ \A early \in BOOLEAN : [agenda EXCEPT !.step = "none", !.early = early] \in AgendaType
        /\ \A step \in Steps : [agenda EXCEPT !.step = step] \in AgendaType
        /\ late \in BOOLEAN /\ agenda.step \in Steps
    BY <1>1 DEF AgendaType, Steps, Inductive, TypeOK
  <2>2. CASE Finish(TRUE) \/ Finish(FALSE)
    BY <1>1, <2>1, <2>2 DEF Finish, AgendaType
  <2>3. CASE \E step \in Steps : Proceed(step)
    BY <2>1, <2>3 DEF Proceed
  <2>4. CASE agenda.step = "draw" /\ pc' = "draw" /\ UNCHANGED <<agenda, late>>
    BY <1>1, <2>1, <2>4
  <2> QED BY <2>2, <2>3, <2>4 DEF LoopAgenda, Sampled, Steps
<1>4. TypeOK'
    BY <1>1, <1>2, <1>3 DEF Inductive, TypeOK, LoopAgenda, Pcs
<1>5. GateKnown' /\ PutKnown'
    BY <1>1, <1>3 DEF Inductive, GateKnown, PutKnown, LoopAgenda
<1>6. LoopKnown' /\ CommitKnown'
    BY <1>1, <1>3 DEF Inductive, LoopKnown, CommitKnown, LoopAgenda
<1>7. RecordKnown' /\ SlotKnown'
    BY <1>1, <1>2, <1>3 DEF Inductive, RecordKnown, AtLeast, SlotKnown, DueIsFresh, LoopAgenda
<1> QED BY <1>4, <1>5, <1>6, <1>7 DEF Inductive

(* The draw is requested; a schedule replaced meanwhile does not stop it. *)
LEMMA LoopDrawKeeps ==
    ASSUME Inductive, LoopDraw
    PROVE  Inductive'
<1>1. /\ pc = "draw" /\ device = "on" /\ ~gate.closed /\ prepare = "none" /\ lock # "loop"
      /\ ~panel.asked /\ agenda \in AgendaType /\ panel \in PanelType /\ due.slot <= MaxSlot
    BY DEF Inductive, TypeOK, GateKnown, LoopKnown, PutKnown, SlotKnown, LoopDraw
<1>2. /\ agenda' \in AgendaType /\ panel' \in PanelType /\ ~panel'.asked /\ late' \in BOOLEAN
      /\ pc' = "start" \/ (pc' = "finish" /\ agenda'.step = "none")
    BY <1>1 DEF LoopDraw, Proceed, Finish, AgendaType, Steps, PanelType, Inductive, TypeOK
<1>3. TypeOK'
    BY <1>1, <1>2 DEF Inductive, TypeOK, LoopDraw, Pcs
<1>4. GateKnown' /\ PutKnown'
    BY <1>1, <1>2 DEF Inductive, GateKnown, PutKnown, LoopDraw
<1>5. LoopKnown' /\ CommitKnown'
    BY <1>1, <1>2 DEF Inductive, LoopKnown, CommitKnown, LoopDraw
<1>6. RecordKnown' /\ SlotKnown'
    BY <1>1, <1>2 DEF Inductive, RecordKnown, AtLeast, SlotKnown, DueIsFresh, LoopDraw
<1> QED BY <1>3, <1>4, <1>5, <1>6 DEF Inductive

(* What is about to be saved is the record, or the record with the planned   *)
(* slot handled.                                                             *)
LEMMA FinishedKnown ==
    ASSUME Inductive, pc = "finish"
    PROVE  /\ Finished \in Record
           /\ Finished.gen = record.gen /\ Finished.on = record.on
           /\ Finished.slot >= record.slot
           /\ agenda.early \/ ~time.synced => Finished = record
<1>1. /\ record \in Record /\ record.slot \in -1..MaxSlot /\ due.slot \in Slots \cup {-1}
      /\ due.at # "none" => due.slot > record.slot
      /\ ~agenda.early => due.slot <= MaxSlot
    BY DEF Inductive, TypeOK, Record, DueType, SlotKnown, DueIsFresh
<1>2. CASE Finished = record
    BY <1>1, <1>2, SleepAssumption
<1>3. CASE /\ Finished = [record EXCEPT !.slot = due.slot]
           /\ ~agenda.early /\ time.synced /\ due.at # "none"
  <2>1. due.slot \in -1..MaxSlot /\ due.slot >= record.slot
    BY <1>1, <1>3, SleepAssumption DEF Slots
  <2> QED BY <1>1, <1>3, <2>1 DEF Record
<1> QED BY <1>2, <1>3 DEF Finished

(* The agenda ends: the write lock, and the record to save. *)
LEMMA LoopFinishKeeps ==
    ASSUME Inductive, LoopFinish
    PROVE  Inductive'
<1>1. /\ pc = "finish" /\ device = "on" /\ ~gate.closed /\ prepare = "none" /\ lock # "loop"
      /\ agenda.step = "none" /\ time.synced \in BOOLEAN
    BY DEF Inductive, TypeOK, TimeType, GateKnown, LoopKnown, PutKnown, LoopFinish
<1>2. CASE /\ lock = "free" /\ lock' = "loop" /\ pc' = "save" /\ agenda' = agenda
           /\ cand' = [rec |-> Finished, synced |-> time.synced]
  <2>1. cand' \in CandType /\ cand'.rec = Finished /\ cand'.synced = time.synced
    BY <1>1, <1>2, FinishedKnown DEF CandType
  <2>2. TypeOK'
    BY <1>1, <1>2, <2>1 DEF Inductive, TypeOK, LoopFinish, Pcs
  <2>3. GateKnown' /\ PutKnown'
    BY <1>1, <1>2 DEF Inductive, GateKnown, PutKnown, LoopFinish
  <2>4. LoopKnown' /\ CommitKnown'
    BY <1>1, <1>2 DEF Inductive, LoopKnown, CommitKnown, LoopFinish
  <2>5. RecordKnown' /\ SlotKnown'
    BY <1>1, <1>2, <2>1, FinishedKnown DEF Inductive, RecordKnown, AtLeast, SlotKnown,
       DueIsFresh, LoopFinish
  <2> QED BY <2>2, <2>3, <2>4, <2>5 DEF Inductive
<1>3. CASE agenda' = NoAgenda /\ pc' = "start" /\ UNCHANGED <<cand, lock>>
  <2>1. agenda' \in AgendaType /\ agenda'.step = "none"
    BY <1>3, SleepAssumption DEF NoAgenda, AgendaType, Steps
  <2>2. TypeOK'
    BY <1>1, <1>3, <2>1 DEF Inductive, TypeOK, LoopFinish, Pcs
  <2>3. GateKnown' /\ PutKnown'
    BY <1>1, <1>3 DEF Inductive, GateKnown, PutKnown, LoopFinish
  <2>4. LoopKnown' /\ CommitKnown'
    BY <1>1, <1>3, <2>1 DEF Inductive, LoopKnown, CommitKnown, LoopFinish
  <2>5. RecordKnown' /\ SlotKnown'
    BY <1>1, <1>3, <2>1 DEF Inductive, RecordKnown, AtLeast, SlotKnown, DueIsFresh, LoopFinish
  <2> QED BY <2>2, <2>3, <2>4, <2>5 DEF Inductive
<1> QED BY <1>2, <1>3 DEF LoopFinish, WriteLockFree

(* The plan after a saved agenda is typed, and ahead of the saved record. *)
LEMMA AdvancedTyped ==
    ASSUME Inductive, pc = "save", NEW d \in AdvancedDue
    PROVE  d \in DueType /\ (d.at # "none" => d.slot > cand.rec.slot)
<1>1. /\ cand.rec \in Record /\ cand.rec.slot \in -1..MaxSlot /\ time.synced \in BOOLEAN
      /\ due \in DueType /\ (due.at # "none" => due.slot > record.slot)
      /\ agenda.early \/ ~cand.synced => cand.rec = record
    BY DEF Inductive, TypeOK, CandType, Record, TimeType, RecordKnown, SlotKnown, DueIsFresh
<1>2. CASE d \in RebuiltDue(cand.rec, time.synced, FALSE)
    BY <1>1, <1>2, RebuiltTyped
<1>3. CASE d = due /\ agenda.early
    BY <1>1, <1>3
<1>4. CASE ~cand.synced /\ d \in {[due EXCEPT !.rel = r] : r \in Phases \ {"due"}}
    BY <1>1, <1>4 DEF DueType
<1>5. CASE d \in {[slot |-> s.slot, at |-> s.at, rel |-> due.rel] :
                    s \in NextSlot(cand.rec.slot, FALSE)}
  <2>1. PICK s \in NextSlot(cand.rec.slot, FALSE) :
            d = [slot |-> s.slot, at |-> s.at, rel |-> due.rel]
    BY <1>5
  <2>2. /\ s.at \in Phases
        /\ s.slot \in (cand.rec.slot + 1)..
                      (IF cand.rec.slot < MaxSlot THEN MaxSlot ELSE MaxSlot + 1)
    BY DEF NextSlot
  <2>3. s.slot \in Slots /\ s.slot > cand.rec.slot
    BY <1>1, <2>2, SleepAssumption DEF Slots
  <2> QED BY <1>1, <2>1, <2>2, <2>3 DEF DueType
<1> QED BY <1>2, <1>3, <1>4, <1>5 DEF AdvancedDue

(* The record is saved, and perhaps admission is about to close; or the save *)
(* failed, and flash holds the old record or the new one.                    *)
LEMMA LoopSaveKeeps ==
    ASSUME Inductive, LoopSave
    PROVE  Inductive'
<1>1. /\ pc = "save" /\ device = "on" /\ ~gate.closed /\ prepare = "none"
      /\ put.step # "locked" /\ cand.rec \in Record /\ record \in Record
    BY DEF Inductive, TypeOK, CandType, GateKnown, LoopKnown, PutKnown, LoopSave
<1>2. /\ agenda' \in AgendaType /\ agenda'.step = "none"
      /\ cand' \in CandType
    BY SleepAssumption DEF LoopSave, NoAgenda, NoCand, AgendaType, CandType, Steps, Record
<1>3. /\ pc' \in {"start", "close"}
      /\ lock' = IF pc' = "close" THEN "loop" ELSE "free"
    BY DEF LoopSave, TryPrepare
<1>4. /\ disk' \in DiskType /\ record' \in Record /\ due' \in DueType
      /\ due'.at # "none" => due'.slot > record'.slot
      /\ disk'.ok => disk'.rec = record'
      /\ AtLeast(disk'.rec, record')
      /\ record'.gen = record.gen /\ record'.on = record.on
      /\ pc' = "close" => disk'.rec = record'
  <2>1. CASE /\ disk' = [disk EXCEPT !.rec = cand.rec] /\ record' = cand.rec
             /\ due' \in AdvancedDue
    <3>1. due' \in DueType /\ (due'.at # "none" => due'.slot > cand.rec.slot)
      BY <1>1, <2>1, AdvancedTyped
    <3>2. disk' \in DiskType /\ disk'.rec = cand.rec
      BY <1>1, <2>1 DEF Inductive, TypeOK, DiskType
    <3>3. AtLeast(cand.rec, cand.rec)
      BY <1>1, SleepAssumption DEF AtLeast, Record
    <3> QED BY <1>1, <2>1, <3>1, <3>2, <3>3 DEF Inductive, RecordKnown
  <2>2. CASE /\ \E rec \in {disk.rec, cand.rec} : disk' = [rec |-> rec, ok |-> FALSE]
             /\ pc' = "start" /\ UNCHANGED <<record, due>>
    <3>1. PICK rec \in {disk.rec, cand.rec} : disk' = [rec |-> rec, ok |-> FALSE]
      BY <2>2
    <3>2. rec \in Record
      BY <1>1, <3>1 DEF Inductive, TypeOK, DiskType
    <3>3. AtLeast(rec, record)
      BY <1>1, <3>1, SleepAssumption DEF Inductive, RecordKnown, AtLeast, Record
    <3> QED BY <1>1, <2>2, <3>1, <3>2, <3>3 DEF Inductive, TypeOK, SlotKnown, DueIsFresh, DiskType
  <2> QED BY <2>1, <2>2 DEF LoopSave
<1>5. TypeOK'
    BY <1>2, <1>3, <1>4 DEF Inductive, TypeOK, LoopSave, Pcs
<1>6. GateKnown' /\ PutKnown'
    BY <1>1, <1>3, <1>4 DEF Inductive, GateKnown, PutKnown, LoopSave
<1>7. LoopKnown' /\ CommitKnown'
    BY <1>1, <1>2, <1>3 DEF Inductive, LoopKnown, CommitKnown, LoopSave
<1>8. RecordKnown' /\ SlotKnown'
    BY <1>1, <1>2, <1>3, <1>4 DEF Inductive, RecordKnown, SlotKnown, DueIsFresh, LoopSave
<1> QED BY <1>5, <1>6, <1>7, <1>8 DEF Inductive

-----------------------------------------------------------------------------
(* From closing admission to deep sleep.                                     *)

(* Giving back what was reserved, before and after an attempt. *)
LEMMA LoopRecoverKeeps ==
    ASSUME Inductive, LoopRecover
    PROVE  Inductive'
<1>1. /\ gate.closed /\ gate.leases = 0 /\ ~gate.timing /\ agenda.step = "none"
      /\ disk.rec = record \/ disk.rec.gen > record.gen
      /\ pc = "start" /\ lock # "loop" /\ hw \in HwType /\ (hw.pins => hw.held)
    BY DEF Inductive, TypeOK, GateKnown, LoopKnown, RecordKnown, PutKnown, LoopRecover
<1>2. Cancelled
    BY <1>1, CancelEffect DEF LoopRecover, Inductive
<1> QED BY <1>1, <1>2, CancelKeeps DEF LoopRecover

(* The critical section of beginPrepare: refused, or admission closes with   *)
(* flash and memory in agreement.                                            *)
LEMMA LoopCloseKeeps ==
    ASSUME Inductive, LoopClose
    PROVE  Inductive'
<1>1. /\ pc = "close" /\ device = "on" /\ ~gate.closed /\ gate.keep /\ ~gate.changed
      /\ prepare = "none" /\ hw = Whole /\ ~panel.asked /\ agenda.step = "none"
      /\ disk.rec = record \/ disk.rec.gen > record.gen
      /\ lock' = (IF lock = "loop" THEN "free" ELSE lock)
      /\ lock' \in {"free", "http"} /\ (lock' = "http" <=> lock = "http")
      /\ gate \in GateType /\ panel \in PanelType /\ hw \in HwType
    BY DEF Inductive, TypeOK, GateKnown, LoopKnown, RecordKnown, LoopClose
<1>2. CASE pc' = "start" /\ UNCHANGED <<gate, panel, prepare, request, late, hw, rtc>>
  <2>1. TypeOK' /\ GateKnown' /\ PutKnown'
    BY <1>1, <1>2 DEF Inductive, TypeOK, GateKnown, PutKnown, LoopClose, Pcs
  <2>2. LoopKnown' /\ CommitKnown'
    BY <1>1, <1>2 DEF Inductive, LoopKnown, CommitKnown, LoopClose
  <2>3. RecordKnown' /\ SlotKnown'
    BY <1>1, <1>2 DEF Inductive, RecordKnown, AtLeast, SlotKnown, DueIsFresh, LoopClose
  <2> QED BY <2>1, <2>2, <2>3 DEF Inductive
<1>3. CASE /\ gate.leases = 0 /\ ~gate.timing
           /\ gate' = [gate EXCEPT !.closed = TRUE, !.keep = TRUE, !.changed = FALSE]
           /\ panel' = [panel EXCEPT !.asked = TRUE]
           /\ prepare' = "epaper" /\ request' = FALSE /\ late' = FALSE
           /\ pc' = "start" /\ UNCHANGED <<hw, rtc>>
  <2>1. /\ gate' \in GateType /\ gate'.closed /\ gate'.leases = 0 /\ ~gate'.timing
        /\ panel' \in PanelType /\ panel'.asked
    BY <1>1, <1>3 DEF GateType, PanelType
  <2>2. TypeOK'
    BY <1>1, <1>3, <2>1 DEF Inductive, TypeOK, LoopClose, Pcs
  <2>3. GateKnown' /\ PutKnown'
    BY <1>1, <1>3, <2>1 DEF Inductive, GateKnown, PutKnown, LoopClose, Whole
  <2>4. LoopKnown' /\ CommitKnown'
    BY <1>1, <1>3, <2>1 DEF Inductive, LoopKnown, CommitKnown, LoopClose
  <2>5. RecordKnown' /\ SlotKnown'
    BY <1>1, <1>3 DEF Inductive, RecordKnown, AtLeast, SlotKnown, DueIsFresh, LoopClose
  <2> QED BY <2>2, <2>3, <2>4, <2>5 DEF Inductive
<1>4. CASE gate.leases = 0 /\ ~gate.timing /\ CancelPrepare(hw)
  <2>1. Cancelled
    BY <1>1, <1>4, CancelEffect DEF Inductive, Whole
  <2> QED BY <1>1, <1>4, <2>1, CancelKeeps DEF LoopClose
<1> QED BY <1>1, <1>2, <1>3, <1>4 DEF LoopClose, GateType

(* While the sleep is prepared nobody else is in: what CancelKeeps needs. *)
LEMMA PreparingKnown ==
    ASSUME Inductive, device = "on", prepare # "none", pc # "start"
    PROVE  /\ gate.closed /\ gate.leases = 0 /\ ~gate.timing /\ agenda.step = "none"
           /\ disk.rec = record \/ disk.rec.gen > record.gen
           /\ lock # "loop" /\ hw \in HwType /\ (hw.pins => hw.held)
           /\ hw = IF pc = "work" THEN Whole ELSE [Whole EXCEPT !.reserved = TRUE]
           /\ record.on /\ panel.asked
<1>1. gate.closed /\ gate.leases = 0 /\ ~gate.timing
    BY DEF Inductive, GateKnown
<1>2. pc \in {"work", "commit", "teardown"} /\ agenda.step = "none" /\ lock # "loop"
    BY <1>1 DEF Inductive, LoopKnown, PutKnown
<1>3. prepare \in {"epaper", "storage", "teardown"}
    BY DEF Inductive, TypeOK
<1> QED BY <1>1, <1>2, <1>3 DEF Inductive, TypeOK, GateKnown, LoopKnown, CommitKnown, RecordKnown

(* pollPrepare: the steps towards the commit, or back. *)
LEMMA LoopPrepareKeeps ==
    ASSUME Inductive, LoopPrepare
    PROVE  Inductive'
<1>1. /\ pc = "work" /\ device = "on" /\ prepare \in {"epaper", "storage"}
      /\ gate.closed /\ gate.leases = 0 /\ ~gate.timing /\ agenda.step = "none"
      /\ disk.rec = record \/ disk.rec.gen > record.gen
      /\ lock # "loop" /\ hw \in HwType /\ hw = Whole /\ record.on /\ panel.asked
      /\ prepare = "storage" => ~panel.busy
    BY PreparingKnown DEF Inductive, TypeOK, LoopKnown, LoopPrepare
<1>2. CASE CancelPrepare(hw) \/ CancelPrepare([hw EXCEPT !.reserved = TRUE])
  <2>1. /\ [hw EXCEPT !.reserved = TRUE] \in HwType
        /\ ~hw.pins /\ ~[hw EXCEPT !.reserved = TRUE].pins
    BY <1>1 DEF HwType, Whole
  <2>2. Cancelled
    BY <1>1, <1>2, <2>1, CancelEffect DEF Inductive
  <2> QED BY <1>1, <2>2, CancelKeeps DEF LoopPrepare
<1>3. CASE /\ pc' = "start" /\ UNCHANGED <<gate, panel, request, late, hw, rtc>>
           /\ prepare' = prepare \/ (prepare' = "storage" /\ ~panel.busy)
  <2>1. TypeOK' /\ GateKnown' /\ PutKnown'
    BY <1>1, <1>3 DEF Inductive, TypeOK, GateKnown, PutKnown, LoopPrepare, Pcs
  <2>2. LoopKnown' /\ CommitKnown'
    BY <1>1, <1>3 DEF Inductive, LoopKnown, CommitKnown, LoopPrepare
  <2>3. RecordKnown' /\ SlotKnown'
    BY <1>1, <1>3 DEF Inductive, RecordKnown, AtLeast, SlotKnown, DueIsFresh, LoopPrepare
  <2> QED BY <2>1, <2>2, <2>3 DEF Inductive
<1>4. CASE /\ hw' = [hw EXCEPT !.reserved = TRUE] /\ prepare' = "teardown" /\ pc' = "commit"
           /\ PlannedPhase(due, time.synced) \in {"early", "near"} /\ ~panel.busy
           /\ UNCHANGED <<gate, panel, request, late, rtc>>
  <2>1. hw' \in HwType /\ hw' = [Whole EXCEPT !.reserved = TRUE] /\ ~hw'.pins /\ ~hw'.broken
    BY <1>1, <1>4 DEF HwType, Whole
  <2>2. time.synced => due.at # "none"
    BY <1>4 DEF PlannedPhase
  <2>3. TypeOK'
    BY <1>1, <1>4, <2>1 DEF Inductive, TypeOK, LoopPrepare, Pcs
  <2>4. GateKnown' /\ PutKnown'
    BY <1>1, <1>4, <2>1 DEF Inductive, GateKnown, PutKnown, LoopPrepare
  <2>5. LoopKnown' /\ CommitKnown'
    BY <1>1, <1>4, <2>1, <2>2 DEF Inductive, LoopKnown, CommitKnown, LoopPrepare
  <2>6. RecordKnown' /\ SlotKnown'
    BY <1>1, <1>4 DEF Inductive, RecordKnown, AtLeast, SlotKnown, DueIsFresh, LoopPrepare
  <2> QED BY <2>3, <2>4, <2>5, <2>6 DEF Inductive
<1> QED BY <1>1, <1>2, <1>3, <1>4 DEF LoopPrepare, Ready

(* The final critical section: keep-awake is refused from here on. *)
LEMMA LoopCommitKeeps ==
    ASSUME Inductive, LoopCommit
    PROVE  Inductive'
<1>1. /\ pc = "commit" /\ device = "on" /\ prepare = "teardown"
      /\ gate.closed /\ gate.leases = 0 /\ ~gate.timing /\ agenda.step = "none"
      /\ disk.rec = record \/ disk.rec.gen > record.gen
      /\ lock # "loop" /\ hw \in HwType /\ (hw.pins => hw.held) /\ gate \in GateType
    BY PreparingKnown DEF Inductive, TypeOK, LoopKnown, LoopCommit
<1>2. CASE CancelPrepare(hw)
  <2>1. Cancelled
    BY <1>1, <1>2, CancelEffect DEF Inductive
  <2> QED BY <1>1, <2>1, CancelKeeps DEF LoopCommit
<1>3. CASE /\ Uncontested /\ gate' = [gate EXCEPT !.keep = FALSE] /\ pc' = "teardown"
           /\ UNCHANGED <<panel, prepare, request, late, hw, rtc>>
  <2>1. TypeOK'
    BY <1>1, <1>3 DEF Inductive, TypeOK, LoopCommit, GateType, Pcs
  <2>2. GateKnown' /\ PutKnown'
    BY <1>1, <1>3 DEF Inductive, GateKnown, CommitKnown, PutKnown, LoopCommit, GateType, Whole
  <2>3. LoopKnown' /\ CommitKnown'
    BY <1>1, <1>3 DEF Inductive, LoopKnown, CommitKnown, LoopCommit, Uncontested, GateType
  <2>4. RecordKnown' /\ SlotKnown'
    BY <1>1, <1>3 DEF Inductive, RecordKnown, AtLeast, SlotKnown, DueIsFresh, LoopCommit, GateType
  <2> QED BY <2>1, <2>2, <2>3, <2>4 DEF Inductive
<1> QED BY <1>2, <1>3 DEF LoopCommit

(* Teardown: a failing step is undone, and the last one is deep sleep. *)
LEMMA LoopTeardownKeeps ==
    ASSUME Inductive, LoopTeardown
    PROVE  Inductive'
<1>1. /\ pc = "teardown" /\ device = "on" /\ prepare = "teardown"
      /\ gate.closed /\ gate.leases = 0 /\ ~gate.timing /\ agenda.step = "none"
      /\ disk.rec = record \/ disk.rec.gen > record.gen
      /\ lock # "loop" /\ hw \in HwType /\ hw = [Whole EXCEPT !.reserved = TRUE]
    BY PreparingKnown DEF Inductive, TypeOK, LoopKnown, LoopTeardown
<1>2. \A h \in {hw, PinsHeld, [PinsHeld EXCEPT !.up = FALSE]} \cup PartlyHeld :
          h \in HwType /\ (h.pins => h.held)
  <2>1. PinsHeld \in HwType /\ PinsHeld.held /\ ~hw.pins
    BY <1>1 DEF HwType, Whole, PinsHeld, TimerArmed
  <2>2. [PinsHeld EXCEPT !.up = FALSE] \in HwType /\ [PinsHeld EXCEPT !.up = FALSE].held
    BY <2>1 DEF HwType
  <2>3. \A p \in BOOLEAN : [PinsHeld EXCEPT !.pins = p] \in HwType
                           /\ [PinsHeld EXCEPT !.pins = p].held
    BY <2>1 DEF HwType
  <2> QED BY <1>1, <2>1, <2>2, <2>3 DEF PartlyHeld
<1>3. CASE /\ \E h \in {hw, PinsHeld, [PinsHeld EXCEPT !.up = FALSE]} \cup PartlyHeld :
                  CancelPrepare(h)
           /\ UNCHANGED device
  <2>1. Cancelled
    BY <1>2, <1>3, CancelEffect DEF Inductive
  <2> QED BY <1>1, <1>3, <2>1, CancelKeeps DEF LoopTeardown
<1>4. CASE /\ device' = "asleep" /\ hw' = [PinsHeld EXCEPT !.up = FALSE]
           /\ \E capped \in BOOLEAN :
                rtc' = [intent |-> TRUE, gen |-> record.gen, synced |-> time.synced,
                        slot |-> IF time.synced THEN due.slot ELSE -1, capped |-> capped]
           /\ UNCHANGED <<gate, panel, prepare, request, late, pc>>
  <2>1. /\ hw' \in HwType
        /\ hw'.timer /\ hw'.pins /\ hw'.held /\ hw'.reserved /\ ~hw'.up /\ ~hw'.broken
    BY <1>1, <1>4 DEF HwType, Whole, PinsHeld, TimerArmed
  <2>2. /\ record.gen \in 0..MaxGen /\ due.slot \in Slots \cup {-1} /\ time.synced \in BOOLEAN
        /\ time.synced => due.slot > record.slot
    BY <1>1 DEF Inductive, TypeOK, Record, DueType, TimeType, CommitKnown, SlotKnown, DueIsFresh
  <2>3. /\ rtc' \in RtcType /\ rtc'.intent /\ rtc'.gen = record.gen
        /\ rtc'.synced => rtc'.slot > record.slot
    BY <1>4, <2>2 DEF RtcType
  <2>4. TypeOK'
    BY <1>1, <1>4, <2>1, <2>3 DEF Inductive, TypeOK, LoopTeardown
  <2>5. GateKnown' /\ PutKnown'
    BY <1>1, <1>4, <2>1 DEF Inductive, GateKnown, PutKnown, LoopTeardown
  <2>6. LoopKnown' /\ CommitKnown'
    BY <1>1, <1>4, <2>1, <2>3 DEF Inductive, LoopKnown, CommitKnown, LoopTeardown
  <2>7. RecordKnown' /\ SlotKnown'
    BY <1>1, <1>4 DEF Inductive, RecordKnown, AtLeast, SlotKnown, DueIsFresh, LoopTeardown
  <2> QED BY <2>4, <2>5, <2>6, <2>7 DEF Inductive
<1> QED BY <1>3, <1>4 DEF LoopTeardown

-----------------------------------------------------------------------------
(* Boots. *)

(* A boot takes over what flash holds; a wake cycle is one only if RTC       *)
(* memory and flash name the same schedule, so its plan is still fresh.      *)
LEMMA BootKeeps ==
    ASSUME Inductive, NEW wakes \in BOOLEAN, Boot(wakes),
           wakes => device = "asleep" /\ WakeCycleBoot
    PROVE  Inductive'
<1>1. /\ disk \in DiskType /\ disk.rec \in Record /\ rtc \in RtcType /\ acked \in AckedType
      /\ disk.rec.slot \in -1..MaxSlot /\ disk.rec.gen \in 0..MaxGen
      /\ wakes /\ rtc.synced => rtc.slot > disk.rec.slot
      /\ acked.gen <= disk.rec.gen /\ (acked.gen = disk.rec.gen => acked.on = disk.rec.on)
  <2>1. /\ disk \in DiskType /\ disk.rec \in Record /\ record \in Record
        /\ rtc \in RtcType /\ acked \in AckedType
    BY DEF Inductive, TypeOK, DiskType
  <2>2. wakes => disk.rec = record /\ (rtc.synced => rtc.slot > record.slot)
    <3>1. wakes => gate.closed /\ rtc.gen = disk.rec.gen /\ rtc.gen = record.gen
      BY DEF WakeCycleBoot, Inductive, CommitKnown, LoopKnown, GateKnown
    <3> QED BY <2>1, <3>1, SleepAssumption DEF Inductive, CommitKnown, RecordKnown, Record
  <2>3. acked.gen \in Nat /\ record.gen \in Nat /\ disk.rec.gen \in Nat
    BY <2>1, SleepAssumption DEF Record, AckedType
  <2> QED BY <2>1, <2>2, <2>3 DEF Inductive, RecordKnown, AtLeast, Record
<1>2. due' \in DueType /\ (due'.at # "none" => due'.slot > disk.rec.slot)
  <2>1. CASE due' \in RebuiltDue(disk.rec, FALSE, FALSE)
    BY <1>1, <2>1, RebuiltTyped
  <2>2. CASE wakes /\ rtc.synced
             /\ due' \in {[slot |-> rtc.slot, at |-> p, rel |-> "none"] : p \in Phases}
    BY <1>1, <2>2 DEF DueType, RtcType
  <2>3. CASE due' \in {[slot |-> -1, at |-> "none", rel |-> p] : p \in Phases}
    BY <2>3 DEF DueType
  <2> QED BY <2>1, <2>2, <2>3 DEF Boot
<1>3. /\ disk' \in DiskType /\ disk'.rec = disk.rec /\ record' = disk.rec
      /\ AtLeast(disk'.rec, record') /\ acked' = acked /\ device' = "on"
      /\ pc' = "start" /\ prepare' = "none" /\ agenda'.step = "none" /\ lock' = "free"
      /\ gate' = OpenGate /\ hw' = Whole /\ panel' = [busy |-> FALSE, asked |-> FALSE]
      /\ put' = NoPut /\ rtc' = NoPlan /\ ~rtc'.intent
  <2>1. disk' \in DiskType /\ disk'.rec = disk.rec
    BY <1>1 DEF Boot, DiskType
  <2>2. AtLeast(disk.rec, disk.rec)
    BY <1>1, SleepAssumption DEF AtLeast
  <2>3. agenda'.step = "none" /\ rtc' = NoPlan /\ ~rtc'.intent
    BY DEF Boot, NoAgenda, NoPlan
  <2> QED BY <2>1, <2>2, <2>3 DEF Boot
<1>4. TypeOK'
  <2>1. time' \in TimeType /\ idle' \in BOOLEAN
    BY <1>1 DEF Boot, TimeType, RtcType, Record
  <2>2. agenda' \in AgendaType /\ gate' \in GateType
    BY SleepAssumption DEF Boot, NoAgenda, OpenGate, AgendaType, GateType, Steps
  <2>3. cand' \in CandType /\ put' \in PutType
    BY SleepAssumption DEF Boot, NoCand, NoPut, CandType, PutType, PutKinds, Record
  <2>4. rtc' \in RtcType /\ hw' \in HwType /\ panel' \in PanelType
    BY SleepAssumption DEF Boot, NoPlan, Whole, RtcType, HwType, PanelType
  <2> QED BY <1>1, <1>2, <1>3, <2>1, <2>2, <2>3, <2>4 DEF TypeOK, Boot, Pcs
<1>5. GateKnown' /\ PutKnown'
    BY <1>3 DEF GateKnown, PutKnown, OpenGate, Whole, NoPut
<1>6. LoopKnown' /\ CommitKnown'
    BY <1>3 DEF LoopKnown, CommitKnown, OpenGate
<1>7. RecordKnown' /\ SlotKnown'
    BY <1>1, <1>2, <1>3 DEF RecordKnown, SlotKnown, DueIsFresh, OpenGate
<1> QED BY <1>4, <1>5, <1>6, <1>7 DEF Inductive

-----------------------------------------------------------------------------
(* The first boot satisfies the inductive invariant. *)
LEMMA InitHolds == Init => Inductive
<1> SUFFICES ASSUME Init PROVE Inductive
  OBVIOUS
<1>1. PICK on \in FirstOn :
        LET rec == [gen |-> IF on THEN 1 ELSE 0, on |-> on, slot |-> -1]
        IN  /\ disk = [rec |-> rec, ok |-> TRUE]
            /\ record = rec
            /\ due \in RebuiltDue(rec, FALSE, FALSE)
            /\ idle = on
            /\ acked = [gen |-> rec.gen, on |-> on]
    BY DEF Init
<1>2. on \in BOOLEAN
    BY SleepAssumption
<1>3. /\ record \in Record /\ record.slot = -1 /\ record.on = on /\ record.gen \in 0..MaxGen
      /\ disk = [rec |-> record, ok |-> TRUE]
      /\ acked = [gen |-> record.gen, on |-> record.on]
      /\ due \in RebuiltDue(record, FALSE, FALSE)
  <2> DEFINE rec == [gen |-> IF on THEN 1 ELSE 0, on |-> on, slot |-> -1]
  <2>1. /\ rec \in Record /\ rec.slot = -1 /\ rec.on = on /\ rec.gen \in 0..MaxGen
    BY <1>2, SleepAssumption DEF Record
  <2>2. /\ record = rec /\ disk = [rec |-> rec, ok |-> TRUE]
        /\ acked = [gen |-> rec.gen, on |-> on]
        /\ due \in RebuiltDue(rec, FALSE, FALSE)
    BY <1>1
  <2> HIDE DEF rec
  <2> QED BY <2>1, <2>2
<1>4. due \in DueType /\ (due.at # "none" => due.slot > record.slot)
    BY <1>3, RebuiltTyped
<1>5. /\ disk \in DiskType /\ disk.rec = record /\ acked \in AckedType
      /\ acked.gen = record.gen /\ acked.on = record.on
    BY <1>2, <1>3 DEF DiskType, AckedType, Record
<1>6. agenda \in AgendaType /\ gate \in GateType /\ agenda.step = "none"
    BY SleepAssumption DEF Init, NoAgenda, OpenGate, AgendaType, GateType, Steps
<1>7. cand \in CandType /\ put \in PutType
    BY SleepAssumption DEF Init, NoCand, NoPut, CandType, PutType, PutKinds, Record
<1>8. rtc \in RtcType /\ hw \in HwType /\ panel \in PanelType /\ ~rtc.intent
    BY SleepAssumption DEF Init, NoPlan, Whole, RtcType, HwType, PanelType
<1>9. TypeOK
    BY <1>1, <1>2, <1>3, <1>4, <1>5, <1>6, <1>7, <1>8 DEF TypeOK, Init, TimeType, Pcs
<1>10. GateKnown /\ PutKnown
    BY DEF Init, GateKnown, PutKnown, OpenGate, Whole, NoPut
<1>11. LoopKnown /\ CommitKnown
    BY <1>6, <1>8 DEF Init, LoopKnown, CommitKnown, OpenGate
<1>12. RecordKnown /\ SlotKnown
    BY <1>3, <1>4, <1>5, <1>6, SleepAssumption DEF Init, RecordKnown, SlotKnown, DueIsFresh,
       AtLeast, OpenGate
<1> QED BY <1>9, <1>10, <1>11, <1>12 DEF Inductive

(* Every step of every task preserves it. *)
LEMMA NextKeeps == Inductive /\ [Next]_vars => Inductive'
<1> SUFFICES ASSUME Inductive, [Next]_vars PROVE Inductive'
  OBVIOUS
<1>1. CASE Loop
  <2>1. CASE LoopRecover
    BY <2>1, LoopRecoverKeeps
  <2>2. CASE LoopGate
    BY <2>2, LoopGateKeeps
  <2>3. CASE LoopDecide \/ LoopBegin \/ LoopAgenda \/ LoopDraw
    BY <2>3, LoopDecideKeeps, LoopBeginKeeps, LoopAgendaKeeps, LoopDrawKeeps
  <2>4. CASE LoopFinish \/ LoopSave
    BY <2>4, LoopFinishKeeps, LoopSaveKeeps
  <2>5. CASE LoopClose \/ LoopPrepare \/ LoopCommit \/ LoopTeardown
    BY <2>5, LoopCloseKeeps, LoopPrepareKeeps, LoopCommitKeeps, LoopTeardownKeeps
  <2> QED BY <1>1, <2>1, <2>2, <2>3, <2>4, <2>5 DEF Loop, LoopWork
<1>2. CASE Http
    BY <1>2, ActivityKeeps, RequestNowKeeps, PutBeginKeeps, PutClockKeeps, PutLockKeeps,
       PutSaveKeeps DEF Http
<1>3. CASE PanelOperates \/ TimePasses \/ DeadlinePasses
    BY <1>3, PanelOperatesKeeps, TimePassesKeeps, DeadlinePassesKeeps
<1>4. CASE WakeByTimer \/ Reset
  <2>1. PICK wakes \in BOOLEAN : Boot(wakes) /\ (wakes => device = "asleep" /\ WakeCycleBoot)
    <3>1. WakeCycleBoot \in BOOLEAN
      BY DEF WakeCycleBoot, Inductive, TypeOK, DiskType, Record, RtcType
    <3>2. CASE WakeByTimer
      <4>1. PICK evidence \in BOOLEAN : Boot(evidence /\ WakeCycleBoot)
        BY <3>2 DEF WakeByTimer
      <4> QED BY <3>1, <3>2, <4>1 DEF WakeByTimer
    <3>3. CASE Reset
      BY <3>3 DEF Reset
    <3> QED BY <1>4, <3>2, <3>3
  <2> QED BY <2>1, BootKeeps
<1>5. CASE UNCHANGED vars
  <2>1. TypeOK' /\ GateKnown' /\ PutKnown'
    BY <1>5 DEF vars, Inductive, TypeOK, GateKnown, PutKnown
  <2>2. LoopKnown' /\ CommitKnown'
    BY <1>5 DEF vars, Inductive, LoopKnown, CommitKnown
  <2>3. RecordKnown' /\ SlotKnown'
    BY <1>5 DEF vars, Inductive, RecordKnown, AtLeast, SlotKnown, DueIsFresh
  <2> QED BY <2>1, <2>2, <2>3 DEF Inductive
<1> QED BY <1>1, <1>2, <1>3, <1>4, <1>5 DEF Next

(* What the loop, the gate, the write lock and the stored record know of     *)
(* each other holds in every state. *)
THEOREM Invariance == Spec => []Inductive
BY InitHolds, NextKeeps, PTL DEF Spec

(* Every variable stays in its range; in particular the number of leases     *)
(* counts the requests in progress.  (beginApiRequest, endApiRequest)        *)
THEOREM StaysTyped == Spec => []TypeOK
<1>1. Inductive => TypeOK
    BY DEF Inductive
<1> QED BY <1>1, Invariance, PTL

(* The device is in deep sleep only when nobody is using it, with the timer  *)
(* armed, the pins held, storage reserved and services down.  (pollPrepare)  *)
THEOREM QuietSleep == Spec => []SleepsQuiet
<1>1. Inductive => SleepsQuiet
  <2> SUFFICES ASSUME Inductive, device = "asleep" PROVE SleepsQuiet
    BY DEF SleepsQuiet
  <2>1. /\ pc = "teardown" /\ panel.asked /\ ~panel.busy /\ prepare = "teardown"
        /\ hw.timer /\ hw.pins /\ hw.reserved /\ ~hw.up
    BY DEF Inductive, CommitKnown, LoopKnown
  <2>2. gate.closed /\ gate.leases = 0 /\ ~gate.timing
    BY <2>1 DEF Inductive, GateKnown
  <2>3. agenda.step = "none" /\ put.step = "none" /\ lock = "free"
    BY <2>1, <2>2 DEF Inductive, TypeOK, GateKnown, LoopKnown, PutKnown
  <2> QED BY <2>1, <2>2, <2>3 DEF SleepsQuiet
<1> QED BY <1>1, Invariance, PTL

(* A keep-awake that was accepted is not slept over.  (keepAwake,            *)
(* pollPrepare)                                                              *)
THEOREM HonouredKeepAwake == Spec => []KeepAwakeHonoured
<1>1. Inductive => KeepAwakeHonoured
    BY DEF Inductive, CommitKnown, KeepAwakeHonoured
<1> QED BY <1>1, Invariance, PTL

(* While requests are admitted nothing of an abandoned sleep is left.        *)
(* (cancelPrepare)                                                           *)
THEOREM WholeWhenOpen == Spec => []OpenIsWhole
<1>1. Inductive => OpenIsWhole
    BY DEF Inductive, GateKnown, OpenIsWhole, Whole
<1> QED BY <1>1, Invariance, PTL

(* No agenda and no reset brings back a schedule older than the last one a   *)
(* PUT has acknowledged.  (update, finishAgenda)                             *)
THEOREM SurvivingAck == Spec => []AckedSurvives
<1>1. Inductive => AckedSurvives
  <2> SUFFICES ASSUME Inductive PROVE AckedSurvives
    OBVIOUS
  <2>1. acked.gen \in Nat /\ record.gen \in Nat /\ disk.rec.gen \in Nat
    BY SleepAssumption DEF Inductive, TypeOK, DiskType, Record, AckedType
  <2> QED BY <2>1 DEF AckedSurvives, Inductive, RecordKnown, AtLeast
<1> QED BY <1>1, Invariance, PTL

(* A planned slot is later than the last slot recorded as handled.  A slot   *)
(* that was drawn without being recorded may be planned again.  (nextSlot,   *)
(* rebuildDue, advancePast, finishAgenda)                                    *)
THEOREM FreshDue == Spec => []DueIsFresh
<1>1. Inductive => DueIsFresh
    BY DEF Inductive, SlotKnown
<1> QED BY <1>1, Invariance, PTL

(* What a step may leave in flash: what was there, or a later record.        *)
LEMMA DiskGrows ==
    ASSUME Inductive, Next
    PROVE  /\ disk'.rec.gen >= disk.rec.gen
           /\ disk'.rec.gen = disk.rec.gen => disk'.rec.slot >= disk.rec.slot
<1>1. /\ disk \in DiskType /\ disk.rec \in Record /\ record \in Record /\ cand.rec \in Record
      /\ disk.rec.gen \in Nat /\ record.gen \in Nat /\ disk.rec.slot \in Int
    BY SleepAssumption DEF Inductive, TypeOK, DiskType, CandType, Record
<1>2. CASE disk'.rec = disk.rec
    BY <1>1, <1>2
<1>3. CASE LoopSave
  <2>1. /\ cand.rec.gen = record.gen /\ cand.rec.slot >= record.slot
        /\ record.slot \in Int /\ cand.rec.slot \in Int
    BY <1>1, <1>3 DEF LoopSave, Inductive, RecordKnown, Record
  <2>2. \/ disk'.rec = disk.rec
        \/ disk.ok /\ disk'.rec = cand.rec
    <3>1. CASE disk.ok /\ disk' = [disk EXCEPT !.rec = cand.rec]
      BY <1>1, <3>1 DEF DiskType
    <3>2. CASE \E rec \in IF disk.ok THEN {disk.rec, cand.rec} ELSE {disk.rec} :
                 disk' = [rec |-> rec, ok |-> FALSE]
      BY <3>2
    <3> QED BY <1>3, <3>1, <3>2 DEF LoopSave
  <2> QED BY <1>1, <1>2, <2>1, <2>2 DEF Inductive, RecordKnown
<1>4. CASE PutSave
  <2>1. \/ disk'.rec = disk.rec
        \/ disk.ok /\ disk'.rec.gen = record.gen + 1
    <3>1. CASE PutSaved
      BY <1>1, <3>1 DEF PutSaved, DiskType
    <3>2. CASE PutNotSaved
      BY <1>1, <3>2 DEF PutNotSaved
    <3> QED BY <1>4, <3>1, <3>2 DEF PutSave
  <2> QED BY <1>1, <1>2, <2>1 DEF Inductive, RecordKnown
<1>5. CASE WakeByTimer \/ Reset
    BY <1>1, <1>2, <1>5 DEF WakeByTimer, Reset, Boot, DiskType
<1>6. CASE Loop /\ ~LoopSave
    BY <1>2, <1>6 DEF Loop, LoopWork, LoopRecover, LoopGate, LoopDecide, LoopBegin, LoopAgenda,
       LoopDraw, LoopFinish, LoopClose, LoopPrepare, LoopCommit, LoopTeardown
<1>7. CASE Http /\ ~PutSave
    BY <1>2, <1>7 DEF Http, Activity, RequestNow, PutBegin, PutClock, PutLock
<1>8. CASE PanelOperates \/ TimePasses \/ DeadlinePasses
    BY <1>2, <1>8 DEF PanelOperates, TimePasses, DeadlinePasses
<1> QED BY <1>3, <1>4, <1>5, <1>6, <1>7, <1>8 DEF Next

(* The durable record never goes back to an older schedule or an earlier     *)
(* slot.  (finishAgenda and update share writeMutex_)                        *)
THEOREM GrowingRecord == Spec => HandledOnlyGrows
<1>1. Inductive /\ [Next]_vars =>
        [/\ disk'.rec.gen >= disk.rec.gen
         /\ disk'.rec.gen = disk.rec.gen => disk'.rec.slot >= disk.rec.slot]_vars
    BY DiskGrows
<1> QED BY <1>1, Invariance, PTL DEF Spec, HandledOnlyGrows

(* If no save fails, flash is never out of step with memory. *)
LEMMA NoSaveFailsKeeps ==
    ASSUME Inductive, NoSaveFails, [Next]_vars, "save" \notin Faults
    PROVE  disk'.ok
<1>1. disk.ok /\ disk \in DiskType
    BY DEF NoSaveFails, Inductive, TypeOK
<1>2. CASE UNCHANGED disk
    BY <1>1, <1>2
<1>3. CASE LoopSave \/ PutSave
    BY <1>1, <1>3 DEF LoopSave, PutSave, PutSaved, PutNotSaved, DiskType
<1>4. CASE WakeByTimer \/ Reset
    BY <1>1, <1>4 DEF WakeByTimer, Reset, Boot, DiskType
<1>5. CASE Loop /\ ~LoopSave
    BY <1>2, <1>5 DEF Loop, LoopWork, LoopRecover, LoopGate, LoopDecide, LoopBegin, LoopAgenda,
       LoopDraw, LoopFinish, LoopClose, LoopPrepare, LoopCommit, LoopTeardown
<1>6. CASE Http /\ ~PutSave
    BY <1>2, <1>6 DEF Http, Activity, RequestNow, PutBegin, PutClock, PutLock
<1>7. CASE PanelOperates \/ TimePasses \/ DeadlinePasses
    BY <1>2, <1>7 DEF PanelOperates, TimePasses, DeadlinePasses
<1>8. CASE UNCHANGED vars
    BY <1>2, <1>8 DEF vars
<1> QED BY <1>3, <1>4, <1>5, <1>6, <1>7, <1>8 DEF Next

(* If no save fails, a device that went to sleep recognises the timer wake   *)
(* as its own.  Without the assumption a failed save can leave a schedule in *)
(* flash that memory does not know.  (pollPrepare seals, classifyWake)       *)
THEOREM RecognisedWake == "save" \notin Faults => (Spec => []WakeIsRecognised)
<1> SUFFICES ASSUME "save" \notin Faults PROVE Spec => []WakeIsRecognised
  OBVIOUS
<1>1. Init => NoSaveFails
    BY DEF Init, NoSaveFails
<1>2. Inductive /\ NoSaveFails /\ [Next]_vars => NoSaveFails'
    BY NoSaveFailsKeeps DEF NoSaveFails
<1>3. Inductive /\ NoSaveFails => WakeIsRecognised
    BY DEF Inductive, NoSaveFails, RecordKnown, CommitKnown, LoopKnown, WakeIsRecognised,
       WakeCycleBoot
<1> QED BY <1>1, <1>2, <1>3, Invariance, PTL DEF Spec
=============================================================================
