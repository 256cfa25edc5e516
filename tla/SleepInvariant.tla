--------------------------- MODULE SleepInvariant ---------------------------
(***************************************************************************)
(* The inductive invariant of SleepCoordinator: what the loop, the gate,   *)
(* the write lock and the stored record know of each other at every point  *)
(* where another task may act.                                             *)
(***************************************************************************)
EXTENDS SleepCoordinator

\* Admission: closed only without requests, open only with everything in place.
GateKnown ==
    /\ gate.closed => gate.leases = 0 /\ ~gate.timing
    /\ ~gate.closed => /\ gate.keep /\ ~gate.changed /\ prepare = "none"
                       /\ hw = Whole /\ ~panel.asked
    /\ gate.timing <=> put.step # "none"
    /\ gate.timing => gate.leases > 0
    /\ hw.broken => gate.closed /\ prepare = "none" /\ pc = "start"
    /\ hw.pins => hw.held

\* The PUT in progress, and who holds the write lock.
PutKnown ==
    /\ put.step # "none" /\ put.kind # "time" => record.gen < MaxGen
    /\ put.step \in {"ready", "locked"} => put.kind # "time"
    /\ lock = "http" <=> put.step = "locked"
    /\ lock = "loop" => pc \in {"save", "close"}
    /\ pc = "save" => lock = "loop"

\* The loop, the agenda and the prepare step.
LoopKnown ==
    /\ gate.closed => pc \in {"start", "work", "commit", "teardown"} /\ agenda.step = "none"
    /\ gate.closed /\ prepare = "none" => hw.broken
    /\ prepare \in {"epaper", "storage"} => hw = Whole /\ panel.asked /\ pc \in {"start", "work"}
    /\ prepare = "storage" => ~panel.busy
    /\ prepare = "teardown" <=> pc \in {"commit", "teardown"}
    /\ prepare # "none" /\ pc # "start" => record.on
    /\ pc \in {"begin", "finish", "save", "close"} => agenda.step = "none"
    /\ pc = "draw" => agenda.step \in {"none", "draw"}

\* From the reservation of the storage to the deep sleep.
CommitKnown ==
    /\ pc \in {"commit", "teardown"} =>
         /\ panel.asked /\ ~panel.busy
         /\ time.synced => due.at # "none"
         /\ device = "on" => hw = [Whole EXCEPT !.reserved = TRUE]
    /\ pc = "teardown" => ~gate.changed /\ ~gate.keep
    /\ device = "asleep" =>
         /\ pc = "teardown"
         /\ hw.timer /\ hw.pins /\ hw.reserved /\ ~hw.up
         /\ rtc.intent /\ rtc.gen = record.gen
         /\ rtc.synced => rtc.slot > record.slot
    /\ rtc.intent => device = "asleep"

\* a is at least as far as b: a later schedule, or the same one handled further.
AtLeast(a, b) == a.gen >= b.gen /\ (a.gen = b.gen => a.on = b.on /\ a.slot >= b.slot)

\* Flash, memory, and what finishAgenda is about to save.
RecordKnown ==
    /\ disk.ok => disk.rec = record
    /\ AtLeast(disk.rec, record)
    /\ gate.closed \/ pc = "close" => disk.rec = record \/ disk.rec.gen > record.gen
    /\ acked.gen <= record.gen
    /\ acked.gen = record.gen => acked.on = record.on
    /\ pc = "save" =>
         /\ cand.rec.gen = record.gen /\ cand.rec.on = record.on
         /\ cand.rec.slot >= record.slot
         /\ agenda.early \/ ~cand.synced => cand.rec = record

\* The planned slot.
SlotKnown ==
    /\ DueIsFresh
    /\ \/ agenda.step # "none" \/ pc \in {"begin", "draw"}
       \/ pc = "finish" /\ ~agenda.early
       => due.slot <= MaxSlot

Inductive == /\ TypeOK /\ GateKnown /\ PutKnown /\ LoopKnown /\ CommitKnown
             /\ RecordKnown /\ SlotKnown

\* Without failing saves flash and memory agree.
NoSaveFails == "save" \notin Faults => disk.ok
=============================================================================
