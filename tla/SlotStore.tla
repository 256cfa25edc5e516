------------------------------ MODULE SlotStore ------------------------------
(***************************************************************************)
(* The two records kept in a pair of NVS slots and a selector that names   *)
(* the active one: the device configuration (PreferencesConfigStore under  *)
(* ConfigService) and the display calibration                              *)
(* (PreferencesEpaperCalibrationStore under EpaperCalibrationService).     *)
(* Both write the spare slot, read it back and then switch the selector.   *)
(* They differ in what they do about read faults and unsupported schemas;  *)
(* "store" says which of the two a behaviour is about.                     *)
(*                                                                         *)
(* Each service runs its calls under one mutex, so one call is in progress *)
(* at a time; the device may be reset between any two steps.  Writes may   *)
(* fail with or without effect, reads as ReadFaults says.                  *)
(*                                                                         *)
(* A definition marked "variant" is a wrong version of the one after it;   *)
(* nothing uses it, except to see which property notices (README).         *)
(***************************************************************************)
CONSTANTS
    Values,         \* complete records that pass validation
    Default,        \* defaultDeviceConfig, EpaperCalibration::defaultProfile
    None,           \* no record
    ReadFaults      \* bound: which reads may fail while the device runs

Slots     == {"A", "B"}
NotValues == {"empty", "torn", "future"}

ASSUME ValuesAssumption ==
    /\ Default \in Values
    /\ Values \cap (NotValues \cup {"nothing", "erase", None}) = {}
    /\ None \notin {"nothing", "erase"}
    /\ ReadFaults \subseteq {"selector", "slot"}

VARIABLES
    store,      \* "config" or "calibration"
    slots,      \* content of the slots: a value; no schema marker ("empty"), a
                \* marker but bad fields ("torn"), a newer schema ("future")
    selector,   \* the active slot, "none" when the key is missing
    svc,        \* RAM of the service
    call        \* the call in progress and its step

vars == <<store, slots, selector, svc, call>>

Sources  == {"uninitialized", "persisted", "factory", "default", "recovery"}
Reasons  == {"none", "unsupported", "storage_error"}
ResetPcs == {"resetA", "resetB", "resetMeta"}
SavePcs  == {"write", "verify", "select"}
Idle     == [pc |-> "none", value |-> Default, target |-> "A"]
Off      == [phase |-> "off", active |-> Default, source |-> "uninitialized", reason |-> "none"]

(* The domains of all state.  What could be wrong: the slot a save writes,   *)
(* computed from the selector it read.                                       *)
TypeOK ==
    /\ store \in {"config", "calibration"}
    /\ slots \in [Slots -> Values \cup NotValues]
    /\ selector \in Slots \cup {"none"}
    /\ svc \in [phase: {"off", "starting", "up", "failed"}, active: Values,
                source: Sources, reason: Reasons]
    /\ call \in [pc: {"none"} \cup SavePcs \cup ResetPcs, value: Values, target: Slots]

\* A fresh device, or a calibration written by newer firmware and a downgrade.
Init ==
    /\ store \in {"config", "calibration"}
    /\ \/ slots = [s \in Slots |-> "empty"] /\ selector = "none"
       \/ /\ store = "calibration"
          /\ \E old \in Values \cup {"empty"} :
                slots = [s \in Slots |-> IF s = "B" THEN "future" ELSE old]
          /\ selector = "B"
    /\ svc = Off /\ call = Idle

-----------------------------------------------------------------------------
(* Reading.                                                                  *)

\* readActiveSlot, which may fail.
SelectorReads == {selector} \cup (IF "selector" \in ReadFaults THEN {"fault"} ELSE {})

\* What loadSlot makes of the slots when those in unread cannot be read.
Views ==
    {[s \in Slots |-> IF s \in unread THEN "torn" ELSE slots[s]] :
        unread \in IF "slot" \in ReadFaults THEN SUBSET Slots ELSE {{}}}

\* load() takes the selected slot, else the other one if it is valid; the
\* calibration store does not fall back from a newer schema.
NoFallback(sel, view) == store = "calibration" /\ sel \in Slots /\ view[sel] = "future"

Taken(sel, view) ==
    IF sel \in Slots /\ view[sel] \in Values THEN sel
    ELSE IF NoFallback(sel, view)  THEN "none"
    ELSE IF view["A"] \in Values   THEN "A"
    ELSE IF view["B"] \in Values   THEN "B" ELSE "none"

\* Why nothing was loaded.
Failure(sel, view) ==
    IF \E s \in Slots : view[s] = "future" THEN "unsupported"
    ELSE IF (\E s \in Slots : view[s] = "torn") \/ (store = "calibration" /\ sel = "fault")
    THEN "storage_error" ELSE "not_found"

-----------------------------------------------------------------------------
(* The services' begin(), update and reset.                                  *)

\* The inactive slot, or A when no slot is known to be active.
TargetActive(sel)  == IF sel = "B" THEN "B" ELSE "A"                                \* variant
Target(sel)        == IF sel = "A" THEN "B" ELSE "A"

Saving(value, sel) == call' = [pc |-> "write", value |-> value, target |-> Target(sel)]

\* A valid record is adopted; when it is not the selected one, load() tries to
\* point the selector at it and ignores the result.
BootLoaded(sel, view) ==
    /\ Taken(sel, view) \in Slots
    /\ svc' = [phase |-> "up", active |-> view[Taken(sel, view)],
               source |-> "persisted", reason |-> "none"]
    /\ selector' \in {selector, Taken(sel, view)}
    /\ sel = Taken(sel, view) => UNCHANGED selector
    /\ UNCHANGED call

\* Otherwise the defaults serve.  Only the configuration of an empty store is
\* written; what cannot be read is preserved.
BootDefaults(sel, view) ==
    /\ Taken(sel, view) = "none"
    /\ LET why == Failure(sel, view)
       IN IF why # "not_found"
          THEN /\ svc' = [Off EXCEPT !.phase = "up", !.source = "recovery", !.reason = why]
               /\ UNCHANGED call
          ELSE IF store = "calibration"
          THEN svc' = [Off EXCEPT !.phase = "up", !.source = "default"] /\ UNCHANGED call
          ELSE /\ svc' = [Off EXCEPT !.phase = "starting"]
               /\ \E again \in SelectorReads : Saving(Default, again)
    /\ UNCHANGED selector

Boot ==
    /\ svc.phase = "off"
    /\ \E sel \in SelectorReads, view \in Views : BootLoaded(sel, view) \/ BootDefaults(sel, view)
    /\ UNCHANGED <<store, slots>>

\* A reset of the device, at any step of a call.
Crash ==
    /\ svc.phase # "off"
    /\ svc' = Off /\ call' = Idle
    /\ UNCHANGED <<store, slots, selector>>

\* The calibration keeps an unsupported record until it is reset, and does not
\* save when its selector cannot be read.
Refuses(sel) == store = "calibration" /\ (svc.reason = "unsupported" \/ sel = "fault")

Update(value) ==
    /\ svc.phase = "up" /\ call = Idle
    /\ \E sel \in SelectorReads : ~Refuses(sel) /\ Saving(value, sel)
    /\ UNCHANGED <<store, slots, selector, svc>>

\* The call returns an error; a failed first save stops begin().
Failed ==
    /\ call' = Idle
    /\ svc' = [svc EXCEPT !.phase = IF @ = "starting" THEN "failed" ELSE @]

\* Content left by clearing a slot and writing its fields, then its schema
\* marker, when some write fails.
Partial(old, value) == {old, "empty", value} \cup (IF old = "empty" THEN {} ELSE {"torn"})

\* writeSlot.  A write that reports success may have stored something else.
WriteSlot ==
    /\ call.pc = "write"
    /\ \/ /\ \E content \in {call.value, "torn"} : slots' = [slots EXCEPT ![call.target] = content]
          /\ call' = [call EXCEPT !.pc = "verify"]
          /\ UNCHANGED svc
       \/ /\ \E content \in Partial(slots[call.target], call.value) :
                slots' = [slots EXCEPT ![call.target] = content]
          /\ Failed
    /\ UNCHANGED <<store, selector>>

\* The slot is loaded again and compared.
VerifySkipped ==              \* variant: the result is not compared
    /\ call.pc = "verify"
    /\ call' = [call EXCEPT !.pc = "select"]
    /\ UNCHANGED <<store, slots, selector, svc>>

Verify ==
    /\ call.pc = "verify"
    /\ \/ /\ slots[call.target] = call.value
          /\ call' = [call EXCEPT !.pc = "select"]
          /\ UNCHANGED svc
       \/ Failed
    /\ UNCHANGED <<store, slots, selector>>

\* writeActiveSlot, and on success the service publishes the value.
Select ==
    /\ call.pc = "select"
    /\ \/ /\ selector' = call.target
          /\ call' = Idle
          /\ svc' = IF store = "calibration"
                    THEN [phase |-> "up", active |-> call.value,
                          source |-> "persisted", reason |-> "none"]
                    ELSE [svc EXCEPT !.phase = "up", !.active = call.value,
                                     !.source = IF svc.phase = "starting" THEN "factory" ELSE @]
       \/ selector' \in {selector, call.target} /\ Failed
    /\ UNCHANGED <<store, slots>>

\* Only the calibration can be reset: both slots are cleared, then the selector.
Reset ==
    /\ store = "calibration" /\ svc.phase = "up" /\ call = Idle
    /\ call' = [call EXCEPT !.pc = "resetA"]
    /\ UNCHANGED <<store, slots, selector, svc>>

ResetSlot(s, from, to) ==
    /\ call.pc = from
    /\ \/ /\ slots' = [slots EXCEPT ![s] = "empty"]
          /\ call' = [call EXCEPT !.pc = to]
          /\ UNCHANGED svc
       \/ /\ \E content \in Partial(slots[s], "empty") : slots' = [slots EXCEPT ![s] = content]
          /\ Failed
    /\ UNCHANGED <<store, selector>>

ResetMeta ==
    /\ call.pc = "resetMeta"
    /\ \/ /\ selector' = "none"
          /\ call' = Idle
          /\ svc' = [Off EXCEPT !.phase = "up", !.source = "default"]
       \/ selector' \in {selector, "none"} /\ Failed
    /\ UNCHANGED <<store, slots>>

Next ==
    \/ Boot \/ Crash
    \/ \E value \in Values : Update(value)
    \/ WriteSlot \/ Verify \/ Select
    \/ Reset \/ ResetSlot("A", "resetA", "resetB") \/ ResetSlot("B", "resetB", "resetMeta")
    \/ ResetMeta

Spec == Init /\ [][Next]_vars

-----------------------------------------------------------------------------
\* What the next boot loads when it can read everything.
Loads ==
    LET slot == Taken(selector, slots) IN IF slot \in Slots THEN slots[slot] ELSE None

Settled == selector \in Slots /\ slots[selector] \in Values \cup {"future"}

Doing ==
    IF call.pc \in SavePcs THEN call.value
    ELSE IF call.pc \in ResetPcs THEN "erase" ELSE "nothing"

Durable == INSTANCE DurableRecord WITH record <- Loads, settled <- Settled, doing <- Doing

(* The stores implement a durable record: torn writes, failed verifications  *)
(* and resets at any step leave the committed record or the new one.         *)
RecordSpec == Durable!Spec

(* An update that reports success is what the next boot loads.               *)
Acknowledged ==
    [][call.pc \in SavePcs /\ svc'.phase = "up" /\ svc'.active # svc.active
          => Loads' = svc'.active]_vars

(* An unsupported calibration stays selected until somebody resets it: no    *)
(* boot falls back from it and no update overwrites it                       *)
(* (docs/SPEC_TECHNICAL.md:140).                                             *)
UnsupportedKept ==
    [][NoFallback(selector, slots) /\ call.pc \notin ResetPcs
          => selector' = selector /\ slots'[selector] = "future"]_vars

(* Contradicted by the code when the selector cannot be read.  A save writes *)
(* the inactive slot (docs/SPEC_TECHNICAL.md:168), so that a failure leaves  *)
(* the active configuration.                                                 *)
ActiveSpared == call.pc = "write" => call.target # selector
=============================================================================
