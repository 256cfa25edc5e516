--------------------------- MODULE SlotStoreProofs ---------------------------
(***************************************************************************)
(* Theorems about SlotStore, for every set of values.  Where reads succeed *)
(* the argument is: a save writes the slot the selector does not name, so  *)
(* a settled record is untouched until the selector moves, and it moves    *)
(* only to a slot that was read back.                                      *)
(***************************************************************************)
EXTENDS SlotStore, TLAPS

\* A call runs in a started service; a save keeps its target, and selects only
\* what it has verified.
CallKnown ==
    /\ svc.phase \in {"off", "failed"} => call.pc = "none"
    /\ call.pc = "none" => call = Idle
    /\ call.pc \in SavePcs => call.target = Target(selector)
    /\ call.pc = "select" => slots[call.target] = call.value
    /\ call.pc \in ResetPcs => store = "calibration"

\* Only the calibration meets a newer schema; without a selector nothing but
\* slot A was ever written; a reset empties the slots in order.
SlotsKnown ==
    /\ store = "config" => \A s \in Slots : slots[s] # "future"
    /\ selector = "none" => slots["B"] = "empty"
    /\ call.pc = "resetB" => slots["A"] = "empty"
    /\ call.pc = "resetMeta" => \A s \in Slots : slots[s] = "empty"

\* A service that runs on an unsupported record knows it.
UnsupportedKnown ==
    NoFallback(selector, slots) /\ svc.phase = "up" => svc.reason = "unsupported"

NoSaveKnown ==
    NoFallback(selector, slots) => call.pc \notin SavePcs

Inv == TypeOK /\ CallKnown /\ SlotsKnown /\ UnsupportedKnown /\ NoSaveKnown
-----------------------------------------------------------------------------
(* Type correctness, one lemma per action.                                   *)

LEMMA InitType == Init => TypeOK
<1> SUFFICES ASSUME Init PROVE TypeOK
  OBVIOUS
<1> USE ValuesAssumption DEF TypeOK, Slots, NotValues, Sources, Reasons, SavePcs, ResetPcs
<1>1. slots \in [Slots -> Values \cup NotValues] /\ selector \in Slots \cup {"none"}
  BY DEF Init
<1>2. store \in {"config", "calibration"} /\ svc = Off /\ call = Idle
  BY DEF Init
<1> QED BY <1>1, <1>2 DEF Off, Idle

LEMMA BootType == TypeOK /\ Boot => TypeOK'
<1> SUFFICES ASSUME TypeOK, Boot PROVE TypeOK'
  OBVIOUS
<1> USE ValuesAssumption DEF TypeOK, Slots, NotValues, Sources, Reasons, SavePcs, ResetPcs
<1>1. PICK sel \in SelectorReads, view \in Views :
          BootLoaded(sel, view) \/ BootDefaults(sel, view)
  BY DEF Boot
<1>2. view \in [Slots -> Values \cup NotValues]
  BY DEF Views
<1>3. UNCHANGED <<store, slots>>
  BY DEF Boot
<1>4. CASE BootLoaded(sel, view)
  <2>1. Taken(sel, view) \in Slots /\ view[Taken(sel, view)] \in Values
    BY <1>2, <1>4 DEF BootLoaded, Taken
  <2> QED BY <1>3, <1>4, <2>1 DEF BootLoaded
<1>5. CASE BootDefaults(sel, view)
  <2>1. Failure(sel, view) \in {"unsupported", "storage_error", "not_found"}
    BY DEF Failure
  <2>2. svc' \in [phase: {"off", "starting", "up", "failed"}, active: Values,
                  source: Sources, reason: Reasons]
    <3> DEFINE why == Failure(sel, view)
    <3>1. why \in {"unsupported", "storage_error", "not_found"}
      BY <2>1
    <3> HIDE DEF why
    <3>2. CASE why # "not_found"
      BY <1>5, <3>1, <3>2 DEF BootDefaults, Off, why
    <3>3. CASE why = "not_found"
      BY <1>5, <3>3 DEF BootDefaults, Off, why
    <3> QED BY <3>2, <3>3
  <2>3. call' \in [pc: {"none"} \cup SavePcs \cup ResetPcs, value: Values, target: Slots]
    BY <1>5 DEF BootDefaults, Saving, Target
  <2>4. UNCHANGED selector
    BY <1>5 DEF BootDefaults
  <2> QED BY <1>3, <2>2, <2>3, <2>4
<1> QED BY <1>1, <1>4, <1>5

LEMMA TypeStep == TypeOK /\ [Next]_vars => TypeOK'
<1> SUFFICES ASSUME TypeOK, [Next]_vars PROVE TypeOK'
  OBVIOUS
<1> USE ValuesAssumption DEF TypeOK, Slots, NotValues, Sources, Reasons, SavePcs, ResetPcs
<1>1. CASE Boot
  BY <1>1, BootType
<1>2. CASE Crash
  BY <1>2 DEF Crash, Off, Idle
<1>3. ASSUME NEW value \in Values, Update(value) PROVE TypeOK'
  BY <1>3 DEF Update, Saving, Target
<1>4. CASE WriteSlot
  BY <1>4 DEF WriteSlot, Partial, Failed, Idle
<1>5. CASE Verify
  BY <1>5 DEF Verify, Failed, Idle
<1>6. CASE Select
  <2>1. CASE Failed
    BY <1>6, <2>1 DEF Select, Failed, Idle
  <2>2. CASE ~Failed /\ store = "calibration"
    BY <1>6, <2>2 DEF Select, Idle
  <2>3. CASE ~Failed /\ store # "calibration"
    <3>1. /\ selector' = call.target /\ call' = Idle /\ UNCHANGED <<store, slots>>
          /\ svc' = [svc EXCEPT !.phase = "up", !.active = call.value,
                                !.source = IF svc.phase = "starting" THEN "factory" ELSE @]
      BY <1>6, <2>3 DEF Select
    <3>2. CASE svc.phase = "starting"
      BY <3>1, <3>2 DEF Idle
    <3>3. CASE svc.phase # "starting"
      BY <3>1, <3>3 DEF Idle
    <3> QED BY <3>2, <3>3
  <2> QED BY <2>1, <2>2, <2>3
<1>7. CASE Reset
  BY <1>7 DEF Reset
<1>8. CASE ResetSlot("A", "resetA", "resetB")
  BY <1>8 DEF ResetSlot, Partial, Failed, Idle
<1>9. CASE ResetSlot("B", "resetB", "resetMeta")
  BY <1>9 DEF ResetSlot, Partial, Failed, Idle
<1>10. CASE ResetMeta
  <2>1. CASE Failed
    BY <1>10, <2>1 DEF ResetMeta, Failed, Idle
  <2>2. CASE ~Failed
    <3>1. /\ selector' = "none" /\ call' = Idle /\ UNCHANGED <<store, slots>>
          /\ svc' = [Off EXCEPT !.phase = "up", !.source = "default"]
      BY <1>10, <2>2 DEF ResetMeta
    <3> QED BY <3>1 DEF Idle, Off
  <2> QED BY <2>1, <2>2
<1>11. CASE UNCHANGED vars
  BY <1>11 DEF vars
<1> QED BY <1>1, <1>2, <1>3, <1>4, <1>5, <1>6, <1>7, <1>8, <1>9, <1>10, <1>11 DEF Next

(* The declared domains hold in every reachable state, whatever reads fail.  *)
THEOREM TypeCorrect == Spec => []TypeOK
BY InitType, TypeStep, PTL DEF Spec

-----------------------------------------------------------------------------
(* The inductive invariant, where reads succeed.                             *)

LEMMA InvInit == Init => Inv
<1> SUFFICES ASSUME Init PROVE Inv
  OBVIOUS
<1>1. TypeOK /\ svc.phase = "off" /\ call = Idle /\ call.pc = "none"
  BY InitType DEF Init, Off, Idle
<1>2. SlotsKnown
  BY <1>1 DEF Init, SlotsKnown, Slots
<1>3. CallKnown /\ UnsupportedKnown /\ NoSaveKnown
  BY <1>1 DEF CallKnown, UnsupportedKnown, NoSaveKnown, SavePcs, ResetPcs
<1> QED BY <1>1, <1>2, <1>3 DEF Inv

LEMMA InvStep == ASSUME ReadFaults = {}, Inv, [Next]_vars PROVE Inv'
<1> USE ValuesAssumption DEF Slots, NotValues, SavePcs, ResetPcs, CallKnown, SlotsKnown,
        UnsupportedKnown, NoSaveKnown, NoFallback
<1>1. TypeOK /\ CallKnown /\ SlotsKnown /\ UnsupportedKnown /\ NoSaveKnown
  BY DEF Inv
<1>2. TypeOK'
  BY <1>1, TypeStep
<1>3. SelectorReads = {selector} /\ Views = {slots}
  <2>1. slots = [s \in Slots |-> slots[s]]
    BY <1>1 DEF TypeOK
  <2> QED BY <2>1 DEF SelectorReads, Views
<1>4. CASE Boot
  <2>1. BootLoaded(selector, slots) \/ BootDefaults(selector, slots)
    BY <1>3, <1>4 DEF Boot
  <2>2. svc.phase = "off" /\ call = Idle /\ call.pc = "none" /\ UNCHANGED <<store, slots>>
    BY <1>1, <1>4 DEF Boot
  <2>3. CASE BootLoaded(selector, slots)
    <3>1. /\ Taken(selector, slots) \in Slots /\ slots[Taken(selector, slots)] \in Values
          /\ ~NoFallback(selector, slots)
      BY <1>1, <2>3 DEF BootLoaded, Taken, TypeOK
    <3>2. svc'.phase = "up" /\ call' = call /\ selector' \in {selector, Taken(selector, slots)}
      BY <2>3 DEF BootLoaded
    <3>3. ~NoFallback(selector, slots)'
      BY <1>1, <2>2, <3>1, <3>2 DEF TypeOK
    <3> QED BY <1>1, <1>2, <2>2, <3>1, <3>2, <3>3 DEF Inv, TypeOK
  <2>4. CASE BootDefaults(selector, slots)
    <3>1. Taken(selector, slots) = "none" /\ UNCHANGED selector
      BY <2>4 DEF BootDefaults
    <3>2. CASE Failure(selector, slots) # "not_found"
      <4>1. /\ svc'.phase = "up" /\ call' = call
            /\ svc'.reason = Failure(selector, slots)
        BY <2>4, <3>2 DEF BootDefaults, Off
      <4>2. NoFallback(selector, slots) => Failure(selector, slots) = "unsupported"
        BY DEF Failure
      <4> QED BY <1>1, <1>2, <2>2, <3>1, <4>1, <4>2 DEF Inv
    <3>3. CASE Failure(selector, slots) = "not_found"
      <4>1. ~NoFallback(selector, slots)
        BY <3>3 DEF Failure
      <4>2. svc'.phase \in {"up", "starting"}
        BY <2>4, <3>3 DEF BootDefaults, Off
      <4>3. call' = call \/ Saving(Default, selector)
        BY <1>3, <2>4, <3>3 DEF BootDefaults
      <4>4. CASE call' = call
        BY <1>1, <1>2, <2>2, <3>1, <4>1, <4>2, <4>4 DEF Inv
      <4>5. CASE Saving(Default, selector)
        <5>1. call'.pc = "write" /\ call'.target = Target(selector)
          BY <4>5 DEF Saving
        <5> QED BY <1>1, <1>2, <2>2, <3>1, <4>1, <4>2, <5>1 DEF Inv, Target
      <4> QED BY <4>3, <4>4, <4>5
    <3> QED BY <3>2, <3>3
  <2> QED BY <2>1, <2>3, <2>4
<1>5. CASE Crash
  <2>1. svc'.phase = "off" /\ call' = Idle /\ call'.pc = "none" /\ UNCHANGED <<store, slots, selector>>
    BY <1>5 DEF Crash, Off, Idle
  <2> QED BY <1>1, <1>2, <2>1 DEF Inv
<1>6. ASSUME NEW value \in Values, Update(value) PROVE Inv'
  <2>1. /\ ~Refuses(selector) /\ svc.phase = "up" /\ UNCHANGED <<store, slots, selector, svc>>
        /\ call'.pc = "write" /\ call'.target = Target(selector)
    BY <1>3, <1>6 DEF Update, Saving
  <2>2. ~NoFallback(selector, slots)
    BY <1>1, <2>1 DEF Refuses
  <2> QED BY <1>1, <1>2, <2>1, <2>2 DEF Inv, Target
\* A call that fails leaves an idle service of the same reason.
<1>7. ASSUME Failed, call.pc # "none"
      PROVE  call' = Idle /\ call'.pc = "none" /\ svc'.reason = svc.reason
             /\ (svc'.phase = svc.phase \/ svc'.phase = "failed")
  BY <1>1, <1>7 DEF Failed, Idle, TypeOK
<1>8. CASE WriteSlot
  <2>1. /\ call.pc = "write" /\ UNCHANGED <<store, selector>>
        /\ \A s \in Slots : s # call.target => slots'[s] = slots[s]
        /\ slots'[call.target] \in {slots[call.target], call.value, "empty", "torn"}
    BY <1>1, <1>8 DEF WriteSlot, Partial, TypeOK
  <2>2. selector = "none" => call.target = "A"
    BY <1>1, <2>1 DEF Target
  <2>3. call.target \in Slots /\ call.value \in Values
    BY <1>1 DEF TypeOK
  <2>4. store' = "config" => \A s \in Slots : slots'[s] # "future"
    BY <1>1, <2>1, <2>3
  <2>5. ~NoFallback(selector, slots) /\ selector # call.target
    BY <1>1, <2>1 DEF Target
  <2>6. ~NoFallback(selector, slots)'
    BY <1>1, <2>1, <2>5 DEF TypeOK
  <2>7. CASE Failed
    BY <1>1, <1>2, <1>7, <2>1, <2>2, <2>4, <2>6, <2>7 DEF Inv
  <2>8. CASE ~Failed
    <3>1. call' = [call EXCEPT !.pc = "verify"] /\ UNCHANGED svc
      BY <1>8, <2>8 DEF WriteSlot
    <3>2. call'.pc = "verify" /\ call'.target = call.target
      BY <1>1, <3>1 DEF TypeOK
    <3> QED BY <1>1, <1>2, <2>1, <2>2, <2>4, <2>6, <3>1, <3>2 DEF Inv
  <2> QED BY <2>7, <2>8
<1>9. CASE Verify
  <2>1. call.pc = "verify" /\ UNCHANGED <<store, slots, selector>>
    BY <1>9 DEF Verify
  <2>2. CASE Failed
    BY <1>1, <1>2, <1>7, <2>1, <2>2 DEF Inv
  <2>3. CASE ~Failed
    <3>1. /\ slots[call.target] = call.value /\ UNCHANGED svc
          /\ call'.pc = "select" /\ call'.target = call.target /\ call'.value = call.value
      BY <1>1, <1>9, <2>3 DEF Verify, TypeOK
    <3> QED BY <1>1, <1>2, <2>1, <3>1 DEF Inv
  <2> QED BY <2>2, <2>3
<1>10. CASE Select
  <2>1. /\ call.pc = "select" /\ UNCHANGED <<store, slots>>
        /\ selector' \in {selector, call.target} /\ call' = Idle /\ call'.pc = "none"
    BY <1>10 DEF Select, Failed, Idle
  <2>2. ~NoFallback(selector, slots) /\ slots[call.target] \in Values /\ call.target \in Slots
    BY <1>1, <2>1 DEF TypeOK
  <2>3. ~NoFallback(selector, slots)'
    BY <2>1, <2>2
  <2> QED BY <1>1, <1>2, <2>1, <2>2, <2>3 DEF Inv
<1>11. CASE Reset
  <2>1. /\ UNCHANGED <<store, slots, selector, svc>> /\ call'.pc = "resetA"
        /\ store = "calibration" /\ svc.phase = "up"
    BY <1>1, <1>11 DEF Reset, TypeOK
  <2> QED BY <1>1, <1>2, <2>1 DEF Inv
<1>12. ASSUME NEW s \in Slots, NEW from, NEW to, ResetSlot(s, from, to),
              <<s, from, to>> \in {<<"A", "resetA", "resetB">>, <<"B", "resetB", "resetMeta">>}
       PROVE  Inv'
  <2>1. /\ call.pc = from /\ UNCHANGED <<store, selector>> /\ store = "calibration"
        /\ \A o \in Slots : o # s => slots'[o] = slots[o]
        /\ slots'[s] \in {slots[s], "empty", "torn"}
        /\ slots[s] = "empty" => slots'[s] = "empty"
    BY <1>1, <1>12 DEF ResetSlot, Partial, TypeOK
  <2>2. NoFallback(selector, slots)' => NoFallback(selector, slots)
    BY <1>1, <2>1 DEF TypeOK
  <2>3. selector' = "none" => slots'["B"] = "empty"
    BY <1>1, <2>1
  <2>4. CASE Failed
    <3>1. call.pc # "none" /\ call.pc \notin SavePcs
      BY <1>12, <2>1
    <3>2. call' = Idle /\ call'.pc = "none" /\ svc'.reason = svc.reason
          /\ (svc'.phase = svc.phase \/ svc'.phase = "failed")
      BY <1>7, <2>4, <3>1
    <3>3. CallKnown' /\ UnsupportedKnown' /\ NoSaveKnown'
      BY <1>1, <2>1, <2>2, <3>1, <3>2
    <3>4. SlotsKnown'
      BY <1>1, <2>1, <2>3, <3>2
    <3> QED BY <1>2, <3>3, <3>4 DEF Inv
  <2>5. CASE ~Failed
    <3>1. slots'[s] = "empty" /\ call'.pc = to /\ UNCHANGED svc
      BY <1>1, <1>12, <2>5 DEF ResetSlot, TypeOK
    <3> QED BY <1>1, <1>2, <1>12, <2>1, <2>2, <2>3, <3>1 DEF Inv
  <2> QED BY <2>4, <2>5
<1>13. CASE ResetMeta
  <2>1. /\ call.pc = "resetMeta" /\ UNCHANGED <<store, slots>> /\ store = "calibration"
        /\ \A s \in Slots : slots[s] = "empty"
        /\ call' = Idle /\ call'.pc = "none" /\ selector' \in {selector, "none"}
    BY <1>1, <1>13 DEF ResetMeta, Failed, Idle
  <2>2. ~NoFallback(selector, slots)'
    BY <2>1
  <2> QED BY <1>1, <1>2, <2>1, <2>2 DEF Inv
<1>14. CASE UNCHANGED vars
  BY <1>1, <1>2, <1>14 DEF Inv, vars
<1> QED
  BY <1>4, <1>5, <1>6, <1>8, <1>9, <1>10, <1>11, <1>12, <1>13, <1>14 DEF Next

LEMMA Invariant == ASSUME ReadFaults = {} PROVE Spec => []Inv
<1>1. Inv /\ [Next]_vars => Inv'
  BY InvStep
<1> QED BY InvInit, <1>1, PTL DEF Spec
-----------------------------------------------------------------------------
(* What the theorems say.                                                    *)

(* Where reads succeed, an unsupported calibration stays selected until a    *)
(* reset, whatever is written and whenever the device stops.                 *)
THEOREM UnsupportedSurvives == ASSUME ReadFaults = {} PROVE Spec => UnsupportedKept
<1> DEFINE Kept == NoFallback(selector, slots) /\ call.pc \notin ResetPcs
                      => selector' = selector /\ slots'[selector] = "future"
<1>1. ASSUME Inv, [Next]_vars PROVE Kept
  <2> SUFFICES ASSUME NoFallback(selector, slots), call.pc \notin ResetPcs
               PROVE  selector' = selector /\ slots'[selector] = "future"
    OBVIOUS
  <2> USE DEF SavePcs, ResetPcs, Slots
  <2>1. /\ TypeOK /\ NoSaveKnown /\ call.pc = "none" /\ slots[selector] = "future"
        /\ store = "calibration" /\ selector \in Slots
    BY <1>1 DEF Inv, NoSaveKnown, NoFallback, TypeOK
  <2>2. CASE Boot
    <3>1. SelectorReads = {selector} /\ Views = {slots}
      <4>1. slots = [s \in Slots |-> slots[s]]
        BY <2>1 DEF TypeOK
      <4> QED BY <4>1 DEF SelectorReads, Views
    <3>2. Taken(selector, slots) = "none"
      BY <2>1, ValuesAssumption DEF Taken, NoFallback, NotValues
    <3> QED BY <2>1, <2>2, <3>1, <3>2 DEF Boot, BootLoaded, BootDefaults
  <2>3. CASE ~Boot
    BY <1>1, <2>1, <2>3 DEF Next, Crash, Update, WriteSlot, Verify, Select, Reset, ResetSlot,
                            ResetMeta, vars
  <2> QED BY <2>2, <2>3
<1>2. Spec => []Inv
  BY Invariant
<1> QED BY <1>1, <1>2, PTL DEF Spec, UnsupportedKept

(* Where reads succeed, a published update is what the next boot loads.      *)
THEOREM UpdatesAcknowledged == ASSUME ReadFaults = {} PROVE Spec => Acknowledged
<1> DEFINE Told == call.pc \in SavePcs /\ svc'.phase = "up" /\ svc'.active # svc.active
                      => Loads' = svc'.active
<1>1. ASSUME Inv, [Next]_vars PROVE Told
  <2> SUFFICES ASSUME call.pc \in SavePcs, svc'.phase = "up", svc'.active # svc.active
               PROVE  Loads' = svc'.active
    OBVIOUS
  <2> USE DEF SavePcs, ResetPcs, Slots
  <2>1. TypeOK /\ CallKnown /\ call # Idle /\ svc.phase # "off"
    BY <1>1 DEF Inv, CallKnown, TypeOK, Idle
  <2>2. CASE Select
    <3>1. CASE Failed
      <4>1. svc' = [svc EXCEPT !.phase = IF svc.phase = "starting" THEN "failed" ELSE svc.phase]
        BY <3>1 DEF Failed
      <4>2. svc'.active = svc.active
        BY <2>1, <4>1 DEF TypeOK
      <4> QED BY <4>2
    <3>2. CASE ~Failed
      <4>1. selector' = call.target /\ UNCHANGED <<store, slots>> /\ call.pc = "select"
        BY <2>2, <3>2 DEF Select
      <4>2. selector' \in Slots /\ slots'[selector'] = call.value /\ call.value \in Values
        BY <2>1, <4>1 DEF CallKnown, TypeOK
      <4>3. CASE store = "calibration"
        <5>1. svc' = [phase |-> "up", active |-> call.value,
                      source |-> "persisted", reason |-> "none"]
          BY <2>2, <3>2, <4>3 DEF Select
        <5> QED BY <4>1, <4>2, <5>1 DEF Loads, Taken
      <4>4. CASE store # "calibration"
        <5>1. svc' = [svc EXCEPT !.phase = "up", !.active = call.value,
                                 !.source = IF svc.phase = "starting" THEN "factory" ELSE @]
          BY <2>2, <3>2, <4>4 DEF Select
        <5>2. CASE svc.phase = "starting"
          BY <2>1, <4>1, <4>2, <5>1, <5>2 DEF Loads, Taken, TypeOK
        <5>3. CASE svc.phase # "starting"
          BY <2>1, <4>1, <4>2, <5>1, <5>3 DEF Loads, Taken, TypeOK
        <5> QED BY <5>2, <5>3
      <4> QED BY <4>3, <4>4
    <3> QED BY <3>1, <3>2
  <2>3. CASE ~Select
    <3>1. svc'.active = svc.active \/ svc'.phase = "off"
      BY <1>1, <2>1, <2>3 DEF Next, Boot, Crash, Off, Update, WriteSlot, Verify, Failed, Reset,
                              ResetSlot, ResetMeta, vars, TypeOK
    <3> QED BY <3>1
  <2> QED BY <2>2, <2>3
<1>2. Spec => []Inv
  BY Invariant
<1> QED BY <1>1, <1>2, PTL DEF Spec, Acknowledged

-----------------------------------------------------------------------------
(* The refinement.                                                           *)

Implements == [Durable!Next]_(Durable!rvars)

\* What is loaded depends on the store's kind, the slots and the selector only.
LEMMA SameRecord ==
    ASSUME store' = store, slots' = slots, selector' = selector
    PROVE  Loads' = Loads /\ Settled' = Settled
BY DEF Loads, Settled, Taken, NoFallback

LEMMA LoadsType == TypeOK => Loads \in Values \cup {None} /\ Settled \in BOOLEAN
BY DEF TypeOK, Loads, Settled, Taken, Slots, NotValues

(* A step that leaves the flash alone and ends or keeps the call.            *)
LEMMA KeepImplements ==
    ASSUME store' = store, slots' = slots, selector' = selector, Doing' \in {Doing, "nothing"}
    PROVE  Implements
<1>1. Loads' = Loads /\ Settled' = Settled
  BY SameRecord
<1>2. CASE Doing' = Doing
  BY <1>1, <1>2 DEF Implements, Durable!rvars
<1>3. CASE Doing' = "nothing" /\ Doing # "nothing"
  BY <1>1, <1>3 DEF Implements, Durable!Next, Durable!Done
<1> QED BY <1>2, <1>3

(* The slot a save writes is not the one a settled record is in.             *)
LEMMA WriteImplements == ASSUME Inv, WriteSlot PROVE Implements
<1> USE ValuesAssumption DEF Slots, NotValues, SavePcs, ResetPcs
<1>1. /\ TypeOK /\ CallKnown /\ SlotsKnown /\ NoSaveKnown
      /\ call.pc = "write" /\ store' = store /\ selector' = selector
  BY DEF Inv, WriteSlot
<1>2. /\ \A s \in Slots : s # call.target => slots'[s] = slots[s]
      /\ slots'[call.target] \in {slots[call.target], call.value, "empty", "torn"}
      /\ call.target \in Slots /\ call.value \in Values /\ call.target = Target(selector)
  BY <1>1 DEF WriteSlot, Partial, TypeOK, CallKnown
<1>3. Doing = call.value /\ Doing' \in {Doing, "nothing"}
  BY <1>1 DEF Doing, WriteSlot, Failed, Idle, TypeOK
<1>4. call.target # selector /\ ~NoFallback(selector, slots)
  BY <1>1, <1>2 DEF Target, NoSaveKnown
<1>5. Settled' = Settled
  BY <1>1, <1>2, <1>4 DEF Settled
<1>6. CASE Settled
  <2>1. selector \in Slots /\ slots[selector] \in Values /\ slots'[selector] = slots[selector]
    BY <1>1, <1>2, <1>4, <1>6 DEF Settled, SlotsKnown, NoFallback, TypeOK
  <2>2. Loads' = Loads
    BY <1>1, <2>1 DEF Loads, Taken
  <2> QED BY <1>3, <1>5, <2>2 DEF Implements, Durable!Next, Durable!Done, Durable!rvars
<1>7. CASE ~Settled
  <2>1. \A s \in Slots : s # call.target => slots[s] \notin Values
    BY <1>1, <1>2, <1>7 DEF Settled, SlotsKnown, Target, TypeOK
  <2>2. ~NoFallback(selector', slots')
    BY <1>1, <1>2, <1>4 DEF NoFallback
  <2>3. Loads' = IF slots'[call.target] \in Values THEN slots'[call.target] ELSE None
    BY <1>1, <1>2, <2>1, <2>2 DEF Loads, Taken, NoFallback
  <2>4. Loads = IF slots[call.target] \in Values THEN slots[call.target] ELSE None
    BY <1>1, <1>2, <1>4, <2>1 DEF Loads, Taken, NoFallback
  <2>5. Loads' \in {Loads, None, call.value}
    BY <1>2, <2>3, <2>4
  <2>6. CASE Loads' = Loads
    BY <1>3, <1>5, <2>6 DEF Implements, Durable!Next, Durable!Done, Durable!rvars
  <2>7. CASE Loads' = None
    BY <1>2, <1>3, <1>5, <1>7, <2>7 DEF Implements, Durable!Next, Durable!Lose
  <2>8. CASE Loads' = call.value
    BY <1>2, <1>3, <1>5, <2>8 DEF Implements, Durable!Next, Durable!Commit
  <2> QED BY <2>5, <2>6, <2>7, <2>8
<1> QED BY <1>6, <1>7

(* The selector moves to a slot that holds the value.                        *)
LEMMA SelectImplements == ASSUME Inv, Select PROVE Implements
<1> USE ValuesAssumption DEF Slots, NotValues, SavePcs, ResetPcs
<1>1. /\ TypeOK /\ CallKnown /\ call.pc = "select" /\ store' = store /\ slots' = slots
      /\ selector' \in {selector, call.target} /\ call' = Idle
  BY DEF Inv, Select, Failed
<1>2. Doing = call.value /\ Doing' = "nothing" /\ call.value \in Values
  BY <1>1 DEF Doing, Idle, TypeOK
<1>3. CASE selector' = selector
  BY <1>1, <1>2, <1>3, KeepImplements
<1>4. CASE selector' = call.target
  <2>1. selector' \in Slots /\ slots'[selector'] = call.value
    BY <1>1, <1>4 DEF CallKnown, TypeOK
  <2>2. Loads' = call.value /\ Settled'
    BY <1>2, <2>1 DEF Loads, Taken, Settled
  <2>3. Settled' = TRUE
    BY <2>2 DEF Settled
  <2> QED BY <1>2, <2>2, <2>3 DEF Implements, Durable!Next, Durable!Commit
<1> QED BY <1>1, <1>3, <1>4

(* A boot moves the selector only to the slot it took.                       *)
LEMMA BootImplements == ASSUME ReadFaults = {}, Inv, Boot PROVE Implements
<1> USE ValuesAssumption DEF Slots, NotValues, SavePcs, ResetPcs
<1>1. TypeOK /\ CallKnown /\ store' = store /\ slots' = slots /\ call.pc = "none" /\ call = Idle
  BY DEF Inv, Boot, CallKnown
<1>2. Doing = "nothing"
  BY <1>1 DEF Doing
<1>3. BootLoaded(selector, slots) \/ BootDefaults(selector, slots)
  <2>1. slots = [s \in Slots |-> slots[s]]
    BY <1>1 DEF TypeOK
  <2> QED BY <2>1 DEF Boot, SelectorReads, Views
<1>4. CASE BootLoaded(selector, slots)
  <2>1. /\ Taken(selector, slots) \in Slots /\ call' = call
        /\ selector' \in {selector, Taken(selector, slots)}
    BY <1>4 DEF BootLoaded
  <2>2. Doing' = Doing
    BY <2>1 DEF Doing
  <2>3. CASE selector' = selector
    BY <1>1, <2>2, <2>3, KeepImplements
  <2>4. CASE selector' # selector
    <3>1. selector' = Taken(selector, slots) /\ slots[selector'] \in Values
      BY <1>1, <2>1, <2>4 DEF Taken, TypeOK
    <3>2. Loads' = slots[selector'] /\ Settled' /\ Loads = slots[selector']
      BY <1>1, <2>1, <3>1 DEF Loads, Taken, Settled
    <3>3. ~(selector \in Slots /\ slots[selector] \in Values) /\ ~NoFallback(selector, slots)
      BY <2>1, <2>4, <3>1 DEF Taken
    <3>4. Settled' = TRUE
      BY <3>2 DEF Settled
    <3>5. CASE Settled
      BY <1>2, <2>2, <3>2, <3>4, <3>5 DEF Implements, Durable!rvars, Settled
    <3>6. CASE ~Settled
      BY <1>2, <2>2, <3>2, <3>4, <3>6 DEF Implements, Durable!Next, Durable!Settle
    <3> QED BY <3>5, <3>6
  <2> QED BY <2>1, <2>3, <2>4
<1>5. CASE BootDefaults(selector, slots)
  <2>1. selector' = selector
    BY <1>5 DEF BootDefaults
  <2>2. call' = call \/ (call'.pc = "write" /\ call'.value = Default)
    BY <1>5 DEF BootDefaults, Saving
  <2>3. Loads' = Loads /\ Settled' = Settled
    BY <1>1, <2>1, SameRecord
  <2>4. CASE call' = call
    BY <1>2, <2>3, <2>4 DEF Implements, Durable!rvars, Doing
  <2>5. CASE call'.pc = "write" /\ call'.value = Default
    <3>1. Doing' = Default
      BY <2>5 DEF Doing
    <3>2. Durable!Save(Default)
      BY <1>2, <2>3, <3>1 DEF Durable!Save
    <3> QED BY <3>2 DEF Implements, Durable!Next
  <2> QED BY <2>2, <2>4, <2>5
<1> QED BY <1>3, <1>4, <1>5

(* Anything may be left of an erased record.                                 *)
LEMMA ResetImplements ==
    ASSUME Inv, TypeOK', call.pc \in ResetPcs, Doing' \in {Doing, "nothing"} PROVE Implements
<1>1. Doing = "erase"
  BY DEF Doing, ResetPcs, SavePcs
<1>2. Loads' \in Values \cup {None} /\ Settled' \in BOOLEAN
  <2>1. (TypeOK => Loads \in Values \cup {None} /\ Settled \in BOOLEAN)'
    BY DEF TypeOK, Loads, Settled, Taken, Slots, NotValues
  <2> QED BY <2>1
<1> QED BY <1>1, <1>2 DEF Implements, Durable!Next, Durable!Erasing

LEMMA StepImplements == ASSUME ReadFaults = {}, Inv, [Next]_vars PROVE Implements
<1> USE DEF SavePcs, ResetPcs
<1>1. TypeOK /\ TypeOK' /\ CallKnown
  BY TypeStep DEF Inv
<1>2. CASE Boot
  BY <1>2, BootImplements
<1>3. CASE Crash
  <2>1. Doing' = "nothing"
    BY <1>3 DEF Crash, Doing, Idle
  <2> QED BY <1>3, <2>1, KeepImplements DEF Crash
<1>4. ASSUME NEW value \in Values, Update(value) PROVE Implements
  <2>1. /\ UNCHANGED <<store, slots, selector>> /\ call.pc = "none"
        /\ call'.pc = "write" /\ call'.value = value
    BY <1>4 DEF Update, Saving, Idle
  <2>2. Doing = "nothing" /\ Doing' = value
    BY <2>1 DEF Doing
  <2>3. Durable!Save(value)
    BY <2>1, <2>2, SameRecord DEF Durable!Save
  <2> QED BY <2>3 DEF Implements, Durable!Next
<1>5. CASE WriteSlot
  BY <1>5, WriteImplements
<1>6. CASE Verify
  <2>1. Doing' \in {Doing, "nothing"}
    BY <1>1, <1>6 DEF Verify, Failed, Idle, Doing, TypeOK
  <2> QED BY <1>6, <2>1, KeepImplements DEF Verify
<1>7. CASE Select
  BY <1>7, SelectImplements
<1>8. CASE Reset
  <2>1. UNCHANGED <<store, slots, selector>> /\ Doing = "nothing" /\ Doing' = "erase"
    BY <1>1, <1>8 DEF Reset, Doing, Idle, TypeOK
  <2>2. Durable!Erase
    BY <2>1, SameRecord DEF Durable!Erase
  <2> QED BY <2>2 DEF Implements, Durable!Next
<1>9. CASE ResetSlot("A", "resetA", "resetB") \/ ResetSlot("B", "resetB", "resetMeta") \/ ResetMeta
  <2>1. call.pc \in ResetPcs /\ call'.pc \in ResetPcs \cup {"none"}
    BY <1>1, <1>9 DEF ResetSlot, ResetMeta, Failed, Idle, TypeOK
  <2>2. Doing' \in {Doing, "nothing"}
    BY <2>1 DEF Doing
  <2> QED BY <1>1, <2>1, <2>2, ResetImplements
<1>10. CASE UNCHANGED vars
  <2>1. Doing' = Doing
    BY <1>10 DEF Doing, vars
  <2> QED BY <1>10, <2>1, KeepImplements DEF vars
<1> QED
  BY <1>2, <1>3, <1>4, <1>5, <1>6, <1>7, <1>8, <1>9, <1>10 DEF Next

(* Where reads succeed, the stores are durable records: what the next boot   *)
(* loads changes only by a save in progress, whatever writes fail and        *)
(* whenever the device is reset.                                             *)
THEOREM RecordsAreDurable == ASSUME ReadFaults = {} PROVE Spec => RecordSpec
<1>1. Init => Durable!Init
  <2> SUFFICES ASSUME Init PROVE Durable!Init
    OBVIOUS
  <2>1. Doing = "nothing"
    BY DEF Init, Doing, Idle, SavePcs, ResetPcs
  <2>2. Loads = None
    BY ValuesAssumption DEF Init, Loads, Taken, NoFallback, Slots, NotValues
  <2>3. Settled \in BOOLEAN
    BY DEF Settled
  <2> QED BY <2>1, <2>2, <2>3 DEF Durable!Init
<1>2. Inv /\ [Next]_vars => [Durable!Next]_(Durable!rvars)
  BY StepImplements DEF Implements
<1>3. Spec => []Inv
  BY Invariant
<1> QED BY <1>1, <1>2, <1>3, PTL DEF Spec, RecordSpec, Durable!Spec
=============================================================================
