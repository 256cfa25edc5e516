---------------------------- MODULE DurableRecord ----------------------------
(***************************************************************************)
(* What a store of one record promises across crashes: what the next boot  *)
(* loads changes only to the value of a save in progress.  Until the       *)
(* record is settled (its selector names a complete copy) a save may also  *)
(* lose it, and while it is being erased nothing is promised.  A call that *)
(* fails or is cut off by a reset may have taken effect.                   *)
(***************************************************************************)
CONSTANTS Values, None

VARIABLES
    record,     \* what the next boot loads: a value or None
    settled,    \* the record no longer depends on the copy a save writes
    doing       \* "nothing", "erase", or the value being saved

rvars == <<record, settled, doing>>

Init == record = None /\ settled \in BOOLEAN /\ doing = "nothing"

Save(v) == doing = "nothing" /\ doing' = v /\ UNCHANGED <<record, settled>>

\* The value takes effect, whether or not the caller hears of it.
Commit ==
    /\ doing \in Values
    /\ record' = doing
    /\ settled' \in {settled, TRUE}
    /\ doing' \in {doing, "nothing"}

\* A first save is interrupted.
Lose ==
    /\ doing \in Values /\ ~settled
    /\ record' = None
    /\ doing' \in {doing, "nothing"}
    /\ UNCHANGED settled

\* A boot adopts the copy it found.
Settle == ~settled /\ doing = "nothing" /\ settled' = TRUE /\ UNCHANGED <<record, doing>>

Erase == doing = "nothing" /\ doing' = "erase" /\ UNCHANGED <<record, settled>>

Erasing ==
    /\ doing = "erase"
    /\ record' \in Values \cup {None}
    /\ settled' \in BOOLEAN
    /\ doing' \in {doing, "nothing"}

\* The call returns, or the device is reset.
Done == doing # "nothing" /\ doing' = "nothing" /\ UNCHANGED <<record, settled>>

Next ==
    \/ \E v \in Values : Save(v)
    \/ Commit \/ Lose \/ Settle \/ Erase \/ Erasing \/ Done

Spec == Init /\ [][Next]_rvars
=============================================================================
