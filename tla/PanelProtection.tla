--------------------------- MODULE PanelProtection ---------------------------
(***************************************************************************)
(* What the e-paper service promises about the panel, whatever resets,     *)
(* failing writes and concurrent requests do: the panel has power only     *)
(* under a durable "active" marker; the marker is confirmed or cleared     *)
(* only when the panel is off; and the panel is marked and woken only when *)
(* it owes no rest.  The one way to lose a rest takes three steps: a hasty *)
(* cooldown, the early clear of its marker, and a reset within the rest.   *)
(***************************************************************************)
EXTENDS Naturals

CONSTANT Cool       \* the rest a panel owes after it had power

VARIABLES
    power,          \* the panel has power: "on" or "off"
    debt,           \* rest it still owes
    marker,         \* the durable protection marker
    rest            \* the rest it owes is "kept", being cut short by a "hasty"
                    \* cooldown, or "lost"

pvars == <<power, debt, marker, rest>>

Init == power = "off" /\ debt = 0 /\ marker = "none" /\ rest = "kept"

MayWake == debt = 0 \/ rest = "lost"

\* A rest that is over has been kept.
RestOf(owed, r) == IF owed = 0 THEN "kept" ELSE r

\* markActive, before the wake.
Protect ==
    /\ power = "off" /\ MayWake
    /\ marker' = "active"
    /\ UNCHANGED <<power, debt, rest>>

\* The Power ON command.
PowerOn ==
    /\ marker = "active" /\ power = "off" /\ MayWake
    /\ power' = "on" /\ debt' = Cool /\ rest' = "kept"
    /\ UNCHANGED marker

\* Power OFF and Deep Sleep.
PowerOff == power = "on" /\ power' = "off" /\ UNCHANGED <<debt, marker, rest>>

\* markShutdownConfirmed.
Confirm ==
    /\ power = "off" /\ marker = "active"
    /\ marker' = "confirmed"
    /\ UNCHANGED <<power, debt, rest>>

\* The cooldown begins ahead of the time the main loop polls with.
Hasten ==
    /\ power = "off" /\ marker = "confirmed" /\ debt > 0
    /\ rest' = "hasty"
    /\ UNCHANGED <<power, debt, marker>>

\* The marker clear that ends a cooldown, a draw that never woke the panel, or
\* the recovery after a common power loss.
Clear ==
    /\ power = "off" /\ (MayWake \/ rest = "hasty")
    /\ marker' = "none"
    /\ UNCHANGED <<power, debt, rest>>

\* A reset: the next boot knows of a rest only what the marker says.
Forgotten == IF rest = "hasty" THEN (IF marker = "none" THEN "lost" ELSE "kept") ELSE rest

Forget == rest' = Forgotten /\ UNCHANGED <<power, debt, marker>>

\* MCU and panel lose their common supply.
PowerLoss ==
    /\ power' = "off"
    /\ debt' = (IF marker = "active" THEN 0 ELSE debt)
    /\ rest' = RestOf(debt', Forgotten)
    /\ UNCHANGED marker

Rest ==
    /\ power = "off" /\ debt > 0
    /\ debt' = debt - 1 /\ rest' = RestOf(debt', rest)
    /\ UNCHANGED <<power, marker>>

Next ==
    \/ Protect \/ PowerOn \/ PowerOff \/ Confirm \/ Hasten \/ Clear
    \/ Forget \/ PowerLoss \/ Rest

Spec == Init /\ [][Next]_pvars
=============================================================================
