----------------------------- MODULE MCSlotStore -----------------------------
(* SlotStore on small instances: the .cfg files give the constants.          *)
EXTENDS SlotStore
=============================================================================
