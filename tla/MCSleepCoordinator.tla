------------------------- MODULE MCSleepCoordinator -------------------------
(* SleepCoordinator on small instances: the .cfg files give the constants.   *)
EXTENDS SleepCoordinator
=============================================================================
