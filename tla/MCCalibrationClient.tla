------------------------ MODULE MCCalibrationClient ------------------------
(* Two colours of three display values; the bounds are in the .cfg file.   *)
EXTENDS CalibrationClient

MCIds == {"black", "white"}
MCDefault == [i \in MCIds |-> IF i = "black" THEN 0 ELSE 1]
MCTheirs == {[i \in MCIds |-> IF i = "black" THEN 2 ELSE 1]}
==============================================================================
