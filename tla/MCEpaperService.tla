--------------------------- MODULE MCEpaperService ---------------------------
(* EpaperService on a small instance: EpaperDrains.cfg gives the constants.  *)
EXTENDS EpaperService, TLC
=============================================================================
