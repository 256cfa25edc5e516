----------------------------- MODULE MCEpaperRest -----------------------------
(* EpaperRest on a small instance: EpaperService.cfg gives the constants.    *)
EXTENDS EpaperRest, TLC

\* Clients run the same code, so their names can be exchanged.
Symmetry == Permutations(Clients)
=============================================================================
