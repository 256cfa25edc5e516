--------------------------- MODULE MCImagePipeline ---------------------------
(* Small pictures, two panels colours more than black and white, and a     *)
(* handful of changes for the model checker.                               *)
EXTENDS ImagePipeline, TLC

Black == <<0, 0, 0>>
White == <<Full, Full, Full>>
Red == <<Full, 0, 0>>
Grey(n) == <<n, n, n>>

MCFirstPicture == [w |-> 2, h |-> 3, px |-> [p \in 0 .. 5 |-> IF p = 3 THEN <<12, 3, 4>> ELSE Grey(p + 4)]]
MCPictures == {MCFirstPicture, [w |-> 3, h |-> 2, px |-> [p \in 0 .. 5 |-> Grey(14 - 2 * p)]]}
\* the panel shows its colours paler than the protocol names them
MCPalettes ==
  [panel |-> <<Grey(2), Grey(13), <<9, 2, 2>>>>, protocol |-> <<Black, White, Red>>,
   original |-> <<Grey(7), Black>>, mono |-> <<Black, White, Grey(8), Red>>]
Base ==
  [flip |-> FALSE, size |-> <<2, 3>>, brightness |-> 0, palette |-> "mono",
   algorithm |-> "sierra", mapping |-> "nearest-color", metric |-> "euclidean-rgb",
   serpentine |-> TRUE, strength |-> 100]
MCInitSettings ==
  {Base,
   [Base EXCEPT !.algorithm = "bayer4", !.mapping = "pair-mix", !.metric = "manhattan-bt709",
                !.palette = "panel", !.brightness = 20, !.size = <<3, 2>>]}
MCChanges ==
  {<<"flip", TRUE>>, <<"palette", "panel">>, <<"strength", 25>>, <<"strength", 0>>, <<"mapping", "tri-mix">>,
   <<"algorithm", "none">>, <<"algorithm", "adaptive">>, <<"algorithm", "dots">>, <<"algorithm", "pattern">>}
MCPanel == [w |-> 2, h |-> 3]
=============================================================================
