---------------------------- MODULE MCDitherEditor ----------------------------
\* The instance TLC checks; the bounds are in DitherEditor.cfg.
EXTENDS DitherEditor

MCPictures == [w : {1, 2, 3, 5}, h : {1, 2, 3, 5}]

MCPanelRatios == {Ratio(5, 1), Ratio(3, 7), Ratio(1, 2)}

\* Pans inside and far outside, zooms below, in and above the range, whole percents and not,
\* and a ratio that nobody registered.
MCAsks == [px : {-1000, 0, 33}, py : {0, -7}, ratio : AspectRatios \cup {Ratio(11, 11)},
           zoom : {0, 1000, 1005, 1014, 1500, 9000}, rot : {-180, 179, 300},
           fx : {FALSE}, fy : BOOLEAN]

\* Crops as the tool stores them and as a project may bring them, with every set of fingers
\* down, every drag and every pinch.
MCCropTools ==
    LET b == Ratio(2, 3)
        stored == Normalized(b, [px |-> 30, py |-> 0, ratio |-> Ratio(4, 3), zoom |-> 1510,
                                 rot |-> 90, fx |-> FALSE, fy |-> TRUE])
    IN  [pic : {b}, crop : {stored, [stored EXCEPT !.px = 9999, !.zoom = 15000]},
         prepare : BOOLEAN, at : UNION {[F -> Places] : F \in SUBSET Fingers},
         drag : {{}} \cup {{k} : k \in [finger : Fingers, start : Places, px : {0, 30}]},
         pinch : {{}} \cup {{k} : k \in [first : Fingers, second : Fingers, dist : {1}, zoom : {1510}]}]
===============================================================================
