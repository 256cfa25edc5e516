------------------------------ MODULE CropTool ------------------------------
(***************************************************************************)
(* The editor's geometry: the crop tool, with the fingers on its overlay   *)
(* (crop-feature.js, crop-geometry.js, pointer-mapper.js), and the sizes   *)
(* the resize tool makes of what it crops (resize-feature.js).             *)
(*                                                                         *)
(* A real number of the code is an exact fraction here and is rounded where *)
(* the code rounds it: zooms are in thousandths (whole percents once they  *)
(* are stored), pans in hundredths of a pixel, angles in degrees; the zoom *)
(* that a pinch asks for is cut to thousandths.  Fingers move along a line *)
(* at the scale of the picture.  A ratio is the pair its id names.  Fill   *)
(* colour, drawing and the panels' elements are left out.                  *)
(***************************************************************************)
EXTENDS Integers, FiniteSets

CONSTANTS Pictures,     \* the sizes of the pictures opened
          PanelRatios,  \* the ratios that panels register
          Asks,         \* crop settings asked for: by hand, or by a project that is opened
          CropTools,    \* the crop tools, as the fingers' part describes them, steps start from
          Lengths,      \* sides asked of the resize tool, and of the crops it follows
          Fingers,      \* pointer ids
          Places        \* where a finger is

Sizes == [w : Nat \ {0}, h : Nat \ {0}]

\* The settings the frame is derived from, and all that are stored with it.
CropSettings == [px : Int, py : Int, ratio : Sizes, zoom : Int, rot : Int, fx : BOOLEAN, fy : BOOLEAN]
Stored   == [x : Int, y : Int, w : Int, h : Int, px : Int, py : Int, ratio : Sizes, zoom : Int,
             rot : Int, fx : BOOLEAN, fy : BOOLEAN]

Drag  == [finger : Fingers, start : Places, px : Int]
Pinch == [first : Fingers, second : Fingers, dist : Nat \ {0}, zoom : Int]

ASSUME CropAssumption ==
    /\ Pictures \subseteq Sizes /\ PanelRatios \subseteq Sizes /\ Asks \subseteq CropSettings
    /\ Lengths \subseteq Int /\ Fingers \subseteq Nat /\ Places \subseteq Int
    /\ \A t \in CropTools :
         /\ t = [pic |-> t.pic, crop |-> t.crop, prepare |-> t.prepare, at |-> t.at,
                 drag |-> t.drag, pinch |-> t.pinch]
         /\ t.pic \in Sizes /\ t.crop \in Stored /\ t.prepare \in BOOLEAN
         /\ DOMAIN t.at \subseteq Fingers /\ \A f \in DOMAIN t.at : t.at[f] \in Places
         /\ t.drag \subseteq Drag /\ t.pinch \subseteq Pinch

Least(a, b) == IF a <= b THEN a ELSE b
Most(a, b)  == IF a >= b THEN a ELSE b
Clamp(v, low, high) == Most(low, Least(high, v))

\* Math.round and toFixed of n / d, for n >= 0.
Nearest(n, d) == (2 * n + d) \div (2 * d)

-----------------------------------------------------------------------------
(* The frame.                                                               *)

MinZoom == 1000
MaxZoom == 8000

Ratio(width, height) == [w |-> width, h |-> height]
DefaultRatio == Ratio(16, 9)

\* The registered ratios: the tool's own and those of any panel.
AspectRatios ==
    {Ratio(1, 1), Ratio(4, 3), Ratio(3, 4), Ratio(5, 3), Ratio(3, 5), Ratio(16, 9), Ratio(9, 16)}
    \cup PanelRatios

RatioFor(id) == IF id \in AspectRatios THEN id ELSE DefaultRatio

\* Variant: the frame is as wide as the picture, whatever its height.
SpanByWidth(b, r) == b.w * r.h

\* The largest frame of ratio r in the picture b is Span / r.h wide and Span / r.w high.
Span(b, r) == Least(b.w * r.h, b.h * r.w)

\* How far the picture can move along a side, zoomed to z, before it uncovers the frame:
\* this over 20 * k hundredths, the frame being span / k there.
MaxPan(side, k, span, z) == Most(0, side * z * k - 1000 * span)

\* A pan kept within room / d.
HeldPan(p, room, d) ==
    IF p * d > room THEN Nearest(room, d)
    ELSE IF p * d < -room THEN -Nearest(room, d) ELSE p

\* normalizedCrop: what is stored of the settings s asked for the picture b.
Normalized(b, s) ==
    LET r == RatioFor(s.ratio)
        span == Span(b, r)
        z == Clamp(s.zoom, MinZoom, MaxZoom)
    IN  [x |-> Nearest(b.w * r.h - span, 2 * r.h), y |-> Nearest(b.h * r.w - span, 2 * r.w),
         w |-> Nearest(span, r.h), h |-> Nearest(span, r.w),
         px |-> HeldPan(s.px, MaxPan(b.w, r.h, span, z), 20 * r.h),
         py |-> HeldPan(s.py, MaxPan(b.h, r.w, span, z), 20 * r.w),
         ratio |-> r, zoom |-> 10 * Nearest(z, 10), rot |-> Clamp(s.rot, -180, 180),
         fx |-> s.fx, fy |-> s.fy]

\* defaultCropSettings, with the ratio that onImageLoaded gives it.
DefaultCrop(b, r) ==
    [x |-> 0, y |-> 0, w |-> b.w, h |-> b.h, px |-> 0, py |-> 0, ratio |-> r, zoom |-> 1000,
     rot |-> 0, fx |-> FALSE, fy |-> FALSE]

\* The crop operation: its shortcut, and the size of what it draws.
Cropped(b, s) ==
    IF s.rot = 0 /\ s.px = 0 /\ s.py = 0 /\ s.zoom = 1000 /\ ~s.fx /\ ~s.fy /\ s.w = b.w /\ s.h = b.h
    THEN Ratio(b.w, b.h)
    ELSE LET r == RatioFor(s.ratio)
         IN  Ratio(Most(1, Nearest(Span(b, r), r.h)), Most(1, Nearest(Span(b, r), r.w)))

\* getOutputSize, with what its callers take when there is none.
OutputSize(s, fallback) == IF s.w # 0 /\ s.h # 0 THEN Ratio(s.w, s.h) ELSE fallback

\* What a project that is opened requires of its crop.
CropSaved(s) ==
    s.w >= 1 /\ s.h >= 1 /\ s.zoom >= 100 /\ s.zoom <= 20000 /\ s.rot >= -180 /\ s.rot <= 180

-----------------------------------------------------------------------------
(* Its controls.                                                            *)

\* Variant: an angle that stops at its limit.
SteppedClamped(rot, delta) == Clamp(rot + delta, -180, 180)

\* steppedRotation, of an angle in range by a quarter turn.
Stepped(rot, delta) ==
    LET n == rot + delta IN IF n > 180 THEN n - 360 ELSE IF n < -180 THEN n + 360 ELSE n

QuarterTurned(c, delta) == [c EXCEPT !.rot = Stepped(c.rot, delta)]

FlippedX(c) == [c EXCEPT !.fx = ~c.fx, !.rot = Clamp(-c.rot, -180, 180), !.px = -c.px]
FlippedY(c) == [c EXCEPT !.fy = ~c.fy, !.rot = Clamp(-c.rot, -180, 180), !.py = -c.py]

\* The settings asked by the panel, the wheel and the toolbar.
Controls(c) ==
    {QuarterTurned(c, -90), QuarterTurned(c, 90), FlippedX(c), FlippedY(c)}
    \cup {[c EXCEPT !.ratio = r] : r \in AspectRatios}
    \cup {[c EXCEPT !.zoom = z] : z \in {s.zoom : s \in Asks}
                                     \cup {c.zoom - 100, c.zoom - 20, c.zoom + 20, c.zoom + 100}}
    \cup {[c EXCEPT !.rot = s.rot] : s \in Asks}

-----------------------------------------------------------------------------
(* The fingers on the overlay.  A tool t is the picture pic, its settings   *)
(* crop, whether the editor prepares it, where the fingers that are down    *)
(* are (at), and the drag and the pinch, at most one of each.               *)

Updated(t, s) == [t EXCEPT !.crop = Normalized(t.pic, s)]

\* A drag and a pinch start from the settings of that moment.
BeginDrag(t, f) ==
    [t EXCEPT !.drag = {[finger |-> f, start |-> t.at[f], px |-> t.crop.px]}]

Lowest(S) == CHOOSE f \in S : \A g \in S : f <= g

Distance(p, q) == IF p <= q THEN q - p ELSE p - q

BeginPinch(t) ==
    LET f == Lowest(DOMAIN t.at)
        g == Lowest(DOMAIN t.at \ {f})
        d == Distance(t.at[f], t.at[g])
    IN  [t EXCEPT !.drag = {},
                  !.pinch = IF d > 0 THEN {[first |-> f, second |-> g, dist |-> d, zoom |-> t.crop.zoom]}
                            ELSE {}]

Placed(t, f, p) == [t EXCEPT !.at = [g \in DOMAIN t.at \cup {f} |-> IF g = f THEN p ELSE t.at[g]]]
Forgotten(t, f) == [t EXCEPT !.at = [g \in DOMAIN t.at \ {f} |-> t.at[g]]]

PointerDown(t, f, p) ==
    IF ~t.prepare THEN t
    ELSE LET n == Placed(t, f, p)
         IN  IF DOMAIN n.at # {f} THEN BeginPinch(n) ELSE BeginDrag(n, f)

\* What a finger that moved asks for.
Pinched(t, k) ==
    LET d == IF {k.first, k.second} \subseteq DOMAIN t.at THEN Distance(t.at[k.first], t.at[k.second]) ELSE 0
    IN  IF d <= 0 THEN t ELSE Updated(t, [t.crop EXCEPT !.zoom = (k.zoom * d) \div k.dist])

Dragged(t, k, p) == Updated(t, [t.crop EXCEPT !.px = k.px + 100 * (p - k.start)])

PointerMove(t, f, p) ==
    IF f \notin DOMAIN t.at THEN {t}
    ELSE IF ~t.prepare
    THEN {[t EXCEPT !.at = [g \in {} |-> 0], !.drag = {}, !.pinch = {}]}
    ELSE LET n == Placed(t, f, p)
         IN  IF n.pinch # {} THEN {Pinched(n, k) : k \in n.pinch}
             ELSE IF \A k \in n.drag : k.finger # f THEN {n}
             ELSE {Dragged(n, k, p) : k \in n.drag}

\* Variant: a finger that is lifted keeps its drag.
PointerEndKeepsDrag(t, f) == IF f \notin DOMAIN t.at THEN t ELSE Forgotten(t, f)

PointerEnd(t, f) ==
    IF f \notin DOMAIN t.at THEN t
    ELSE LET n == Forgotten(t, f)
         IN  IF n.pinch # {}
             THEN IF \E g, h \in DOMAIN n.at : g # h THEN BeginPinch(n)
                  ELSE LET o == [n EXCEPT !.pinch = {}, !.drag = {}]
                       IN  IF DOMAIN n.at = {} THEN o ELSE BeginDrag(o, Lowest(DOMAIN n.at))
             ELSE [n EXCEPT !.drag = {k \in @ : k.finger # f}]

\* A picture that is loaded; the fingers are the overlay's and stay.
ImageLoaded(t, b, r) ==
    [t EXCEPT !.pic = b, !.crop = Normalized(b, DefaultCrop(b, r)), !.prepare = TRUE]

\* A project that is opened brings its settings as they are.
ProjectOpened(t, b, s, prepare) == [t EXCEPT !.pic = b, !.crop = s, !.prepare = prepare]

Changes(t) ==
    {PointerDown(t, f, p) : f \in Fingers, p \in Places}
    \cup (UNION {PointerMove(t, f, p) : f \in Fingers, p \in Places})
    \cup {PointerEnd(t, f) : f \in Fingers}
    \cup {IF t.prepare THEN Updated(t, s) ELSE t : s \in Controls(t.crop)}
    \cup {ImageLoaded(t, b, r) : b \in Pictures, r \in AspectRatios}
    \cup {[t EXCEPT !.prepare = ~@]}

Openings(t) == {ProjectOpened(t, k.pic, k.crop, v) : k \in CropTools, v \in BOOLEAN}

-----------------------------------------------------------------------------
(* The sizes of the resize tool.  A ratio is a pair; settings s are a width *)
(* w and a height h with the ratio q that they keep.                        *)

MaxSize == 4096

ClampSize(n, d, max) == Most(1, Least(max, Nearest(n, d)))

\* Variant: the width may be any size, whatever height goes with it.
WidthLimitAny(q) == MaxSize

WidthLimit(q)  == Most(1, Least(MaxSize, (MaxSize * q.w) \div q.h))
HeightLimit(q) == Most(1, Least(MaxSize, (MaxSize * q.h) \div q.w))

RatioFromSize(w, h) == Ratio(ClampSize(w, 1, MaxSize), ClampSize(h, 1, MaxSize))

ResizeFromWidth(q, width) ==
    LET w == ClampSize(width, 1, WidthLimit(q))
    IN  [w |-> w, h |-> ClampSize(w * q.h, q.w, MaxSize), q |-> q]

ResizeFromHeight(q, height) ==
    LET h == ClampSize(height, 1, HeightLimit(q))
    IN  [w |-> ClampSize(h * q.w, q.h, MaxSize), h |-> h, q |-> q]

\* onImageLoaded, for the size of the crop.
ResizeLoaded(size) ==
    LET q == RatioFromSize(size.w, size.h) IN [w |-> q.w, h |-> q.h, q |-> q]

\* onPrepareCommitted: the width stays, the ratio is the crop's.
PrepareCommitted(s, size) == ResizeFromWidth(RatioFromSize(size.w, size.h), s.w)

\* The resize operation on a picture of that size.
Resized(size, s) == Ratio(ClampSize(s.w, 1, MaxSize), ClampSize(s.h, 1, MaxSize))

\* What a project that is opened requires of its resize settings.
ResizeSaved(s) == {s.w, s.h} \subseteq 1..MaxSize /\ s.q.w > 0 /\ s.q.h > 0

-----------------------------------------------------------------------------
(* Properties.                                                              *)

\* c can be the stored settings of the picture b: the frame is within the picture, and the
\* picture covers the frame up to what rounding the zoom to a percent is worth.
CropHolds(b, c) ==
    LET r == c.ratio
        span == Span(b, r)
    IN  /\ c.ratio \in AspectRatios /\ c.zoom \in MinZoom..MaxZoom /\ c.rot \in -180..180
        /\ c.x >= 0 /\ c.y >= 0 /\ c.x + c.w <= b.w /\ c.y + c.h <= b.h
        /\ 2 * Most(c.px, -c.px) * 20 * r.h <= 2 * MaxPan(b.w, r.h, span, c.zoom + 5) + 20 * r.h
        /\ 2 * Most(c.py, -c.py) * 20 * r.w <= 2 * MaxPan(b.h, r.w, span, c.zoom + 5) + 20 * r.w

\* Whatever is asked, what is stored is a crop of the picture (rounding its corner and its
\* size apart never takes the frame past the far edge), a project holding it opens again,
\* and the size that resize and the palette are told is the one the operation gives them:
\* normalizedCrop, cropToImageData with its shortcut, getOutputSize, validPersistedSettings.
CropFits ==
    \A b \in Pictures, s \in Asks :
        LET c == Normalized(b, s)
        IN  /\ CropHolds(b, c)
            /\ c.ratio.w <= 2 * c.ratio.h /\ c.ratio.h <= 2 * c.ratio.w
               => CropSaved(c) /\ OutputSize(c, b) = Cropped(b, c)

\* Storing settings again, as each panel that is built does, changes nothing if the zoom is
\* a whole percent; a flip is undone by the same flip, and a quarter turn is one, whatever
\* the angle: no clamp on the way loses any of it (the flip and turn buttons).
CropSettles ==
    \A b \in Pictures, s \in Asks :
        LET c == Normalized(b, s)
            X(k) == Normalized(b, FlippedX(k))
            Y(k) == Normalized(b, FlippedY(k))
        IN  /\ s.zoom % 10 = 0 => Normalized(b, c) = c /\ X(X(c)) = c /\ Y(Y(c)) = c
            /\ \A delta \in {-90, 90} : (Normalized(b, QuarterTurned(c, delta)).rot - c.rot - delta) % 360 = 0

\* One drags only while it is the only finger down, two pinch only while both are.
FingersOk(t) ==
    /\ \A k \in t.drag : DOMAIN t.at = {k.finger} /\ t.pinch = {}
    /\ \A k \in t.pinch : {k.first, k.second} \subseteq DOMAIN t.at /\ k.first # k.second

\* No finger that was lifted keeps a drag or a pinch, whatever others come and go, and
\* whichever pictures are opened meanwhile (pointer-mapper.js); and whatever the fingers and
\* the controls ask for, even of settings that a project brought, leaves a crop of the
\* picture (onSettingChanged, onImageLoaded).
ToolKeeps ==
    \A t \in CropTools : FingersOk(t) =>
        /\ \A n \in Changes(t) \cup Openings(t) : FingersOk(n)
        /\ \A n \in Changes(t) : <<n.pic, n.crop>> = <<t.pic, t.crop>> \/ CropHolds(n.pic, n.crop)

\* Every width or height typed, for every ratio, gives sizes a project can hold that keep
\* the ratio: the side that follows is never cut at the limit (widthLimit, heightLimit).
\* A new picture is not resampled, and one cropped anew keeps its ratio.
ResizeFits ==
    \A u, v, w \in Lengths :
        LET q == RatioFromSize(u, v)
            a == ResizeFromWidth(q, w)
            b == ResizeFromHeight(q, w)
            n == ResizeLoaded(Ratio(u, v))
        IN  /\ ResizeSaved(a) /\ a.h = Most(1, Nearest(a.w * q.h, q.w))
            /\ ResizeSaved(b) /\ b.w = Most(1, Nearest(b.h * q.w, q.h))
            /\ {u, v} \subseteq 1..MaxSize => Resized(Ratio(u, v), n) = Ratio(u, v)
            /\ PrepareCommitted(n, Ratio(u, v)) = n

-----------------------------------------------------------------------------
(* Properties the comments and documents state and the code does not have. *)

\* Settings within their limits stay as they are when they are stored again: the pan limit
\* is that of the zoom before it is rounded to a percent, so that pan and zoom of a pinch
\* may pass the limit that the comment at crop-feature.js:203 promises.
PanelLeaves ==
    \A b \in Pictures, s \in Asks : Normalized(b, Normalized(b, s)) = Normalized(b, s)

\* A picture that is loaded starts unpanned and unzoomed, as the comment at
\* crop-feature.js:194 says: a drag under way moves it to where the last one was.
NewPictureStays ==
    \A t \in CropTools, b \in Pictures, r \in AspectRatios :
        LET n == ImageLoaded(t, b, r)
        IN  FingersOk(t) => \A f \in DOMAIN n.at : \A o \in PointerMove(n, f, n.at[f]) : o.crop = n.crop

\* The height typed is the height exported (SPEC_BEHAVIOR.md:538): the panel that is built
\* again derives the height from the width.
HeightKept ==
    \A u, v, h \in Lengths :
        LET q == RatioFromSize(u, v)
        IN  h \in 1..HeightLimit(q) => ResizeFromWidth(q, ResizeFromHeight(q, h).w).h = h
=============================================================================
