------------------------------ MODULE Dithering ------------------------------
(***************************************************************************)
(* The colour arithmetic of the dither editor: how one colour is mapped to *)
(* a palette, how the diffusing algorithms walk over a picture, and the    *)
(* threshold algorithms on the processor and on the graphics card.         *)
(*                                                                         *)
(* A colour is a triple.  The code keeps Float32 values; here a value is   *)
(* a whole number of levels 0 .. Full, a ratio a whole number of 1/One,    *)
(* and every division rounds down.  ciede2000, the one distance that is    *)
(* not polynomial, and blue noise, a generated table, are left out.        *)
(***************************************************************************)
EXTENDS Integers, Sequences, FiniteSets, TLC, SequencesExt

CONSTANTS Full,   \* the largest channel value (255 in the code)
          One     \* the unit of the ratios and thresholds

ASSUME DitheringAssumption == Full \in Nat \ {0} /\ One \in Nat \ {0, 1}

\* F of the value of k, which is evaluated once
Then(k, F(_)) == CHOOSE r \in {F(x) : x \in {k}} : TRUE
Each(F(_)) == <<F(1), F(2), F(3)>>   \* a colour, channel by channel
Abs(n) == IF n < 0 THEN -n ELSE n
Between(v, low, high) == IF v < low THEN low ELSE IF v > high THEN high ELSE v
Clamp(v) == Between(v, 0, Full)
Positive(n) == IF n < 0 THEN 0 ELSE n
Total(t) == t[1] + t[2] + t[3]
Minus(a, b) == Each(LAMBDA c : a[c] - b[c])
Dot(a, b) == a[1] * b[1] + a[2] * b[2] + a[3] * b[3]

-----------------------------------------------------------------------------
(* Distances (palette-utils.js); the BT.709 weights are in hundredths.     *)
Bt709 == <<21, 72, 7>>
Weights(metric) ==
  IF metric \in {"euclidean-bt709", "manhattan-bt709"} THEN Bt709 ELSE <<1, 1, 1>>
Distance(metric, a, b) ==
  LET Part(n) == IF metric \in {"euclidean-rgb", "euclidean-bt709"} THEN n * n ELSE Abs(n)
  IN Then(Minus(a, b), LAMBDA d :
       Then(Weights(metric), LAMBDA w : w[1] * Part(d[1]) + w[2] * Part(d[2]) + w[3] * Part(d[3])))

Colour(o, i) == o.palette[i]
Score(o, v, i) == Distance(o.metric, v, Colour(o, i))
\* i comes before j when the palette is ordered by its distance from v
Closer(o, v, i, j) ==
  \/ Score(o, v, i) < Score(o, v, j)
  \/ Score(o, v, i) = Score(o, v, j) /\ i < j
Entries(o) == DOMAIN o.palette
NearestIndex(o, v) == CHOOSE i \in Entries(o) : \A j \in Entries(o) \ {i} : Closer(o, v, i, j)

-----------------------------------------------------------------------------
(* Mapping a colour on the line between two palette colours, or in the     *)
(* triangle of three of the six nearest.  Of equally good mixes the first  *)
(* in the order of the loops is kept.                                      *)
Scaled(v) == Each(LAMBDA c : v[c] * One)
Earlier(s, t) ==
  \E k \in DOMAIN s : s[k] < t[k] /\ \A n \in 1 .. k - 1 : s[n] = t[n]
Best(mixes) ==
  CHOOSE m \in mixes : \A n \in mixes \ {m} :
    m.distance < n.distance \/ (m.distance = n.distance /\ Earlier(m.of, n.of))

Pairs(o) ==
  {<<a, b>> \in Entries(o) \X Entries(o) : a < b /\ Colour(o, a) # Colour(o, b)}
MixOf(o, v, p, along, ratio) ==
  [of |-> p, ratio |-> ratio,
   distance |-> Distance(o.metric, Scaled(v),
                         Each(LAMBDA c : Colour(o, p[1])[c] * One + along[c] * ratio))]
PairMix(o, v, p) ==
  Then(Minus(Colour(o, p[2]), Colour(o, p[1])), LAMBDA along :
    Then((Dot(Minus(v, Colour(o, p[1])), along) * One) \div Dot(along, along), LAMBDA ratio :
      MixOf(o, v, p, along, Between(ratio, 0, One))))
PairIndex(o, v, cutoff) ==
  IF Pairs(o) = {} THEN NearestIndex(o, v)
  ELSE Then(Best({PairMix(o, v, p) : p \in Pairs(o)}), LAMBDA m :
         IF m.ratio > cutoff THEN m.of[2] ELSE m.of[1])

Candidates == 6
NearestFirst(o, v) ==
  Then(SortSeq([i \in Entries(o) |-> i], LAMBDA i, j : Closer(o, v, i, j)), LAMBDA ranked :
    SubSeq(ranked, 1, IF Len(ranked) < Candidates THEN Len(ranked) ELSE Candidates))
\* the shares of the second and of the third corner, from the five products
Solve(d00, d01, d11, d20, d21) ==
  Then(d00 * d11 - d01 * d01, LAMBDA denom :
    IF denom = 0 THEN << >>
    ELSE <<((d11 * d20 - d01 * d21) * One) \div denom, ((d00 * d21 - d01 * d20) * One) \div denom>>)
Barycentric(corner, v) ==
  Then(<<Minus(corner[2], corner[1]), Minus(corner[3], corner[1]), Minus(v, corner[1])>>, LAMBDA e :
    Solve(Dot(e[1], e[1]), Dot(e[1], e[2]), Dot(e[2], e[2]), Dot(e[3], e[1]), Dot(e[3], e[2])))
\* what falls outside the triangle counts as nothing
Shares(two) ==
  Then(Each(LAMBDA k : IF two = << >> THEN 0
                       ELSE IF k = 1 THEN Positive(One - two[1] - two[2])
                       ELSE Positive(two[k - 1])), LAMBDA w :
    Each(LAMBDA k : IF Total(w) = 0 THEN 0 ELSE (w[k] * One) \div Total(w)))
TriMix(o, v, p, choice) ==
  Then(Each(LAMBDA k : Colour(o, choice[k])), LAMBDA corner :
    Then(Barycentric(corner, v), LAMBDA two :
      Then(Shares(two), LAMBDA share :
        [of |-> p, weight |-> share, choice |-> choice,
         distance |-> Distance(o.metric, Scaled(v),
           Each(LAMBDA c : Dot(share, Each(LAMBDA k : corner[k][c]))))])))
TriMixes(o, v) ==
  Then(NearestFirst(o, v), LAMBDA nearest :
    {TriMix(o, v, p, Each(LAMBDA k : nearest[p[k]])) :
       p \in {q \in (DOMAIN nearest) \X (DOMAIN nearest) \X (DOMAIN nearest) : q[1] < q[2] /\ q[2] < q[3]}})
TriChoice(o, v) ==
  Then({m \in TriMixes(o, v) : Total(m.weight) # 0}, LAMBDA mixes :
    IF mixes # {} THEN Best(mixes)
    ELSE Then(NearestIndex(o, v), LAMBDA i : [weight |-> <<One, 0, 0>>, choice |-> <<i, i, i>>]))
TriByCutoff(o, v, cutoff) ==
  Then(TriChoice(o, v), LAMBDA m :
    IF cutoff > m.weight[1] + m.weight[2] THEN m.choice[3]
    ELSE IF cutoff > m.weight[1] THEN m.choice[2] ELSE m.choice[1])
TriHeaviest(o, v) ==
  Then(TriChoice(o, v), LAMBDA m :
    m.choice[CHOOSE k \in 1 .. 3 : \A n \in 1 .. 3 :
      m.weight[k] > m.weight[n] \/ (m.weight[k] = m.weight[n] /\ k <= n)])

\* the mapper a palette gets: a mix needs two or three colours
Mapper(o) ==
  IF o.mapping = "pair-mix" /\ Len(o.palette) >= 2 THEN "pair-mix"
  ELSE IF o.mapping = "tri-mix" /\ Len(o.palette) >= 3 THEN "tri-mix" ELSE "nearest-color"
MapColor(o, v) ==
  CASE Mapper(o) = "pair-mix" -> Colour(o, PairIndex(o, v, One \div 2))
    [] Mapper(o) = "tri-mix" -> Colour(o, TriHeaviest(o, v))
    [] OTHER -> Colour(o, NearestIndex(o, v))
\* a threshold shifts the colour, or moves the cutoff of a mix
MapThreshold(o, v, threshold) ==
  Then(One \div 2 + ((threshold - One \div 2) * o.strength) \div 100, LAMBDA cutoff :
    CASE Mapper(o) = "pair-mix" -> Colour(o, PairIndex(o, v, cutoff))
      [] Mapper(o) = "tri-mix" -> Colour(o, TriByCutoff(o, v, cutoff))
      [] OTHER -> Then(Each(LAMBDA c : v[c] + ((threshold - One \div 2) * o.scale) \div One), LAMBDA w :
                    Colour(o, NearestIndex(o, w))))

-----------------------------------------------------------------------------
(* The algorithms (dither-algorithms.js) and their tables.                 *)
NoMatrix == [den |-> 1, cells |-> << >>]
Algorithm ==
  [none |-> [processor |-> "none", matrix |-> "none", serpentine |-> FALSE, scale |-> 0],
   floyd |-> [processor |-> "error", matrix |-> "floydSteinberg", serpentine |-> TRUE, scale |-> 0],
   atkinson |-> [processor |-> "error", matrix |-> "atkinson", serpentine |-> FALSE, scale |-> 0],
   jarvis |-> [processor |-> "error", matrix |-> "jarvis", serpentine |-> TRUE, scale |-> 0],
   sierra |-> [processor |-> "error", matrix |-> "sierraLite", serpentine |-> TRUE, scale |-> 0],
   adaptive |-> [processor |-> "adaptive", matrix |-> "floydSteinberg", serpentine |-> TRUE, scale |-> 0],
   dots |-> [processor |-> "dot", matrix |-> "none", serpentine |-> FALSE, scale |-> 0],
   bayer4 |-> [processor |-> "ordered", matrix |-> "none", serpentine |-> FALSE, scale |-> 70],
   pattern |-> [processor |-> "pattern", matrix |-> "none", serpentine |-> FALSE, scale |-> 86]]
Diffusing(alg) == Algorithm[alg].processor \in {"error", "adaptive", "dot"}

\* cells <<dx, dy, weight>>
Matrix ==
  [floydSteinberg |-> [den |-> 16, cells |-> <<<<1, 0, 7>>, <<-1, 1, 3>>, <<0, 1, 5>>, <<1, 1, 1>>>>],
   atkinson |-> [den |-> 8, cells |-> <<<<1, 0, 1>>, <<2, 0, 1>>, <<-1, 1, 1>>, <<0, 1, 1>>,
                                        <<1, 1, 1>>, <<0, 2, 1>>>>],
   jarvis |-> [den |-> 48, cells |-> <<<<1, 0, 7>>, <<2, 0, 5>>,
                 <<-2, 1, 3>>, <<-1, 1, 5>>, <<0, 1, 7>>, <<1, 1, 5>>, <<2, 1, 3>>,
                 <<-2, 2, 1>>, <<-1, 2, 3>>, <<0, 2, 5>>, <<1, 2, 3>>, <<2, 2, 1>>>>],
   sierraLite |-> [den |-> 4, cells |-> <<<<1, 0, 2>>, <<-1, 1, 1>>, <<0, 1, 1>>>>],
   none |-> NoMatrix]

\* an image: id names its pixel buffer, px[y * w + x] is the colour at (x, y)
At(img, x, y) == img.px[y * img.w + x]
Inside(img, x, y) == x \in 0 .. img.w - 1 /\ y \in 0 .. img.h - 1
Pixels(img) == 0 .. img.w * img.h - 1

(* The local mean of the adaptive algorithm, through the integral image.   *)
Luminance(v) == Dot(Bt709, v)
MeanRadius == 1
Integral(img, x, y) ==
  FoldLeft(LAMBDA sum, p : sum + IF p % img.w < x /\ p \div img.w < y THEN Luminance(img.px[p]) ELSE 0,
           0, [n \in 1 .. img.w * img.h |-> n - 1])
Mean(img, x, y) ==
  LET left == Between(x - MeanRadius, 0, x)    right == Between(x + MeanRadius, x, img.w - 1)
      top == Between(y - MeanRadius, 0, y)     bottom == Between(y + MeanRadius, y, img.h - 1)
      sum == Integral(img, right + 1, bottom + 1) - Integral(img, right + 1, top)
             - Integral(img, left, bottom + 1) + Integral(img, left, top)
  IN sum \div (100 * (right - left + 1) * (bottom - top + 1))
Biased(img, v, x, y) ==
  LET bias == (((Full + 1) \div 2 - Mean(img, x, y)) * 35) \div 100
  IN Each(LAMBDA c : Clamp(v[c] + bias))

(* Dot diffusion visits the pixels class by class; a pixel gives its error *)
(* to the neighbours of a later class.                                     *)
ClassMatrix ==
  <<<<34, 48, 40, 32, 29, 15, 23, 31>>, <<42, 58, 56, 53, 21, 5, 7, 10>>,
    <<50, 62, 61, 45, 13, 1, 2, 18>>, <<38, 46, 54, 37, 25, 17, 9, 26>>,
    <<28, 14, 22, 30, 35, 49, 41, 33>>, <<20, 4, 6, 11, 43, 59, 57, 52>>,
    <<12, 0, 3, 19, 51, 63, 60, 44>>, <<24, 16, 8, 27, 39, 47, 55, 36>>>>
ClassAt(x, y) == ClassMatrix[(y % 8) + 1][(x % 8) + 1]
Neighbours == <<<<-1, -1>>, <<0, -1>>, <<1, -1>>, <<-1, 0>>, <<1, 0>>, <<-1, 1>>, <<0, 1>>, <<1, 1>>>>
\* variant: every neighbour takes a share
RecipientsAll(x, y) == Neighbours
Recipients(x, y) ==
  SelectSeq(Neighbours, LAMBDA d : ClassAt(x + d[1], y + d[2]) > ClassAt(x, y))

(* The order in which an algorithm visits the pixels.                      *)
Reversed(o, y) == o.serpentine /\ y % 2 = 1
RowOrder(img, o) ==
  [n \in 1 .. img.w * img.h |->
     LET y == (n - 1) \div img.w    k == (n - 1) % img.w
     IN <<IF Reversed(o, y) THEN img.w - 1 - k ELSE k, y>>]
ClassOrder(img) ==
  LET Class(at) == ClassAt(at[1], at[2])
  IN SortSeq([n \in 1 .. img.w * img.h |-> <<(n - 1) % img.w, (n - 1) \div img.w>>],
             LAMBDA p, q : Class(p) < Class(q)
                           \/ (Class(p) = Class(q) /\ Earlier(<<p[2], p[1]>>, <<q[2], q[1]>>)))

-----------------------------------------------------------------------------
(* One scan.  A diffusing algorithm visits order[1], order[2], ...; at is  *)
(* the number of pixels written.  Error diffusion keeps only the rows its  *)
(* matrix reaches, in a ring of row buffers, each filled from the picture  *)
(* when its row is first touched; dot diffusion keeps the whole plane.     *)
NoScan == [img |-> [id |-> 0, w |-> 0, h |-> 0, px |-> << >>], alg |-> "none", o |-> [mapping |-> "none"],
           order |-> << >>, at |-> 0, cells |-> << >>, ring |-> << >>, plane |-> << >>, out |-> << >>,
           page |-> FALSE]
NoOffsets == [width |-> 0, strength |-> -1, cells |-> << >>]

\* variant: a cache of the same width serves every strength
OffsetsByWidth(cache, matrix, width, strength) ==
  IF cache[matrix].width = width THEN cache
  ELSE [cache EXCEPT ![matrix] =
         [width |-> width, strength |-> strength,
          cells |-> [n \in DOMAIN Matrix[matrix].cells |->
                       LET c == Matrix[matrix].cells[n] IN <<c[1], c[2], c[3] * strength>>]]]
\* matrixOffsetCache: kept on the matrix, made again for another width or strength
Offsets(cache, matrix, width, strength) ==
  IF cache[matrix].width = width /\ cache[matrix].strength = strength THEN cache
  ELSE [cache EXCEPT ![matrix] =
         [width |-> width, strength |-> strength,
          cells |-> [n \in DOMAIN Matrix[matrix].cells |->
                       LET c == Matrix[matrix].cells[n] IN <<c[1], c[2], c[3] * strength>>]]]
RowCount(cells) ==
  LET rows == {1} \cup {cells[n][2] + 1 : n \in DOMAIN cells}
  IN CHOOSE r \in rows : \A q \in rows : q <= r
NoRow == [y |-> -1, row |-> << >>]

Begun(img, alg, o, cache, page) ==
  LET cells == cache[Algorithm[alg].matrix].cells
      dot == Algorithm[alg].processor = "dot"
  IN [img |-> img, alg |-> alg, o |-> o, at |-> 0, page |-> page,
      order |-> IF dot THEN ClassOrder(img) ELSE RowOrder(img, o),
      cells |-> IF dot THEN << >> ELSE cells,
      ring |-> IF dot THEN << >> ELSE [n \in 1 .. RowCount(cells) |-> NoRow],
      plane |-> IF dot THEN img.px ELSE << >>,
      out |-> [p \in Pixels(img) |-> <<0, 0, 0>>]]

Slot(s, y) == (y % Len(s.ring)) + 1
\* rowFor
Loaded(s, y) ==
  IF s.ring[Slot(s, y)].y = y THEN s
  ELSE [s EXCEPT !.ring[Slot(s, y)] =
         [y |-> y, row |-> [x \in 0 .. s.img.w - 1 |-> At(s.img, x, y)]]]
Plus(v, e, num, den) == Each(LAMBDA c : Clamp(v[c] + (e[c] * num) \div den))

Den(s) == Matrix[Algorithm[s.alg].matrix].den * 100
Written(s, x, y, mapped) == [s EXCEPT !.at = @ + 1, !.out[y * s.img.w + x] = mapped]
GiveCell(s, x, y, error, cell) ==
  Then(<<x + IF Reversed(s.o, y) THEN -cell[1] ELSE cell[1], y + cell[2]>>, LAMBDA to :
    IF ~Inside(s.img, to[1], to[2]) THEN s
    ELSE [Loaded(s, to[2]) EXCEPT !.ring[Slot(s, to[2])].row[to[1]] = Plus(@, error, cell[3], Den(s))])
MatrixPixel(s) ==
  LET x == s.order[s.at + 1][1]    y == s.order[s.at + 1][2]
  IN Then(Loaded(s, y), LAMBDA here :
       Then(here.ring[Slot(s, y)].row[x], LAMBDA v :
         Then(MapColor(s.o, IF Algorithm[s.alg].processor = "adaptive" THEN Biased(s.img, v, x, y) ELSE v),
           LAMBDA mapped :
             Written(FoldLeft(LAMBDA t, cell : GiveCell(t, x, y, Minus(v, mapped), cell), here, s.cells),
                     x, y, mapped))))

GiveDots(s, x, y, error, takers) ==
  [s EXCEPT !.plane =
    FoldLeft(LAMBDA plane, d :
               [plane EXCEPT ![(y + d[2]) * s.img.w + x + d[1]] =
                  Plus(@, error, s.o.strength, 100 * Len(takers))], @, takers)]
DotPixel(s) ==
  LET x == s.order[s.at + 1][1]    y == s.order[s.at + 1][2]
  IN Then(s.plane[y * s.img.w + x], LAMBDA v :
       Then(SelectSeq(Recipients(x, y), LAMBDA d : Inside(s.img, x + d[1], y + d[2])), LAMBDA takers :
         Then(MapColor(s.o, v), LAMBDA mapped :
           Written(GiveDots(s, x, y, Minus(v, mapped), takers), x, y, mapped))))
NextPixel(s) == IF Algorithm[s.alg].processor = "dot" THEN DotPixel(s) ELSE MatrixPixel(s)
Scanned(s) == s.at = Len(s.order)
\* the working value of a pixel, where the scan holds one
Holds(s, x, y) ==
  IF s.plane # << >> THEN TRUE ELSE s.ring # << >> /\ s.ring[Slot(s, y)].y = y
Held(s, x, y) ==
  IF s.plane # << >> THEN s.plane[y * s.img.w + x] ELSE s.ring[Slot(s, y)].row[x]

-----------------------------------------------------------------------------
(* The threshold algorithms map every pixel alone.                         *)
Bayer4 == <<<<0, 8, 2, 10>>, <<12, 4, 14, 6>>, <<3, 11, 1, 9>>, <<15, 7, 13, 5>>>>
\* clustered dots: the cells of an even square in the order of their distance from
\* its centre, equal ones by angle; a quarter of the code's 8 by 8 table
Cluster4 == <<<<12, 5, 6, 13>>, <<4, 0, 1, 7>>, <<11, 3, 2, 8>>, <<15, 10, 9, 14>>>>
Side == 4
\* 2 ^ ((density - 1) * 2), for the densities 50, 100 and 150 per cent, in halves
DensityScale(density) == IF density <= 50 THEN 1 ELSE IF density >= 150 THEN 4 ELSE 2
Cell(alg, o, x, y) ==
  IF alg = "pattern"
  THEN Cluster4[(((y * DensityScale(o.density)) \div 2) % Side) + 1]
               [(((x * DensityScale(o.density)) \div 2) % Side) + 1]
  ELSE Bayer4[(y % Side) + 1][(x % Side) + 1]
ThresholdOf(cell) == ((2 * cell + 1) * One) \div (2 * Side * Side)
OrderedCpu(img, alg, o) ==
  [p \in Pixels(img) |->
     MapThreshold(o, img.px[p], ThresholdOf(Cell(alg, o, p % img.w, p \div img.w)))]
\* the shader: the threshold travels as its rank, a strength of 0 is taken for 1,
\* three-colour mixes and the other distances stay with the processor
RankOf(threshold) == (threshold * Side * Side) \div One
GpuSupports(o) == o.mapping # "tri-mix"
GpuOptions(alg, o) == [o EXCEPT !.strength = IF @ = 0 THEN 100 ELSE @]
OrderedGpu(img, alg, o) ==
  [p \in Pixels(img) |->
     MapThreshold(GpuOptions(alg, o), img.px[p],
       ThresholdOf(RankOf(ThresholdOf(Cell(alg, o, p % img.w, p \div img.w)))))]
=============================================================================
