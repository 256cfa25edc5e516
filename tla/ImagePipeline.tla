---------------------------- MODULE ImagePipeline ----------------------------
(***************************************************************************)
(* The image pipeline of the dither editor: a preview or a draw runs the   *)
(* picture through crop, resize, adjust, palette and dither, one stage at  *)
(* a time.  Previews share the stage cache; the diffusing algorithms run   *)
(* in the worker, or on the page when the worker is lost; a new picture    *)
(* and a synchronous run of the prepare stages come in between.            *)
(***************************************************************************)
EXTENDS Dithering, FiniteSetsExt

CONSTANTS Pictures,     \* the pictures a user may load: records w, h, px
          Palettes,     \* the palette presets, a function from names to colours
          Changes,      \* what one change of the settings assigns: <<field, value>>
          InitSettings, \* the settings a session may begin with
          FirstPicture, \* the picture it begins with
          Panel,        \* the panel a draw is encoded for: w, h
          MaxEntries, MaxBytes,        \* the limits of the stage cache
          MaxChanges, MaxLoads, MaxFailures, MaxRuns   \* bounds of the model

VARIABLES settings,  \* the settings of the page
          source,    \* the picture in the editor
          cache,     \* the stage cache
          job,       \* the run in progress
          pending,   \* TRUE while a preview waits for the run to end
          scan,      \* the diffusion in progress
          offsets,   \* the offset caches on the matrices: of the page and of the worker
          workers,   \* TRUE until a failure disables the worker
          gpu,       \* TRUE until a failure disables the graphics card
          shown,     \* the last result and what it was made from
          made,      \* pixel buffers created so far
          left       \* what the bounds still allow
vars == <<settings, source, cache, job, pending, scan, offsets, workers, gpu, shown, made, left>>

Stages == <<"crop", "resize", "adjust", "palette", "dither">>

Bytes(img) == img.w * img.h
NoCacheEntries == [entries |-> << >>, buffers |-> << >>, bytes |-> 0, gen |-> 0]
NoJob == [kind |-> "none"]
NoFrame == << >>
NoOffsetCache == [m \in DOMAIN Matrix |-> NoOffsets]

-----------------------------------------------------------------------------
(* The stage cache.  entries is in the order of the last use; buffers      *)
(* counts, for each pixel buffer, the entries that hold it.                *)
Index(c, key) == {n \in DOMAIN c.entries : c.entries[n].key = key}
Without(c, n) ==
  LET img == c.entries[n].img
      count == c.buffers[img.id]
      rest == [b \in DOMAIN c.buffers \ {img.id} |-> c.buffers[b]]
  IN [c EXCEPT !.entries = RemoveAt(@, n),
               !.buffers = IF count = 1 THEN rest ELSE [@ EXCEPT ![img.id] = count - 1],
               !.bytes = IF count = 1 THEN @ - Bytes(img) ELSE @]
Touched(c, n) == [c EXCEPT !.entries = Append(RemoveAt(@, n), c.entries[n])]
Trim(c, n) ==
  IF Len(c.entries) > MaxEntries \/ c.bytes > MaxBytes THEN Without(c, 1) ELSE c
Replaced(c, key) == IF Index(c, key) = {} THEN c ELSE Without(c, CHOOSE n \in Index(c, key) : TRUE)
Kept(c, key, img, out) ==
  LET old == Replaced(c, key)
      held == img.id \in DOMAIN old.buffers
      added == [old EXCEPT
        !.entries = Append(@, [key |-> key, img |-> img, out |-> out]),
        !.buffers = [b \in DOMAIN @ \cup {img.id} |->
                       IF b = img.id THEN (IF held THEN @[b] + 1 ELSE 1) ELSE @[b]],
        !.bytes = IF held THEN @ ELSE @ + Bytes(img)]
  IN IF MaxBytes = 0 \/ MaxEntries = 0 \/ Bytes(img) > MaxBytes THEN old
     ELSE FoldLeft(Trim, added, added.entries)
\* variant: a run begun before the cache was cleared still stores its stages
StoreLate(c, key, img, out, gen) == Kept(c, key, img, out)
Store(c, key, img, out, gen) == IF gen # c.gen THEN c ELSE Kept(c, key, img, out)
Cleared(c) == [NoCacheEntries EXCEPT !.gen = c.gen + 1]

-----------------------------------------------------------------------------
(* The stages.                                                             *)
DitherActive(s) == s.algorithm # "none"
AppliesPalette(s) == s.palette # "original" /\ ~DitherActive(s)
ActivePalette(s) == Palettes[s.palette]

\* what the key of a stage holds beside its input: its settings and its cacheKey()
OwnSettings(s, stage) ==
  CASE stage = "crop" -> <<s.flip>>
    [] stage = "resize" -> <<s.size>>
    [] stage = "adjust" -> <<s.brightness>>
    [] stage = "palette" -> <<s.palette, ActivePalette(s)>>
    [] OTHER -> <<s.algorithm, s.mapping, s.metric, s.serpentine, s.strength>>
Extra(s, stage) ==
  CASE stage = "palette" -> <<AppliesPalette(s), IF AppliesPalette(s) THEN s.metric ELSE "none">>
    [] stage = "dither" -> <<ActivePalette(s)>>
    [] OTHER -> << >>
KeyOf(s, stage, input) == Append(input, <<stage, OwnSettings(s, stage), Extra(s, stage)>>)
SourceKey(img) == << <<"image", <<img.id>>, << >> >> >>

Options(s) ==
  LET a == Algorithm[s.algorithm]
  IN [palette |-> ActivePalette(s), mapping |-> s.mapping, metric |-> s.metric,
      serpentine |-> s.serpentine /\ a.serpentine,
      strength |-> IF a.processor = "pattern" THEN 100 ELSE s.strength,
      density |-> s.strength,
      scale |-> ((IF a.processor = "pattern" THEN a.scale ELSE (a.scale * s.strength) \div 100)
                 * Full) \div 255]

Resized(img, size) ==
  [p \in 0 .. size[1] * size[2] - 1 |->
     At(img, ((p % size[1]) * img.w) \div size[1], ((p \div size[1]) * img.h) \div size[2])]
Flipped(img) == [p \in Pixels(img) |-> At(img, img.w - 1 - (p % img.w), p \div img.w)]
Brightened(img, percent) ==
  [p \in Pixels(img) |-> Each(LAMBDA c : Clamp((img.px[p][c] * (100 + percent)) \div 100))]
Quantised(img, s) ==
  LET o == [palette |-> ActivePalette(s), metric |-> s.metric]
  IN [p \in Pixels(img) |-> Colour(o, NearestIndex(o, img.px[p]))]
\* a stage that changes nothing hands on the very image it was given
Idle(img, s, stage) ==
  CASE stage = "crop" -> ~s.flip
    [] stage = "resize" -> s.size = <<0, 0>> \/ s.size = <<img.w, img.h>>
    [] stage = "adjust" -> s.brightness = 0
    [] stage = "palette" -> ~AppliesPalette(s) \/ ActivePalette(s) = << >>
    [] OTHER -> s.algorithm = "none" \/ ActivePalette(s) = << >>
Scans(img, s, stage) == stage = "dither" /\ ~Idle(img, s, stage) /\ Diffusing(s.algorithm)
SizeAfter(img, s, stage) == IF stage = "resize" THEN s.size ELSE <<img.w, img.h>>
\* the pixels of a stage that is not a scan; card: the graphics card does the thresholds
PixelsOf(img, s, stage, card) ==
  CASE stage = "crop" -> Flipped(img)
    [] stage = "resize" -> Resized(img, s.size)
    [] stage = "adjust" -> Brightened(img, s.brightness)
    [] stage = "palette" -> Quantised(img, s)
    [] OTHER -> IF card THEN OrderedGpu(img, s.algorithm, Options(s))
                ELSE OrderedCpu(img, s.algorithm, Options(s))
Made(img, s, stage, card, id) ==
  IF Idle(img, s, stage) THEN img
  ELSE [id |-> id, w |-> SizeAfter(img, s, stage)[1], h |-> SizeAfter(img, s, stage)[2],
        px |-> PixelsOf(img, s, stage, card)]
OutputKey(img, result, input, key) == IF result = img THEN input ELSE key

-----------------------------------------------------------------------------
(* The frame of a draw: the colours of the panel, as it shows them or as   *)
(* the protocol names them, become codes; two codes share a byte; a        *)
(* portrait picture is turned onto the landscape panel.                    *)
Codes == <<0, 1, 2, 3, 5, 6>>
Protocol == Palettes["protocol"]
PlaceOf(colours, v) == CHOOSE i \in DOMAIN colours : colours[i] = v /\ \A n \in 1 .. i - 1 : colours[n] # v
Has(colours, v) == \E i \in DOMAIN colours : colours[i] = v
CodeOf(v) ==
  Codes[IF Has(Palettes["panel"], v) THEN PlaceOf(Palettes["panel"], v) ELSE PlaceOf(Protocol, v)]
Portrait(img) == Panel.w # Panel.h /\ img.w = Panel.h /\ img.h = Panel.w
Encodable(img) ==
  /\ Portrait(img) \/ <<img.w, img.h>> = <<Panel.w, Panel.h>>
  /\ \A p \in Pixels(img) : Has(Palettes["panel"], img.px[p]) \/ Has(Protocol, img.px[p])
CodeAt(img, x, y) == CodeOf(IF Portrait(img) THEN At(img, y, Panel.w - 1 - x) ELSE At(img, x, y))
Encode(img) ==
  [n \in 1 .. (Panel.w * Panel.h) \div 2 |->
     LET x == (2 * (n - 1)) % Panel.w    y == (2 * (n - 1)) \div Panel.w
     IN CodeAt(img, x, y) * 16 + CodeAt(img, x + 1, y)]
\* targetPolicy.force: an e-paper target dictates the palette and the size
Forced(s) ==
  [s EXCEPT !.palette = "panel",
            !.size = IF s.size = <<Panel.h, Panel.w>> THEN <<Panel.h, Panel.w>> ELSE <<Panel.w, Panel.h>>]

-----------------------------------------------------------------------------
Nothing == [kind |-> "none"]
Init ==
  /\ settings \in InitSettings
  /\ source = [id |-> 1, w |-> FirstPicture.w, h |-> FirstPicture.h, px |-> FirstPicture.px]
  /\ cache = NoCacheEntries
  /\ job = NoJob /\ pending = FALSE
  /\ scan = NoScan
  /\ offsets = [page |-> NoOffsetCache, worker |-> NoOffsetCache]
  /\ workers = TRUE /\ gpu = TRUE
  /\ shown = Nothing
  /\ made = 1
  /\ left = [changes |-> MaxChanges, loads |-> MaxLoads, failures |-> MaxFailures, runs |-> MaxRuns]

Scanning == scan.order # << >>
\* the page is free unless it diffuses a picture itself
PageFree == ~(Scanning /\ scan.page)
Spend(what) == left[what] > 0 /\ left' = [left EXCEPT ![what] = @ - 1]

(* The owner of the runs.                                                  *)
NewJob(kind, s) ==
  [kind |-> kind, settings |-> s, of |-> source, img |-> source, key |-> SourceKey(source),
   stage |-> 1, gen |-> cache.gen, cached |-> kind = "preview", cancelled |-> FALSE]
\* the end of a run, whatever it ends with: a waiting preview takes its place
Ended ==
  /\ job' = IF pending THEN NewJob("preview", settings) ELSE NoJob
  /\ pending' = FALSE
\* invalidate(..., terminate): the worker goes, with its offset caches, and the next
\* run begins a new one, be it after a failure
Terminated ==
  /\ pending' = FALSE /\ scan' = NoScan
  /\ offsets' = [offsets EXCEPT !.worker = NoOffsetCache]
  /\ workers' = TRUE

(* The user.                                                               *)
\* schedulePreview: the preview in progress only learns at its next check that it is
\* superseded, and a worker goes on with it; during a draw a preview is put by
ChangeSetting ==
  /\ PageFree /\ Spend("changes")
  /\ \E c \in Changes : settings' = [settings EXCEPT ![c[1]] = c[2]]
  /\ settings' # settings
  /\ job' = IF job.kind = "preview" THEN [job EXCEPT !.cancelled = TRUE] ELSE job
  /\ pending' = (pending \/ job.kind = "draw")
  /\ UNCHANGED <<source, cache, scan, offsets, workers, gpu, shown, made>>

\* a decoded picture replaces the old one; a preview begun while it was being
\* decoded goes on with the old picture
LoadResult ==
  /\ PageFree /\ Spend("loads")
  /\ \E p \in Pictures : source' = [id |-> made + 1, w |-> p.w, h |-> p.h, px |-> p.px]
  /\ made' = made + 1
  /\ cache' = Cleared(cache)
  /\ shown' = Nothing
  /\ UNCHANGED <<settings, job, pending, scan, offsets, workers, gpu>>

\* jobs.preview: one run at a time, and one preview waiting for it
StartPreview ==
  /\ PageFree /\ Spend("runs")
  /\ job' = IF job = NoJob THEN NewJob("preview", settings)
            ELSE IF job.kind = "preview" THEN [job EXCEPT !.cancelled = TRUE] ELSE job
  /\ pending' = (job # NoJob)
  /\ UNCHANGED <<settings, source, cache, scan, offsets, workers, gpu, shown, made>>
\* jobs.heavy: a draw takes the place of a preview, never of another draw
StartDraw ==
  /\ PageFree /\ job.kind # "draw" /\ Spend("runs")
  /\ job' = NewJob("draw", Forced(settings))
  /\ Terminated
  /\ UNCHANGED <<settings, source, cache, gpu, shown, made>>
\* jobs.cancel: an export cancelled, or the loading of a picture begun
Cancel ==
  /\ PageFree /\ job # NoJob
  /\ job' = NoJob
  /\ Terminated
  /\ UNCHANGED <<settings, source, cache, gpu, shown, made, left>>

\* runPanelGroup: the prepare stages run at once, on the settings of the page
UpdatePrepared ==
  LET key == KeyOf(settings, "crop", SourceKey(source))
      result == Made(source, settings, "crop", FALSE, made + 1)
  IN /\ PageFree /\ Spend("runs")
     /\ IF Index(cache, key) # {}
        THEN cache' = Touched(cache, CHOOSE n \in Index(cache, key) : TRUE) /\ made' = made
        ELSE /\ cache' = Store(cache, key, result, OutputKey(source, result, SourceKey(source), key), cache.gen)
             /\ made' = IF result = source THEN made ELSE made + 1
     /\ UNCHANGED <<settings, source, job, pending, scan, offsets, workers, gpu, shown>>

(* The run, stage by stage.                                                *)
Running == PageFree /\ job # NoJob /\ ~Scanning
Stage == Stages[job.stage]
Key == KeyOf(job.settings, Stage, job.key)
Hit == job.cached /\ Index(cache, Key) # {}
Advance(img, key) == job' = [job EXCEPT !.img = img, !.key = key, !.stage = @ + 1]

\* job.check(): a superseded run ends before its next stage
Abandon ==
  /\ Running /\ job.cancelled
  /\ Ended
  /\ UNCHANGED <<settings, source, cache, scan, offsets, workers, gpu, shown, made, left>>

TakeCached ==
  /\ Running /\ ~job.cancelled /\ job.stage <= Len(Stages) /\ Hit
  /\ LET n == CHOOSE k \in Index(cache, Key) : TRUE
     IN /\ Advance(cache.entries[n].img, cache.entries[n].out)
        /\ cache' = Touched(cache, n)
  /\ UNCHANGED <<settings, source, pending, scan, offsets, workers, gpu, shown, made, left>>

Deliver(result) ==
  LET out == OutputKey(job.img, result, job.key, Key)
  IN /\ Advance(result, out)
     /\ cache' = IF job.cached THEN Store(cache, Key, result, out, job.gen) ELSE cache
     /\ made' = IF result = job.img THEN made ELSE made + 1

\* the thresholds go to the graphics card while it works
RunStage ==
  /\ Running /\ ~job.cancelled /\ job.stage <= Len(Stages) /\ ~Hit
  /\ ~Scans(job.img, job.settings, Stage)
  /\ \E card \in {gpu /\ GpuSupports(job.settings), FALSE} :
       /\ IF card \/ ~gpu \/ ~GpuSupports(job.settings) THEN gpu' = gpu /\ left' = left
          ELSE Stage = "dither" /\ ~Idle(job.img, job.settings, Stage) /\ gpu' = FALSE /\ Spend("failures")
       /\ \E result \in {Made(job.img, job.settings, Stage, card, made + 1)} : Deliver(result)
  /\ UNCHANGED <<settings, source, pending, scan, offsets, workers, shown>>

BeginScan(page) ==
  LET where == IF page THEN "page" ELSE "worker"
      alg == job.settings.algorithm
      o == Options(job.settings)
      m == Algorithm[alg].matrix
      kept == IF Algorithm[alg].processor = "dot" THEN offsets[where]
              ELSE Offsets(offsets[where], m, job.img.w, o.strength)
  IN /\ scan' = Begun(job.img, alg, o, kept, page)
     /\ offsets' = [offsets EXCEPT ![where] = kept]
Diffuse ==
  /\ Running /\ ~job.cancelled /\ job.stage <= Len(Stages) /\ ~Hit
  /\ Scans(job.img, job.settings, Stage)
  /\ BeginScan(~workers)
  /\ UNCHANGED <<settings, source, cache, job, pending, workers, gpu, shown, made, left>>

ScanPixel ==
  /\ Scanning /\ ~Scanned(scan)
  /\ scan' = NextPixel(scan)
  /\ UNCHANGED <<settings, source, cache, job, pending, offsets, workers, gpu, shown, made, left>>

\* the answer of a superseded run is dropped
ScanDone ==
  /\ Scanning /\ Scanned(scan)
  /\ scan' = NoScan
  /\ IF job.cancelled THEN Ended /\ UNCHANGED <<cache, made>>
     ELSE /\ Deliver([id |-> made + 1, w |-> scan.img.w, h |-> scan.img.h, px |-> scan.out])
          /\ pending' = pending
  /\ UNCHANGED <<settings, source, offsets, workers, gpu, shown, left>>

\* a lost worker is not used again; the run goes on on the page, from the start,
\* unless it is superseded
WorkerFails ==
  /\ Scanning /\ ~scan.page /\ Spend("failures")
  /\ workers' = FALSE
  /\ IF job.cancelled THEN scan' = NoScan /\ Ended /\ UNCHANGED offsets
     ELSE BeginScan(TRUE) /\ UNCHANGED <<job, pending>>
  /\ UNCHANGED <<settings, source, cache, gpu, shown, made>>

Commit ==
  /\ Running /\ ~job.cancelled /\ job.stage > Len(Stages)
  /\ shown' = [kind |-> job.kind, settings |-> job.settings, of |-> job.of, img |-> job.img,
               frame |-> IF job.kind = "draw" /\ Encodable(job.img) THEN Encode(job.img) ELSE NoFrame]
  /\ Ended
  /\ UNCHANGED <<settings, source, cache, scan, offsets, workers, gpu, made, left>>

Run ==
  \/ Abandon \/ TakeCached \/ RunStage \/ Diffuse \/ ScanPixel \/ ScanDone \/ Commit
Next ==
  \/ Run
  \/ ChangeSetting \/ LoadResult \/ StartPreview \/ StartDraw \/ Cancel \/ UpdatePrepared \/ WorkerFails
Spec == Init /\ [][Next]_vars

-----------------------------------------------------------------------------
TypeOK ==
  /\ job = NoJob \/ job.stage \in 1 .. Len(Stages) + 1
  /\ Scanning => job # NoJob /\ job.stage <= Len(Stages) /\ Stage = "dither"
  /\ Scanning /\ scan.page => ~job.cancelled
  /\ pending => job # NoJob
  /\ \A b \in DOMAIN cache.buffers : b \in 1 .. made /\ cache.buffers[b] > 0
  /\ source.id \in 1 .. made

\* The reference: the same stages without a cache, the error diffused over a copy of
\* the whole picture, the thresholds computed by the processor.
RefMean(img, x, y) ==
  LET near == {p \in Pixels(img) : Abs((p % img.w) - x) <= MeanRadius /\ Abs((p \div img.w) - y) <= MeanRadius}
  IN FoldSet(LAMBDA p, sum : sum + Luminance(img.px[p]), 0, near) \div (100 * Cardinality(near))
RefPixel(img, alg, o, st, at) ==
  LET v == st.plane[at[2] * img.w + at[1]]
      bias == (((Full + 1) \div 2 - RefMean(img, at[1], at[2])) * 35) \div 100
      seen == IF Algorithm[alg].processor = "adaptive" THEN Each(LAMBDA c : Clamp(v[c] + bias)) ELSE v
      mapped == MapColor(o, seen)
      m == Matrix[Algorithm[alg].matrix]
      Give(plane, cell) ==
        LET nx == IF Reversed(o, at[2]) THEN at[1] - cell[1] ELSE at[1] + cell[1]
            ny == at[2] + cell[2]
        IN IF ~Inside(img, nx, ny) THEN plane
           ELSE [plane EXCEPT ![ny * img.w + nx] = Plus(@, Minus(v, mapped), cell[3] * o.strength, m.den * 100)]
  IN [plane |-> FoldLeft(Give, st.plane, m.cells),
      out |-> [st.out EXCEPT ![at[2] * img.w + at[1]] = mapped]]
RefDot(img, o, st, at) ==
  LET v == st.plane[at[2] * img.w + at[1]]
      mapped == MapColor(o, v)
      later == {p \in Pixels(img) : /\ Abs((p % img.w) - at[1]) <= 1 /\ Abs((p \div img.w) - at[2]) <= 1
                                    /\ ClassAt(p % img.w, p \div img.w) > ClassAt(at[1], at[2])}
  IN [plane |-> [p \in Pixels(img) |-> IF p \in later
                   THEN Plus(st.plane[p], Minus(v, mapped), o.strength, 100 * Cardinality(later))
                   ELSE st.plane[p]],
      out |-> [st.out EXCEPT ![at[2] * img.w + at[1]] = mapped]]
RefScan(img, alg, o) ==
  LET start == [plane |-> img.px, out |-> img.px]
  IN IF Algorithm[alg].processor = "dot"
     THEN FoldLeft(LAMBDA st, at : RefDot(img, o, st, at), start, ClassOrder(img)).out
     ELSE FoldLeft(LAMBDA st, at : RefPixel(img, alg, o, st, at), start, RowOrder(img, o)).out
RefStage(img, s, stage, card) ==
  IF Scans(img, s, stage)
  THEN [id |-> 0, w |-> img.w, h |-> img.h, px |-> RefScan(img, s.algorithm, Options(s))]
  ELSE Made(img, s, stage, card, 0)
Reference(img, s, card) == FoldLeft(LAMBDA i, stage : RefStage(i, s, stage, card), img, Stages).px
\* the one setting the graphics card does not honour: a mix of two colours by thresholds
\* whose strength is 0 is made at full strength (threshold-dither-processor.js:132)
StrengthIgnored(s) ==
  /\ Algorithm[s.algorithm].processor = "ordered" /\ s.strength = 0
  /\ s.mapping = "pair-mix" /\ GpuSupports(s)

\* What is shown or drawn is what the settings of its run make of its picture: no stage
\* taken from the cache, no ring of rows, no cached offset, no worker lost, terminated or
\* left with a superseded run makes a difference (pipeline-runner.js, controller.js,
\* error-diffusion.js, dither-feature.js).  Nor does the graphics card, but for one
\* setting: a mix of two colours at strength 0 comes, from the card or from a stage of
\* the cache the card once made, as at strength 100.
ResultIsFresh ==
  [][shown' # Nothing =>
       LET s == shown'.settings
       IN \/ shown'.img.px = Reference(shown'.of, s, FALSE)
          \/ StrengthIgnored(s) /\ shown'.img.px = Reference(shown'.of, s, TRUE)]_shown

\* A pixel that is written takes no more error: whatever the direction of the row, the
\* matrix or the class, error is only given to pixels still to come.
ErrorGoesForward ==
  [][\A n \in 1 .. scan.at :
       LET x == scan.order[n][1]    y == scan.order[n][2]
       IN scan'.order = scan.order /\ scan'.page = scan.page /\ Holds(scan, x, y) /\ Holds(scan', x, y)
            => Held(scan', x, y) = Held(scan, x, y)]_scan

\* The cache accounts for every buffer it retains once, however many entries hold it,
\* and keeps to both of its limits.
RetainedIsCounted ==
  LET entries == cache.entries
      ids == {entries[n].img.id : n \in DOMAIN entries}
      SizeOf(b) == Bytes(entries[CHOOSE n \in DOMAIN entries : entries[n].img.id = b].img)
  IN /\ cache.bytes = FoldSet(LAMBDA b, sum : sum + SizeOf(b), 0, ids)
     /\ DOMAIN cache.buffers = ids
     /\ cache.bytes <= MaxBytes /\ Len(entries) <= MaxEntries

\* A run that outlives its picture leaves nothing in the cache: after a load, every
\* entry was made from the new picture.
CacheIsCurrent ==
  \A n \in DOMAIN cache.entries : cache.entries[n].key[1][2] = <<source.id>>

\* A draw always has a frame, and the frame shows the picture: upright on a landscape
\* panel, turned by a quarter when it is portrait.
FrameHoldsPicture ==
  shown.kind = "draw" =>
    /\ Encodable(shown.img)
    /\ \A p \in Pixels(shown.img) :
         LET ix == p % shown.img.w    iy == p \div shown.img.w
             at == IF Portrait(shown.img) THEN ix * Panel.w + Panel.w - 1 - iy ELSE p
             byte == shown.frame[at \div 2 + 1]
         IN CodeOf(shown.img.px[p]) = IF at % 2 = 0 THEN byte \div 16 ELSE byte % 16

\* A run that outlives its picture, a lost worker and a full cache leave the pipeline
\* well formed, its cache accounted for and current, and the frame of a draw true.
PipelineInv == TypeOK /\ RetainedIsCounted /\ CacheIsCurrent /\ FrameHoldsPicture

-----------------------------------------------------------------------------
\* A property the documents state and the code does not have.
\* The graphics card gives what the processor gives ("the GPU path must use the same
\* threshold rank, thresholdScale, thresholdStrength ...", SPEC_TECHNICAL.md:746).
CardAgrees ==
  job # NoJob /\ job.stage = Len(Stages)
    /\ ~Idle(job.img, job.settings, "dither") /\ ~Diffusing(job.settings.algorithm)
    /\ GpuSupports(job.settings)
  => LET alg == job.settings.algorithm    o == Options(job.settings)
     IN OrderedGpu(job.img, alg, o) = OrderedCpu(job.img, alg, o)
=============================================================================
