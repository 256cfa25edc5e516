----------------------------- MODULE ProjectFile -----------------------------
(***************************************************************************)
(* The editor's project file, <name>.dither.png (project-file.js), and the *)
(* workspace it carries (project-workspace.js): the PNG of the result with *)
(* three more chunks, the manifest, the original file and the working      *)
(* picture.  What a project may be made from, what opening one restores,   *)
(* and what a damaged or foreign one does.                                 *)
(*                                                                         *)
(* A file is its PNG chunks; a checksum is the flag ok, a size a few       *)
(* units.  A feature's settings are their nesting depth, whether they are  *)
(* in the feature's ranges and, for the palette, the lengths of its lists. *)
(* File name, open panels, target and dates are copied and left out.       *)
(***************************************************************************)
EXTENDS Naturals, Sequences

MAX_SOURCE_BYTES    == 2    \* stands for 50 MiB
MAX_MANIFEST_BYTES  == 1    \* stands for 256 KiB
MAX_PROJECT_BYTES   == 5    \* stands for 64 MiB
MAX_CHUNKS          == 8    \* stands for 4096
MAX_SIDE            == 6    \* validateSize: stands for 16384
MAX_INPUT_LONG_EDGE == 4    \* inputLongEdge(): 800 for the panel this firmware has
MAX_JSON_DEPTH      == 16   \* validJsonValue: the manifest at depth 0
MAX_VALUE_DEPTH     == 12   \* validateFeatureValue: a feature's settings at depth 0
SETTINGS_DEPTH      == 4    \* manifest, editor, features, the feature, its settings
MIN_ORIGINAL_PALETTE_SIZE == 2
MAX_ORIGINAL_PALETTE_SIZE == 32

DefaultPipeline == [fixedBefore |-> <<"crop", "resize">>, effectsOrder |-> <<"adjust", "palette", "dither">>,
             fixedAfter |-> <<"export">>]
Features  == {"crop", "resize", "adjust", "palette", "dither", "export"}
Operations == Features \ {"export"}
ProjectChunks == {"diMF", "diOR", "diWK"}
MimeTypes == {"png", "jpeg", "webp"}

-----------------------------------------------------------------------------
(* PNG streams.  rest: what follows the last whole chunk.                   *)

Chunk(type, body) == [type |-> type, body |-> body, ok |-> TRUE]
\* A picture as the browser encodes it.
Png(size, bytes)  == [sig |-> TRUE, rest |-> "none", bytes |-> bytes,
    chunks |-> <<Chunk("IHDR", size), Chunk("IDAT", "pixels"), Chunk("IEND", "")>>]

\* One pass over the chunks: IHDR first and once, IEND last and nothing after it.
ParsePng(p, verifyCrc) ==
    /\ p.sig /\ p.rest = "none" /\ p.chunks # << >> /\ Len(p.chunks) - 1 <= MAX_CHUNKS
    /\ \A n \in DOMAIN p.chunks :
          /\ p.chunks[n].type = "IHDR" <=> n = 1
          /\ p.chunks[n].type = "IEND" <=> n = Len(p.chunks)
          /\ verifyCrc => p.chunks[n].ok

ChunksByType(p, type) == {n \in DOMAIN p.chunks : p.chunks[n].type = type}
Body(p, type)         == p.chunks[CHOOSE n \in ChunksByType(p, type) : TRUE].body
PngDimensions(p)      == Body(p, "IHDR")

\* classify: by name only whether to look inside.
Classify(f) ==
    CASE f.name = "other" -> "image"
      [] f.png.bytes \notin 1..MAX_PROJECT_BYTES \/ (f.png.sig /\ ~ParsePng(f.png, FALSE)) -> "refused"
      [] f.png.sig /\ \E type \in ProjectChunks : ChunksByType(f.png, type) # {} -> "project"
      [] OTHER -> IF f.name = "project" THEN "refused" ELSE "image"

-----------------------------------------------------------------------------
(* Writing.  An operator that may refuse returns a set, empty if it does.   *)

ValidSize(size) == size[1] \in 1..MAX_SIDE /\ size[2] \in 1..MAX_SIDE

ValidFeatureValue(settings) == settings.depth <= MAX_VALUE_DEPTH

Manifest(w) ==
    IF /\ ValidSize(w.original) /\ ValidSize(w.working) /\ ValidSize(w.result)
       /\ \A id \in DOMAIN w.settings : ValidFeatureValue(w.settings[id])
    THEN {[json |-> TRUE, format |-> "embedded-web-dithering-project", schema |-> 1, text |-> w.text,
           source |-> [mime |-> w.mime, bytes |-> w.bytes, original |-> w.original],
           working |-> w.working, result |-> w.result, mode |-> w.mode, view |-> w.view,
           pipeline |-> [DefaultPipeline EXCEPT !.effectsOrder = w.order], enabled |-> w.enabled,
           features |-> [id \in DOMAIN w.settings |-> [version |-> 1, settings |-> w.settings[id]]]]}
    ELSE {}

CreateProject(preview, source, working, m) ==
    LET last  == Len(preview.chunks)
        added == <<Chunk("diMF", m), Chunk("diOR", source), Chunk("diWK", working)>>
        bytes == preview.bytes + m.text + source.bytes + working.bytes
        chunks == SubSeq(preview.chunks, 1, last - 1) \o added \o SubSeq(preview.chunks, last, last)
    IN  IF /\ source.bytes <= MAX_SOURCE_BYTES /\ m.text <= MAX_MANIFEST_BYTES
           /\ ParsePng(preview, TRUE) /\ bytes <= MAX_PROJECT_BYTES
        THEN {[preview EXCEPT !.bytes = bytes, !.chunks = chunks]} ELSE {}

\* computeExportProject, once the pipeline has run.
ProjectOf(w) ==
    UNION {CreateProject(Png(w.result, w.preview), [magic |-> w.magic, bytes |-> w.bytes],
                         Png(w.working, 1), m) : m \in Manifest(w)}

-----------------------------------------------------------------------------
(* Reading.                                                                 *)

ValidJsonBelow(depth) == depth < MAX_JSON_DEPTH   \* one level less
ValidJsonValue(depth) == depth <= MAX_JSON_DEPTH

DecodeManifest(m) ==
    /\ m.text <= MAX_MANIFEST_BYTES /\ m.json
    /\ \A id \in DOMAIN m.features : ValidJsonValue(SETTINGS_DEPTH + m.features[id].settings.depth)
    /\ m.format = "embedded-web-dithering-project" /\ m.schema = 1

SourceMimeType(m, source) == source.magic \in MimeTypes /\ m.source.mime = source.magic

\* The chunks, what the manifest says of them, and the working picture.
ReadProject(p) ==
    /\ ParsePng(p, TRUE)
    /\ \A type \in ProjectChunks : \E n \in DOMAIN p.chunks : ChunksByType(p, type) = {n}
    /\ LET m == Body(p, "diMF")    source == Body(p, "diOR")    working == Body(p, "diWK")
       IN  /\ DecodeManifest(m)
           /\ m.result = PngDimensions(p)
           /\ source.bytes \in 1..MAX_SOURCE_BYTES /\ m.source.bytes = source.bytes
           /\ SourceMimeType(m, source)
           /\ ParsePng(working, TRUE) /\ m.working = PngDimensions(working)

\* loadWorkingImage makes a picture smaller whose long edge is over the limit.
KeptWhole(size) == size[1] <= MAX_INPUT_LONG_EDGE /\ size[2] <= MAX_INPUT_LONG_EDGE

ValidatePipeline(pipeline, enabled) ==
    /\ \A stage \in DOMAIN DefaultPipeline :
          LET known == DefaultPipeline[stage]    values == pipeline[stage]
          IN  /\ Len(values) = Len(known)
              /\ \A n \in DOMAIN values : /\ \E k \in DOMAIN known : known[k] = values[n]
                                          /\ \A k \in DOMAIN values : values[k] = values[n] => k = n
    /\ DOMAIN enabled \subseteq Operations

\* A palette is the set of its length: {} is null.
ValidPalette(palette) == palette \subseteq MIN_ORIGINAL_PALETTE_SIZE .. MAX_ORIGINAL_PALETTE_SIZE

ValidPersistedSettings(id, settings) ==
    /\ settings.inRange
    /\ id = "palette" => /\ ValidPalette(settings.palette) /\ ValidPalette(settings.original)
                         /\ ValidPalette({settings.size})

ValidFeatures(features) ==
    /\ DOMAIN features = Features
    /\ \A id \in Features : /\ features[id].version = 1 /\ ValidFeatureValue(features[id].settings)
                            /\ ValidPersistedSettings(id, features[id].settings)

\* The workspace a file restores, if it is let in.
Restore(p) ==
    LET m == Body(p, "diMF")    source == Body(p, "diOR")
    IN  IF ~ReadProject(p) THEN {}
        ELSE IF ~(/\ ValidSize(m.source.original) /\ ValidSize(m.working) /\ ValidSize(m.result)
                  /\ KeptWhole(m.working)
                  /\ ValidatePipeline(m.pipeline, m.enabled) /\ ValidFeatures(m.features)) THEN {}
        ELSE {[magic |-> source.magic, mime |-> m.source.mime, bytes |-> source.bytes,
               original |-> m.source.original, working |-> m.working, result |-> m.result,
               preview |-> p.bytes - m.text - source.bytes - 1, text |-> m.text,
               mode |-> IF m.mode \in {"source", "prepare"} THEN m.mode ELSE "edit",
               view |-> IF m.view \in {"original", "pixel"} THEN m.view ELSE "result",
               order |-> m.pipeline.effectsOrder, enabled |-> m.enabled,
               settings |-> [id \in Features |-> m.features[id].settings]]}

-----------------------------------------------------------------------------
(* Bounded inputs: workspaces an export can start from, what happens to     *)
(* their files, and files that another program or version writes with every *)
(* checksum right.  Settings are as deep as the features make them, or as   *)
(* deep as a project that was opened may have brought them: restoreSettings *)
(* keeps the fields it does not know.  The type comes from the name or from *)
(* the browser and need not be that of the bytes, which may be of a kind    *)
(* the browser decodes and a project does not know; the quantiser may find  *)
(* a single colour.                                                         *)

Settings(depth, palette) ==
    [id \in Features |-> IF id = "palette"
        THEN [depth |-> depth, inRange |-> TRUE, palette |-> {6}, original |-> palette, size |-> 8]
        ELSE [depth |-> depth, inRange |-> TRUE]]
Workspaces ==
    {[magic |-> kind[1], mime |-> kind[2], bytes |-> bytes, original |-> original, working |-> working,
      result |-> <<4, 3>>, preview |-> preview, text |-> text, mode |-> "edit", view |-> view, order |-> order,
      enabled |-> [id \in Operations |-> id # off], settings |-> Settings(depth, palette)] :
        kind \in {<<"png", "png">>, <<"webp", "webp">>, <<"webp", "png">>, <<"gif", "png">>},
        bytes \in 1..3, original \in {<<4, 3>>, <<6, 1>>, <<7, 1>>},
        working \in {<<4, 3>>, <<3, 4>>}, preview \in 1..2, text \in 1..2, view \in {"result", "pixel"},
        order \in {<<"adjust", "palette", "dither">>, <<"dither", "adjust", "palette">>},
        off \in {"dither", "none"}, depth \in {3, 12}, palette \in {{}, {1}, {2}, {32}}}

WithChunks(p, chunks) == [p EXCEPT !.chunks = chunks]
Damaged(p) ==
    LET cs == p.chunks IN
    {WithChunks(p, SubSeq(cs, 1, n - 1) \o SubSeq(cs, n + 1, Len(cs))) : n \in DOMAIN cs}
    \cup {WithChunks(p, SubSeq(cs, 1, n) \o SubSeq(cs, n, Len(cs))) : n \in DOMAIN cs}
    \cup {WithChunks(p, [cs EXCEPT ![n] = cs[k], ![k] = cs[n]]) : n, k \in DOMAIN cs}
    \cup {WithChunks(p, [cs EXCEPT ![n].ok = FALSE]) : n \in DOMAIN cs}
    \cup {[p EXCEPT !.rest = r] : r \in {"cut", "more"}}

Foreign(p) ==
    LET m == Body(p, "diMF")
        order == m.pipeline.effectsOrder
        At(type, body) == WithChunks(p, [n \in DOMAIN p.chunks |->
            IF p.chunks[n].type = type THEN Chunk(type, body) ELSE p.chunks[n]])
    IN  {At("diMF", x) : x \in
           {[m EXCEPT !.json = FALSE], [m EXCEPT !.format = "other"], [m EXCEPT !.schema = 2],
            [m EXCEPT !.text = 2], [m EXCEPT !.source.bytes = 3 - @], [m EXCEPT !.source.mime = "jpeg"],
            [m EXCEPT !.source.original = <<0, 3>>], [m EXCEPT !.working = <<1, 1>>],
            [m EXCEPT !.result = <<1, 1>>], [m EXCEPT !.pipeline.effectsOrder = Tail(order)],
            [m EXCEPT !.pipeline.effectsOrder = <<order[1], order[1], order[3]>>],
            [m EXCEPT !.pipeline.effectsOrder = <<order[1], "blur", order[3]>>],
            [m EXCEPT !.enabled = [id \in {"blur"} |-> TRUE]],
            [m EXCEPT !.features = [id \in Features \ {"crop"} |-> m.features[id]]],
            [m EXCEPT !.features = [id \in Features \cup {"blur"} |-> m.features["crop"]]],
            [m EXCEPT !.features["dither"].version = 2],
            [m EXCEPT !.features["dither"].settings.inRange = FALSE],
            [m EXCEPT !.features["dither"].settings.depth = 13],
            [m EXCEPT !.features["palette"].settings.original = {33}],
            [m EXCEPT !.features["palette"].settings.size = 1]}}
        \cup {At("diOR", [magic |-> "gif", bytes |-> m.source.bytes]),
              At("diWK", [Png(m.working, 1) EXCEPT !.sig = FALSE])}

\* The projects the importer knows: the declared type of the picture is the type of its
\* bytes (sourceMimeType), and an Original palette has more than one colour (palette-feature.js validPalette).
Importable(w) == w.magic = w.mime /\ w.settings["palette"].original # {1}

\* What an export lets out, at every limit, is taken for a project, and opens again as what
\* it was made from exactly when it is importable: a misnamed picture or one of a single
\* colour is exported all the same, and then refused, never opened as something else.  Once
\* damaged a file opens as what it was or not at all, and nothing else is let in
\* (user-web-project/docs/SPEC_BEHAVIOR.md:231-234).
ProjectsReadBack ==
    \A w \in Workspaces : \A p \in ProjectOf(w) :
        /\ \A name \in {"png", "project"} : Classify([name |-> name, png |-> p]) = "project"
        /\ Restore(p) = IF Importable(w) THEN {w} ELSE {}
        /\ \A d \in Damaged(p) : Classify([name |-> "project", png |-> d]) = "project" => Restore(d) \subseteq Restore(p)
        /\ \A d \in Foreign(p) : Restore(d) = {}

-----------------------------------------------------------------------------
\* Properties the documents state and the code does not have.
\* "Importing it restores the embedded original image" (SPEC_BEHAVIOR.md:231): also of a
\* picture whose name or type is not that of its bytes, which the browser opens all the same.
MisnamedReadsBack ==
    \A w \in Workspaces : \A p \in ProjectOf(w) : w.magic # w.mime => Restore(p) # {}
\* ... and of a picture with a single colour.
PlainReadsBack ==
    \A w \in Workspaces : \A p \in ProjectOf(w) : w.settings["palette"].original = {1} => Restore(p) # {}
\* "Project routing is content-first" (SPEC_BEHAVIOR.md:234): whatever the file is called.
RoutedByContent ==
    \A w \in Workspaces : \A p \in ProjectOf(w) : Classify([name |-> "other", png |-> p]) = "project"
=============================================================================
