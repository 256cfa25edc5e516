-------------------------- MODULE CalibrationProofs --------------------------
(***************************************************************************)
(* The safety properties of CalibrationClient, for every set of colours,   *)
(* every set of display values and every number of acts and events.        *)
(***************************************************************************)
EXTENDS CalibrationClient, TLAPS

Client ==
  [colors : Colors, loading : BOOLEAN, saving : BOOLEAN, synced : BOOLEAN,
   load : Request, write : Request, link : {"checking", "offline", "online"},
   supported : BOOLEAN, mounted : BOOLEAN, early : BOOLEAN,
   draft : [Ids -> Texts], base : Colors, stale : BOOLEAN, dirty : BOOLEAN,
   external : BOOLEAN, local : BOOLEAN, reload : BOOLEAN,
   locked : BOOLEAN, editable : BOOLEAN]
Stored == [colors : Colors, moved : BOOLEAN]
Left == [edits : Nat, writes : Nat, mounts : Nat, events : Nat]

\* Who holds the serial: a load that is out always does; a write that does not leaves
\* the service saving.  The page's operation is its reload or its write.
Serial(k) ==
  /\ (k.loading <=> k.load.st # "none") /\ (k.load.last <=> k.loading)
  /\ k.write.last => k.write.st # "none" /\ ~k.loading
  /\ k.write.st # "none" => k.saving
  /\ k.reload => k.loading /\ k.write.st = "none"
  /\ k.local <=> k.reload \/ k.write.st # "none"

Shown(k) == k.mounted /\ ~k.locked => k.link = "online" /\ ~k.loading /\ ~k.saving
Clean(k) == k.mounted /\ ~k.dirty => k.draft = k.base
\* A page behind the service says so, unless the service is stuck in a save.
Behind(k) == k.mounted /\ k.stale => k.external \/ (k.saving /\ ~k.write.last)
Page(k) == Shown(k) /\ Clean(k) /\ Behind(k)

\* What an answer on its way, and the service, know of the device d.
Knows(k, d) ==
  /\ k.load.st = "back" /\ k.load.fresh /\ ~k.saving => k.load.val = d.colors
  /\ k.write.st = "back" /\ k.write.fresh /\ k.write.last => k.write.val = d.colors
  /\ k.synced /\ ~d.moved /\ (~k.saving \/ (k.write.st = "sent" /\ k.write.last))
       => k.colors = d.colors

\* What holds of a client k, beside a device d, between any two steps.
Good(k, d) == k \in Client /\ Serial(k) /\ Page(k) /\ Knows(k, d)

CalibrationInductive == Good(c, dev) /\ dev \in Stored /\ left \in Left

\* n differs from k at most in what the page keeps and shows.
SameService(k, n) ==
  /\ n.colors = k.colors /\ n.loading = k.loading /\ n.saving = k.saving
  /\ n.synced = k.synced /\ n.load = k.load /\ n.write = k.write
  /\ n.link = k.link /\ n.supported = k.supported
  /\ n.mounted = k.mounted /\ n.early = k.early
SameDraft(k, n) ==
  /\ n.draft = k.draft /\ n.base = k.base /\ n.stale = k.stale
  /\ n.dirty = k.dirty /\ n.external = k.external
SameOperation(k, n) == n.local = k.local /\ n.reload = k.reload

\* A draft with edits is only replaced in an operation of the page.
KeepsDraft(k, n) ==
  k.mounted /\ n.mounted /\ k.draft # k.base /\ ~k.local
    => n.draft = k.draft /\ n.base = k.base /\ ~n.local

-----------------------------------------------------------------------------
LEMMA ColorsAreDrafts == Colors \subseteq [Ids -> Texts]
BY DEF Colors, Texts

LEMMA ValidIsColors == ASSUME NEW d \in [Ids -> Texts], Valid(d) PROVE d \in Colors
BY DEF Valid, Texts, Colors

LEMMA RequestTypes ==
  /\ NoRequest \in Request /\ \A val \in Colors : Sent(val) \in Request
  /\ \A r \in Request : [r EXCEPT !.last = FALSE] \in Request
BY CalibrationAssumption DEF NoRequest, Sent, Request

LEMMA RenderedKeeps ==
  ASSUME NEW k \in Client
  PROVE  LET n == Rendered(k)
         IN  /\ n \in Client /\ SameService(k, n) /\ SameDraft(k, n) /\ SameOperation(k, n)
             /\ Shown(n)
<1>1. CASE ~k.mounted
  BY <1>1 DEF Rendered, Client, SameService, SameDraft, SameOperation, Shown
<1>2. CASE k.mounted
  <2> DEFINE l == k.link # "online" \/ Busy(k)
             e == k.link = "online" /\ ~Busy(k)
             n == [k EXCEPT !.locked = l, !.editable = e]
  <2>1. Rendered(k) = n BY <1>2 DEF Rendered
  <2>2. l \in BOOLEAN /\ e \in BOOLEAN /\ (~l => k.link = "online" /\ ~k.loading /\ ~k.saving)
    BY DEF Busy
  <2> HIDE DEF l, e
  <2>3. n \in Client /\ SameService(k, n) /\ SameDraft(k, n) /\ SameOperation(k, n) /\ n.locked = l
    BY <2>2 DEF Client, SameService, SameDraft, SameOperation
  <2> HIDE DEF n
  <2> QED BY <2>1, <2>2, <2>3 DEF Shown, SameService
<1> QED BY <1>1, <1>2 DEF Client

LEMMA RebaseKeeps ==
  ASSUME NEW k \in Client
  PROVE  LET n == Rebase(k)
         IN  /\ n \in Client /\ SameService(k, n) /\ SameOperation(k, n)
             /\ n.draft = n.base /\ ~n.dirty /\ ~n.stale /\ ~n.external
BY ColorsAreDrafts DEF Rebase, Client, SameService, SameOperation

\* What a notification does to the page.
Notified(k, n) ==
  /\ n \in Client /\ SameService(k, n) /\ SameOperation(k, n)
  /\ Shown(n) /\ (Clean(k) => Clean(n))
  /\ n.stale => k.stale /\ (k.external => n.external)
  /\ n.stale /\ n.mounted => k.local \/ n.external
  /\ k.local \/ k.dirty => n.draft = k.draft /\ n.base = k.base

LEMMA NotifyKeeps == ASSUME NEW k \in Client PROVE Notified(k, Notify(k))
<1>1. CASE ~k.mounted
  BY <1>1 DEF Notify, Notified, Client, SameService, SameOperation, Shown, Clean
<1>2. CASE k.mounted /\ (k.local \/ ~k.stale)
  <2> DEFINE n == Notify(k)
  <2>1. n = Rendered(k) BY <1>2 DEF Notify, OnSnapshot
  <2>2. n \in Client /\ SameService(k, n) /\ SameDraft(k, n) /\ SameOperation(k, n) /\ Shown(n)
    BY <2>1, RenderedKeeps
  <2> HIDE DEF n
  <2>3. Notified(k, n)
    BY <1>2, <2>2 DEF Notified, SameDraft, SameService, SameOperation, Clean
  <2> QED BY <2>3 DEF n
<1>3. CASE k.mounted /\ ~k.local /\ k.stale /\ k.dirty
  <2> DEFINE m == [k EXCEPT !.external = TRUE]
  <2>1. /\ m \in Client /\ SameService(k, m) /\ SameOperation(k, m) /\ m.external
        /\ m.draft = k.draft /\ m.base = k.base /\ m.stale = k.stale /\ m.dirty = k.dirty
    BY DEF Client, SameService, SameOperation
  <2> DEFINE n == Notify(k)
  <2>2. n = Rendered(m) BY <1>3 DEF Notify, OnSnapshot
  <2> HIDE DEF m
  <2>3. n \in Client /\ SameService(m, n) /\ SameDraft(m, n) /\ SameOperation(m, n) /\ Shown(n)
    BY <2>1, <2>2, RenderedKeeps
  <2> HIDE DEF n
  <2>4. Notified(k, n)
    BY <1>3, <2>1, <2>3 DEF Notified, SameDraft, SameService, SameOperation, Clean
  <2> QED BY <2>4 DEF n
<1>4. CASE k.mounted /\ ~k.local /\ k.stale /\ ~k.dirty
  <2> DEFINE m == Rebase(k)
             n == Notify(k)
  <2>1. n = Rendered(m) BY <1>4 DEF Notify, OnSnapshot
  <2>2. /\ m \in Client /\ SameService(k, m) /\ SameOperation(k, m)
        /\ m.draft = m.base /\ ~m.dirty /\ ~m.stale /\ ~m.external
    BY RebaseKeeps
  <2> HIDE DEF m
  <2>3. n \in Client /\ SameService(m, n) /\ SameDraft(m, n) /\ SameOperation(m, n) /\ Shown(n)
    BY <2>1, <2>2, RenderedKeeps
  <2> HIDE DEF n
  <2>4. Notified(k, n)
    BY <1>4, <2>2, <2>3 DEF Notified, SameDraft, SameService, SameOperation, Clean
  <2> QED BY <2>4 DEF n
<1> QED BY <1>1, <1>2, <1>3, <1>4 DEF Client

LEMMA FinishedKeeps ==
  ASSUME NEW k \in Client, NEW ok \in BOOLEAN
  PROVE  LET n == Finished(k, ok)
         IN  /\ n \in Client /\ SameService(k, n) /\ ~n.local /\ ~n.reload
             /\ Shown(n) /\ (Clean(k) => Clean(n))
             /\ (ok => ~n.stale) /\ (~ok => SameDraft(k, n))
<1> DEFINE r == IF ok THEN Rebase(k) ELSE k
           m == [r EXCEPT !.local = FALSE, !.reload = FALSE]
           Made(x) == /\ x \in Client /\ SameService(k, x) /\ (Clean(k) => Clean(x))
                      /\ (ok => ~x.stale) /\ (~ok => SameDraft(k, x))
<1>1. Made(r)
  <2>1. CASE ok
    <3> DEFINE b == Rebase(k)
    <3>1. r = b BY <2>1
    <3>2. b \in Client /\ SameService(k, b) /\ b.draft = b.base /\ ~b.dirty /\ ~b.stale
      BY RebaseKeeps
    <3> HIDE DEF b, r
    <3>3. Made(b) BY <2>1, <3>2 DEF Clean
    <3> QED BY <3>1, <3>3
  <2>2. CASE ~ok BY <2>2 DEF SameService, SameDraft, Clean
  <2> QED BY <2>1, <2>2
<1> HIDE DEF r
<1>2. /\ m \in Client /\ SameService(r, m) /\ SameDraft(r, m) /\ ~m.local /\ ~m.reload
  BY <1>1 DEF Client, SameService, SameDraft
<1> DEFINE n == Finished(k, ok)
<1>3. n = Rendered(m) BY DEF Finished, m, r
<1> HIDE DEF m
<1>4. n \in Client /\ SameService(m, n) /\ SameDraft(m, n) /\ SameOperation(m, n) /\ Shown(n)
  BY <1>2, <1>3, RenderedKeeps
<1> HIDE DEF n
<1>5. /\ n \in Client /\ SameService(k, n) /\ ~n.local /\ ~n.reload
      /\ Shown(n) /\ (Clean(k) => Clean(n)) /\ (ok => ~n.stale) /\ (~ok => SameDraft(k, n))
  BY <1>1, <1>2, <1>4 DEF SameService, SameDraft, SameOperation, Clean
<1> QED BY <1>5 DEF n

-----------------------------------------------------------------------------
\* A load that starts takes the serial.
LEMMA LoadStarts ==
  ASSUME NEW k \in Client, NEW force \in BOOLEAN, StartsLoad(k, force)
  PROVE  LET m == [k EXCEPT !.load = Sent(Default), !.write.last = FALSE, !.loading = TRUE]
         IN  /\ m \in Client /\ Notified(m, Load(k, force))
             /\ SameDraft(k, m) /\ SameOperation(k, m)
             /\ m.colors = k.colors /\ m.saving = k.saving /\ m.synced = k.synced
             /\ m.link = k.link /\ m.mounted = k.mounted /\ m.loading
             /\ m.load.st = "sent" /\ m.load.last
             /\ m.write.st = k.write.st /\ m.write.val = k.write.val /\ ~m.write.last
<1> DEFINE m == [k EXCEPT !.load = Sent(Default), !.write.last = FALSE, !.loading = TRUE]
<1>1. Sent(Default) \in Request /\ [k.write EXCEPT !.last = FALSE] \in Request
  BY RequestTypes, CalibrationAssumption DEF Client
<1>2. Sent(Default).st = "sent" /\ Sent(Default).last BY DEF Sent
<1>3. m = [k EXCEPT !.load = Sent(Default), !.write = [k.write EXCEPT !.last = FALSE], !.loading = TRUE]
  OBVIOUS
<1>4. m \in Client BY <1>1, <1>3 DEF Client
<1>5. /\ SameDraft(k, m) /\ SameOperation(k, m)
      /\ m.colors = k.colors /\ m.saving = k.saving /\ m.synced = k.synced
      /\ m.link = k.link /\ m.mounted = k.mounted /\ m.loading
      /\ m.load = Sent(Default) /\ m.write = [k.write EXCEPT !.last = FALSE]
  BY DEF Client, SameDraft, SameOperation
<1>6. k.write \in Request BY DEF Client
<1>7. m.write.st = k.write.st /\ m.write.val = k.write.val /\ ~m.write.last
  BY <1>5, <1>6 DEF Request
<1>8. Load(k, force) = Notify(m) BY DEF Load
<1> HIDE DEF m
<1>9. Notified(m, Load(k, force)) BY <1>4, <1>8, NotifyKeeps
<1> QED BY <1>2, <1>4, <1>5, <1>7, <1>9 DEF m

LEMMA LoadGood ==
  ASSUME NEW k, NEW d \in Stored, Good(k, d), NEW force \in BOOLEAN
  PROVE  LET n == Load(k, force)
         IN  Good(n, d) /\ KeepsDraft(k, n) /\ n.mounted = k.mounted
<1>1. CASE ~StartsLoad(k, force) BY <1>1 DEF Load, KeepsDraft
<1>2. CASE StartsLoad(k, force)
  <2> DEFINE m == [k EXCEPT !.load = Sent(Default), !.write.last = FALSE, !.loading = TRUE]
             n == Load(k, force)
  <2>1. k \in Client /\ k.load.st = "none" BY <1>2 DEF Good, StartsLoad
  <2>2. /\ m \in Client /\ Notified(m, n)
        /\ SameDraft(k, m) /\ SameOperation(k, m)
        /\ m.colors = k.colors /\ m.saving = k.saving /\ m.synced = k.synced
        /\ m.link = k.link /\ m.mounted = k.mounted /\ m.loading
        /\ m.load.st = "sent" /\ m.load.last
        /\ m.write.st = k.write.st /\ m.write.val = k.write.val /\ ~m.write.last
    BY <1>2, <2>1, LoadStarts
  <2> HIDE DEF m, n
  <2>3. Serial(n)
    BY <2>1, <2>2 DEF Good, Serial, Notified, SameService, SameOperation, Client, Request
  <2>4. Knows(n, d)
    BY <2>2 DEF Good, Knows, Notified, SameService
  <2>5. Page(n)
    BY <2>2 DEF Good, Page, Clean, Behind, Notified, SameService, SameDraft, SameOperation
  <2>6. KeepsDraft(k, n) /\ n.mounted = k.mounted
    BY <2>2 DEF Good, Page, Clean, KeepsDraft, Notified, SameService, SameDraft, SameOperation
  <2>7. Good(n, d) BY <2>2, <2>3, <2>4, <2>5 DEF Good, Notified
  <2> QED BY <2>6, <2>7 DEF n
<1> QED BY <1>1, <1>2

\* A write of a page that is not locked takes the serial.
LEMMA WriteGood ==
  ASSUME NEW k, NEW d \in Stored, Good(k, d), k.mounted, ~k.locked, NEW val \in Colors
  PROVE  Good(Write([k EXCEPT !.local = TRUE], val), d)
<1> DEFINE b == [k EXCEPT !.local = TRUE]
           m == [b EXCEPT !.write = Sent(val), !.load.last = FALSE, !.loading = FALSE, !.saving = TRUE]
           n == Write(b, val)
<1>1. k \in Client /\ k.link = "online" /\ ~k.loading /\ ~k.saving /\ k.load.st = "none" /\ ~k.reload
  BY DEF Good, Page, Shown, Serial, Client, Request
<1>2. Sent(val) \in Request /\ Sent(val).st = "sent" /\ Sent(val).last /\ Sent(val).val = val
      /\ [k.load EXCEPT !.last = FALSE] \in Request
  BY <1>1, RequestTypes DEF Sent, Client
<1>3. m = [k EXCEPT !.local = TRUE, !.write = Sent(val), !.load = [k.load EXCEPT !.last = FALSE],
                    !.loading = FALSE, !.saving = TRUE]
  BY <1>1 DEF Client
<1>4. /\ m \in Client /\ SameDraft(k, m) /\ m.colors = k.colors /\ m.synced = k.synced
      /\ m.link = k.link /\ m.mounted = k.mounted /\ ~m.loading /\ m.saving
      /\ m.write = Sent(val) /\ m.load = [k.load EXCEPT !.last = FALSE]
      /\ m.local /\ m.reload = k.reload
  BY <1>1, <1>2, <1>3 DEF Client, SameDraft
<1>5. m.load.st = "none" /\ ~m.load.last BY <1>1, <1>4 DEF Client, Request
<1>6. n = Notify(m) BY DEF Write
<1> HIDE DEF m
<1>7. Notified(m, n) BY <1>4, <1>6, NotifyKeeps
<1> HIDE DEF n
<1>8. Serial(n)
  BY <1>1, <1>2, <1>4, <1>5, <1>7 DEF Serial, Notified, SameService, SameOperation
<1>9. Knows(n, d)
  BY <1>1, <1>2, <1>4, <1>5, <1>7 DEF Good, Knows, Notified, SameService
<1>10. Page(n)
  <2>1. Clean(n) BY <1>4, <1>7 DEF Good, Page, Clean, Notified, SameDraft
  <2>2. Behind(n) BY <1>1, <1>4, <1>7 DEF Good, Page, Behind, Notified, SameService, SameDraft
  <2> QED BY <1>7, <2>1, <2>2 DEF Page, Notified
<1>11. Good(n, d) BY <1>7, <1>8, <1>9, <1>10 DEF Good, Notified
<1> QED BY <1>11 DEF n

\* The end of the load, after what it changes in the service.
LEMMA LoadEndsGood ==
  ASSUME NEW k, NEW d \in Stored, NEW ok \in BOOLEAN,
         k \in Client, Shown(k), Clean(k), Behind(k) \/ (k.reload /\ ok),
         ~k.loading, ~k.write.last,
         k.write.st # "none" => k.saving,
         k.reload => k.write.st = "none", k.local <=> k.reload \/ k.write.st # "none",
         k.synced /\ ~d.moved /\ ~k.saving => k.colors = d.colors
  PROVE  LET n == LoadEnds(k, ok)
         IN  Good(n, d) /\ n.mounted = k.mounted /\ (~k.reload => KeepsDraft(k, n))
<1> DEFINE m == [k EXCEPT !.load = NoRequest]
<1>1. NoRequest \in Request /\ NoRequest.st = "none" /\ ~NoRequest.last
  BY RequestTypes DEF NoRequest
<1>2. /\ m \in Client /\ SameDraft(k, m) /\ SameOperation(k, m) /\ m.load = NoRequest
      /\ m.colors = k.colors /\ m.loading = k.loading /\ m.saving = k.saving /\ m.synced = k.synced
      /\ m.write = k.write /\ m.link = k.link /\ m.mounted = k.mounted /\ m.locked = k.locked
  BY <1>1 DEF Client, SameDraft, SameOperation
<1>3. LoadEnds(k, ok) = IF k.reload THEN Finished(m, ok) ELSE m BY DEF LoadEnds
<1> HIDE DEF m
<1>4. Shown(m) /\ Clean(m) /\ (Behind(k) => Behind(m)) BY <1>2 DEF Shown, Clean, Behind, SameDraft
<1>5. CASE ~k.reload
  <2>0. LoadEnds(k, ok) = m BY <1>3, <1>5
  <2>1. Serial(m) BY <1>1, <1>2, <1>5 DEF Serial, SameOperation
  <2>2. Knows(m, d) BY <1>1, <1>2 DEF Knows
  <2>3. Good(m, d) BY <1>2, <1>4, <1>5, <2>1, <2>2 DEF Good, Page
  <2> QED BY <1>2, <2>0, <2>3 DEF SameDraft, SameOperation, KeepsDraft
<1>6. CASE k.reload
  <2> DEFINE n == Finished(m, ok)
  <2>1. /\ n \in Client /\ SameService(m, n) /\ ~n.local /\ ~n.reload
        /\ Shown(n) /\ (Clean(m) => Clean(n)) /\ (ok => ~n.stale) /\ (~ok => SameDraft(m, n))
    BY <1>2, FinishedKeeps
  <2> HIDE DEF n
  <2>2. Serial(n) BY <1>1, <1>2, <1>6, <2>1 DEF Serial, SameService
  <2>3. Knows(n, d) BY <1>1, <1>2, <2>1 DEF Knows, SameService
  <2>4. Behind(n) BY <1>4, <2>1 DEF Behind, SameService, SameDraft
  <2>5. Page(n) BY <1>4, <2>1, <2>4 DEF Page
  <2>6. Good(n, d) /\ n.mounted = k.mounted
    BY <1>2, <2>1, <2>2, <2>3, <2>5 DEF Good, SameService
  <2> QED BY <1>3, <1>6, <2>6 DEF n
<1> QED BY <1>5, <1>6 DEF Client

LEMMA LoadDoneGood ==
  ASSUME NEW k, NEW d \in Stored, Good(k, d), k.load.st = "back"
  PROVE  LET n == LoadDone(k)
         IN  /\ Good(n, [d EXCEPT !.moved = ~k.load.fresh])
             /\ n.mounted = k.mounted /\ KeepsDraft(k, n)
<1> DEFINE val == k.load.val
           s == val # k.colors
           a == [k EXCEPT !.colors = val, !.stale = @ \/ s, !.synced = TRUE]
           m == [ApplyResponse(k, val) EXCEPT !.loading = FALSE]
           n == Notify(m)
           e == [d EXCEPT !.moved = ~k.load.fresh]
<1>1. /\ k \in Client /\ k.load.last /\ ~k.write.last /\ val \in Colors
      /\ k.load.fresh \in BOOLEAN /\ k.write.last \in BOOLEAN
  BY DEF Good, Serial, Client, Request
<1>2. /\ m \in Client /\ SameOperation(k, m) /\ m.colors = val /\ m.synced
      /\ m.draft = k.draft /\ m.base = k.base /\ m.dirty = k.dirty /\ m.external = k.external
      /\ ~m.loading /\ m.saving = k.saving /\ m.load = k.load /\ m.write = k.write
      /\ m.link = k.link /\ m.mounted = k.mounted
  BY <1>1 DEF ApplyResponse, Client, SameOperation
<1>3. Notified(m, n) BY <1>2, NotifyKeeps
<1>4. e \in Stored /\ e.colors = d.colors /\ e.moved = ~k.load.fresh
  BY <1>1 DEF Stored
<1>5. LoadDone(k) = LoadEnds(n, TRUE) BY <1>1 DEF LoadDone
<1> HIDE DEF m, n, e, val
<1>6. /\ n \in Client /\ ~n.loading /\ n.saving = k.saving /\ n.write = k.write /\ n.reload = k.reload
      /\ n.local = k.local /\ n.mounted = k.mounted /\ n.colors = val
  BY <1>2, <1>3 DEF Notified, SameService, SameOperation
<1>7. n.synced /\ ~e.moved /\ ~n.saving => n.colors = e.colors
  BY <1>1, <1>4, <1>6 DEF Good, Knows, val
<1>8. Behind(n) \/ n.reload
  <2>1. CASE ~k.local
    BY <1>2, <1>3, <2>1 DEF Behind, Notified, SameService, SameOperation
  <2>2. CASE k.local /\ k.write.st # "none"
    BY <1>1, <1>6, <2>2 DEF Good, Serial, Behind
  <2>3. CASE k.local /\ k.reload BY <1>6, <2>3
  <2> QED BY <2>1, <2>2, <2>3 DEF Good, Serial
<1>9. Shown(n) /\ Clean(n) BY <1>2, <1>3 DEF Good, Page, Clean, Notified
<1>10. /\ n.write.st # "none" => n.saving
       /\ n.reload => n.write.st = "none"
       /\ (n.local <=> n.reload \/ n.write.st # "none")
  BY <1>6 DEF Good, Serial
<1> DEFINE r == LoadEnds(n, TRUE)
<1>11. Good(r, e) /\ r.mounted = n.mounted /\ (~n.reload => KeepsDraft(n, r))
  BY <1>1, <1>4, <1>6, <1>7, <1>8, <1>9, <1>10, LoadEndsGood DEF Client
<1> HIDE DEF r
<1>12. KeepsDraft(k, r)
  BY <1>2, <1>3, <1>6, <1>11 DEF Good, Serial, Page, Clean, KeepsDraft, Notified
<1> QED BY <1>5, <1>6, <1>11, <1>12 DEF r, e

LEMMA LoadFailedGood ==
  ASSUME NEW k, NEW d \in Stored, Good(k, d), k.load.st # "none"
  PROVE  LET n == LoadFailed(k)
         IN  Good(n, d) /\ n.mounted = k.mounted /\ KeepsDraft(k, n)
<1> DEFINE m == [k EXCEPT !.synced = FALSE, !.loading = FALSE]
           n == Notify(m)
           r == LoadEnds(n, FALSE)
<1>1. k \in Client /\ k.load.last /\ ~k.write.last
  BY DEF Good, Serial, Client, Request
<1>2. /\ m \in Client /\ SameDraft(k, m) /\ SameOperation(k, m) /\ ~m.synced
      /\ ~m.loading /\ m.saving = k.saving /\ m.write = k.write /\ m.mounted = k.mounted
  BY <1>1 DEF Client, SameDraft, SameOperation
<1>3. Notified(m, n) BY <1>2, NotifyKeeps
<1>4. LoadFailed(k) = r BY <1>1 DEF LoadFailed
<1> HIDE DEF m, n
<1>5. /\ n \in Client /\ ~n.loading /\ n.saving = k.saving /\ n.write = k.write /\ ~n.synced
      /\ n.reload = k.reload /\ n.local = k.local /\ n.mounted = k.mounted
  BY <1>2, <1>3 DEF Notified, SameService, SameOperation
<1>6. Shown(n) /\ Clean(n) /\ Behind(n)
  BY <1>2, <1>3, <1>5 DEF Good, Page, Clean, Behind, Notified, SameDraft
<1>7. /\ n.write.st # "none" => n.saving
      /\ n.reload => n.write.st = "none"
      /\ n.local <=> n.reload \/ n.write.st # "none"
  BY <1>5 DEF Good, Serial
<1>8. Good(r, d) /\ r.mounted = n.mounted /\ (~n.reload => KeepsDraft(n, r))
  BY <1>1, <1>5, <1>6, <1>7, LoadEndsGood
<1> HIDE DEF r
<1>9. KeepsDraft(k, r)
  BY <1>2, <1>3, <1>5, <1>8 DEF Good, Serial, Page, Clean, KeepsDraft, Notified, SameDraft
<1> QED BY <1>4, <1>5, <1>8, <1>9 DEF r

\* The end of the write, after what it changes in the service.
LEMMA WriteEndsGood ==
  ASSUME NEW k, NEW d \in Stored, NEW ok \in BOOLEAN,
         k \in Client, Clean(k), Behind(k) \/ ok, ~k.reload,
         k.write.last => ~k.saving,
         k.loading <=> k.load.st # "none", k.load.last <=> k.loading,
         k.load.st = "back" /\ k.load.fresh /\ ~k.saving => k.load.val = d.colors,
         k.synced /\ ~d.moved /\ ~k.saving => k.colors = d.colors
  PROVE  LET n == WriteEnds(k, ok) IN Good(n, d) /\ n.mounted = k.mounted
<1> DEFINE m == [k EXCEPT !.write = NoRequest]
           n == Finished(m, ok)
<1>1. NoRequest \in Request /\ NoRequest.st = "none" /\ ~NoRequest.last
  BY RequestTypes DEF NoRequest
<1>2. /\ m \in Client /\ SameDraft(k, m) /\ m.write = NoRequest
      /\ m.colors = k.colors /\ m.loading = k.loading /\ m.saving = k.saving /\ m.synced = k.synced
      /\ m.load = k.load /\ m.mounted = k.mounted
  BY <1>1 DEF Client, SameDraft
<1> HIDE DEF m
<1>3. /\ n \in Client /\ SameService(m, n) /\ ~n.local /\ ~n.reload
      /\ Shown(n) /\ (Clean(m) => Clean(n)) /\ (ok => ~n.stale) /\ (~ok => SameDraft(m, n))
  BY <1>2, FinishedKeeps
<1>4. WriteEnds(k, ok) = n BY DEF WriteEnds, m
<1> HIDE DEF n
<1>5. Serial(n) BY <1>1, <1>2, <1>3 DEF Serial, SameService
<1>6. Knows(n, d) BY <1>1, <1>2, <1>3 DEF Knows, SameService
<1>7. Clean(n) BY <1>2, <1>3 DEF Clean, SameDraft
<1>8. Behind(n) BY <1>1, <1>2, <1>3 DEF Behind, SameDraft, SameService, Client, Request
<1>9. Good(n, d) /\ n.mounted = k.mounted
  BY <1>2, <1>3, <1>5, <1>6, <1>7, <1>8 DEF Good, Page, SameService
<1> QED BY <1>4, <1>9

LEMMA WriteDoneGood ==
  ASSUME NEW k, NEW d \in Stored, Good(k, d), k.write.st = "back"
  PROVE  LET n == WriteDone(k)
         IN  /\ Good(n, [d EXCEPT !.moved = IF Takes(k.write) THEN ~k.write.fresh ELSE @])
             /\ n.mounted = k.mounted
<1>1. /\ k \in Client /\ k.write.val \in Colors /\ k.write.fresh \in BOOLEAN /\ k.saving /\ ~k.reload
      /\ (k.loading <=> k.load.st # "none") /\ (k.load.last <=> k.loading) /\ Clean(k)
  BY DEF Good, Serial, Page, Client, Request
<1>2. CASE k.write.last
  <2> DEFINE val == k.write.val
             s == val # k.colors
             m == [ApplyResponse(k, val) EXCEPT !.saving = FALSE]
             n == Notify(m)
             e == [d EXCEPT !.moved = ~k.write.fresh]
             r == WriteEnds(n, TRUE)
  <2>1. /\ m \in Client /\ m.colors = val /\ m.write = k.write /\ m.load = k.load
        /\ m.loading = k.loading /\ ~m.saving /\ m.reload = k.reload /\ m.mounted = k.mounted
        /\ m.draft = k.draft /\ m.base = k.base /\ m.dirty = k.dirty
    BY <1>1 DEF ApplyResponse, Client
  <2>2. Notified(m, n) BY <2>1, NotifyKeeps
  <2>3. e \in Stored /\ e.colors = d.colors /\ e.moved = ~k.write.fresh BY <1>1 DEF Stored
  <2>4. WriteDone(k) = r /\ [d EXCEPT !.moved = IF Takes(k.write) THEN ~k.write.fresh ELSE @] = e
    BY <1>2 DEF WriteDone, Takes
  <2> HIDE DEF m, n, e
  <2>5. /\ n \in Client /\ Clean(n) /\ n.colors = val /\ n.write = k.write /\ n.load = k.load
        /\ n.loading = k.loading /\ ~n.saving /\ ~n.reload /\ n.mounted = k.mounted
    BY <1>1, <2>1, <2>2 DEF Clean, Notified, SameService, SameOperation
  <2>6. k.load.st = "none" BY <1>2, <1>1 DEF Good, Serial
  <2>7. ~e.moved => n.colors = e.colors BY <1>2, <2>3, <2>5 DEF Good, Knows
  <2>8. Good(r, e) /\ r.mounted = n.mounted BY <1>1, <2>3, <2>5, <2>6, <2>7, WriteEndsGood
  <2> QED BY <2>4, <2>5, <2>8
<1>3. CASE ~k.write.last
  <2>1. WriteDone(k) = WriteEnds(k, TRUE) BY <1>3 DEF WriteDone, Takes
  <2>2. [d EXCEPT !.moved = IF Takes(k.write) THEN ~k.write.fresh ELSE @] = d
    BY <1>3 DEF Takes, Stored
  <2>3. Good(WriteEnds(k, TRUE), d) /\ WriteEnds(k, TRUE).mounted = k.mounted
    BY <1>1, <1>3, WriteEndsGood
  <2> QED BY <2>1, <2>2, <2>3
<1> QED BY <1>1, <1>2, <1>3 DEF Client, Request

\* e: the device once the write has been given up
LEMMA WriteFailedGood ==
  ASSUME NEW k, NEW d \in Stored, Good(k, d), k.write.st # "none",
         NEW e \in Stored, e.moved \/ (k.write.st = "sent" /\ e = d)
  PROVE  LET n == WriteFailed(k) IN Good(n, e) /\ n.mounted = k.mounted
<1>1. /\ k \in Client /\ k.saving /\ ~k.reload /\ Clean(k) /\ Behind(k)
      /\ (k.loading <=> k.load.st # "none") /\ (k.load.last <=> k.loading)
  BY DEF Good, Serial, Page
<1>2. CASE k.write.last
  <2> DEFINE m == [k EXCEPT !.saving = FALSE]
             n == Notify(m)
             r == WriteEnds(n, FALSE)
  <2>1. /\ m \in Client /\ SameDraft(k, m) /\ m.colors = k.colors /\ m.synced = k.synced
        /\ m.write = k.write /\ m.load = k.load /\ m.loading = k.loading /\ ~m.saving
        /\ m.reload = k.reload /\ m.mounted = k.mounted
    BY <1>1 DEF Client, SameDraft
  <2>2. Notified(m, n) BY <2>1, NotifyKeeps
  <2>3. WriteFailed(k) = r BY <1>2 DEF WriteFailed, Takes
  <2> HIDE DEF m, n
  <2>4. /\ n \in Client /\ Clean(n) /\ n.colors = k.colors /\ n.synced = k.synced /\ n.write = k.write
        /\ n.load = k.load /\ n.loading = k.loading /\ ~n.saving /\ ~n.reload
        /\ n.mounted = k.mounted
    BY <1>1, <2>1, <2>2 DEF Clean, Notified, SameService, SameOperation, SameDraft
  <2>5. Behind(n) BY <1>1, <1>2, <2>1, <2>2 DEF Behind, Notified, SameService, SameDraft
  <2>6. k.load.st = "none" BY <1>1, <1>2 DEF Good, Serial
  <2>7. n.synced /\ ~e.moved => n.colors = e.colors BY <1>2, <2>4 DEF Good, Knows
  <2>8. Good(r, e) /\ r.mounted = n.mounted
    BY <1>1, <2>4, <2>5, <2>6, <2>7, WriteEndsGood
  <2> QED BY <2>3, <2>4, <2>8
<1>3. CASE ~k.write.last
  <2>1. WriteFailed(k) = WriteEnds(k, FALSE) BY <1>3 DEF WriteFailed, Takes
  <2>2. Good(WriteEnds(k, FALSE), e) /\ WriteEnds(k, FALSE).mounted = k.mounted
    BY <1>1, <1>3, WriteEndsGood
  <2> QED BY <2>1, <2>2
<1> QED BY <1>1, <1>2, <1>3 DEF Client, Request

LEMMA GateOpensGood ==
  ASSUME NEW k, NEW d \in Stored, Good(k, d), NEW outage \in BOOLEAN
  PROVE  LET n == GateOpens(k, outage)
         IN  Good(n, d) /\ KeepsDraft(k, n) /\ n.mounted = k.mounted
<1> DEFINE m == [k EXCEPT !.editable = TRUE]
<1>1. k \in Client BY DEF Good
<1>2. /\ m \in Client /\ SameService(k, m) /\ SameDraft(k, m) /\ SameOperation(k, m)
      /\ m.locked = k.locked
  BY <1>1 DEF Client, SameService, SameDraft, SameOperation
<1>3. GateOpens(k, outage) = IF ~k.mounted THEN k ELSE IF outage THEN Load(m, TRUE) ELSE m
  BY DEF GateOpens
<1> HIDE DEF m
<1>4. Good(m, d)
  <2>1. Serial(m) BY <1>2 DEF Good, Serial, SameService, SameOperation
  <2>2. Page(m) BY <1>2 DEF Good, Page, Shown, Clean, Behind, SameService, SameDraft
  <2>3. Knows(m, d) BY <1>2 DEF Good, Knows, SameService
  <2> QED BY <1>2, <2>1, <2>2, <2>3 DEF Good
<1>5. CASE ~k.mounted
  <2>1. GateOpens(k, outage) = k BY <1>3, <1>5
  <2> QED BY <2>1 DEF KeepsDraft
<1>6. CASE k.mounted /\ ~outage
  <2>1. GateOpens(k, outage) = m BY <1>3, <1>6
  <2> QED BY <1>2, <1>4, <2>1 DEF KeepsDraft, SameService, SameDraft, SameOperation
<1>7. CASE k.mounted /\ outage
  <2> DEFINE n == Load(m, TRUE)
  <2>1. GateOpens(k, outage) = n BY <1>3, <1>7
  <2>2. Good(n, d) /\ KeepsDraft(m, n) /\ n.mounted = m.mounted BY <1>4, LoadGood
  <2> HIDE DEF n
  <2>3. KeepsDraft(k, n) BY <1>2, <2>2 DEF KeepsDraft, SameService, SameDraft, SameOperation
  <2> QED BY <1>2, <2>1, <2>2, <2>3 DEF SameService
<1> QED BY <1>1, <1>5, <1>6, <1>7 DEF Client

-----------------------------------------------------------------------------
(* The actions.                                                            *)

\* What DraftKept says of a step.
DraftStep ==
  c.mounted /\ c'.mounted /\ c.draft # c.base /\ c'.draft # c.draft
    => c.local \/ left'.edits # left.edits \/ left'.writes # left.writes

LEMMA Spending ==
  ASSUME left \in Left, NEW what \in {"edits", "writes", "mounts", "events"}, Spend(what)
  PROVE  /\ left' \in Left
         /\ what = "edits" => left'.edits # left.edits
         /\ what = "writes" => left'.writes # left.writes
<1>1. CASE what = "edits" BY <1>1 DEF Spend, Left
<1>2. CASE what = "writes" BY <1>2 DEF Spend, Left
<1>3. CASE what = "mounts" BY <1>3 DEF Spend, Left
<1>4. CASE what = "events" BY <1>4 DEF Spend, Left
<1> QED BY <1>1, <1>2, <1>3, <1>4

LEMMA InitInductive == Init => CalibrationInductive
<1> SUFFICES ASSUME Init PROVE CalibrationInductive OBVIOUS
<1>1. PICK early \in BOOLEAN :
        c = [colors |-> Default, loading |-> FALSE, saving |-> FALSE, synced |-> FALSE,
             load |-> NoRequest, write |-> NoRequest, link |-> "checking", supported |-> FALSE,
             mounted |-> early, early |-> early, draft |-> Default, base |-> Default,
             stale |-> ~early, dirty |-> FALSE, external |-> FALSE, local |-> FALSE,
             reload |-> FALSE, locked |-> TRUE, editable |-> FALSE]
  BY DEF Init
<1>2. NoRequest \in Request /\ NoRequest.st = "none" /\ ~NoRequest.last
  BY RequestTypes DEF NoRequest
<1>3. Default \in Colors /\ Default \in [Ids -> Texts] BY CalibrationAssumption, ColorsAreDrafts
<1>4. c \in Client BY <1>1, <1>2, <1>3 DEF Client
<1>5. Serial(c) /\ Page(c) /\ Knows(c, dev)
  BY <1>1, <1>2 DEF Serial, Page, Shown, Clean, Behind, Knows
<1>6. dev \in Stored BY <1>3, CalibrationAssumption DEF Init, Stored
<1>7. left \in Left BY CalibrationAssumption DEF Init, Left
<1> QED BY <1>4, <1>5, <1>6, <1>7 DEF CalibrationInductive, Good

LEMMA UserSteps ==
  ASSUME CalibrationInductive, User
  PROVE  CalibrationInductive' /\ DraftStep
<1> USE DEF CalibrationInductive
<1>0. c \in Client BY DEF Good
<1>1. CASE Mount
  <2> DEFINE b == [c EXCEPT !.mounted = TRUE, !.draft = c.colors, !.base = c.colors, !.stale = FALSE]
             m == Rendered(b)
  <2>1. /\ b \in Client /\ b.draft = b.base /\ ~b.stale /\ SameOperation(c, b)
        /\ b.colors = c.colors /\ b.loading = c.loading /\ b.saving = c.saving
        /\ b.synced = c.synced /\ b.load = c.load /\ b.write = c.write
    BY <1>0, ColorsAreDrafts DEF Client, SameOperation
  <2> HIDE DEF b
  <2>2. m \in Client /\ SameService(b, m) /\ SameDraft(b, m) /\ SameOperation(b, m) /\ Shown(m)
    BY <2>1, RenderedKeeps
  <2>3. c' = Load(m, FALSE) /\ dev' = dev /\ ~c.mounted /\ Spend("mounts") BY <1>1 DEF Mount, b
  <2> HIDE DEF m
  <2>4. Serial(m) BY <2>1, <2>2 DEF Good, Serial, SameService, SameOperation
  <2>5. Page(m) BY <2>1, <2>2 DEF Page, Clean, Behind, SameDraft
  <2>6. Knows(m, dev) BY <2>1, <2>2 DEF Good, Knows, SameService
  <2>7. Good(m, dev) BY <2>2, <2>4, <2>5, <2>6 DEF Good
  <2> QED BY <2>3, <2>7, LoadGood, Spending DEF DraftStep
<1>2. CASE Unmount
  <2>1. /\ c' \in Client /\ ~c'.mounted /\ SameOperation(c, c')
        /\ c'.colors = c.colors /\ c'.loading = c.loading /\ c'.saving = c.saving
        /\ c'.synced = c.synced /\ c'.load = c.load /\ c'.write = c.write
    BY <1>0, <1>2 DEF Unmount, Client, SameOperation
  <2>2. Serial(c') BY <2>1 DEF Good, Serial, SameOperation
  <2>3. Page(c') BY <2>1 DEF Page, Shown, Clean, Behind
  <2>4. Knows(c', dev) BY <2>1 DEF Good, Knows
  <2>5. dev' = dev /\ left' = left BY <1>2 DEF Unmount
  <2> QED BY <2>1, <2>2, <2>3, <2>4, <2>5 DEF Good, DraftStep
<1>3. CASE Edit
  <2>1. PICK i \in Ids, t \in Texts :
          c' = LET draft == [c.draft EXCEPT ![i] = t]
               IN Rendered([c EXCEPT !.draft = draft, !.dirty = draft # c.base])
    BY <1>3 DEF Edit
  <2> DEFINE draft == [c.draft EXCEPT ![i] = t]
             differs == draft # c.base
             b == [c EXCEPT !.draft = draft, !.dirty = differs]
  <2>2. draft \in [Ids -> Texts] BY <1>0 DEF Client
  <2>3. differs \in BOOLEAN /\ (~differs => draft = c.base) OBVIOUS
  <2>4. c' = Rendered(b) /\ dev' = dev /\ Spend("edits") BY <1>3, <2>1 DEF Edit
  <2> HIDE DEF draft, differs
  <2>5. /\ b \in Client /\ SameService(c, b) /\ SameOperation(c, b)
        /\ b.draft = draft /\ b.base = c.base /\ b.dirty = differs
        /\ b.stale = c.stale /\ b.external = c.external
    BY <1>0, <2>2, <2>3 DEF Client, SameService, SameOperation
  <2> HIDE DEF b
  <2>6. c' \in Client /\ SameService(b, c') /\ SameDraft(b, c') /\ SameOperation(b, c') /\ Shown(c')
    BY <2>4, <2>5, RenderedKeeps
  <2>7. Serial(c') BY <2>5, <2>6 DEF Good, Serial, SameService, SameOperation
  <2>8. Clean(c') BY <2>3, <2>5, <2>6 DEF Clean, SameDraft
  <2>9. Behind(c') BY <2>5, <2>6 DEF Good, Page, Behind, SameService, SameDraft
  <2>10. Knows(c', dev) BY <2>5, <2>6 DEF Good, Knows, SameService
  <2> QED BY <2>4, <2>6, <2>7, <2>8, <2>9, <2>10, Spending DEF Good, Page, DraftStep
<1>4. CASE SaveCalibration
  <2>1. /\ c.mounted /\ ~c.locked /\ Valid(c.draft) /\ Spend("writes")
        /\ c' = Write([c EXCEPT !.local = TRUE], c.draft) /\ dev' = dev
    BY <1>4 DEF SaveCalibration, CanSave
  <2>2. c.draft \in Colors BY <1>0, <2>1, ValidIsColors DEF Client
  <2> QED BY <2>1, <2>2, WriteGood, Spending DEF DraftStep
<1>5. CASE ResetCalibration
  <2>1. /\ c.mounted /\ ~c.locked /\ Spend("writes")
        /\ c' = Write([c EXCEPT !.local = TRUE], Default) /\ dev' = dev
    BY <1>5 DEF ResetCalibration
  <2> QED BY <2>1, CalibrationAssumption, WriteGood, Spending DEF DraftStep
<1>6. CASE ReloadCalibration
  <2>1. c.mounted /\ ~c.locked /\ Spend("writes") /\ dev' = dev BY <1>6 DEF ReloadCalibration
  <2>2. /\ c.link = "online" /\ ~c.loading /\ ~c.saving /\ c.load.st = "none" /\ ~c.load.last
        /\ c.write.st = "none" /\ ~c.write.last /\ ~c.reload /\ ~c.local
    BY <1>0, <2>1 DEF Good, Page, Shown, Serial, Client, Request
  <2>3. CASE Ready(c)
    <3> DEFINE b == [c EXCEPT !.local = TRUE, !.reload = TRUE]
               m == [b EXCEPT !.load = Sent(Default), !.write.last = FALSE, !.loading = TRUE]
    <3>1. /\ b \in Client /\ SameService(c, b) /\ SameDraft(c, b) /\ b.local /\ b.reload
      BY <1>0 DEF Client, SameService, SameDraft
    <3>2. c' = Load(b, TRUE) BY <1>6, <2>3 DEF ReloadCalibration
    <3> HIDE DEF b
    <3>3. StartsLoad(b, TRUE) BY <2>2, <2>3, <3>1 DEF StartsLoad, Ready, SameService
    <3>4. /\ m \in Client /\ Notified(m, c')
          /\ SameDraft(b, m) /\ SameOperation(b, m)
          /\ m.colors = b.colors /\ m.saving = b.saving /\ m.synced = b.synced
          /\ m.link = b.link /\ m.mounted = b.mounted /\ m.loading
          /\ m.load.st = "sent" /\ m.load.last
          /\ m.write.st = b.write.st /\ m.write.val = b.write.val /\ ~m.write.last
      BY <3>1, <3>2, <3>3, LoadStarts
    <3> HIDE DEF m
    <3>5. Serial(c') BY <2>2, <3>1, <3>4 DEF Serial, Notified, SameService, SameOperation
    <3>6. Clean(c') BY <3>1, <3>4 DEF Good, Page, Clean, Notified, SameService, SameDraft
    <3>7. Behind(c')
      BY <2>2, <3>1, <3>4 DEF Good, Page, Behind, Notified, SameService, SameDraft
    <3>8. Knows(c', dev) BY <2>2, <3>1, <3>4 DEF Good, Knows, Notified, SameService
    <3> QED BY <2>1, <3>4, <3>5, <3>6, <3>7, <3>8, Spending DEF Good, Page, Notified, DraftStep
  <2>4. CASE ~Ready(c)
    <3>1. c' = Finished(c, TRUE) BY <1>6, <2>4 DEF ReloadCalibration
    <3>2. /\ c' \in Client /\ SameService(c, c') /\ ~c'.local /\ ~c'.reload
          /\ Shown(c') /\ (Clean(c) => Clean(c')) /\ ~c'.stale
      BY <1>0, <3>1, FinishedKeeps
    <3>3. Serial(c') BY <2>2, <3>2 DEF Good, Serial, SameService
    <3>4. Page(c') BY <3>2 DEF Good, Page, Behind
    <3>5. Knows(c', dev) BY <3>2 DEF Good, Knows, SameService
    <3> QED BY <2>1, <3>2, <3>3, <3>4, <3>5, Spending DEF Good, DraftStep
  <2> QED BY <2>3, <2>4
<1> QED BY <1>1, <1>2, <1>3, <1>4, <1>5, <1>6 DEF User

LEMMA LinkSteps ==
  ASSUME CalibrationInductive, Link
  PROVE  CalibrationInductive' /\ DraftStep
<1> USE DEF CalibrationInductive
<1>0. c \in Client BY DEF Good
<1>1. CASE GoOffline
  <2> DEFINE m == [c EXCEPT !.link = "offline", !.synced = FALSE]
             n == Notify(m)
             e == [n EXCEPT !.editable = FALSE]
  <2>1. /\ m \in Client /\ SameDraft(c, m) /\ SameOperation(c, m) /\ ~m.synced
        /\ m.loading = c.loading /\ m.saving = c.saving /\ m.mounted = c.mounted
        /\ m.load = c.load /\ m.write = c.write
    BY <1>0 DEF Client, SameDraft, SameOperation
  <2>2. Notified(m, n) BY <2>1, NotifyKeeps
  <2>3. (c' = n \/ c' = e) /\ dev' = dev /\ Spend("events") BY <1>1 DEF GoOffline
  <2> HIDE DEF m, n
  <2>4. n \in Client BY <2>2 DEF Notified
  <2>5. /\ e \in Client /\ SameService(n, e) /\ SameDraft(n, e) /\ SameOperation(n, e)
        /\ e.locked = n.locked
    BY <2>4 DEF Client, SameService, SameDraft, SameOperation
  <2> HIDE DEF e
  <2>6. /\ c' \in Client /\ SameService(n, c') /\ SameDraft(n, c') /\ SameOperation(n, c')
        /\ c'.locked = n.locked
    BY <2>3, <2>4, <2>5 DEF SameService, SameDraft, SameOperation
  <2>7. Serial(c') BY <2>1, <2>2, <2>6 DEF Good, Serial, Notified, SameService, SameOperation
  <2>8. Shown(c') BY <2>2, <2>6 DEF Shown, Notified, SameService
  <2>9. Clean(c') BY <2>1, <2>2, <2>6 DEF Good, Page, Clean, Notified, SameService, SameDraft
  <2>10. Behind(c') BY <2>1, <2>2, <2>6 DEF Good, Page, Behind, Notified, SameService, SameDraft
  <2>11. Knows(c', dev) BY <2>1, <2>2, <2>6 DEF Good, Knows, Notified, SameService
  <2>12. DraftStep
    BY <2>1, <2>2, <2>6 DEF Good, Page, Clean, DraftStep, Notified, SameDraft, SameOperation
  <2> QED BY <2>3, <2>6, <2>7, <2>8, <2>9, <2>10, <2>11, <2>12, Spending DEF Good, Page
<1>2. CASE GoOnline
  <2> DEFINE k == [c EXCEPT !.link = "online"]
             outage == c.link = "offline"
             g == GateOpens(k, outage)
             n == Load(k, FALSE)
  <2>1. /\ k \in Client /\ SameDraft(c, k) /\ SameOperation(c, k) /\ k.link = "online"
        /\ k.colors = c.colors /\ k.loading = c.loading /\ k.saving = c.saving
        /\ k.synced = c.synced /\ k.load = c.load /\ k.write = c.write
        /\ k.mounted = c.mounted /\ k.locked = c.locked
    BY <1>0 DEF Client, SameDraft, SameOperation
  <2>2. /\ c' = Load(g, FALSE) \/ c' = GateOpens(n, outage)
        /\ dev' = dev /\ left' = left /\ outage \in BOOLEAN
    BY <1>2 DEF GoOnline
  <2> HIDE DEF k, outage
  <2>3. Good(k, dev)
    <3>1. Serial(k) BY <2>1 DEF Good, Serial, SameOperation
    <3>2. Page(k) BY <2>1 DEF Good, Page, Shown, Clean, Behind, SameDraft
    <3>3. Knows(k, dev) BY <2>1 DEF Good, Knows
    <3> QED BY <2>1, <3>1, <3>2, <3>3 DEF Good
  <2>4. Good(g, dev) /\ KeepsDraft(k, g) /\ g.mounted = k.mounted BY <2>2, <2>3, GateOpensGood
  <2>5. Good(n, dev) /\ KeepsDraft(k, n) /\ n.mounted = k.mounted BY <2>3, LoadGood
  <2> HIDE DEF g, n
  <2>6. CASE c' = Load(g, FALSE)
    <3>1. Good(c', dev) /\ KeepsDraft(g, c') /\ c'.mounted = g.mounted BY <2>4, <2>6, LoadGood
    <3>2. DraftStep BY <2>1, <2>4, <3>1 DEF DraftStep, KeepsDraft, SameDraft, SameOperation
    <3> QED BY <2>2, <3>1, <3>2
  <2>7. CASE c' = GateOpens(n, outage)
    <3>1. Good(c', dev) /\ KeepsDraft(n, c') /\ c'.mounted = n.mounted
      BY <2>2, <2>5, <2>7, GateOpensGood
    <3>2. DraftStep BY <2>1, <2>5, <3>1 DEF DraftStep, KeepsDraft, SameDraft, SameOperation
    <3> QED BY <2>2, <3>1, <3>2
  <2> QED BY <2>2, <2>6, <2>7
<1>3. CASE Probed
  <2> DEFINE k == [c EXCEPT !.supported = TRUE]
  <2>1. /\ k \in Client /\ SameDraft(c, k) /\ SameOperation(c, k) /\ k.link = c.link
        /\ k.colors = c.colors /\ k.loading = c.loading /\ k.saving = c.saving
        /\ k.synced = c.synced /\ k.load = c.load /\ k.write = c.write
        /\ k.mounted = c.mounted /\ k.locked = c.locked
    BY <1>0 DEF Client, SameDraft, SameOperation
  <2>2. c' = Load(k, FALSE) /\ dev' = dev /\ left' = left BY <1>3 DEF Probed
  <2> HIDE DEF k
  <2>3. Good(k, dev)
    <3>1. Serial(k) BY <2>1 DEF Good, Serial, SameOperation
    <3>2. Page(k) BY <2>1 DEF Good, Page, Shown, Clean, Behind, SameDraft
    <3>3. Knows(k, dev) BY <2>1 DEF Good, Knows
    <3> QED BY <2>1, <3>1, <3>2, <3>3 DEF Good
  <2>4. Good(c', dev) /\ KeepsDraft(k, c') /\ c'.mounted = k.mounted BY <2>2, <2>3, LoadGood
  <2>5. DraftStep BY <2>1, <2>4 DEF DraftStep, KeepsDraft, SameDraft, SameOperation
  <2> QED BY <2>2, <2>4, <2>5
<1>4. CASE Unsupported
  <2>1. /\ c' \in Client /\ SameDraft(c, c') /\ SameOperation(c, c') /\ c'.link = c.link
        /\ c'.colors = c.colors /\ c'.loading = c.loading /\ c'.saving = c.saving
        /\ c'.synced = c.synced /\ c'.load = c.load /\ c'.write = c.write
        /\ c'.mounted = c.mounted /\ c'.locked = c.locked
    BY <1>0, <1>4 DEF Unsupported, Client, SameDraft, SameOperation
  <2>2. dev' = dev /\ Spend("events") BY <1>4 DEF Unsupported
  <2>3. Serial(c') BY <2>1 DEF Good, Serial, SameOperation
  <2>4. Page(c') BY <2>1 DEF Good, Page, Shown, Clean, Behind, SameDraft
  <2>5. Knows(c', dev) BY <2>1 DEF Good, Knows
  <2> QED BY <2>1, <2>2, <2>3, <2>4, <2>5, Spending DEF Good, DraftStep, SameDraft
<1>5. CASE PanelReported
  <2>1. c' = Load(c, FALSE) /\ dev' = dev /\ left' = left BY <1>5 DEF PanelReported
  <2>2. Good(c', dev) /\ KeepsDraft(c, c') BY <2>1, LoadGood
  <2> QED BY <2>1, <2>2 DEF DraftStep, KeepsDraft
<1> QED BY <1>1, <1>2, <1>3, <1>4, <1>5 DEF Link

LEMMA DeviceSteps ==
  ASSUME CalibrationInductive, Device
  PROVE  CalibrationInductive' /\ DraftStep
<1> USE DEF CalibrationInductive
<1>0. c \in Client /\ c.load \in Request /\ c.write \in Request /\ dev.colors \in Colors
  BY DEF Good, Client, Stored
<1>1. CASE AnswerLoad
  <2> DEFINE r == [c.load EXCEPT !.st = "back", !.val = dev.colors]
  <2>1. r \in Request /\ r.st = "back" /\ r.val = dev.colors /\ r.last = c.load.last
    BY <1>0 DEF Request
  <2>2. c' = [c EXCEPT !.load = r] /\ dev' = dev /\ left' = left /\ c.load.st = "sent"
    BY <1>1 DEF AnswerLoad
  <2> HIDE DEF r
  <2>3. /\ c' \in Client /\ SameDraft(c, c') /\ SameOperation(c, c') /\ c'.link = c.link
        /\ c'.colors = c.colors /\ c'.loading = c.loading /\ c'.saving = c.saving
        /\ c'.synced = c.synced /\ c'.load = r /\ c'.write = c.write
        /\ c'.mounted = c.mounted /\ c'.locked = c.locked
    BY <1>0, <2>1, <2>2 DEF Client, SameDraft, SameOperation
  <2>4. Serial(c') BY <2>1, <2>2, <2>3 DEF Good, Serial, SameOperation
  <2>5. Page(c') BY <2>3 DEF Good, Page, Shown, Clean, Behind, SameDraft
  <2>6. Knows(c', dev) BY <2>1, <2>3 DEF Good, Knows
  <2> QED BY <2>2, <2>3, <2>4, <2>5, <2>6 DEF Good, DraftStep, SameDraft
<1>2. CASE AnswerWrite
  <2> DEFINE r == [c.write EXCEPT !.st = "back"]
             e == [dev EXCEPT !.colors = c.write.val]
  <2>1. r \in Request /\ r.st = "back" /\ r.val = c.write.val /\ r.last = c.write.last
    BY <1>0 DEF Request
  <2>2. c' = [c EXCEPT !.write = r] /\ dev' = e /\ left' = left /\ c.write.st = "sent"
    BY <1>2 DEF AnswerWrite
  <2>3. e \in Stored /\ e.colors = c.write.val BY <1>0 DEF Stored, Request
  <2> HIDE DEF r, e
  <2>4. /\ c' \in Client /\ SameDraft(c, c') /\ SameOperation(c, c') /\ c'.link = c.link
        /\ c'.colors = c.colors /\ c'.loading = c.loading /\ c'.saving = c.saving
        /\ c'.synced = c.synced /\ c'.load = c.load /\ c'.write = r
        /\ c'.mounted = c.mounted /\ c'.locked = c.locked
    BY <1>0, <2>1, <2>2 DEF Client, SameDraft, SameOperation
  <2>5. Serial(c') BY <2>1, <2>2, <2>4 DEF Good, Serial, SameOperation
  <2>6. Page(c') BY <2>1, <2>4 DEF Good, Page, Shown, Clean, Behind, SameDraft
  <2>7. Knows(c', e) BY <2>1, <2>2, <2>3, <2>4 DEF Good, Serial, Knows
  <2> QED BY <2>2, <2>3, <2>4, <2>5, <2>6, <2>7 DEF Good, DraftStep, SameDraft
<1>3. CASE DeliverLoad
  <2>1. /\ c.load.st = "back" /\ c' = LoadDone(c) /\ left' = left /\ c.load.last
        /\ dev' = [dev EXCEPT !.moved = ~c.load.fresh]
    BY <1>3 DEF DeliverLoad, Good, Serial
  <2>2. Good(c', dev') /\ KeepsDraft(c, c') BY <2>1, LoadDoneGood
  <2>3. dev' \in Stored BY <1>0, <2>1 DEF Stored, Request
  <2> QED BY <2>1, <2>2, <2>3 DEF DraftStep, KeepsDraft
<1>4. CASE DeliverWrite
  <2>1. /\ c.write.st = "back" /\ c' = WriteDone(c) /\ left' = left
        /\ dev' = [dev EXCEPT !.moved = IF Takes(c.write) THEN ~c.write.fresh ELSE @]
    BY <1>4 DEF DeliverWrite
  <2>2. Good(c', dev') BY <2>1, WriteDoneGood
  <2>3. dev' \in Stored BY <1>0, <2>1 DEF Stored, Request
  <2>4. c.local BY <2>1 DEF Good, Serial
  <2> QED BY <2>1, <2>2, <2>3, <2>4 DEF DraftStep
<1>5. CASE FailLoad
  <2>1. c.load.st # "none" /\ c' = LoadFailed(c) /\ dev' = dev /\ Spend("events")
    BY <1>5 DEF FailLoad
  <2>2. Good(c', dev) /\ KeepsDraft(c, c') BY <2>1, LoadFailedGood
  <2> QED BY <2>1, <2>2, Spending DEF DraftStep, KeepsDraft
<1>6. CASE FailWrite
  <2>1. c.write.st # "none" /\ c' = WriteFailed(c) /\ Spend("events") BY <1>6 DEF FailWrite
  <2>2. /\ dev' \in Stored
        /\ dev'.moved \/ (c.write.st = "sent" /\ dev' = dev)
    <3>1. CASE c.write.st = "sent" /\ UNCHANGED dev BY <3>1
    <3>2. CASE dev' = [colors |-> c.write.val, moved |-> TRUE] BY <1>0, <3>2 DEF Stored, Request
    <3>3. CASE dev' = [dev EXCEPT !.moved = TRUE] BY <3>3 DEF Stored
    <3> QED BY <1>6, <3>1, <3>2, <3>3 DEF FailWrite
  <2>3. Good(c', dev') BY <2>1, <2>2, WriteFailedGood
  <2>4. c.local BY <2>1 DEF Good, Serial
  <2> QED BY <2>1, <2>2, <2>3, <2>4, Spending DEF DraftStep
<1>7. CASE OtherClient
  <2> DEFINE l == c.load.st # "back"
             w == c.write.st # "back"
             rl == [c.load EXCEPT !.fresh = l]
             rw == [c.write EXCEPT !.fresh = w]
  <2>1. /\ rl \in Request /\ rl.st = c.load.st /\ rl.last = c.load.last /\ rl.val = c.load.val
        /\ rw \in Request /\ rw.st = c.write.st /\ rw.last = c.write.last /\ rw.val = c.write.val
    BY <1>0 DEF Request
  <2>2. (rl.st = "back" => ~rl.fresh) /\ (rw.st = "back" => ~rw.fresh) BY <1>0 DEF Request
  <2>3. c' = [c EXCEPT !.load = rl, !.write = rw] /\ Spend("events") BY <1>0, <1>7 DEF OtherClient, Client
  <2> HIDE DEF rl, rw
  <2>4. /\ c' \in Client /\ SameDraft(c, c') /\ SameOperation(c, c') /\ c'.link = c.link
        /\ c'.colors = c.colors /\ c'.loading = c.loading /\ c'.saving = c.saving
        /\ c'.synced = c.synced /\ c'.load = rl /\ c'.write = rw
        /\ c'.mounted = c.mounted /\ c'.locked = c.locked
    BY <1>0, <2>1, <2>3 DEF Client, SameDraft, SameOperation
  <2>5. dev' \in Stored /\ dev'.moved BY <1>7, CalibrationAssumption DEF OtherClient, Stored
  <2>6. Serial(c') BY <2>1, <2>4 DEF Good, Serial, SameOperation
  <2>7. Page(c') BY <2>1, <2>4 DEF Good, Page, Shown, Clean, Behind, SameDraft
  <2>8. Knows(c', dev') BY <2>2, <2>4, <2>5 DEF Knows
  <2> QED BY <2>3, <2>4, <2>5, <2>6, <2>7, <2>8, Spending DEF Good, DraftStep, SameDraft
<1> QED BY <1>1, <1>2, <1>3, <1>4, <1>5, <1>6, <1>7 DEF Device

LEMMA InductiveStep == CalibrationInductive /\ [Next]_vars => CalibrationInductive'
<1>1. CASE UNCHANGED vars BY <1>1 DEF vars, CalibrationInductive
<1> QED BY <1>1, UserSteps, LinkSteps, DeviceSteps DEF Next

LEMMA InductiveInvariant == Spec => []CalibrationInductive
BY InitInductive, InductiveStep, PTL DEF Spec

\* A page that calls its draft clean shows its baseline; Save is offered only over the
\* newest colours and with nothing of the page out; a synchronised service that is not
\* stuck in a save holds what the device holds.
THEOREM CalibrationSafe == Spec => []CalibrationInv
<1>1. CalibrationInductive => CalibrationInv
  <2> SUFFICES ASSUME CalibrationInductive PROVE CalibrationInv OBVIOUS
  <2> USE DEF CalibrationInductive, Good
  <2>1. TypeOK BY DEF TypeOK, Client, Stored
  <2>2. CleanIsBaseline BY DEF CleanIsBaseline, Page, Clean
  <2>3. SaveKnowsNewest BY DEF SaveKnowsNewest, CanSave, Page, Shown, Behind, Serial
  <2>4. ShownIsStored BY DEF ShownIsStored, Knows
  <2> QED BY <2>1, <2>2, <2>3, <2>4 DEF CalibrationInv
<1> QED BY <1>1, InductiveInvariant, PTL

\* Unsaved edits go only by an edit or by an operation of the page itself.
THEOREM DraftSurvives == Spec => DraftKept
<1>1. CalibrationInductive /\ [Next]_vars => [DraftStep]_vars
  BY UserSteps, LinkSteps, DeviceSteps DEF Next
<1> QED BY <1>1, InductiveInvariant, PTL DEF Spec, DraftKept, DraftStep
==============================================================================
