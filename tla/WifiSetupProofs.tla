--------------------------- MODULE WifiSetupProofs ---------------------------
(***************************************************************************)
(* The safety properties of WifiSetup, for every number of saves, acts of  *)
(* the user and events.                                                    *)
(***************************************************************************)
EXTENDS WifiSetup, TLAPS

ClientRecord ==
  [state : LiveStates, ever : BOOLEAN, fails : 0..OFFLINE_AFTER_FAILURES,
   asking : BOOLEAN, hushed : BOOLEAN, mounted : BOOLEAN, open : BOOLEAN,
   val : Value, pw : BOOLEAN, base : Value, known : BOOLEAN,
   busy : {"none", "saving", "verifying"}, latest : [known : BOOLEAN, v : Value],
   get : Get, tok : {"none", "live", "dead"}, check : BOOLEAN, dialog : Dialogs,
   n : 0..MaxSaves, flows : [Saves -> Flow]]
DeviceRecord ==
  [up : BOOLEAN, cfg : Value, tr : {"none", "started", "over"}, want : Value,
   for : Saves, done : SUBSET Saves, late : SUBSET Saves]

\* A save the device d has applied, or which an older one has overtaken.
Carried(d, i)  == i \in d.done \/ \E j \in d.done \cap d.late : j < i
\* A save that follows a transition: the device's is its own, or an older one's.
Followed(d, i) == d.for = i \/ (d.for \in d.late /\ d.for < i)

\* What is so of save i, in phase ph with answer ans, the newest one or not.
Told(d, i, ph, ans, newest) ==
  /\ ph = "saved" => Carried(d, i)
  /\ newest /\ ph = "putback" /\ ans = "ok" => i \in d.done
  /\ newest /\ (ph \in {"wait", "ask", "askback"} \/ (ph = "putback" /\ ans = "connecting"))
       => Followed(d, i)
  /\ newest /\ ph = "askback" /\ ans = "connected" => Carried(d, i)

Known(k, d, i) ==
  /\ k.flows[i].ph # "none" => i <= k.n
  /\ Told(d, i, k.flows[i].ph, k.flows[i].ans, i = k.n)

\* What holds of a client k, beside a device d, between any two steps.
Sound(k, d) == k \in ClientRecord /\ \A i \in Saves : Known(k, d, i)

SetupInductive ==
  /\ Sound(c, dev) /\ dev \in DeviceRecord /\ acts \in 0..MaxActs /\ events \in 0..MaxEvents

\* m has come from k with every save where it was, and no form opened or draft changed.
SameSaves(k, m) ==
  m.n = k.n /\ \A i \in Saves : m.flows[i].ph = k.flows[i].ph /\ m.flows[i].ans = k.flows[i].ans
SameDraft(k, m) == m.open => k.open /\ m.val = k.val
Keeps(k, m) == m \in ClientRecord /\ SameSaves(k, m) /\ SameDraft(k, m)

-----------------------------------------------------------------------------
(* The functions that move no save.                                         *)

LEMMA KeepsTwice ==
  ASSUME NEW a, NEW b, NEW m, Keeps(a, b), Keeps(b, m) PROVE Keeps(a, m)
BY DEF Keeps, SameSaves, SameDraft

LEMMA KeepsSound ==
  ASSUME NEW k, NEW m, NEW d, Sound(k, d), Keeps(k, m) PROVE Sound(m, d)
BY DEF Sound, Known, Keeps, SameSaves

LEMMA FirstTyped == First \in Value /\ NoGet \in Get /\ NoFlow \in Flow
BY DEF First, Value, Modes, NoGet, Get, NoFlow, Flow, Phases, Answers

\* m differs from k neither in a save nor in the draft.
LEMMA SameKeeps ==
  ASSUME NEW k, NEW m \in ClientRecord,
         m.n = k.n, m.flows = k.flows, m.open = k.open, m.val = k.val
  PROVE  Keeps(k, m)
BY DEF Keeps, SameSaves, SameDraft

LEMMA MonitorKeeps ==
  ASSUME NEW k \in ClientRecord
  PROVE  /\ Keeps(k, NoteSuccess(k)) /\ Keeps(k, Suppress(k)) /\ Keeps(k, Release(k))
         /\ Keeps(k, NoteCheckFailure(k))
<1>0. 0 \in 0..OFFLINE_AFTER_FAILURES /\ "online" \in LiveStates
  BY DEF OFFLINE_AFTER_FAILURES, LiveStates
<1>1. Keeps(k, NoteSuccess(k))
  <2> DEFINE m == [k EXCEPT !.fails = 0, !.ever = TRUE, !.state = "online"]
  <2>1. m \in ClientRecord BY <1>0 DEF ClientRecord
  <2>2. m.n = k.n /\ m.flows = k.flows /\ m.open = k.open /\ m.val = k.val BY DEF ClientRecord
  <2> HIDE DEF m
  <2>3. Keeps(k, m) BY <2>1, <2>2, SameKeeps
  <2> QED BY <2>3 DEF m, NoteSuccess
<1>2. Keeps(k, Suppress(k))
  <2> DEFINE m == [k EXCEPT !.hushed = TRUE]
  <2>1. m \in ClientRecord /\ m.n = k.n /\ m.flows = k.flows /\ m.open = k.open /\ m.val = k.val
    BY DEF ClientRecord
  <2> HIDE DEF m
  <2>2. Keeps(k, m) BY <2>1, SameKeeps
  <2> QED BY <2>2 DEF m, Suppress
<1>3. Keeps(k, Release(k))
  <2> DEFINE m == [[k EXCEPT !.hushed = FALSE, !.fails = 0] EXCEPT !.asking = TRUE]
  <2>1. m \in ClientRecord BY <1>0 DEF ClientRecord
  <2>2. m.n = k.n /\ m.flows = k.flows /\ m.open = k.open /\ m.val = k.val BY DEF ClientRecord
  <2> HIDE DEF m
  <2>3. Keeps(k, m) BY <2>1, <2>2, SameKeeps
  <2> QED BY <2>3 DEF m, Release, Check
<1>4. Keeps(k, NoteCheckFailure(k))
  <2> DEFINE a == IF k.fails < OFFLINE_AFTER_FAILURES THEN k.fails + 1 ELSE k.fails
             f == [k EXCEPT !.fails = a]
             s == IF k.hushed THEN k.state ELSE Judgement(f)
             m == [f EXCEPT !.state = s]
  <2>1. a \in 0..OFFLINE_AFTER_FAILURES BY DEF ClientRecord, OFFLINE_AFTER_FAILURES
  <2> HIDE DEF a
  <2>2. f \in ClientRecord /\ f.n = k.n /\ f.flows = k.flows /\ f.open = k.open /\ f.val = k.val
        /\ f.state = k.state
    BY <2>1 DEF ClientRecord
  <2>3. NoteCheckFailure(k) = m BY DEF NoteCheckFailure, a, ClientRecord
  <2> HIDE DEF f
  <2>4. s \in LiveStates BY <2>2 DEF Judgement, LiveStates, ClientRecord
  <2> HIDE DEF s
  <2>5. m \in ClientRecord /\ m.n = k.n /\ m.flows = k.flows /\ m.open = k.open /\ m.val = k.val
    BY <2>2, <2>4 DEF ClientRecord
  <2> HIDE DEF m
  <2> QED BY <2>3, <2>5, SameKeeps
<1> QED BY <1>1, <1>2, <1>3, <1>4

LEMMA LoadWifiKeeps == ASSUME NEW k \in ClientRecord PROVE Keeps(k, LoadWifi(k))
<1>1. [NoGet EXCEPT !.st = "sent"] \in Get BY DEF NoGet, Get, First, Value, Modes
<1> DEFINE g == [NoGet EXCEPT !.st = "sent"]
<1> HIDE DEF g
<1>2. Keeps(k, [k EXCEPT !.get = g])
  BY <1>1 DEF g, Keeps, SameSaves, SameDraft, ClientRecord
<1> QED BY <1>2 DEF g, LoadWifi

LEMMA SucceededKeeps == ASSUME NEW k \in ClientRecord PROVE Keeps(k, Succeeded(k))
<1>1. Keeps(k, NoteSuccess(k)) BY MonitorKeeps
<1>2. Keeps(NoteSuccess(k), LoadWifi(NoteSuccess(k))) BY <1>1, LoadWifiKeeps DEF Keeps
<1> QED BY <1>1, <1>2, KeepsTwice DEF Succeeded

LEMMA DisownedTyped ==
  ASSUME NEW k \in ClientRecord,
         NEW fs, \/ fs = [i \in Saves |-> [k.flows[i] EXCEPT !.here = FALSE]]
                 \/ fs = [i \in Saves |-> [k.flows[i] EXCEPT !.ses = FALSE]]
  PROVE  fs \in [Saves -> Flow] /\ \A i \in Saves : fs[i].ph = k.flows[i].ph /\ fs[i].ans = k.flows[i].ans
<1>1. k.flows \in [Saves -> Flow] BY DEF ClientRecord
<1>2. \A f \in Flow : /\ [f EXCEPT !.here = FALSE] \in Flow /\ [f EXCEPT !.ses = FALSE] \in Flow
                      /\ [f EXCEPT !.here = FALSE].ph = f.ph /\ [f EXCEPT !.here = FALSE].ans = f.ans
                      /\ [f EXCEPT !.ses = FALSE].ph = f.ph /\ [f EXCEPT !.ses = FALSE].ans = f.ans
  BY DEF Flow
<1> QED BY <1>1, <1>2

LEMMA DetachedKeeps ==
  ASSUME NEW k \in ClientRecord PROVE Keeps(k, Detached(k)) /\ ~Detached(k).open
<1> DEFINE fs == [i \in Saves |-> [k.flows[i] EXCEPT !.here = FALSE]]
<1>1. fs \in [Saves -> Flow] /\ \A i \in Saves : fs[i].ph = k.flows[i].ph /\ fs[i].ans = k.flows[i].ans
  BY DisownedTyped
<1> HIDE DEF fs
<1> DEFINE m == [k EXCEPT !.flows = fs, !.open = FALSE, !.busy = "none"]
<1>2. Detached(k) = m BY DEF Detached, fs
<1>3. m \in ClientRecord /\ m.n = k.n /\ m.flows = fs /\ ~m.open BY <1>1 DEF ClientRecord
<1> HIDE DEF m
<1> QED BY <1>1, <1>2, <1>3 DEF Keeps, SameSaves, SameDraft

\* A form is only made anew where there is none.
LEMMA NewFormOpens ==
  ASSUME NEW k \in ClientRecord
  PROVE  NewForm(k) \in ClientRecord /\ SameSaves(k, NewForm(k))
<1> DEFINE a == Detached(k)
           f == [a EXCEPT !.open = TRUE, !.known = FALSE, !.val = First, !.pw = FALSE,
                          !.base = First, !.check = TRUE]
           b == [f EXCEPT !.base = k.latest.v, !.known = TRUE]
           g == [b EXCEPT !.val = k.latest.v, !.pw = FALSE]
<1>1. a \in ClientRecord /\ SameSaves(k, a) BY DetachedKeeps DEF Keeps
<1> HIDE DEF a
<1>2. f \in ClientRecord /\ SameSaves(k, f) BY <1>1, FirstTyped DEF SameSaves, ClientRecord
<1> HIDE DEF f
<1>3. k.latest.v \in Value BY DEF ClientRecord
<1>4. b \in ClientRecord /\ SameSaves(k, b) BY <1>2, <1>3 DEF SameSaves, ClientRecord
<1> HIDE DEF b
<1>5. g \in ClientRecord /\ SameSaves(k, g) BY <1>4, <1>3 DEF SameSaves, ClientRecord
<1>6. NewForm(k) = IF k.latest.known THEN g ELSE f
  BY DEF NewForm, SetBaseline, ApplyValue, a, f, b
<1> QED BY <1>2, <1>5, <1>6

LEMMA RenderSettingsKeeps ==
  ASSUME NEW k \in ClientRecord
  PROVE  /\ RenderSettings(k) \in ClientRecord /\ SameSaves(k, RenderSettings(k))
         /\ k.open /\ RenderSettings(k).open => RenderSettings(k).val = k.val
         /\ k.tok = "none" => Keeps(k, RenderSettings(k))
BY NewFormOpens, DetachedKeeps DEF RenderSettings, Keeps, SameSaves, SameDraft

LEMMA SetTokenKeeps ==
  ASSUME NEW k \in ClientRecord, NEW tok \in {"none", "live"}
  PROVE  /\ SetToken(k, tok) \in ClientRecord /\ SameSaves(k, SetToken(k, tok))
         /\ k.open /\ SetToken(k, tok).open => SetToken(k, tok).val = k.val
         /\ tok = "none" => Keeps(k, SetToken(k, tok))
<1> DEFINE fs == [i \in Saves |-> [k.flows[i] EXCEPT !.ses = FALSE]]
           m  == [k EXCEPT !.tok = tok, !.check = FALSE, !.flows = fs]
<1>1. fs \in [Saves -> Flow] /\ \A i \in Saves : fs[i].ph = k.flows[i].ph /\ fs[i].ans = k.flows[i].ans
  BY DisownedTyped
<1>2. SetToken(k, tok) = RenderSettings(m) BY DEF SetToken
<1> HIDE DEF fs
<1>3. Keeps(k, m) /\ m.tok = tok /\ m.open = k.open /\ m.val = k.val
  BY <1>1 DEF Keeps, SameSaves, SameDraft, ClientRecord
<1> HIDE DEF m
<1>4. m \in ClientRecord BY <1>3 DEF Keeps
<1> QED BY <1>2, <1>3, <1>4, RenderSettingsKeeps, KeepsTwice DEF Keeps, SameSaves

LEMMA UnauthorizedKeeps ==
  ASSUME NEW k \in ClientRecord, NEW ses \in BOOLEAN PROVE Keeps(k, Unauthorized(k, ses))
BY SetTokenKeeps DEF Unauthorized, Keeps, SameSaves, SameDraft

LEMMA SetBusyKeeps ==
  ASSUME NEW k \in ClientRecord, NEW i \in Saves, NEW key \in {"none", "saving", "verifying"}
  PROVE  Keeps(k, SetBusy(k, i, key))
BY DEF SetBusy, Keeps, SameSaves, SameDraft, ClientRecord

LEMMA RefreshKeeps ==
  ASSUME NEW k \in ClientRecord, NEW i \in Saves PROVE Keeps(k, Refresh(k, i))
<1>1. Keeps(k, [k EXCEPT !.get = NoGet])
  BY FirstTyped DEF Keeps, SameSaves, SameDraft, ClientRecord
<1> QED BY <1>1, LoadWifiKeeps DEF Refresh

LEMMA AcceptSavedKeeps == ASSUME NEW k \in ClientRecord PROVE Keeps(k, AcceptSaved(k))
BY DEF AcceptSaved, Keeps, SameSaves, SameDraft, ClientRecord

-----------------------------------------------------------------------------
(* The functions that move save i.                                          *)

\* m has come from k by a step of save i.
Moved(k, m, i) ==
  /\ m \in ClientRecord /\ m.n = k.n /\ SameDraft(k, m)
  /\ \A j \in Saves \ {i} : m.flows[j].ph = k.flows[j].ph /\ m.flows[j].ans = k.flows[j].ans

LEMMA KeepsMoved ==
  ASSUME NEW a, NEW b, NEW m, NEW i
  PROVE  /\ Keeps(a, b) /\ Moved(b, m, i) => Moved(a, m, i)
         /\ Moved(a, b, i) /\ Keeps(b, m) /\ i \in Saves
              => Moved(a, m, i) /\ m.flows[i].ph = b.flows[i].ph /\ m.flows[i].ans = b.flows[i].ans
BY DEF Keeps, Moved, SameSaves, SameDraft

LEMMA MovedSound ==
  ASSUME NEW k, NEW m, NEW d, NEW i \in Saves, Sound(k, d), Moved(k, m, i), Known(m, d, i)
  PROVE  Sound(m, d)
BY DEF Sound, Moved, Known

LEMMA FlowMoved ==
  ASSUME NEW k \in ClientRecord, NEW i \in Saves, NEW f \in Flow
  PROVE  LET m == [k EXCEPT !.flows[i] = f] IN Moved(k, m, i) /\ m.flows[i] = f
<1> DEFINE m == [k EXCEPT !.flows[i] = f]
<1>1. m \in ClientRecord /\ m.n = k.n /\ m.open = k.open /\ m.val = k.val BY DEF ClientRecord
<1>2. k.flows \in [Saves -> Flow] /\ m.flows = [k.flows EXCEPT ![i] = f] BY DEF ClientRecord
<1> HIDE DEF m
<1>3. m.flows[i] = f /\ \A j \in Saves \ {i} : m.flows[j] = k.flows[j] BY <1>2
<1>4. Moved(k, m, i) BY <1>1, <1>3 DEF Moved, SameDraft
<1> QED BY <1>3, <1>4 DEF m

LEMMA PhaseMoved ==
  ASSUME NEW k \in ClientRecord, NEW i \in Saves, NEW ph \in Phases
  PROVE  LET m == Phase(k, i, ph)
         IN  Moved(k, m, i) /\ m.flows[i].ph = ph /\ m.flows[i].ans = k.flows[i].ans
<1> DEFINE f == [k.flows[i] EXCEPT !.ph = ph]
<1>1. f \in Flow /\ f.ph = ph /\ f.ans = k.flows[i].ans BY DEF ClientRecord, Flow
<1>2. Phase(k, i, ph) = [k EXCEPT !.flows[i] = f] BY DEF Phase
<1> HIDE DEF f
<1> QED BY <1>1, <1>2, FlowMoved

LEMMA OverMoved ==
  ASSUME NEW k \in ClientRecord, NEW i \in Saves, NEW ph \in Phases
  PROVE  LET m == Over(k, i, ph)
         IN  Moved(k, m, i) /\ m.flows[i].ph = ph /\ m.flows[i].ans = "none"
<1> DEFINE h == k.flows[i].here /\ ph = "saved"
           f == [NoFlow EXCEPT !.ph = ph, !.sent = k.flows[i].sent, !.here = h]
<1>0. h \in BOOLEAN OBVIOUS
<1> HIDE DEF h
<1>1. f \in Flow /\ f.ph = ph /\ f.ans = "none" BY <1>0, FirstTyped DEF ClientRecord, Flow, NoFlow
<1>2. Over(k, i, ph) = [k EXCEPT !.flows[i] = f] BY DEF Over, h
<1> HIDE DEF f
<1> QED BY <1>1, <1>2, FlowMoved

\* A save that runs is one that has begun.
LEMMA BegunIsKnown ==
  ASSUME NEW k, NEW m, NEW d, NEW i, Known(k, d, i), m.n = k.n, k.flows[i].ph # "none",
         Told(d, i, m.flows[i].ph, m.flows[i].ans, i = m.n)
  PROVE  Known(m, d, i)
BY DEF Known

\* The client k goes on as m: what holds of it still does, and no draft is changed.
Goes(k, m, d) == Sound(m, d) /\ SameDraft(k, m)

LEMMA KeepsGoes ==
  ASSUME NEW k, NEW b, NEW m, NEW d
  PROVE  /\ Sound(k, d) /\ Keeps(k, b) /\ Goes(b, m, d) => Goes(k, m, d)
         /\ Goes(k, b, d) /\ Keeps(b, m) => Goes(k, m, d)
BY KeepsSound DEF Goes, Keeps, SameDraft

\* A save that ends claims nothing.
LEMMA OverGoes ==
  ASSUME NEW d, NEW k, Sound(k, d), NEW i \in Saves, k.flows[i].ph # "none"
  PROVE  Goes(k, Over(k, i, "ended"), d)
<1> DEFINE m == Over(k, i, "ended")
<1>1. Moved(k, m, i) /\ m.flows[i].ph = "ended" /\ m.flows[i].ans = "none"
  BY OverMoved DEF Sound, Phases
<1> HIDE DEF m
<1>2. Known(m, d, i) BY <1>1, BegunIsKnown DEF Told, Sound, Moved
<1>3. Sound(m, d) BY <1>1, <1>2, MovedSound
<1> QED BY <1>1, <1>3 DEF m, Goes, Moved

LEMMA EndedGoes ==
  ASSUME NEW d, NEW k, Sound(k, d), NEW i \in Saves, k.flows[i].ph # "none"
  PROVE  Goes(k, Ended(k, i), d)
<1> DEFINE b == SetBusy(k, i, "none")
<1>1. Keeps(k, b) BY SetBusyKeeps DEF Sound
<1>2. Sound(b, d) /\ b.flows[i].ph # "none" BY <1>1, KeepsSound DEF Keeps, SameSaves
<1> HIDE DEF b
<1>3. Goes(b, Over(b, i, "ended"), d) BY <1>2, OverGoes
<1> QED BY <1>1, <1>3, KeepsGoes DEF Ended, b

\* A save is only called done when the device has it, or one that overtook it.
LEMMA SavedGoes ==
  ASSUME NEW d, NEW k, Sound(k, d), NEW i \in Saves, k.flows[i].ph # "none", Carried(d, i)
  PROVE  Goes(k, Saved(k, i), d)
<1> DEFINE a == IF k.flows[i].here THEN AcceptSaved(k) ELSE k
           b == SetBusy(a, i, "none")
           m == Over(b, i, "saved")
<1>0. Keeps(k, k) BY DEF Keeps, SameSaves, SameDraft, Sound
<1>1. Keeps(k, a) BY <1>0, AcceptSavedKeeps DEF Sound
<1> HIDE DEF a
<1>2. Keeps(a, b) BY <1>1, SetBusyKeeps DEF Keeps
<1> HIDE DEF b
<1>3. Keeps(k, b) BY <1>1, <1>2, KeepsTwice
<1>4. Sound(b, d) /\ b.flows[i].ph # "none" BY <1>3, KeepsSound DEF Keeps, SameSaves
<1>5. Moved(b, m, i) /\ m.flows[i].ph = "saved" /\ m.flows[i].ans = "none"
  BY <1>4, OverMoved DEF Sound, Phases
<1>6. Saved(k, i) = m BY DEF Saved, a, b
<1> HIDE DEF m
<1>7. Known(m, d, i) BY <1>4, <1>5, BegunIsKnown DEF Told, Sound, Moved
<1>8. Goes(b, m, d) BY <1>4, <1>5, <1>7, MovedSound DEF Goes, Moved
<1> QED BY <1>3, <1>6, <1>8, KeepsGoes

\* A save that waits for its transition.
LEMMA WaitGoes ==
  ASSUME NEW d, NEW k, Sound(k, d), NEW i \in Saves, NEW ph \in {"wait", "ask"},
         k.flows[i].ph # "none", i = k.n => Followed(d, i)
  PROVE  Goes(k, Phase(k, i, ph), d)
<1> DEFINE m == Phase(k, i, ph)
<1>1. Moved(k, m, i) /\ m.flows[i].ph = ph BY PhaseMoved DEF Sound, Phases
<1> HIDE DEF m
<1>2. Known(m, d, i) BY <1>1, BegunIsKnown DEF Told, Sound, Moved
<1> QED BY <1>1, <1>2, MovedSound DEF m, Goes, Moved

LEMMA ContinueGoes ==
  ASSUME NEW d, NEW k, Sound(k, d), NEW i \in Saves, k.flows[i].ph # "none", i = k.n => Followed(d, i)
  PROVE  Goes(k, ContinueOrTimeout(k, i), d)
<1>1. Goes(k, Ended(k, i), d) BY EndedGoes
<1>2. Keeps(Ended(k, i), Release(Ended(k, i))) BY <1>1, MonitorKeeps DEF Goes, Sound
<1>3. Goes(k, Release(Ended(k, i)), d) BY <1>1, <1>2, KeepsGoes
<1>4. Goes(k, Phase(k, i, "wait"), d) BY WaitGoes
<1> QED BY <1>3, <1>4 DEF ContinueOrTimeout

-----------------------------------------------------------------------------
(* The steps.                                                               *)

DraftStep == c.open /\ c'.open /\ HasChanges(c) /\ acts' = acts => c'.val = c.val

LEMMA GoesStep ==
  ASSUME SetupInductive, Goes(c, c', dev), UNCHANGED <<dev, acts, events>>
  PROVE  SetupInductive' /\ DraftStep
BY DEF SetupInductive, Goes, SameDraft, DraftStep

LEMMA KeepsStep ==
  ASSUME SetupInductive, Keeps(c, c'), UNCHANGED <<dev, acts, events>>
  PROVE  SetupInductive' /\ DraftStep
<1>1. Goes(c, c', dev) BY KeepsSound DEF SetupInductive, Goes, Keeps
<1> QED BY <1>1, GoesStep

LEMMA PutSuccessGoes ==
  ASSUME NEW d, NEW k, Sound(k, d), NEW i \in Saves,
         k.flows[i].ph = "putback", k.flows[i].ans \in {"ok", "connecting"}
  PROVE  Goes(k, PutSuccess(k, i), d)
<1>1. Told(d, i, k.flows[i].ph, k.flows[i].ans, i = k.n) BY DEF Sound, Known
<1>2. CASE ~Current(k, i)
  <2>1. PutSuccess(k, i) = Over(k, i, "ended") BY <1>2 DEF PutSuccess
  <2> QED BY <2>1, OverGoes
<1>3. CASE Current(k, i) /\ k.flows[i].ans = "connecting"
  <2> DEFINE b == SetBusy(k, i, "verifying")
             m == Phase(b, i, "wait")
  <2>1. Keeps(k, b) BY SetBusyKeeps DEF Sound
  <2>2. PutSuccess(k, i) = Suppress(m) BY <1>3 DEF PutSuccess
  <2> HIDE DEF b
  <2>3. Sound(b, d) /\ b.flows[i].ph # "none" /\ Followed(d, i)
    BY <2>1, <1>1, <1>3, KeepsSound DEF Keeps, SameSaves, Told, Current
  <2>4. Goes(b, m, d) BY <2>3, WaitGoes
  <2> HIDE DEF m
  <2>5. Goes(k, m, d) BY <2>1, <2>4, KeepsGoes
  <2>6. Keeps(m, Suppress(m)) BY <2>5, MonitorKeeps DEF Goes, Sound
  <2> QED BY <2>2, <2>5, <2>6, KeepsGoes
<1>4. CASE Current(k, i) /\ k.flows[i].ans = "ok"
  <2>1. PutSuccess(k, i) = IF k.flows[i].pwch THEN SetToken(Ended(k, i), "none") ELSE Saved(k, i)
    BY <1>4 DEF PutSuccess
  <2>2. Carried(d, i) BY <1>1, <1>4 DEF Told, Current, Carried
  <2>3. Goes(k, Saved(k, i), d) BY <2>2, SavedGoes
  <2>4. Goes(k, Ended(k, i), d) BY EndedGoes
  <2>5. Keeps(Ended(k, i), SetToken(Ended(k, i), "none")) BY <2>4, SetTokenKeeps DEF Goes, Sound
  <2>6. Goes(k, SetToken(Ended(k, i), "none"), d) BY <2>4, <2>5, KeepsGoes
  <2> QED BY <2>1, <2>3, <2>6
<1> QED BY <1>2, <1>3, <1>4

LEMMA PutErrorGoes ==
  ASSUME NEW d, NEW k, Sound(k, d), NEW i \in Saves, k.flows[i].ph # "none"
  PROVE  Goes(k, PutError(k, i), d)
BY EndedGoes, OverGoes DEF PutError

LEMMA PutStep ==
  ASSUME SetupInductive, NEW i \in Saves, DeliverPut(i) \/ FailPut(i)
  PROVE  SetupInductive' /\ DraftStep
<1>0. Sound(c, dev) /\ c \in ClientRecord BY DEF SetupInductive, Sound
<1>1. CASE FailPut(i)
  <2>1. Goes(c, c', dev) BY <1>0, <1>1, PutErrorGoes DEF FailPut
  <2> QED BY <1>1, <2>1, GoesStep DEF FailPut
<1>2. CASE DeliverPut(i) /\ c.flows[i].ans \in {"ok", "connecting"}
  <2> DEFINE k == Succeeded(c)
  <2>1. Keeps(c, k) BY <1>0, SucceededKeeps
  <2>2. c' = PutSuccess(k, i) /\ c.flows[i].ph = "putback" BY <1>2 DEF DeliverPut
  <2> HIDE DEF k
  <2>3. Goes(k, c', dev) BY <1>0, <1>2, <2>1, <2>2, KeepsSound, PutSuccessGoes DEF Keeps, SameSaves
  <2>4. Goes(c, c', dev) BY <1>0, <2>1, <2>3, KeepsGoes
  <2> QED BY <1>2, <2>4, GoesStep DEF DeliverPut
<1>3. CASE DeliverPut(i) /\ c.flows[i].ans \notin {"ok", "connecting"}
  <2> DEFINE k == IF c.flows[i].ans = "denied" THEN Unauthorized(c, c.flows[i].ses) ELSE c
  <2>1. c.flows[i].ses \in BOOLEAN BY <1>0 DEF ClientRecord, Flow
  <2>2. Keeps(c, k) BY <1>0, <2>1, UnauthorizedKeeps DEF Keeps, SameSaves, SameDraft
  <2>3. c' = PutError(k, i) /\ c.flows[i].ph = "putback" BY <1>3 DEF DeliverPut
  <2> HIDE DEF k
  <2>4. Goes(k, c', dev) BY <1>0, <2>2, <2>3, KeepsSound, PutErrorGoes DEF Keeps, SameSaves
  <2>5. Goes(c, c', dev) BY <1>0, <2>2, <2>4, KeepsGoes
  <2> QED BY <1>3, <2>5, GoesStep DEF DeliverPut
<1> QED BY <1>1, <1>2, <1>3

LEMMA AskAnswerGoes ==
  ASSUME NEW d, NEW k, Sound(k, d), NEW i \in Saves, k.flows[i].ph = "askback"
  PROVE  Goes(k, AskAnswer(k, i), d)
<1>1. Told(d, i, k.flows[i].ph, k.flows[i].ans, i = k.n) BY DEF Sound, Known
<1> DEFINE r == Refresh(k, i)
<1>2. Keeps(k, r) BY RefreshKeeps DEF Sound
<1>3. Sound(r, d) /\ r.flows[i].ph # "none" BY <1>2, KeepsSound DEF Keeps, SameSaves
<1> HIDE DEF r
<1>4. \A m : Goes(k, m, d) => Goes(k, Release(m), d)
  BY MonitorKeeps, KeepsGoes DEF Goes, Sound
<1>5. CASE ~Current(k, i)
  <2>1. AskAnswer(k, i) = Release(Over(k, i, "ended")) BY <1>5 DEF AskAnswer
  <2>2. Goes(k, Over(k, i, "ended"), d) BY OverGoes
  <2> QED BY <1>4, <2>1, <2>2
<1>6. CASE Current(k, i) /\ k.flows[i].ans = "connected"
  <2>1. AskAnswer(k, i) = Release(Saved(k, i)) BY <1>6 DEF AskAnswer
  <2>2. Carried(d, i) BY <1>1, <1>6 DEF Told, Current
  <2>3. Goes(k, Saved(k, i), d) BY <2>2, SavedGoes
  <2> QED BY <1>4, <2>1, <2>3
<1>7. CASE Current(k, i) /\ k.flows[i].ans = "failed"
  <2>1. AskAnswer(k, i) = Release(Ended(r, i)) BY <1>7 DEF AskAnswer, r
  <2>2. Goes(r, Ended(r, i), d) BY <1>3, EndedGoes
  <2>3. Goes(k, Ended(r, i), d) BY <1>2, <2>2, KeepsGoes
  <2> QED BY <1>4, <2>1, <2>3
<1>8. CASE Current(k, i) /\ k.flows[i].ans \notin {"connected", "failed"}
  <2>1. AskAnswer(k, i) = ContinueOrTimeout(k, i) BY <1>8 DEF AskAnswer
  <2>2. i = k.n => Followed(d, i) BY <1>1 DEF Told
  <2> QED BY <2>1, <2>2, ContinueGoes
<1> QED BY <1>5, <1>6, <1>7, <1>8

LEMMA AskStep ==
  ASSUME SetupInductive, NEW i \in Saves, DeliverAsk(i) \/ FailAsk(i)
  PROVE  SetupInductive' /\ DraftStep
<1>0. Sound(c, dev) /\ c \in ClientRecord BY DEF SetupInductive, Sound
<1>1. c.flows[i].ph \in {"ask", "askback"} BY DEF DeliverAsk, FailAsk
<1>2. i = c.n => Followed(dev, i) BY <1>0, <1>1 DEF Sound, Known, Told
<1>3. CASE FailAsk(i)
  <2>1. Goes(c, c', dev) BY <1>0, <1>2, <1>3, ContinueGoes DEF FailAsk
  <2> QED BY <1>3, <2>1, GoesStep DEF FailAsk
<1>4. CASE DeliverAsk(i) /\ c.flows[i].ans = "denied"
  <2> DEFINE k == Unauthorized(c, c.flows[i].ses)
  <2>1. c.flows[i].ses \in BOOLEAN BY <1>0 DEF ClientRecord, Flow
  <2>2. Keeps(c, k) BY <1>0, <2>1, UnauthorizedKeeps
  <2>3. c' = ContinueOrTimeout(k, i) BY <1>4 DEF DeliverAsk
  <2> HIDE DEF k
  <2>4. Goes(k, c', dev)
    BY <1>0, <1>1, <1>2, <2>2, <2>3, KeepsSound, ContinueGoes DEF Keeps, SameSaves
  <2>5. Goes(c, c', dev) BY <1>0, <2>2, <2>4, KeepsGoes
  <2> QED BY <1>4, <2>5, GoesStep DEF DeliverAsk
<1>5. CASE DeliverAsk(i) /\ c.flows[i].ans # "denied"
  <2> DEFINE k == Succeeded(c)
  <2>1. Keeps(c, k) BY <1>0, SucceededKeeps
  <2>2. c' = AskAnswer(k, i) /\ c.flows[i].ph = "askback" BY <1>5 DEF DeliverAsk
  <2> HIDE DEF k
  <2>3. Goes(k, c', dev) BY <1>0, <2>1, <2>2, KeepsSound, AskAnswerGoes DEF Keeps, SameSaves
  <2>4. Goes(c, c', dev) BY <1>0, <2>1, <2>3, KeepsGoes
  <2> QED BY <1>5, <2>4, GoesStep DEF DeliverAsk
<1> QED BY <1>3, <1>4, <1>5

LEMMA TimerStep ==
  ASSUME SetupInductive, NEW i \in Saves, PollTimer(i) \/ Deadline(i)
  PROVE  SetupInductive' /\ DraftStep
<1>0. Sound(c, dev) /\ c \in ClientRecord BY DEF SetupInductive, Sound
<1>1. CASE PollTimer(i) /\ Current(c, i)
  <2>1. i = c.n => Followed(dev, i) BY <1>0, <1>1 DEF PollTimer, Sound, Known, Told
  <2>2. Goes(c, c', dev) BY <1>0, <1>1, <2>1, WaitGoes DEF PollTimer
  <2> QED BY <1>1, <2>2, GoesStep DEF PollTimer
<1>2. CASE PollTimer(i) /\ ~Current(c, i)
  <2> DEFINE m == Over(c, i, "ended")
  <2>1. c' = Release(m) BY <1>2 DEF PollTimer
  <2>2. Goes(c, m, dev) BY <1>0, <1>2, OverGoes DEF PollTimer
  <2> HIDE DEF m
  <2>3. Goes(c, c', dev) BY <2>1, <2>2, MonitorKeeps, KeepsGoes DEF Goes, Sound
  <2> QED BY <1>2, <2>3, GoesStep DEF PollTimer
<1>3. CASE Deadline(i)
  <2> DEFINE f == [c.flows[i] EXCEPT !.late = TRUE]
  <2>1. f \in Flow /\ f.ph = c.flows[i].ph /\ f.ans = c.flows[i].ans BY <1>0 DEF ClientRecord, Flow
  <2>2. c' = [c EXCEPT !.flows[i] = f] BY <1>3 DEF Deadline
  <2> HIDE DEF f
  <2>3. Moved(c, c', i) /\ c'.flows[i] = f BY <1>0, <2>1, <2>2, FlowMoved
  <2>4. Keeps(c, c') BY <2>1, <2>3 DEF Moved, Keeps, SameSaves
  <2> QED BY <1>3, <2>4, KeepsStep DEF Deadline
<1> QED BY <1>1, <1>2, <1>3

\* A device that has applied more, and follows the same transition, agrees with every save.
LEMMA KnownGrows ==
  ASSUME NEW k, NEW d, NEW e, NEW j, Known(k, d, j),
         e.for = d.for, d.done \subseteq e.done, d.late \subseteq e.late
  PROVE  Known(k, e, j)
BY DEF Known, Told, Carried, Followed

LEMMA AnswerPutStep ==
  ASSUME SetupInductive, NEW i \in Saves, AnswerPut(i)
  PROVE  SetupInductive' /\ DraftStep
<1> DEFINE r == PutReply(i)
           f == [c.flows[i] EXCEPT !.ph = "putback", !.ans = r]
<1>0. Sound(c, dev) /\ c \in ClientRecord /\ dev \in DeviceRecord BY DEF SetupInductive, Sound
<1>1. r \in {"ok", "connecting", "busy", "denied"} BY DEF PutReply
<1>2. c' = [c EXCEPT !.flows[i] = f] BY DEF AnswerPut
<1>3. /\ dev' = CASE r = "ok" -> [dev EXCEPT !.cfg = c.flows[i].sent, !.done = @ \cup {i}]
                  [] r = "connecting" ->
                       [dev EXCEPT !.tr = "started", !.want = c.flows[i].sent, !.for = i,
                                   !.late = @ \cup (IF i < c.n THEN {i} ELSE {})]
                  [] OTHER -> dev
      /\ c.flows[i].ph = "put" /\ UNCHANGED <<acts, events>>
  BY DEF AnswerPut
<1> HIDE DEF r
<1>4. f \in Flow /\ f.ph = "putback" /\ f.ans = r
  <2>1. c.flows[i] \in Flow BY <1>0 DEF ClientRecord
  <2>2. "putback" \in Phases /\ r \in Answers BY <1>1 DEF Phases, Answers
  <2> QED BY <2>1, <2>2 DEF Flow
<1> HIDE DEF f
<1>5. Moved(c, c', i) /\ c'.flows[i] = f BY <1>0, <1>2, <1>4, FlowMoved
<1>6. c.flows[i].sent \in Value /\ i <= c.n /\ c.n \in Nat
  BY <1>0, <1>3, SetupBounds DEF Sound, Known, ClientRecord, Flow
<1>7. CASE r = "connecting"
  <2>1. dev' = [dev EXCEPT !.tr = "started", !.want = c.flows[i].sent, !.for = i,
                           !.late = @ \cup (IF i < c.n THEN {i} ELSE {})]
    BY <1>3, <1>7
  <2>2. /\ dev' \in DeviceRecord /\ dev'.for = i /\ dev'.done = dev.done
        /\ dev'.late = dev.late \cup (IF i < c.n THEN {i} ELSE {})
    BY <1>0, <1>6, <2>1 DEF DeviceRecord
  <2>3. Known(c', dev', i)
    BY <1>4, <1>5, <1>6, <1>7, <2>2 DEF Moved, Known, Told, Followed
  <2>4. ASSUME NEW j \in Saves \ {i} PROVE Known(c', dev', j)
    <3>1. Known(c, dev, j) BY <1>0 DEF Sound
    <3>2. Carried(dev, j) => Carried(dev', j) BY <2>2 DEF Carried
    <3>3. j = c.n => Followed(dev', j)
      BY <1>6, <2>2, SetupBounds DEF Saves, Followed
    <3>4. c'.flows[j].ph = c.flows[j].ph /\ c'.flows[j].ans = c.flows[j].ans /\ c'.n = c.n
      BY <1>5 DEF Moved
    <3> QED BY <2>2, <3>1, <3>2, <3>3, <3>4 DEF Known, Told
  <2> QED BY <1>3, <1>5, <2>2, <2>3, <2>4 DEF SetupInductive, Sound, Moved, SameDraft, DraftStep
<1>8. CASE r # "connecting"
  <2>1. /\ dev' \in DeviceRecord /\ dev'.for = dev.for /\ dev'.late = dev.late
        /\ dev'.done = dev.done \cup (IF r = "ok" THEN {i} ELSE {})
    <3>1. CASE r = "ok"
      <4>1. dev' = [dev EXCEPT !.cfg = c.flows[i].sent, !.done = @ \cup {i}] BY <1>3, <3>1
      <4> QED BY <1>0, <1>6, <3>1, <4>1 DEF DeviceRecord
    <3>2. CASE r # "ok"
      <4>1. dev' = dev BY <1>3, <1>8, <3>2
      <4> QED BY <1>0, <3>2, <4>1
    <3> QED BY <3>1, <3>2
  <2>2. Known(c', dev', i) BY <1>4, <1>5, <1>6, <1>8, <2>1 DEF Moved, Known, Told
  <2>3. ASSUME NEW j \in Saves \ {i} PROVE Known(c', dev', j)
    <3>1. Known(c, dev', j) BY <1>0, <2>1, KnownGrows DEF Sound
    <3> QED BY <1>5, <3>1 DEF Moved, Known
  <2> QED BY <1>3, <1>5, <2>1, <2>2, <2>3 DEF SetupInductive, Sound, Moved, SameDraft, DraftStep
<1> QED BY <1>7, <1>8

LEMMA AnswerAskStep ==
  ASSUME SetupInductive, NEW i \in Saves, AnswerAsk(i)
  PROVE  SetupInductive' /\ DraftStep
<1>0. Sound(c, dev) /\ c \in ClientRecord /\ dev \in DeviceRecord BY DEF SetupInductive, Sound
<1>1. PICK ans \in {"denied", "idle", "connecting", "connected", "failed"} :
        /\ c' = [c EXCEPT !.flows[i].ph = "askback", !.flows[i].ans = ans]
        /\ dev' = CASE ans = "connected" -> [dev EXCEPT !.tr = "none", !.cfg = dev.want,
                                                       !.done = @ \cup {dev.for}]
                    [] ans = "failed"    -> [dev EXCEPT !.tr = "none"]
                    [] OTHER             -> dev
  <2>1. dev.tr \in {"none", "started", "over"} BY <1>0 DEF DeviceRecord
  <2> QED BY <2>1 DEF AnswerAsk
<1>2. c.flows[i].ph = "ask" /\ UNCHANGED <<acts, events>> BY DEF AnswerAsk
<1> DEFINE f == [c.flows[i] EXCEPT !.ph = "askback", !.ans = ans]
<1>3. f \in Flow /\ f.ph = "askback" /\ f.ans = ans
  <2>1. c.flows[i] \in Flow BY <1>0 DEF ClientRecord
  <2>2. "askback" \in Phases /\ ans \in Answers BY DEF Phases, Answers
  <2> QED BY <2>1, <2>2 DEF Flow
<1>4. c' = [c EXCEPT !.flows[i] = f] BY <1>1
<1> HIDE DEF f
<1>5. Moved(c, c', i) /\ c'.flows[i] = f BY <1>0, <1>3, <1>4, FlowMoved
<1>6. /\ dev' \in DeviceRecord /\ dev'.for = dev.for /\ dev'.late = dev.late
      /\ dev'.done = dev.done \cup (IF ans = "connected" THEN {dev.for} ELSE {})
  <2>1. CASE ans = "connected"
    <3>1. dev' = [dev EXCEPT !.tr = "none", !.cfg = dev.want, !.done = @ \cup {dev.for}] BY <1>1, <2>1
    <3> QED BY <1>0, <2>1, <3>1 DEF DeviceRecord
  <2>2. CASE ans = "failed"
    <3>1. dev' = [dev EXCEPT !.tr = "none"] BY <1>1, <2>2
    <3> QED BY <1>0, <2>2, <3>1 DEF DeviceRecord
  <2>3. CASE ans \notin {"connected", "failed"}
    <3>1. dev' = dev BY <1>1, <2>3
    <3> QED BY <1>0, <2>3, <3>1
  <2> QED BY <2>1, <2>2, <2>3
<1>7. Known(c', dev', i)
  <2>1. Known(c, dev, i) BY <1>0 DEF Sound
  <2>2. i <= c.n /\ (i = c.n => Followed(dev, i)) BY <1>2, <2>1 DEF Known, Told
  <2>3. i = c.n => Followed(dev', i) BY <1>6, <2>2 DEF Followed
  <2>4. i = c.n /\ ans = "connected" => Carried(dev', i) BY <1>6, <2>2 DEF Followed, Carried
  <2> QED BY <1>3, <1>5, <2>2, <2>3, <2>4 DEF Moved, Known, Told
<1>8. ASSUME NEW j \in Saves \ {i} PROVE Known(c', dev', j)
  <2>1. Known(c, dev', j) BY <1>0, <1>6, KnownGrows DEF Sound
  <2> QED BY <1>5, <2>1 DEF Moved, Known
<1> QED BY <1>2, <1>5, <1>6, <1>7, <1>8 DEF SetupInductive, Sound, Moved, SameDraft, DraftStep

\* A new save is the newest; what was known of the one before it is no longer claimed.
LEMMA BeginStep ==
  ASSUME SetupInductive, BeginSave PROVE SetupInductive' /\ DraftStep
<1> DEFINE i == c.n + 1
           f == [NoFlow EXCEPT !.ph = "put", !.sent = BuildPayload(c),
                               !.pwch = HasApChanges(c), !.here = TRUE, !.ses = TRUE]
<1>0. Sound(c, dev) /\ c \in ClientRecord BY DEF SetupInductive, Sound
<1>1. i \in Saves /\ i \in 0..MaxSaves /\ c.n \in Nat
  BY <1>0, SetupBounds DEF BeginSave, Saves, ClientRecord
<1>2. BuildPayload(c) \in Value BY <1>0 DEF BuildPayload, ClientRecord, Value
<1>3. HasApChanges(c) \in BOOLEAN BY <1>0 DEF HasApChanges, ClientRecord
<1>4. f \in Flow /\ f.ph = "put" BY <1>2, <1>3, FirstTyped DEF Flow, NoFlow, Phases
<1>5. c' = [c EXCEPT !.n = i, !.busy = "saving", !.flows[i] = f]
  BY DEF BeginSave
<1> HIDE DEF f
<1>6. c' \in ClientRecord /\ c'.n = i /\ c'.open = c.open /\ c'.val = c.val
      /\ c'.flows = [c.flows EXCEPT ![i] = f]
  BY <1>0, <1>1, <1>4, <1>5 DEF ClientRecord
<1>7. c.flows \in [Saves -> Flow] BY <1>0 DEF ClientRecord
<1>8. Known(c', dev, i) BY <1>1, <1>4, <1>6, <1>7 DEF Known, Told
<1>9. ASSUME NEW j \in Saves \ {i} PROVE Known(c', dev, j)
  <2>1. Known(c, dev, j) BY <1>0 DEF Sound
  <2>2. c'.flows[j] = c.flows[j] /\ j # c'.n /\ (j <= c.n => j <= c'.n)
    BY <1>1, <1>6, <1>7, SetupBounds DEF Saves
  <2> QED BY <2>1, <2>2 DEF Known, Told
<1> HIDE DEF i
<1>10. Goes(c, c', dev) BY <1>6, <1>8, <1>9 DEF Goes, Sound, SameDraft
<1> QED BY <1>10, GoesStep DEF BeginSave

-----------------------------------------------------------------------------
(* The steps that move no save.                                             *)

LEMMA SameSound ==
  ASSUME NEW k, NEW m, NEW d, Sound(k, d), m \in ClientRecord, SameSaves(k, m) PROVE Sound(m, d)
BY DEF Sound, Known, SameSaves

\* Where the draft is not the same, no draft was on the page before.
LEMMA OpensStep ==
  ASSUME SetupInductive, UNCHANGED <<dev, acts, events>>, c' \in ClientRecord, SameSaves(c, c'),
         c.open /\ c'.open => c'.val = c.val
  PROVE  SetupInductive' /\ DraftStep
BY SameSound DEF SetupInductive, DraftStep

\* An act of the user may change the draft.
LEMMA ActStep ==
  ASSUME SetupInductive, Act, c' \in ClientRecord, SameSaves(c, c')
  PROVE  SetupInductive' /\ DraftStep
<1>1. acts' \in 0..MaxActs /\ acts' # acts BY SetupBounds DEF SetupInductive, Act
<1>2. Sound(c', dev) BY SameSound DEF SetupInductive
<1> QED BY <1>1, <1>2 DEF SetupInductive, Act, DraftStep

\* A GET that arrives spares a form with changes.
LEMMA DeliverGetStep ==
  ASSUME SetupInductive, DeliverGet PROVE SetupInductive' /\ DraftStep
<1> DEFINE d == [c EXCEPT !.get = NoGet, !.latest = [known |-> TRUE, v |-> c.get.v]]
           n == [d EXCEPT !.base = c.get.v, !.known = TRUE]
           a == [n EXCEPT !.val = c.get.v, !.pw = FALSE]
           b == IF c.open THEN IF HasChanges(d) THEN n ELSE a ELSE d
<1>0. Sound(c, dev) /\ c \in ClientRecord BY DEF SetupInductive, Sound
<1>1. c.get.v \in Value BY <1>0 DEF ClientRecord, Get
<1>2. c' = Succeeded(b) BY DEF DeliverGet, SetBaseline, ApplyValue
<1>3. d \in ClientRecord /\ SameSaves(c, d) /\ d.open = c.open /\ d.val = c.val
  BY <1>0, <1>1, FirstTyped DEF SameSaves, ClientRecord
<1>4. HasChanges(d) <=> HasChanges(c)
  BY <1>0 DEF HasChanges, HasApChanges, ClientRecord
<1> HIDE DEF d
<1>5. n \in ClientRecord /\ SameSaves(c, n) /\ n.open = c.open /\ n.val = c.val
  BY <1>1, <1>3 DEF SameSaves, ClientRecord
<1> HIDE DEF n
<1>6. a \in ClientRecord /\ SameSaves(c, a) BY <1>1, <1>5 DEF SameSaves, ClientRecord
<1> HIDE DEF a
<1>7. /\ b \in ClientRecord /\ SameSaves(c, b) /\ (b.open => c.open)
      /\ c.open /\ HasChanges(c) => b.val = c.val
  BY <1>3, <1>4, <1>5, <1>6
<1> HIDE DEF b
<1>8. Keeps(b, c') BY <1>2, <1>7, SucceededKeeps
<1>9. Sound(c', dev) BY <1>0, <1>7, <1>8, SameSound, KeepsSound
<1>10. DraftStep BY <1>7, <1>8 DEF DraftStep, Keeps, SameDraft
<1> QED BY <1>9, <1>10 DEF SetupInductive, DeliverGet

LEMMA RequestSteps ==
  ASSUME SetupInductive,
         \/ WifiPoll \/ \E i \in Saves : ScheduledRefresh(i)
         \/ FailGet \/ SessionChecked \/ AliveOk \/ AliveFail
  PROVE  SetupInductive' /\ DraftStep
<1>0. c \in ClientRecord BY DEF SetupInductive, Sound
<1>1. CASE WifiPoll
  <2>1. Keeps(c, c') BY <1>0, <1>1, LoadWifiKeeps DEF WifiPoll
  <2> QED BY <1>1, <2>1, KeepsStep DEF WifiPoll
<1>2. CASE FailGet
  <2>1. Keeps(c, [c EXCEPT !.get = NoGet])
    BY <1>0, FirstTyped DEF Keeps, SameSaves, SameDraft, ClientRecord
  <2>2. Keeps(c, c') BY <1>2, <2>1 DEF FailGet
  <2> QED BY <1>2, <2>2, KeepsStep DEF FailGet
<1>3. CASE SessionChecked
  <2> DEFINE d == [c EXCEPT !.check = FALSE]
  <2>1. Keeps(c, d) BY <1>0 DEF Keeps, SameSaves, SameDraft, ClientRecord
  <2>2. c' = d \/ c' = Succeeded(d) \/ c' = Unauthorized(d, TRUE) BY <1>3 DEF SessionChecked
  <2> HIDE DEF d
  <2>3. d \in ClientRecord BY <2>1 DEF Keeps
  <2>4. Keeps(d, Succeeded(d)) /\ Keeps(d, Unauthorized(d, TRUE))
    BY <2>3, SucceededKeeps, UnauthorizedKeeps
  <2>5. Keeps(c, Succeeded(d)) /\ Keeps(c, Unauthorized(d, TRUE)) BY <2>1, <2>4, KeepsTwice
  <2>6. Keeps(c, c') BY <2>1, <2>2, <2>5
  <2> QED BY <1>3, <2>6, KeepsStep DEF SessionChecked
<1>4. CASE AliveOk
  <2>1. Keeps(c, c') BY <1>0, <1>4, SucceededKeeps DEF AliveOk
  <2> QED BY <1>4, <2>1, KeepsStep DEF AliveOk
<1>5. CASE AliveFail
  <2>1. Keeps(c, c') BY <1>0, <1>5, MonitorKeeps DEF AliveFail
  <2> QED BY <1>5, <2>1, KeepsStep DEF AliveFail
<1>6. CASE \E i \in Saves : ScheduledRefresh(i)
  <2>1. Keeps(c, c') BY <1>0, <1>6, RefreshKeeps DEF ScheduledRefresh
  <2> QED BY <1>6, <2>1, KeepsStep DEF ScheduledRefresh
<1> QED BY <1>1, <1>2, <1>3, <1>4, <1>5, <1>6

LEMMA FormSteps ==
  ASSUME SetupInductive, EditForm \/ Revert PROVE SetupInductive' /\ DraftStep
<1>0. c \in ClientRecord /\ c.val \in Value /\ c.base \in Value
  BY DEF SetupInductive, Sound, ClientRecord
<1>1. CASE Revert
  <2>1. c' = [c EXCEPT !.val = c.base, !.pw = FALSE] BY <1>1 DEF Revert, ApplyValue
  <2>2. c' \in ClientRecord /\ SameSaves(c, c') BY <1>0, <2>1 DEF SameSaves, ClientRecord
  <2> QED BY <1>1, <2>2, ActStep DEF Revert
<1>2. CASE EditForm
  <2>1. PICK v \in Value, p \in BOOLEAN : c' = [c EXCEPT !.val = v, !.pw = p]
    <3> DEFINE E(v, p) == [c EXCEPT !.val = v, !.pw = p]
    <3>1. ASSUME NEW m \in Modes, c' = [c EXCEPT !.val.mode = m]
          PROVE  \E v \in Value, p \in BOOLEAN : c' = E(v, p)
      <4>1. [c.val EXCEPT !.mode = m] \in Value BY <1>0 DEF Value
      <4>2. c.pw \in BOOLEAN /\ c' = E([c.val EXCEPT !.mode = m], c.pw) BY <1>0, <3>1 DEF ClientRecord
      <4> QED BY <4>1, <4>2
    <3>2. ASSUME c' = [c EXCEPT !.val.sta = "new", !.pw = TRUE]
          PROVE  \E v \in Value, p \in BOOLEAN : c' = E(v, p)
      <4>1. [c.val EXCEPT !.sta = "new"] \in Value BY <1>0 DEF Value
      <4> QED BY <3>2, <4>1
    <3>3. ASSUME c' = [c EXCEPT !.val.ap = "locked"]
          PROVE  \E v \in Value, p \in BOOLEAN : c' = E(v, p)
      <4>1. [c.val EXCEPT !.ap = "locked"] \in Value BY <1>0 DEF Value
      <4>2. c.pw \in BOOLEAN /\ c' = E([c.val EXCEPT !.ap = "locked"], c.pw) BY <1>0, <3>3 DEF ClientRecord
      <4> QED BY <4>1, <4>2
    <3> QED BY <1>2, <3>1, <3>2, <3>3 DEF EditForm
  <2>2. c' \in ClientRecord /\ SameSaves(c, c') BY <1>0, <2>1 DEF SameSaves, ClientRecord
  <2> QED BY <1>2, <2>2, ActStep DEF EditForm
<1> QED BY <1>1, <1>2

LEMMA DialogTyped == ASSUME NEW k \in ClientRecord, NEW g \in Dialogs
  PROVE Keeps(k, [k EXCEPT !.dialog = g])
BY DEF Keeps, SameSaves, SameDraft, ClientRecord

LEMMA DialogSteps ==
  ASSUME SetupInductive,
         OpenScan \/ ScanEnds \/ CloseScan \/ OpenLogin \/ SubmitLogin \/ LoginFails \/ LoggedIn
  PROVE  SetupInductive' /\ DraftStep
<1>0. c \in ClientRecord BY DEF SetupInductive, Sound
<1>1. \A g \in {"none", "login", "submitted", "scan", "scanned"} : Keeps(c, [c EXCEPT !.dialog = g])
  BY <1>0, DialogTyped DEF Dialogs
<1>2. CASE OpenScan
  <2>1. Keeps(c, c') BY <1>1, <1>2 DEF OpenScan
  <2> QED BY <1>2, <2>1, ActStep DEF OpenScan, Keeps
<1>3. CASE ScanEnds
  <2>1. Keeps(c, c') BY <1>1, <1>3 DEF ScanEnds
  <2> QED BY <1>3, <2>1, KeepsStep DEF ScanEnds
<1>4. CASE CloseScan /\ c' = FillScanResult /\ acts > 0 /\ acts' = acts - 1
  <2> DEFINE v == [c.val EXCEPT !.sta = "new"]
  <2>1. v \in Value BY <1>0 DEF ClientRecord, Value
  <2>2. c' = [c EXCEPT !.dialog = "none", !.val = v, !.pw = FALSE] BY <1>4 DEF FillScanResult
  <2> HIDE DEF v
  <2>3. c' \in ClientRecord /\ SameSaves(c, c')
    BY <1>0, <2>1, <2>2 DEF SameSaves, ClientRecord, Dialogs
  <2> QED BY <1>4, <2>3, ActStep DEF CloseScan, Act
<1>5. CASE CloseScan /\ c' = [c EXCEPT !.dialog = "none"] /\ UNCHANGED acts
  <2>1. Keeps(c, c') BY <1>1, <1>5
  <2> QED BY <1>5, <2>1, KeepsStep DEF CloseScan
<1>6. CASE OpenLogin
  <2>1. Keeps(c, c') BY <1>1, <1>6 DEF OpenLogin
  <2> QED BY <1>6, <2>1, KeepsStep DEF OpenLogin
<1>7. CASE SubmitLogin
  <2>1. Keeps(c, c') BY <1>1, <1>7 DEF SubmitLogin
  <2> QED BY <1>7, <2>1, ActStep DEF SubmitLogin, Keeps
<1>8. CASE LoginFails
  <2>1. Keeps(c, c') BY <1>1, <1>8 DEF LoginFails
  <2> QED BY <1>8, <2>1, KeepsStep DEF LoginFails
<1>9. CASE LoggedIn
  <2> DEFINE k == [c EXCEPT !.dialog = "none"]
             s == Succeeded(k)
  <2>1. Keeps(c, k) /\ k \in ClientRecord /\ k.open = c.open /\ k.val = c.val /\ c' = SetToken(s, "live")
    BY <1>0, <1>1, <1>9 DEF Keeps, LoggedIn, ClientRecord
  <2> HIDE DEF k
  <2>2. Keeps(k, s) /\ s.open = k.open
    BY <2>1, SucceededKeeps DEF Succeeded, NoteSuccess, LoadWifi, ClientRecord
  <2> HIDE DEF s
  <2>3. /\ c' \in ClientRecord /\ SameSaves(s, c')
        /\ s.open /\ c'.open => c'.val = s.val
    BY <2>1, <2>2, SetTokenKeeps DEF Keeps
  <2> QED BY <1>9, <2>1, <2>2, <2>3, OpensStep DEF LoggedIn, Keeps, SameSaves, SameDraft
<1> QED BY <1>2, <1>3, <1>4, <1>5, <1>6, <1>7, <1>8, <1>9 DEF CloseScan

LEMMA PageSteps ==
  ASSUME SetupInductive, Logout \/ Unmount \/ Mount PROVE SetupInductive' /\ DraftStep
<1>0. c \in ClientRecord BY DEF SetupInductive, Sound
<1>1. CASE Logout
  <2>1. c' \in ClientRecord /\ SameSaves(c, c') BY <1>0, <1>1, SetTokenKeeps DEF Logout
  <2> QED BY <1>1, <2>1, ActStep DEF Logout
<1>2. CASE Unmount
  <2> DEFINE k == Detached(c)
  <2>1. Keeps(c, k) BY <1>0, DetachedKeeps
  <2>2. c' = [k EXCEPT !.mounted = FALSE, !.get = NoGet] BY <1>2 DEF Unmount
  <2> HIDE DEF k
  <2>3. c' \in ClientRecord /\ SameSaves(c, c')
    BY <2>1, <2>2, FirstTyped DEF Keeps, SameSaves, ClientRecord
  <2> QED BY <1>2, <2>3, ActStep DEF Unmount
<1>3. CASE Mount
  <2> DEFINE l == [c.latest EXCEPT !.known = FALSE]
             k == [c EXCEPT !.mounted = TRUE, !.latest = l]
             g == LoadWifi(k)
  <2>1. l \in [known : BOOLEAN, v : Value] BY <1>0 DEF ClientRecord
  <2>2. c' = RenderSettings(g) BY <1>3 DEF Mount
  <2> HIDE DEF l
  <2>3. k \in ClientRecord /\ SameSaves(c, k) /\ k.open = c.open /\ k.val = c.val
    BY <1>0, <2>1 DEF SameSaves, ClientRecord
  <2> HIDE DEF k
  <2>4. Keeps(k, g) /\ g.open = k.open BY <2>3, LoadWifiKeeps DEF LoadWifi, ClientRecord
  <2> HIDE DEF g
  <2>5. /\ c' \in ClientRecord /\ SameSaves(g, c')
        /\ g.open /\ c'.open => c'.val = g.val
    BY <2>2, <2>4, RenderSettingsKeeps DEF Keeps
  <2> QED BY <1>3, <2>3, <2>4, <2>5, OpensStep DEF Mount, Keeps, SameSaves, SameDraft
<1> QED BY <1>1, <1>2, <1>3

LEMMA DeviceSteps ==
  ASSUME SetupInductive, Device PROVE SetupInductive' /\ DraftStep
<1>0. c \in ClientRecord /\ dev \in DeviceRecord /\ Sound(c, dev) BY DEF SetupInductive, Sound
<1>1. CASE AnswerGet
  <2>1. [st |-> "back", v |-> dev.cfg] \in Get BY <1>0 DEF Get, DeviceRecord
  <2> DEFINE g == [st |-> "back", v |-> dev.cfg]
  <2>2. c' = [c EXCEPT !.get = g] BY <1>1 DEF AnswerGet
  <2> HIDE DEF g
  <2>3. Keeps(c, c') BY <1>0, <2>1, <2>2 DEF g, Keeps, SameSaves, SameDraft, ClientRecord
  <2> QED BY <1>1, <2>3, KeepsStep DEF AnswerGet
<1>2. CASE OtherLogin
  <2>1. Keeps(c, c') BY <1>0, <1>2 DEF OtherLogin, Keeps, SameSaves, SameDraft, ClientRecord
  <2>2. events' \in 0..MaxEvents BY <1>2, SetupBounds DEF OtherLogin, Event, SetupInductive
  <2>3. Sound(c', dev) BY <1>0, <2>1, KeepsSound
  <2> QED BY <1>2, <2>1, <2>2, <2>3
      DEF OtherLogin, Event, SetupInductive, DraftStep, Keeps, SameDraft
<1>3. CASE TransitionEnds \/ GoDown \/ ComeUp
  <2>1. /\ dev' \in DeviceRecord /\ dev'.for = dev.for /\ dev'.done = dev.done /\ dev'.late = dev.late
        /\ UNCHANGED <<c, acts>>
    BY <1>0, <1>3 DEF TransitionEnds, GoDown, ComeUp, Event, DeviceRecord
  <2>2. events' \in 0..MaxEvents
    BY <1>3, SetupBounds DEF TransitionEnds, GoDown, ComeUp, Event, SetupInductive
  <2>3. Sound(c, dev') BY <1>0, <2>1, KnownGrows DEF Sound
  <2> QED BY <2>1, <2>2, <2>3 DEF SetupInductive, Sound, DraftStep
<1> QED BY <1>1, <1>2, <1>3 DEF Device

-----------------------------------------------------------------------------
LEMMA SetupStarts == Init => SetupInductive
<1> SUFFICES ASSUME Init PROVE SetupInductive OBVIOUS
<1>1. PICK m \in Modes : dev = [up |-> TRUE, cfg |-> [First EXCEPT !.mode = m], tr |-> "none",
                                want |-> First, for |-> 1, done |-> {}, late |-> {}]
  BY DEF Init
<1>2. [First EXCEPT !.mode = m] \in Value BY DEF First, Value, Modes
<1>3. dev \in DeviceRecord BY <1>1, <1>2, FirstTyped, SetupBounds DEF DeviceRecord, Saves
<1>4. c = Closed /\ acts \in 0..MaxActs /\ events \in 0..MaxEvents BY SetupBounds DEF Init
<1>5. [i \in Saves |-> NoFlow] \in [Saves -> Flow] BY FirstTyped
<1> DEFINE fs == [i \in Saves |-> NoFlow]
<1>6. \A i \in Saves : fs[i].ph = "none" BY DEF NoFlow
<1>7. Closed.flows = fs BY DEF Closed
<1> HIDE DEF fs
<1>8. Closed \in ClientRecord
  BY <1>5, <1>7, FirstTyped, SetupBounds
  DEF fs, Closed, ClientRecord, LiveStates, OFFLINE_AFTER_FAILURES, Dialogs
<1>9. \A i \in Saves : Known(c, dev, i) BY <1>4, <1>6, <1>7 DEF Known, Told
<1> QED BY <1>3, <1>4, <1>8, <1>9 DEF SetupInductive, Sound

LEMMA SetupSteps == ASSUME SetupInductive, [Next]_vars PROVE SetupInductive' /\ DraftStep
<1>1. CASE UNCHANGED vars
  <2>1. DraftStep BY <1>1 DEF vars, DraftStep
  <2> QED BY <1>1, <2>1 DEF vars, SetupInductive
<1>2. CASE \E i \in Saves : SaveSteps(i)
  BY <1>2, PutStep, AskStep, TimerStep, AnswerPutStep, AnswerAskStep DEF SaveSteps
<1>3. CASE Client BY <1>3, DeliverGetStep, RequestSteps, DialogSteps DEF Client
<1>4. CASE User BY <1>4, FormSteps, BeginStep, DialogSteps, PageSteps DEF User
<1>5. CASE Device BY <1>5, DeviceSteps
<1> QED BY <1>1, <1>2, <1>3, <1>4, <1>5 DEF Next

LEMMA SetupImplied == SetupInductive => SetupInv
<1> SUFFICES ASSUME SetupInductive PROVE SetupInv OBVIOUS
<1>1. c \in ClientRecord BY DEF SetupInductive, Sound
<1>2. TypeOK BY <1>1 DEF SetupInductive, DeviceRecord, ClientRecord, TypeOK, LiveTyped
<1>3. SavedWasApplied BY DEF SetupInductive, Sound, Known, Told, Carried, SavedWasApplied, Applied
<1> QED BY <1>2, <1>3 DEF SetupInv

\* For every number of saves, acts and events: the page's state keeps its type, and a
\* save it reports as done has been applied by the device, or an older one it overtook.
THEOREM SetupSafe == Spec => []SetupInv
<1>1. SetupInductive /\ [Next]_vars => SetupInductive' BY SetupSteps
<1> QED BY <1>1, SetupStarts, SetupImplied, PTL DEF Spec

\* For every number of saves, acts and events: only the user's own acts change a dirty
\* draft on a form that stays on the page.
THEOREM DraftStays == Spec => DraftKept
<1>1. SetupInductive /\ [Next]_vars => SetupInductive' BY SetupSteps
<1>2. SetupInductive /\ [Next]_vars =>
        [c.open /\ c'.open /\ HasChanges(c) /\ acts' = acts => c'.val = c.val]_vars
  BY SetupSteps DEF DraftStep
<1> QED BY <1>1, <1>2, SetupStarts, PTL DEF Spec, DraftKept
=============================================================================
