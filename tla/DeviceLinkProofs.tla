--------------------------- MODULE DeviceLinkProofs ---------------------------
(***************************************************************************)
(* The safety invariant of DeviceLink, for every number of events.         *)
(***************************************************************************)
EXTENDS DeviceLink, TLAPS

Features == [known : BOOLEAN, sleep : BOOLEAN, fresh : BOOLEAN]
Status   == [has : BOOLEAN, fresh : BOOLEAN, saved : BOOLEAN]

ClientRecord ==
  [state : LiveStates, ever : BOOLEAN, fails : 0..OFFLINE_AFTER_FAILURES,
   asking : BOOLEAN, hushed : BOOLEAN, hidden : BOOLEAN, authed : BOOLEAN,
   feats : Features, disc : BOOLEAN, known : BOOLEAN, supported : BOOLEAN,
   status : Status, keepBusy : BOOLEAN, ticking : BOOLEAN, clockDue : BOOLEAN,
   net : SUBSET Msg]
Dev == [up : BOOLEAN, sleep : BOOLEAN, synced : BOOLEAN]

\* A request of the current epoch was not answered before a noticed outage.
Fresh(k, kind) == \A m \in k.net : m.kind = kind /\ m.own => m.fresh
Informed(k)    == k.feats.known => k.feats.fresh
Told(k)        == k.status.has /\ ~k.status.saved => k.status.fresh

\* What holds of a client between any two steps.  The answers that are still out count:
\* an old one of the current epoch would be believed when it arrives.
Sound(k) == k \in ClientRecord /\ Fresh(k, "features") /\ Fresh(k, "sleep") /\ Informed(k) /\ Told(k)

LinkInductive == Sound(c) /\ dev \in Dev /\ budget \in 0..MaxEvents

\* From k to n no request gets older and the knowledge stays what it is.
Keeps(k, n) == /\ n \in ClientRecord /\ n.feats = k.feats /\ n.status = k.status
               /\ \A kind \in Requests : Fresh(k, kind) => Fresh(n, kind)

-----------------------------------------------------------------------------
LEMMA KeepsTwice ==
  ASSUME NEW a, NEW b, NEW n, Keeps(a, b), Keeps(b, n) PROVE Keeps(a, n)
BY DEF Keeps

LEMMA KeepsSound == ASSUME NEW k, NEW n, Keeps(k, n), Sound(k) PROVE Sound(n)
BY DEF Keeps, Sound, Informed, Told, Requests

\* n differs from k in its bookkeeping only.
LEMMA SameKnowledgeKeeps ==
  ASSUME NEW k, NEW n, n \in ClientRecord, n.feats = k.feats, n.status = k.status, n.net = k.net
  PROVE  Keeps(k, n)
BY DEF Keeps, Fresh

LEMMA AskKeeps ==
  ASSUME NEW k \in ClientRecord, NEW kind \in Requests PROVE Keeps(k, Ask(k, kind))
<1> DEFINE r == [kind |-> kind, own |-> TRUE, st |-> "sent", val |-> FALSE, fresh |-> TRUE]
           n == Ask(k, kind)
<1>1. r \in Msg /\ r.fresh BY DEF Msg
<1>2. n = [k EXCEPT !.net = @ \cup {r}] BY DEF Ask
<1> HIDE DEF r, n
<1>3. n \in ClientRecord /\ n.feats = k.feats /\ n.status = k.status /\ n.net = k.net \cup {r}
  BY <1>1, <1>2 DEF ClientRecord
<1>4. Keeps(k, n) BY <1>1, <1>3 DEF Keeps, Fresh
<1> QED BY <1>4 DEF n

LEMMA DoneKeeps ==
  ASSUME NEW k \in ClientRecord, NEW m PROVE Keeps(k, Done(k, m))
<1> DEFINE n == Done(k, m)
<1>1. n \in ClientRecord /\ n.feats = k.feats /\ n.status = k.status /\ n.net = k.net \ {m}
  BY DEF Done, ClientRecord
<1> HIDE DEF n
<1>2. Keeps(k, n) BY <1>1 DEF Keeps, Fresh
<1> QED BY <1>2 DEF n

\* A new epoch owns none of the requests of the old one.
LEMMA DisownKeeps ==
  ASSUME NEW k \in ClientRecord, NEW kinds
  PROVE  LET n == Disown(k, kinds)
         IN  Keeps(k, n) /\ \A kind \in kinds : Fresh(n, kind)
<1> DEFINE Left(m) == m.own /\ m.kind \notin kinds
           Out(m)  == [m EXCEPT !.own = Left(m)]
           n == Disown(k, kinds)
<1>1. \A m \in Msg : /\ Out(m) \in Msg /\ Out(m).kind = m.kind /\ Out(m).fresh = m.fresh
                     /\ Out(m).own <=> m.own /\ m.kind \notin kinds
  <2> SUFFICES ASSUME NEW m \in Msg
               PROVE  /\ Out(m) \in Msg /\ Out(m).kind = m.kind /\ Out(m).fresh = m.fresh
                      /\ Out(m).own <=> m.own /\ m.kind \notin kinds
    OBVIOUS
  <2> DEFINE v == Left(m)
  <2>1. v \in BOOLEAN /\ (v <=> m.own /\ m.kind \notin kinds) OBVIOUS
  <2>2. Out(m) = [m EXCEPT !.own = v] OBVIOUS
  <2> HIDE DEF v, Out
  <2> QED BY <2>1, <2>2 DEF Msg
<1>2. n.net = {Out(m) : m \in k.net} /\ n = [k EXCEPT !.net = n.net]
  BY DEF Disown, ClientRecord
<1> HIDE DEF n, Out, Left
<1>3. n.net \in SUBSET Msg BY <1>1, <1>2 DEF ClientRecord
<1>4. n \in ClientRecord /\ n.feats = k.feats /\ n.status = k.status BY <1>2, <1>3 DEF ClientRecord
<1>5. \A x \in n.net : x.own => /\ x.kind \notin kinds
                                /\ \E m \in k.net : m.own /\ m.kind = x.kind /\ m.fresh = x.fresh
  BY <1>1, <1>2 DEF ClientRecord
<1>6. Keeps(k, n) BY <1>4, <1>5 DEF Keeps, Fresh
<1>7. \A kind \in kinds : Fresh(n, kind) BY <1>5 DEF Fresh
<1> QED BY <1>6, <1>7 DEF n

LEMMA RefreshKeeps ==
  ASSUME NEW k \in ClientRecord PROVE Keeps(k, RefreshFeatures(k)) /\ Keeps(k, RefreshSleep(k))
<1>1. Keeps(k, k) BY DEF Keeps
<1>2. Keeps(k, Ask(k, "features")) /\ Keeps(k, Ask(k, "sleep")) BY AskKeeps DEF Requests
<1> QED BY <1>1, <1>2 DEF RefreshFeatures, RefreshSleep

LEMMA NewEpochKeeps ==
  ASSUME NEW k \in ClientRecord PROVE Keeps(k, NewEpoch(k)) /\ Fresh(NewEpoch(k), "sleep")
<1> DEFINE d == Disown(k, {"sleep", "keep"})
           n == NewEpoch(k)
<1>1. Keeps(k, d) /\ Fresh(d, "sleep") BY DisownKeeps
<1>2. n = [d EXCEPT !.disc = FALSE] BY DEF NewEpoch
<1> HIDE DEF d, n
<1>3. n \in ClientRecord /\ n.feats = d.feats /\ n.status = d.status /\ n.net = d.net
  BY <1>1, <1>2 DEF Keeps, ClientRecord
<1>4. Keeps(d, n) BY <1>3, SameKnowledgeKeeps
<1>5. Keeps(k, n) /\ Fresh(n, "sleep") BY <1>1, <1>3, <1>4, KeepsTwice DEF Fresh
<1> QED BY <1>5 DEF n

LEMMA DiscoverKeeps == ASSUME NEW k \in ClientRecord PROVE Keeps(k, Discover(k))
<1> DEFINE r == RefreshFeatures(k)
           n == [r EXCEPT !.disc = TRUE]
<1>1. Keeps(k, k) BY DEF Keeps
<1>2. Keeps(k, r) BY RefreshKeeps
<1>3. Discover(k) = n \/ Discover(k) = k BY DEF Discover
<1> HIDE DEF r
<1>4. n \in ClientRecord /\ n.feats = r.feats /\ n.status = r.status /\ n.net = r.net
  BY <1>2 DEF Keeps, ClientRecord
<1> HIDE DEF n
<1>5. Keeps(k, n) BY <1>2, <1>4, SameKnowledgeKeeps, KeepsTwice
<1> QED BY <1>1, <1>3, <1>5

LEMMA LearntKeeps ==
  ASSUME NEW k \in ClientRecord
  PROVE  Keeps(k, Learnt(k)) /\ Learnt(k).supported = k.feats.sleep
<1> DEFINE n == Learnt(k)
<1>1. n \in ClientRecord /\ n.feats = k.feats /\ n.status = k.status /\ n.net = k.net
      /\ n.supported = k.feats.sleep
  BY DEF Learnt, ClientRecord, Features
<1> HIDE DEF n
<1>2. Keeps(k, n) BY <1>1, SameKnowledgeKeeps
<1> QED BY <1>1, <1>2 DEF n

LEMMA AuthNotifiedKeeps ==
  ASSUME NEW k \in ClientRecord PROVE Keeps(k, AuthNotified(k)) /\ Fresh(AuthNotified(k), "sleep")
<1> DEFINE e == NewEpoch(k)
           n == Discover(e)
<1>1. AuthNotified(k) = n BY DEF AuthNotified, The
<1>2. Keeps(k, e) /\ Fresh(e, "sleep") BY NewEpochKeeps
<1> HIDE DEF e
<1>3. Keeps(e, n) BY <1>2, DiscoverKeeps DEF Keeps
<1> HIDE DEF n
<1>4. Keeps(k, n) /\ Fresh(n, "sleep")
  BY <1>2, <1>3, KeepsTwice DEF Keeps, Requests
<1> QED BY <1>1, <1>4

\* A client without a status is told nothing old.
LEMMA WithoutStatus ==
  ASSUME NEW k \in ClientRecord, Fresh(k, "features"), Fresh(k, "sleep"), Informed(k)
  PROVE  Sound([k EXCEPT !.status = Nothing])
<1> DEFINE n == [k EXCEPT !.status = Nothing]
<1>1. n \in ClientRecord /\ n.feats = k.feats /\ n.net = k.net /\ ~n.status.has
  BY DEF ClientRecord, Nothing, Status
<1> HIDE DEF n
<1>2. Sound(n) BY <1>1 DEF Sound, Fresh, Informed, Told
<1> QED BY <1>2 DEF n

-----------------------------------------------------------------------------
LEMMA DiscoveredIsSound == ASSUME NEW k, Sound(k) PROVE Sound(Discovered(k))
<1> DEFINE l == Learnt(k)
           d == [l EXCEPT !.disc = FALSE]
           n == [d EXCEPT !.status = Nothing]
           r == RefreshSleep(n)
<1>1. CASE ~k.disc BY <1>1 DEF Discovered
<1>2. CASE k.disc
  <2>1. n = [l EXCEPT !.disc = FALSE, !.status = Nothing] OBVIOUS
  <2>2. Discovered(k) = r BY <1>2, <2>1 DEF Discovered, The
  <2>3. Sound(l) BY LearntKeeps, KeepsSound DEF Sound
  <2> HIDE DEF l
  <2>4. d \in ClientRecord /\ d.feats = l.feats /\ d.status = l.status /\ d.net = l.net
    BY <2>3 DEF Sound, ClientRecord
  <2>5. Sound(d) BY <2>3, <2>4, SameKnowledgeKeeps, KeepsSound
  <2> HIDE DEF d
  <2>6. Sound(n) BY <2>5, WithoutStatus DEF Sound
  <2> HIDE DEF n
  <2>7. Sound(r) BY <2>6, RefreshKeeps, KeepsSound DEF Sound
  <2> QED BY <2>2, <2>7
<1> QED BY <1>1, <1>2

\* New features are told to a service that may still hold a status from before the
\* outage, if they say that there is no sleep feature any more.
LEMMA FeaturesNotifiedIsSound ==
  ASSUME NEW k \in ClientRecord, Fresh(k, "features"), Informed(k), k.feats.sleep => Told(k)
  PROVE  Sound(FeaturesNotified(k))
<1> DEFINE a == AuthNotified(k)
           l == Learnt(a)
           d == DropUnsupported(l)
           n == RefreshSleep(d)
<1>1. FeaturesNotified(k) = n BY DEF FeaturesNotified, The
<1>2. Keeps(k, a) /\ Fresh(a, "sleep") BY AuthNotifiedKeeps
<1> HIDE DEF a
<1>3. Keeps(a, l) /\ l.supported = a.feats.sleep BY <1>2, LearntKeeps DEF Keeps
<1> HIDE DEF l
<1>4. /\ l \in ClientRecord /\ Fresh(l, "features") /\ Fresh(l, "sleep") /\ Informed(l)
      /\ l.supported => Told(l)
  BY <1>2, <1>3 DEF Keeps, Requests, Informed, Told
<1>5. Sound(d)
  <2>1. CASE l.supported BY <1>4, <2>1 DEF DropUnsupported, Sound
  <2>2. CASE ~l.supported BY <1>4, <2>2, WithoutStatus DEF DropUnsupported
  <2> QED BY <2>1, <2>2
<1> HIDE DEF d
<1>6. Sound(n) BY <1>5, RefreshKeeps, KeepsSound DEF Sound
<1> QED BY <1>1, <1>6

\* Whatever the client believed, it is sound after the outage is noticed.
LEMMA ForgetFeaturesIsSound ==
  ASSUME NEW k \in ClientRecord PROVE Sound(ForgetFeatures(k))
<1> DEFINE o == Outage(k)
           d == Disown(o, {"features"})
           g == [d EXCEPT !.feats = Unknown]
           n == FeaturesNotified(g)
<1>1. ForgetFeatures(k) = n BY DEF ForgetFeatures, The
<1>2. o \in ClientRecord
  <2> DEFINE Aging(m) == [m EXCEPT !.fresh = m.st = "sent"]
             net == {Aging(m) : m \in k.net}
  <2>1. \A m \in Msg : Aging(m) \in Msg
    <3> SUFFICES ASSUME NEW m \in Msg PROVE Aging(m) \in Msg OBVIOUS
    <3> DEFINE v == m.st = "sent"
    <3>1. v \in BOOLEAN OBVIOUS
    <3>2. Aging(m) = [m EXCEPT !.fresh = v] OBVIOUS
    <3> HIDE DEF v, Aging
    <3> QED BY <3>1, <3>2 DEF Msg
  <2> HIDE DEF Aging
  <2>2. net \in SUBSET Msg BY <2>1 DEF ClientRecord
  <2>3. o = [k EXCEPT !.feats.fresh = FALSE, !.status.fresh = FALSE, !.net = net]
    BY DEF Outage, Aging
  <2> HIDE DEF net, o
  <2> QED BY <2>2, <2>3 DEF ClientRecord, Features, Status
<1> HIDE DEF o
<1>3. d \in ClientRecord /\ Fresh(d, "features") BY <1>2, DisownKeeps DEF Keeps
<1> HIDE DEF d
<1>4. /\ g \in ClientRecord /\ g.net = d.net /\ ~g.feats.known /\ ~g.feats.sleep
  BY <1>3 DEF ClientRecord, Unknown, Features
<1> HIDE DEF g
<1>5. Sound(n) BY <1>3, <1>4, FeaturesNotifiedIsSound DEF Fresh, Informed
<1> QED BY <1>1, <1>5

-----------------------------------------------------------------------------
(* The monitor and its listeners.                                          *)

LEMMA FeaturesHearIsSound == ASSUME NEW k, Sound(k) PROVE Sound(FeaturesHear(k))
<1>1. Sound(RefreshFeatures(k)) BY RefreshKeeps, KeepsSound DEF Sound
<1>2. Sound(ForgetFeatures(k)) BY ForgetFeaturesIsSound DEF Sound
<1>3. \/ FeaturesHear(k) = RefreshFeatures(k) \/ FeaturesHear(k) = ForgetFeatures(k)
      \/ FeaturesHear(k) = k
  BY DEF FeaturesHear
<1> QED BY <1>1, <1>2, <1>3

LEMMA SleepHearsIsSound == ASSUME NEW k, Sound(k) PROVE Sound(SleepHears(k))
<1>1. CASE Online(k)
  <2> DEFINE t == [k EXCEPT !.ticking = TRUE]
  <2>1. SleepHears(k) = Discover(t) BY <1>1 DEF SleepHears
  <2>2. t \in ClientRecord /\ t.feats = k.feats /\ t.status = k.status /\ t.net = k.net
    BY DEF Sound, ClientRecord
  <2> HIDE DEF t
  <2>3. Sound(t) BY <2>2, SameKnowledgeKeeps, KeepsSound
  <2> QED BY <2>1, <2>3, DiscoverKeeps, KeepsSound DEF Sound
<1>2. CASE ~Online(k)
  <2> DEFINE t == [k EXCEPT !.ticking = FALSE]
             n == [t EXCEPT !.status = Nothing]
  <2>1. SleepHears(k) = n BY <1>2 DEF SleepHears
  <2>2. t \in ClientRecord /\ t.feats = k.feats /\ t.status = k.status /\ t.net = k.net
    BY DEF Sound, ClientRecord
  <2> HIDE DEF t
  <2>3. Sound(t) BY <2>2, SameKnowledgeKeeps, KeepsSound
  <2> QED BY <2>1, <2>3, WithoutStatus DEF Sound
<1> QED BY <1>1, <1>2

LEMMA JudgedIsSound == ASSUME NEW k, NEW was, Sound(k) PROVE Sound(Judged(was, k))
<1> DEFINE f == FeaturesHear(k)
           e == NewEpoch(f)
           n == SleepHears(e)
<1>1. Judged(was, k) = n \/ Judged(was, k) = k BY DEF Judged, LiveChanged, The
<1>2. Sound(f) BY FeaturesHearIsSound
<1> HIDE DEF f
<1>3. Sound(e) BY <1>2, NewEpochKeeps, KeepsSound DEF Sound
<1> HIDE DEF e
<1>4. Sound(n) BY <1>3, SleepHearsIsSound
<1> QED BY <1>1, <1>4

LEMMA SucceededIsSound == ASSUME NEW k, Sound(k) PROVE Sound(Succeeded(k))
<1> DEFINE n == NoteSuccess(k)
<1>1. n \in ClientRecord /\ n.feats = k.feats /\ n.status = k.status /\ n.net = k.net
  <2>1. 0 \in 0..OFFLINE_AFTER_FAILURES /\ "online" \in LiveStates
    BY DEF OFFLINE_AFTER_FAILURES, LiveStates
  <2>2. k \in ClientRecord BY DEF Sound
  <2> QED BY <2>1, <2>2 DEF ClientRecord, NoteSuccess
<1>2. Succeeded(k) = Judged(k.state, n) BY DEF Succeeded
<1> HIDE DEF n
<1>3. Sound(n) BY <1>1, SameKnowledgeKeeps, KeepsSound
<1> QED BY <1>2, <1>3, JudgedIsSound

LEMMA CheckKeeps ==
  ASSUME NEW k \in ClientRecord
  PROVE  /\ Check(k) \in ClientRecord /\ Keeps(k, Check(k))
         /\ Keeps(k, NoteRequestFailure(k))
<1> DEFINE n == Check(k)
<1>1. n \in ClientRecord /\ n.feats = k.feats /\ n.status = k.status /\ n.net = k.net
  BY DEF ClientRecord, Check
<1> HIDE DEF n
<1>2. Keeps(k, n) BY <1>1, SameKnowledgeKeeps
<1>3. Keeps(k, k) BY DEF Keeps
<1> QED BY <1>1, <1>2, <1>3 DEF n, NoteRequestFailure

LEMMA NoteCheckFailureIsSound ==
  ASSUME NEW k, Sound(k) PROVE Sound(NoteCheckFailure(k))
<1> DEFINE v == IF k.fails < OFFLINE_AFTER_FAILURES THEN k.fails + 1 ELSE k.fails
           f == [k EXCEPT !.fails = v]
           s == IF k.hushed THEN f.state ELSE Judgement(f)
           n == [f EXCEPT !.state = s]
<1>1. NoteCheckFailure(k) = n
  <2>1. f.hushed = k.hushed BY DEF Sound, ClientRecord
  <2> QED BY DEF NoteCheckFailure
<1>2. v \in 0..OFFLINE_AFTER_FAILURES BY DEF Sound, ClientRecord, OFFLINE_AFTER_FAILURES
<1> HIDE DEF v
<1>3. f \in ClientRecord /\ f.feats = k.feats /\ f.status = k.status /\ f.net = k.net
  BY <1>2 DEF Sound, ClientRecord
<1> HIDE DEF f
<1>4. s \in LiveStates BY <1>3 DEF ClientRecord, Judgement, LiveStates
<1> HIDE DEF s
<1>5. n \in ClientRecord /\ n.feats = k.feats /\ n.status = k.status /\ n.net = k.net
  BY <1>3, <1>4 DEF ClientRecord
<1> HIDE DEF n
<1>6. Sound(n) BY <1>5, SameKnowledgeKeeps, KeepsSound
<1> QED BY <1>1, <1>6

-----------------------------------------------------------------------------
(* Answers and failures.                                                    *)

\* A status is believed that is of the current epoch, or the user's own save.
LEMMA AcceptIsSound ==
  ASSUME NEW k, Sound(k), NEW m \in Msg, NEW saved \in BOOLEAN, saved \/ m.fresh
  PROVE  Sound(Accept(k, m, saved))
<1> DEFINE next == [has |-> TRUE, fresh |-> m.fresh, saved |-> saved]
           s == [k EXCEPT !.status = next]
           a == Ask(s, "time")
           n == [a EXCEPT !.clockDue = FALSE]
<1>1. Accept(k, m, saved) = n \/ Accept(k, m, saved) = s BY DEF Accept, MaybeSyncClock
<1>2. next \in Status /\ (~next.saved => next.fresh) BY DEF Msg, Status
<1> HIDE DEF next
<1>3. s \in ClientRecord /\ s.feats = k.feats /\ s.net = k.net /\ s.status = next
  BY <1>2 DEF Sound, ClientRecord
<1> HIDE DEF s
<1>4. Sound(s) BY <1>2, <1>3 DEF Sound, Fresh, Informed, Told
<1>5. Keeps(s, a) BY <1>3, AskKeeps DEF Requests
<1> HIDE DEF a
<1>6. n \in ClientRecord /\ n.feats = a.feats /\ n.status = a.status /\ n.net = a.net
  BY <1>5 DEF Keeps, ClientRecord
<1> HIDE DEF n
<1>7. Sound(n) BY <1>4, <1>5, <1>6, SameKnowledgeKeeps, KeepsSound
<1> QED BY <1>1, <1>4, <1>7

LEMMA DoneIsSound == ASSUME NEW k, NEW m, Sound(k) PROVE Sound(Done(k, m))
BY DoneKeeps, KeepsSound DEF Sound

LEMMA FeaturesAnswerIsSound ==
  ASSUME NEW k, Sound(k), NEW m \in Msg, m.own => m.fresh
  PROVE  Sound(FeaturesAnswer(k, m))
<1>1. CASE ~m.own BY <1>1, DoneIsSound DEF FeaturesAnswer
<1>2. CASE m.own
  <2> DEFINE next == [known |-> TRUE, sleep |-> m.val, fresh |-> m.fresh]
             set  == [k EXCEPT !.feats = next]
             told == IF k.feats.known /\ k.feats.sleep = m.val THEN set ELSE FeaturesNotified(set)
             d == Done(told, m)
             n == Discovered(d)
  <2>1. FeaturesAnswer(k, m) = n
    BY <1>2 DEF FeaturesAnswer, FeaturesAnswerAnyEpoch, The
  <2>2. next \in Features /\ next.fresh BY <1>2 DEF Msg, Features
  <2> HIDE DEF next
  <2>3. set \in ClientRecord /\ set.feats = next /\ set.net = k.net /\ set.status = k.status
    BY <2>2 DEF Sound, ClientRecord
  <2> HIDE DEF set
  <2>4. Sound(set) BY <2>2, <2>3 DEF Sound, Fresh, Informed, Told
  <2>5. Sound(told) BY <2>4, FeaturesNotifiedIsSound DEF Sound
  <2> HIDE DEF told
  <2>6. Sound(d) BY <2>5, DoneIsSound
  <2> HIDE DEF d
  <2>7. Sound(n) BY <2>6, DiscoveredIsSound
  <2> QED BY <2>1, <2>7
<1> QED BY <1>1, <1>2 DEF Msg

LEMMA KeepEndsSound ==
  ASSUME NEW k, Sound(k) PROVE Sound([k EXCEPT !.keepBusy = FALSE])
<1> DEFINE n == [k EXCEPT !.keepBusy = FALSE]
<1>1. n \in ClientRecord /\ n.feats = k.feats /\ n.status = k.status /\ n.net = k.net
  BY DEF Sound, ClientRecord
<1> HIDE DEF n
<1>2. Sound(n) BY <1>1, SameKnowledgeKeeps, KeepsSound
<1> QED BY <1>2 DEF n

LEMMA AnsweredIsSound ==
  ASSUME NEW k, Sound(k), NEW m \in Msg,
         m.own /\ m.kind \in {"features", "sleep"} => m.fresh
  PROVE  Sound(Answered(k, m))
<1> DEFINE d == Done(k, m)
<1>1. Sound(d) BY DoneIsSound
<1>2. CASE m.kind = "features"
  BY <1>2, FeaturesAnswerIsSound DEF Answered
<1>3. CASE m.kind = "sleep"
  <2>1. Answered(k, m) = IF m.own THEN Accept(d, m, FALSE) ELSE d
    BY <1>3 DEF Answered, SleepAnswer
  <2> HIDE DEF d
  <2> QED BY <1>1, <1>3, <2>1, AcceptIsSound
<1>4. CASE m.kind = "keep"
  BY <1>1, <1>4, KeepEndsSound DEF Answered, KeepAnswer
<1>5. CASE m.kind = "put"
  <2> DEFINE p == [d EXCEPT !.clockDue = FALSE]
  <2>1. Answered(k, m) = Accept(p, m, TRUE) BY <1>5 DEF Answered, PutAnswer
  <2> HIDE DEF d
  <2>2. p \in ClientRecord /\ p.feats = d.feats /\ p.status = d.status /\ p.net = d.net
    BY <1>1 DEF Sound, ClientRecord
  <2> HIDE DEF p
  <2>3. Sound(p) BY <1>1, <2>2, SameKnowledgeKeeps, KeepsSound
  <2> QED BY <2>1, <2>3, AcceptIsSound
<1>6. CASE m.kind = "time"
  <2>1. Answered(k, m) = IF m.own THEN RefreshSleep(d) ELSE d
    BY <1>6 DEF Answered, TimeAnswer
  <2> HIDE DEF d
  <2> QED BY <1>1, <2>1, RefreshKeeps, KeepsSound DEF Sound
<1> QED BY <1>2, <1>3, <1>4, <1>5, <1>6 DEF Msg, Requests

LEMMA FailedIsSound == ASSUME NEW k, Sound(k), NEW m PROVE Sound(Failed(k, m))
<1> DEFINE d == Done(k, m)
<1>1. Sound(d) BY DoneIsSound
<1>2. \/ Failed(k, m) = d \/ Failed(k, m) = [d EXCEPT !.keepBusy = FALSE]
      \/ Failed(k, m) = Discovered(d)
  BY DEF Failed
<1> HIDE DEF d
<1> QED BY <1>1, <1>2, DiscoveredIsSound, KeepEndsSound

-----------------------------------------------------------------------------
(* Every step.                                                              *)

LEMMA DeliverStep ==
  ASSUME LinkInductive, NEW kind, NEW own, Deliver(kind, own) PROVE LinkInductive'
<1>1. PICK m \in c.net :
        /\ \/ UNCHANGED dev
           \/ kind \in AtOnce /\ dev' = [dev EXCEPT !.synced = @ \/ kind = "time"]
        /\ \E k \in {Succeeded(c)} : c' = Answered(k, Aged(m, k))
        /\ budget' = budget
  BY DEF Deliver
<1>2. m \in Msg BY DEF LinkInductive, Sound, ClientRecord
<1> DEFINE k == Succeeded(c)
           a == Aged(m, k)
<1>3. c' = Answered(k, a) BY <1>1
<1>4. Sound(k) BY SucceededIsSound DEF LinkInductive
<1> HIDE DEF k
<1>5. a \in Msg /\ (a.own /\ a.kind \in {"features", "sleep"} => a.fresh)
  <2>1. CASE m \in k.net BY <1>2, <1>4, <2>1 DEF Aged, Sound, Fresh
  <2>2. CASE m \notin k.net BY <1>2, <2>2 DEF Aged, Msg
  <2> QED BY <2>1, <2>2
<1> HIDE DEF a
<1>6. Sound(c') BY <1>3, <1>4, <1>5, AnsweredIsSound
<1>7. dev' \in Dev
  <2>1. CASE dev' = dev BY <2>1 DEF LinkInductive
  <2>2. CASE dev' = [dev EXCEPT !.synced = @ \/ kind = "time"]
    <3> DEFINE v == dev.synced \/ kind = "time"
    <3>1. v \in BOOLEAN /\ dev' = [dev EXCEPT !.synced = v] BY <2>2
    <3> HIDE DEF v
    <3> QED BY <3>1 DEF LinkInductive, Dev
  <2> QED BY <1>1, <2>1, <2>2
<1> QED BY <1>1, <1>6, <1>7 DEF LinkInductive, Sound, Fresh, Informed, Told

LEMMA EventTyped ==
  ASSUME LinkInductive, Event \/ UNCHANGED budget PROVE budget' \in 0..MaxEvents
BY LinkBounds DEF LinkInductive, Event

LEMMA FailStep ==
  ASSUME LinkInductive, NEW kind, NEW own, Fail(kind, own) PROVE LinkInductive'
<1> DEFINE k == NoteRequestFailure(c)
<1>1. PICK m \in c.net : c' = Failed(k, m) BY DEF Fail
<1>2. dev' = dev /\ (Event \/ UNCHANGED budget) BY DEF Fail
<1>3. Sound(k) BY CheckKeeps, KeepsSound DEF LinkInductive, Sound
<1> HIDE DEF k
<1>4. Sound(c') BY <1>1, <1>3, FailedIsSound
<1> QED BY <1>2, <1>4, EventTyped DEF LinkInductive, Sound, Fresh, Informed, Told
LEMMA AliveStep ==
  ASSUME LinkInductive, DeliverAlive \/ FailAlive PROVE LinkInductive'
<1> DEFINE k == [c EXCEPT !.asking = FALSE]
<1>1. k \in ClientRecord /\ k.feats = c.feats /\ k.status = c.status /\ k.net = c.net
  BY DEF LinkInductive, Sound, ClientRecord
<1>2. dev' = dev /\ (Event \/ UNCHANGED budget) BY DEF DeliverAlive, FailAlive
<1>3. c' = Succeeded(k) \/ c' = Judged(c.state, NoteCheckFailure(k))
  BY DEF DeliverAlive, FailAlive
<1> HIDE DEF k
<1>4. Sound(k) BY <1>1, SameKnowledgeKeeps, KeepsSound DEF LinkInductive
<1>5. Sound(c')
  BY <1>3, <1>4, SucceededIsSound, NoteCheckFailureIsSound, JudgedIsSound
<1> QED BY <1>2, <1>5, EventTyped DEF LinkInductive, Sound, Fresh, Informed, Told

LEMMA PollStep ==
  ASSUME LinkInductive, LivePoll \/ FeaturesPoll \/ SleepPoll \/ ClockDue
  PROVE  LinkInductive'
<1>1. c \in ClientRecord /\ Sound(c) BY DEF LinkInductive, Sound
<1>2. dev' = dev /\ budget' = budget BY DEF LivePoll, FeaturesPoll, SleepPoll, ClockDue
<1>3. Keeps(c, c')
  <2>1. CASE LivePoll BY <1>1, <2>1, CheckKeeps DEF LivePoll
  <2>2. CASE FeaturesPoll BY <1>1, <2>2, RefreshKeeps DEF FeaturesPoll
  <2>3. CASE SleepPoll BY <1>1, <2>3, RefreshKeeps DEF SleepPoll
  <2>4. CASE ClockDue
    <3> DEFINE n == [c EXCEPT !.clockDue = TRUE]
    <3>1. n \in ClientRecord /\ n.feats = c.feats /\ n.status = c.status /\ n.net = c.net
      BY <1>1 DEF ClientRecord
    <3>2. c' = n BY <2>4 DEF ClockDue
    <3> HIDE DEF n
    <3> QED BY <3>1, <3>2, SameKnowledgeKeeps
  <2> QED BY <2>1, <2>2, <2>3, <2>4
<1>4. Sound(c') BY <1>1, <1>3, KeepsSound
<1> QED BY <1>2, <1>4 DEF LinkInductive, Sound, Fresh, Informed, Told

LEMMA ShownAgainIsSound == ASSUME NEW k, Sound(k) PROVE Sound(ShownAgain(k))
<1> DEFINE h == Check(k)
           e == NewEpoch(h)
           v == [e EXCEPT !.hidden = FALSE]
           t == [v EXCEPT !.ticking = TRUE]
<1>1. ShownAgain(k) = Discover(t) \/ ShownAgain(k) = v BY DEF ShownAgain
<1>2. Sound(h) BY CheckKeeps, KeepsSound DEF Sound
<1> HIDE DEF h
<1>3. Sound(e) BY <1>2, NewEpochKeeps, KeepsSound DEF Sound
<1> HIDE DEF e
<1>4. v \in ClientRecord /\ v.feats = e.feats /\ v.status = e.status /\ v.net = e.net
  BY <1>3 DEF Sound, ClientRecord
<1>5. Sound(v) BY <1>3, <1>4, SameKnowledgeKeeps, KeepsSound
<1> HIDE DEF v
<1>6. t \in ClientRecord /\ t.feats = v.feats /\ t.status = v.status /\ t.net = v.net
  BY <1>5 DEF Sound, ClientRecord
<1> HIDE DEF t
<1>7. Sound(t) BY <1>5, <1>6, SameKnowledgeKeeps, KeepsSound
<1>8. Sound(Discover(t)) BY <1>7, DiscoverKeeps, KeepsSound DEF Sound
<1> QED BY <1>1, <1>5, <1>8

LEMMA TabStep == ASSUME LinkInductive, HideTab \/ ShowTab PROVE LinkInductive'
<1>1. dev' = dev /\ (Event \/ UNCHANGED budget) BY DEF HideTab, ShowTab, Switch
<1>2. Sound(c')
  <2>1. CASE HideTab
    <3> DEFINE e == NewEpoch(c)
               n == [e EXCEPT !.hidden = TRUE, !.ticking = FALSE]
    <3>1. c' = n BY <2>1 DEF HideTab
    <3>2. Sound(e) BY NewEpochKeeps, KeepsSound DEF LinkInductive, Sound
    <3> HIDE DEF e
    <3>3. n \in ClientRecord /\ n.feats = e.feats /\ n.status = e.status /\ n.net = e.net
      BY <3>2 DEF Sound, ClientRecord
    <3> HIDE DEF n
    <3> QED BY <3>1, <3>2, <3>3, SameKnowledgeKeeps, KeepsSound
  <2>2. CASE ShowTab BY <2>2, ShownAgainIsSound DEF ShowTab, LinkInductive
  <2> QED BY <2>1, <2>2
<1> QED BY <1>1, <1>2, EventTyped DEF LinkInductive, Sound, Fresh, Informed, Told

LEMMA CommandStep ==
  ASSUME LinkInductive, ChangeSession \/ KeepAwake \/ SaveSleep PROVE LinkInductive'
<1>1. dev' = dev /\ Event BY DEF ChangeSession, KeepAwake, SaveSleep, Switch
<1>2. c \in ClientRecord /\ Sound(c) BY DEF LinkInductive, Sound
<1>3. Sound(c')
  <2>1. CASE ChangeSession
    <3> DEFINE v == ~c.authed
               s == [c EXCEPT !.authed = v]
               d == Disown(s, {"time"})
    <3>1. c' = AuthNotified(d) BY <2>1 DEF ChangeSession
    <3>2. v \in BOOLEAN OBVIOUS
    <3> HIDE DEF v
    <3>3. s \in ClientRecord /\ s.feats = c.feats /\ s.status = c.status /\ s.net = c.net
      BY <1>2, <3>2 DEF ClientRecord
    <3> HIDE DEF s
    <3>4. Sound(s) BY <1>2, <3>3, SameKnowledgeKeeps, KeepsSound
    <3>5. Sound(d) BY <3>4, DisownKeeps, KeepsSound DEF Sound
    <3> HIDE DEF d
    <3> QED BY <3>1, <3>5, AuthNotifiedKeeps, KeepsSound DEF Sound
  <2>2. CASE KeepAwake
    <3> DEFINE a == Ask(c, "keep")
               n == [a EXCEPT !.keepBusy = TRUE]
    <3>1. c' = n BY <2>2 DEF KeepAwake
    <3>2. Sound(a) BY <1>2, AskKeeps, KeepsSound DEF Requests
    <3> HIDE DEF a
    <3>3. n \in ClientRecord /\ n.feats = a.feats /\ n.status = a.status /\ n.net = a.net
      BY <3>2 DEF Sound, ClientRecord
    <3> HIDE DEF n
    <3> QED BY <3>1, <3>2, <3>3, SameKnowledgeKeeps, KeepsSound
  <2>3. CASE SaveSleep
    BY <1>2, <2>3, AskKeeps, KeepsSound DEF SaveSleep, Requests
  <2> QED BY <2>1, <2>2, <2>3
<1> QED BY <1>1, <1>3, EventTyped DEF LinkInductive, Sound, Fresh, Informed, Told

\* An answer on its way keeps the epoch and the age of its request.
LEMMA AnswerStep ==
  ASSUME LinkInductive, NEW kind, NEW own, Answer(kind, own) PROVE LinkInductive'
<1> DEFINE val == IF kind = "features" THEN dev.sleep ELSE dev.synced
<1>1. PICK m \in c.net :
        c' = [c EXCEPT !.net = (@ \ {m}) \cup {[m EXCEPT !.st = "back", !.val = val]}]
  BY DEF Answer
<1> DEFINE b == [m EXCEPT !.st = "back", !.val = val]
           net == (c.net \ {m}) \cup {b}
<1>2. c \in ClientRecord /\ m \in Msg BY DEF LinkInductive, Sound, ClientRecord
<1>3. val \in BOOLEAN BY DEF LinkInductive, Dev
<1>4. c' = [c EXCEPT !.net = net] BY <1>1
<1> HIDE DEF val
<1>5. b \in Msg /\ b.kind = m.kind /\ b.own = m.own /\ b.fresh = m.fresh
  BY <1>2, <1>3 DEF Msg
<1> HIDE DEF b
<1>6. /\ net \in SUBSET Msg
      /\ \A x \in net : \E y \in c.net : x.kind = y.kind /\ x.own = y.own /\ x.fresh = y.fresh
  BY <1>2, <1>5 DEF ClientRecord
<1> HIDE DEF net
<1>7. c' \in ClientRecord /\ c'.feats = c.feats /\ c'.status = c.status /\ c'.net = net
  BY <1>2, <1>4, <1>6 DEF ClientRecord
<1>8. Keeps(c, c') BY <1>6, <1>7 DEF Keeps, Fresh
<1>9. Sound(c') BY <1>8, KeepsSound DEF LinkInductive
<1>10. dev' = dev /\ budget' = budget BY DEF Answer
<1> QED BY <1>9, <1>10 DEF LinkInductive, Sound, Fresh, Informed, Told

LEMMA RefuseStep ==
  ASSUME LinkInductive, NEW kind, NEW own, Refuse(kind, own) PROVE LinkInductive'
<1>1. PICK m \in c.net : c' = Failed(c, m) BY DEF Refuse
<1>2. dev' = dev /\ budget' = budget BY DEF Refuse
<1>3. Sound(c') BY <1>1, FailedIsSound DEF LinkInductive
<1> QED BY <1>2, <1>3 DEF LinkInductive, Sound, Fresh, Informed, Told

LEMMA DeviceStep == ASSUME LinkInductive, GoDown \/ ComeUp PROVE LinkInductive'
<1>1. c' = c /\ (Event \/ UNCHANGED budget) BY DEF GoDown, ComeUp
<1>2. dev \in Dev BY DEF LinkInductive
<1>3. dev' \in Dev
  <2>1. CASE GoDown BY <1>2, <2>1 DEF GoDown, Dev
  <2>2. CASE ComeUp
    <3>1. PICK s \in BOOLEAN, t \in {dev.synced, FALSE} :
            dev' = [up |-> TRUE, sleep |-> s, synced |-> t]
      BY <2>2 DEF ComeUp
    <3>2. t \in BOOLEAN BY <1>2, <3>1 DEF Dev
    <3> QED BY <3>1, <3>2 DEF Dev
  <2> QED BY <2>1, <2>2
<1> QED BY <1>1, <1>3, EventTyped DEF LinkInductive, Sound, Fresh, Informed, Told

-----------------------------------------------------------------------------
LEMMA LinkStarts == Init => LinkInductive
<1> SUFFICES ASSUME Init PROVE LinkInductive OBVIOUS
<1> DEFINE r == [kind |-> "features", own |-> TRUE, st |-> "sent", val |-> FALSE, fresh |-> TRUE]
<1>1. r \in Msg /\ r.fresh BY DEF Msg, Requests
<1> HIDE DEF r
<1>2. c = [state |-> "checking", ever |-> FALSE, fails |-> 0, asking |-> TRUE,
           hushed |-> FALSE, hidden |-> FALSE, authed |-> TRUE, feats |-> Unknown,
           disc |-> FALSE, known |-> FALSE, supported |-> FALSE, status |-> Nothing,
           keepBusy |-> FALSE, ticking |-> FALSE, clockDue |-> TRUE, net |-> {r}]
  <2>1. /\ LiveStart.state = "checking" /\ ~LiveStart.ever /\ LiveStart.fails = 0
        /\ LiveStart.asking /\ ~LiveStart.hushed
    BY DEF LiveStart
  <2> QED BY <2>1 DEF Init, LiveStart, r
<1>3. Unknown \in Features /\ ~Unknown.known /\ Nothing \in Status /\ ~Nothing.has
  BY DEF Unknown, Features, Nothing, Status
<1>4. 0 \in 0..OFFLINE_AFTER_FAILURES /\ "checking" \in LiveStates
  BY DEF OFFLINE_AFTER_FAILURES, LiveStates
<1>5. c \in ClientRecord /\ c.feats = Unknown /\ c.status = Nothing /\ c.net = {r}
  BY <1>1, <1>2, <1>3, <1>4 DEF ClientRecord
<1>6. Sound(c) BY <1>1, <1>3, <1>5 DEF Sound, Fresh, Informed, Told
<1>7. dev \in Dev /\ budget \in 0..MaxEvents BY LinkBounds DEF Init, Dev
<1> QED BY <1>6, <1>7 DEF LinkInductive

LEMMA LinkStep == LinkInductive /\ [Next]_vars => LinkInductive'
<1> SUFFICES ASSUME LinkInductive, [Next]_vars PROVE LinkInductive' OBVIOUS
<1>1. CASE Client
  BY <1>1, AliveStep, PollStep, DeliverStep, FailStep DEF Client
<1>2. CASE User BY <1>2, TabStep, CommandStep DEF User
<1>3. CASE Device BY <1>3, DeviceStep, AnswerStep, RefuseStep DEF Device
<1>4. CASE UNCHANGED vars
  BY <1>4 DEF vars, LinkInductive, Sound, Fresh, Informed, Told
<1> QED BY <1>1, <1>2, <1>3, <1>4 DEF Next

LEMMA LinkInductiveSuffices == LinkInductive => LinkInv
<1> SUFFICES ASSUME LinkInductive PROVE LinkInv OBVIOUS
<1>1. c \in ClientRecord /\ Informed(c) /\ Told(c) BY DEF LinkInductive, Sound
<1>2. LiveTyped(c) /\ c.net \subseteq Msg /\ c.feats \in Features /\ c.status \in Status
  BY <1>1 DEF ClientRecord, LiveTyped
<1>3. {c.hidden, c.authed, c.disc, c.known, c.supported, c.keepBusy, c.ticking, c.clockDue}
         \subseteq BOOLEAN
  BY <1>1 DEF ClientRecord
<1> QED
  BY <1>1, <1>2, <1>3
  DEF LinkInv, TypeOK, KnowledgeIsFresh, LinkInductive, Dev, Features, Status, Informed, Told

\* The link's state is well formed, and no page is shown a feature list or a sleep status
\* from before an outage the browser has noticed: however the answers, failures, logins
\* and tab changes of device-live.js, device-features.js and device-sleep.js fall.
THEOREM LinkSafe == Spec => []LinkInv
<1>1. LinkInductive => LinkInv BY LinkInductiveSuffices
<1>2. Spec => []LinkInductive BY LinkStarts, LinkStep, PTL DEF Spec
<1> QED BY <1>1, <1>2, PTL
==============================================================================
