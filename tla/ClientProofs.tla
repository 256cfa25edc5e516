---------------------------- MODULE ClientProofs ----------------------------
(***************************************************************************)
(* The safety properties of the browser's two users of the panel: its       *)
(* owner PanelClient, for every number of runs, events and hold timers, and *)
(* after it the image editor DitherEditor, for every number of loads,       *)
(* changes and calibrations; and what the editor's crop and resize tools    *)
(* make of any picture, CropTool.                                           *)
(***************************************************************************)
EXTENDS PanelClient, DitherEditor, WellFoundedInduction, TLAPS

-----------------------------------------------------------------------------
(* The panel client.                                                        *)

Stages == {"preflight", "uploading", "queued", "drawing", "success"}

\* A client record, before the guards that bound its counters.
ClientRecord ==
    [active : BOOLEAN, accepted : BOOLEAN, kind : Kinds \cup {"none", "observed"},
     stage : Stages \cup {"idle"}, pct : 0..100, run : Nat, cur : Nat, poll : BOOLEAN,
     blocking : BOOLEAN, holds : Nat, waiters : SUBSET Runs,
     mode : {"standalone", "epaper"}, can : BOOLEAN, cooling : BOOLEAN]

\* What holds of a client record between any two functions that make one of another.
Sound(k) ==
    /\ k \in ClientRecord
    /\ k.run <= k.cur /\ (k.active => k.run # 0)
    /\ k.active /\ k.accepted => k.poll
    /\ k.active /\ k.accepted /\ k.kind # "observed" => k.run \in Runs /\ served[k.run] # "none"
    /\ \A r \in k.waiters : served[r] # "none"

\* An active operation is the one that was active, further on, or a new run.
Advances(k, n) ==
    /\ n.cur >= k.cur
    /\ n.active => \/ k.active /\ n.run = k.run /\ n.pct >= k.pct
                   \/ n.run > k.cur

\* n can follow k.
Follows(k, n) == Sound(n) /\ Advances(k, n)

\* An answer that says a draw was accepted is of a run the device serves.
AnswersTrue == \A r \in Runs : reqs[r] = "accepted" => served[r] # "none"

PanelInductive == TypeOK /\ Sound(c) /\ AnswersTrue

-----------------------------------------------------------------------------
LEMMA PhaseStarts ==
    /\ DOMAIN PhaseStart = Stages
    /\ \A s \in Stages : PhaseStart[s] \in 0..100
BY DEF PhaseStart, Stages

LEMMA BiggerBounds ==
    \A a, b \in 0..100 : Bigger(a, b) \in 0..100 /\ Bigger(a, b) >= a /\ Bigger(a, b) >= b
BY DEF Bigger

(* Updates of one field; a function of the client composes them.             *)
LEMMA Updates ==
    ASSUME NEW k \in ClientRecord
    PROVE  /\ \A v \in BOOLEAN : [k EXCEPT !.active = v] \in ClientRecord
           /\ \A v \in BOOLEAN : [k EXCEPT !.accepted = v] \in ClientRecord
           /\ \A v \in BOOLEAN : [k EXCEPT !.poll = v] \in ClientRecord
           /\ \A v \in BOOLEAN : [k EXCEPT !.blocking = v] \in ClientRecord
           /\ \A v \in BOOLEAN : [k EXCEPT !.cooling = v] \in ClientRecord
           /\ \A v \in Kinds \cup {"none", "observed"} : [k EXCEPT !.kind = v] \in ClientRecord
           /\ \A v \in Stages \cup {"idle"} : [k EXCEPT !.stage = v] \in ClientRecord
           /\ \A v \in BOOLEAN : [k EXCEPT !.can = v] \in ClientRecord
           /\ \A v \in {"standalone", "epaper"} : [k EXCEPT !.mode = v] \in ClientRecord
           /\ \A v \in 0..100 : [k EXCEPT !.pct = v] \in ClientRecord
           /\ \A v \in Nat : [k EXCEPT !.run = v] \in ClientRecord
           /\ \A v \in Nat : [k EXCEPT !.cur = v] \in ClientRecord
           /\ \A v \in Nat : [k EXCEPT !.holds = v] \in ClientRecord
           /\ \A v \in SUBSET Runs : [k EXCEPT !.waiters = v] \in ClientRecord
<1>1. \A v \in BOOLEAN : [k EXCEPT !.active = v] \in ClientRecord
    BY DEF ClientRecord
<1>2. \A v \in BOOLEAN : [k EXCEPT !.accepted = v] \in ClientRecord
    BY DEF ClientRecord
<1>3. \A v \in BOOLEAN : [k EXCEPT !.poll = v] \in ClientRecord
    BY DEF ClientRecord
<1>4. \A v \in BOOLEAN : [k EXCEPT !.blocking = v] \in ClientRecord
    BY DEF ClientRecord
<1>5. \A v \in BOOLEAN : [k EXCEPT !.cooling = v] \in ClientRecord
    BY DEF ClientRecord
<1>6. \A v \in Kinds \cup {"none", "observed"} : [k EXCEPT !.kind = v] \in ClientRecord
    BY DEF ClientRecord
<1>7. \A v \in Stages \cup {"idle"} : [k EXCEPT !.stage = v] \in ClientRecord
    BY DEF ClientRecord
<1>8. \A v \in BOOLEAN : [k EXCEPT !.can = v] \in ClientRecord
    BY DEF ClientRecord
<1>9. \A v \in {"standalone", "epaper"} : [k EXCEPT !.mode = v] \in ClientRecord
    BY DEF ClientRecord
<1>10. \A v \in 0..100 : [k EXCEPT !.pct = v] \in ClientRecord
    BY DEF ClientRecord
<1>11. \A v \in Nat : [k EXCEPT !.run = v] \in ClientRecord
    BY DEF ClientRecord
<1>12. \A v \in Nat : [k EXCEPT !.cur = v] \in ClientRecord
    BY DEF ClientRecord
<1>13. \A v \in Nat : [k EXCEPT !.holds = v] \in ClientRecord
    BY DEF ClientRecord
<1>14. \A v \in SUBSET Runs : [k EXCEPT !.waiters = v] \in ClientRecord
    BY DEF ClientRecord
<1> QED BY <1>1, <1>2, <1>3, <1>4, <1>5, <1>6, <1>7, <1>8,
           <1>9, <1>10, <1>11, <1>12, <1>13, <1>14

LEMMA SoundNumbers ==
    ASSUME NEW k, Sound(k)
    PROVE  k.run \in Nat /\ k.cur \in Nat /\ k.pct \in 0..100
BY DEF Sound, ClientRecord

LEMMA FollowsTransitive ==
    ASSUME NEW k, NEW m, NEW n, Sound(k), Follows(k, m), Follows(m, n)
    PROVE  Follows(k, n)
<1>1. Sound(m) /\ Sound(n) /\ Advances(k, m) /\ Advances(m, n) BY DEF Follows
<1>2. /\ k.cur \in Nat /\ k.pct \in Nat
      /\ m.run \in Nat /\ m.cur \in Nat /\ m.pct \in Nat
      /\ n.run \in Nat /\ n.cur \in Nat /\ n.pct \in Nat
    <2>1. \A v \in 0..100 : v \in Nat BY SMT
    <2> QED BY <1>1, <2>1, SoundNumbers
<1>3. n.cur >= k.cur BY <1>1, <1>2, SMT DEF Advances
<1>4. ASSUME n.active, m.active, n.run = m.run, n.pct >= m.pct
      PROVE  \/ k.active /\ n.run = k.run /\ n.pct >= k.pct
             \/ n.run > k.cur
    <2>1. CASE m.run > k.cur BY <1>2, <1>4, <2>1, SMT
    <2>2. CASE k.active /\ m.run = k.run /\ m.pct >= k.pct
        <3>1. n.pct >= k.pct BY <1>2, <1>4, <2>2, SMT
        <3> QED BY <1>4, <2>2, <3>1
    <2> QED BY <1>1, <1>4, <2>1, <2>2 DEF Advances
<1>5. ASSUME n.run > m.cur PROVE n.run > k.cur BY <1>1, <1>2, <1>5, SMT DEF Advances
<1>6. Advances(k, n) BY <1>1, <1>3, <1>4, <1>5 DEF Advances
<1> QED BY <1>1, <1>6 DEF Follows

LEMMA FollowsItself == ASSUME NEW k, Sound(k) PROVE Follows(k, k)
BY DEF Sound, Follows, Advances, ClientRecord

-----------------------------------------------------------------------------
(* The operation state machine.                                              *)

LEMMA SetStageFollows ==
    ASSUME NEW k, Sound(k), NEW stage \in Stages
    PROVE  Follows(k, SetStage(k, stage))
<1>1. Bigger(k.pct, PhaseStart[stage]) \in 0..100 /\ Bigger(k.pct, PhaseStart[stage]) >= k.pct
    BY PhaseStarts, BiggerBounds DEF Sound, ClientRecord
<1> DEFINE n == SetStage(k, stage)
<1>2. /\ n \in ClientRecord /\ n.active = k.active /\ n.accepted = k.accepted
      /\ n.kind = k.kind /\ n.poll = k.poll /\ n.waiters = k.waiters
      /\ n.run = k.run /\ n.cur = k.cur /\ n.pct = Bigger(k.pct, PhaseStart[stage])
    BY <1>1 DEF SetStage, Sound, ClientRecord
<1> HIDE DEF n
<1>3. Follows(k, n) BY <1>1, <1>2, SoundNumbers DEF Follows, Advances, Sound
<1> QED BY <1>3 DEF n

LEMMA SettleFollows == ASSUME NEW k, Sound(k) PROVE Follows(k, Settle(k))
BY DEF Settle, Follows, Advances, Sound, ClientRecord

LEMMA ResetFollows ==
    ASSUME NEW k, Sound(k)
    PROVE  Follows(k, ResetOperation(k)) /\ ~ResetOperation(k).active
<1> DEFINE n == ResetOperation(k)
<1>3. k.cur \in Nat /\ 0 \in 0..100 /\ k \in ClientRecord BY DEF Sound, ClientRecord
<1>0. n \in ClientRecord BY <1>3, Updates, Zenon DEF ResetOperation
<1>1. /\ ~n.active /\ n.waiters = k.waiters
      /\ n.run = k.cur /\ n.cur = k.cur
    BY DEF ResetOperation, Sound, ClientRecord
<1> HIDE DEF n
<1>2. Follows(k, n) BY <1>0, <1>1, SoundNumbers DEF Follows, Advances, Sound
<1> QED BY <1>1, <1>2 DEF n

LEMMA CompleteFollows == ASSUME NEW k, Sound(k) PROVE Follows(k, CompleteOperation(k))
<1>1. CASE k.active
    <2> DEFINE s == SetStage(k, "success")
               h == [s EXCEPT !.holds = @ + 1]
    <2>1. Follows(k, s) BY SetStageFollows DEF Stages
    <2>2. Follows(s, h)
        <3> HIDE DEF s
        <3> QED BY <2>1 DEF Follows, Advances, Sound, ClientRecord
    <2>3. Follows(h, Settle(h)) BY <2>2, SettleFollows DEF Follows
    <2>4. CompleteOperation(k) = Settle(h) BY <1>1 DEF CompleteOperation
    <2> HIDE DEF h, s
    <2>5. Follows(k, h) BY <2>1, <2>2, FollowsTransitive DEF Follows
    <2> QED BY <2>3, <2>4, <2>5, FollowsTransitive DEF Follows
<1>2. CASE ~k.active BY <1>2, FollowsItself DEF CompleteOperation
<1> QED BY <1>1, <1>2

LEMMA FailFollows ==
    ASSUME NEW k, Sound(k), NEW r
    PROVE  Follows(k, FailOperation(k, r)) /\ (r = k.run => ~FailOperation(k, r).active)
<1>1. CASE r = k.run
    <2>1. Follows(k, Settle(k)) BY SettleFollows
    <2>2. Follows(Settle(k), ResetOperation(Settle(k))) /\ ~ResetOperation(Settle(k)).active
        BY <2>1, ResetFollows DEF Follows
    <2> QED BY <1>1, <2>1, <2>2, FollowsTransitive DEF FailOperation
<1>2. CASE r # k.run BY <1>2, FollowsItself DEF FailOperation
<1> QED BY <1>1, <1>2

LEMMA StartFollows ==
    ASSUME NEW k, Sound(k), NEW kind \in Kinds \cup {"observed"}, NEW stage \in Stages
    PROVE  LET n == StartOperation(k, kind, stage)
           IN  /\ Follows(k, n) /\ n.active /\ ~n.accepted /\ n.kind = kind
               /\ n.run = k.cur + 1 /\ n.cur = k.cur + 1
<1> DEFINE b == [k EXCEPT !.cur = @ + 1, !.run = k.cur + 1, !.active = TRUE, !.accepted = FALSE,
                          !.kind = kind, !.pct = 0, !.blocking = TRUE]
<1>8. k.cur + 1 \in Nat /\ 0 \in 0..100 /\ k \in ClientRecord BY DEF Sound, ClientRecord
<1>9. kind \in Kinds \cup {"none", "observed"} OBVIOUS
<1>7. b \in ClientRecord BY <1>8, <1>9, Updates, Zenon
<1>0. /\ b \in ClientRecord /\ b.active /\ ~b.accepted /\ b.kind = kind
      /\ b.run = k.cur + 1 /\ b.cur = k.cur + 1 /\ b.waiters = k.waiters
    BY <1>7 DEF Sound, ClientRecord
<1>1. Follows(k, b)
    <2> HIDE DEF b
    <2> QED BY <1>0, SoundNumbers DEF Follows, Advances, Sound
<1>2. StartOperation(k, kind, stage) = SetStage(b, stage) BY DEF StartOperation
<1> HIDE DEF b
<1>3. b \in ClientRecord BY <1>0
<1>4. Follows(b, SetStage(b, stage)) BY <1>1, SetStageFollows DEF Follows
<1>5. /\ SetStage(b, stage).active = b.active /\ SetStage(b, stage).accepted = b.accepted
      /\ SetStage(b, stage).kind = b.kind
      /\ SetStage(b, stage).run = b.run /\ SetStage(b, stage).cur = b.cur
    BY <1>3 DEF SetStage, ClientRecord
<1>6. Follows(k, SetStage(b, stage)) BY <1>1, <1>4, FollowsTransitive
<1> QED BY <1>0, <1>2, <1>5, <1>6

LEMMA ObservedFollows ==
    ASSUME NEW k, Sound(k), NEW stage \in Stages
    PROVE  Follows(k, StartObserved(k, stage))
<1>1. CASE k.active BY <1>1, FollowsItself DEF StartObserved
<1>2. CASE ~k.active
    <2> DEFINE s == StartOperation(k, "observed", stage)
               p == Bigger(PhaseStart["queued"], PhaseStart[stage])
    <2>1. /\ Follows(k, s) /\ s.active /\ s.kind = "observed" /\ s.run = k.cur + 1
          /\ s.cur = k.cur + 1
        BY StartFollows
    <2>2. StartObserved(k, stage) = [s EXCEPT !.accepted = TRUE, !.pct = p, !.poll = TRUE]
        BY <1>2 DEF StartObserved
    <2>3. p \in 0..100 BY PhaseStarts, BiggerBounds DEF Stages
    <2> HIDE DEF s, p
    <2> DEFINE n == [s EXCEPT !.accepted = TRUE, !.pct = p, !.poll = TRUE]
    <2>7. s \in ClientRecord BY <2>1 DEF Follows, Sound
    <2>8. n \in ClientRecord BY <2>3, <2>7 DEF ClientRecord
    <2>4. /\ n \in ClientRecord /\ n.kind = "observed" /\ n.poll /\ n.waiters = s.waiters
          /\ n.run = s.run /\ n.cur = s.cur
        BY <2>1, <2>7, <2>8 DEF ClientRecord
    <2> HIDE DEF n
    <2>5. Follows(k, n) BY <2>1, <2>4, SoundNumbers DEF Follows, Advances, Sound
    <2> QED BY <2>2, <2>5 DEF n
<1> QED BY <1>1, <1>2

-----------------------------------------------------------------------------
(* What a status does.                                                       *)

\* Only the fields that nothing here is about differ.
Same(k, n) ==
    /\ n.active = k.active /\ n.accepted = k.accepted /\ n.kind = k.kind /\ n.pct = k.pct
    /\ n.run = k.run /\ n.cur = k.cur /\ n.waiters = k.waiters

LEMMA SameFollows ==
    ASSUME NEW k, Sound(k), NEW n \in ClientRecord, Same(k, n), k.poll => n.poll
    PROVE  Follows(k, n)
BY SoundNumbers DEF Same, Follows, Advances, Sound

LEMMA CoolingFollows ==
    ASSUME NEW k, Sound(k), NEW v \in BOOLEAN
    PROVE  Follows(k, [k EXCEPT !.cooling = v])
<1> DEFINE n == [k EXCEPT !.cooling = v]
<1>1. n \in ClientRecord /\ Same(k, n) /\ n.poll = k.poll BY DEF Sound, ClientRecord, Same
<1> HIDE DEF n
<1>2. Follows(k, n) BY <1>1, SameFollows
<1> QED BY <1>2 DEF n

LEMMA PollFollows == ASSUME NEW k, Sound(k) PROVE Follows(k, [k EXCEPT !.poll = TRUE])
<1> DEFINE n == [k EXCEPT !.poll = TRUE]
<1>1. n \in ClientRecord /\ Same(k, n) /\ n.poll BY DEF Sound, ClientRecord, Same
<1> HIDE DEF n
<1>2. Follows(k, n) BY <1>1, SameFollows
<1> QED BY <1>2 DEF n

LEMMA SeenFollows ==
    ASSUME NEW k, Sound(k), NEW v \in BOOLEAN
    PROVE  Follows(k, [k EXCEPT !.can = v])
<1> DEFINE n == [k EXCEPT !.can = v]
<1>1. n \in ClientRecord /\ Same(k, n) /\ n.poll = k.poll BY DEF Sound, ClientRecord, Same
<1> HIDE DEF n
<1>2. Follows(k, n) BY <1>1, SameFollows
<1> QED BY <1>2 DEF n

LEMMA ApplyCooldownFollows ==
    ASSUME NEW k, Sound(k), NEW s PROVE Follows(k, ApplyCooldown(k, s))
BY FailFollows, CompleteFollows DEF ApplyCooldown

LEMMA ApplyBusyFollows ==
    ASSUME NEW k, Sound(k), NEW s, s.st \in Busy
    PROVE  Follows(k, ApplyBusy(k, s))
<1> DEFINE o == StartObserved(k, s.st)
           t == SetStage(o, s.st)
<1>0. s.st \in Stages BY DEF Stages, Busy
<1>1. Follows(k, o) BY <1>0, ObservedFollows
<1>2. Follows(o, t) BY <1>0, <1>1, SetStageFollows DEF Follows
<1>3. ApplyBusy(k, s) = [t EXCEPT !.poll = TRUE] BY DEF ApplyBusy
<1> HIDE DEF o, t
<1>4. Follows(k, t) BY <1>1, <1>2, FollowsTransitive
<1>5. Follows(t, [t EXCEPT !.poll = TRUE]) BY <1>4, PollFollows DEF Follows
<1> QED BY <1>3, <1>4, <1>5, FollowsTransitive

LEMMA ApplyUnavailableFollows ==
    ASSUME NEW k, Sound(k), NEW s PROVE Follows(k, ApplyUnavailable(k, s))
<1> DEFINE f == IF k.active THEN FailOperation(k, k.run) ELSE k
<1>1. Follows(k, f) BY FailFollows, FollowsItself
<1>2. ApplyUnavailable(k, s) = IF s.marker THEN [f EXCEPT !.cooling = FALSE] ELSE f
    BY DEF ApplyUnavailable
<1> HIDE DEF f
<1>3. Follows(f, [f EXCEPT !.cooling = FALSE]) BY <1>1, CoolingFollows DEF Follows
<1>4. Follows(k, [f EXCEPT !.cooling = FALSE]) BY <1>1, <1>3, FollowsTransitive
<1> QED BY <1>1, <1>2, <1>4

LEMMA ApplyIdleFollows == ASSUME NEW k, Sound(k), NEW s PROVE Follows(k, ApplyIdle(k, s))
<1> DEFINE d == CompleteOperation(k)
<1>1. Follows(k, d) BY CompleteFollows
<1> HIDE DEF d
<1>2. Follows(d, [d EXCEPT !.cooling = FALSE]) BY <1>1, CoolingFollows DEF Follows
<1>3. Follows(k, [d EXCEPT !.cooling = FALSE]) BY <1>1, <1>2, FollowsTransitive
<1>4. Follows(k, [CompleteOperation(k) EXCEPT !.cooling = FALSE]) BY <1>3 DEF d
<1>5. Follows(k, FailOperation(k, k.run)) BY FailFollows
<1>6. Follows(k, [k EXCEPT !.cooling = FALSE]) BY CoolingFollows
<1> QED BY <1>4, <1>5, <1>6 DEF ApplyIdle

LEMMA ApplyStatusFollows ==
    ASSUME NEW k, Sound(k), NEW s, s.st \in States, s.can \in BOOLEAN
    PROVE  Follows(k, ApplyStatus(k, s))
<1> DEFINE seen == [k EXCEPT !.can = s.can]
           cool == [seen EXCEPT !.cooling = TRUE]
<1>1. Follows(k, seen) BY SeenFollows
<1>2. /\ s.st = "cooldown" => ApplyStatus(k, s) = ApplyCooldown(cool, s)
      /\ s.st \in Busy => ApplyStatus(k, s) = ApplyBusy(seen, s)
      /\ s.st = "unavailable" => ApplyStatus(k, s) = ApplyUnavailable(seen, s)
      /\ s.st = "idle" => ApplyStatus(k, s) = ApplyIdle(seen, s)
    BY DEF ApplyStatus, Busy
<1> HIDE DEF seen
<1>3. Follows(seen, cool) BY <1>1, CoolingFollows DEF Follows
<1> HIDE DEF cool
<1>4. Follows(k, cool) BY <1>1, <1>3, FollowsTransitive
<1>5. Follows(k, ApplyCooldown(cool, s))
    BY <1>4, ApplyCooldownFollows, FollowsTransitive DEF Follows
<1>6. s.st \in Busy => Follows(k, ApplyBusy(seen, s))
    BY <1>1, ApplyBusyFollows, FollowsTransitive DEF Follows
<1>7. Follows(k, ApplyUnavailable(seen, s))
    BY <1>1, ApplyUnavailableFollows, FollowsTransitive DEF Follows
<1>8. Follows(k, ApplyIdle(seen, s)) BY <1>1, ApplyIdleFollows, FollowsTransitive DEF Follows
<1> QED BY <1>2, <1>5, <1>6, <1>7, <1>8 DEF States

-----------------------------------------------------------------------------
(* Steps.                                                                    *)

\* What everything but the client is.
RestTyped ==
    /\ built \in {"yes", "no"} /\ live \in {"online", "offline"} /\ feat \in {"unknown", "yes", "no"}
    /\ capReq \in {"none", "asked", "status"}
    /\ statReq \in Status \cup {NoStatus, Asked} /\ begins \subseteq Kinds
    /\ reqs \in [Runs -> {"none", "preparing", "compressing", "sent", "accepted", "refused",
                          "orphan", "closed"}]
    /\ dev \in [st : States, last : Results, marker : BOOLEAN, open : BOOLEAN, held : BOOLEAN,
                owner : 0..MaxRuns]
    /\ budget \in 0..MaxEvents
    /\ served \in [Runs -> {"none", "accepted", "ok", "failed"}]

InBounds(k) == k.cur <= MaxRuns /\ k.holds <= MaxHolds
Counts(k, n) == n.cur = k.cur /\ n.holds = k.holds

\* What the device did for a run is not undone.
ServedKept == \A r \in Runs : served[r] # "none" => served'[r] # "none"

\* What the client's part of a step does.
ClientMoves == Follows(c, c') /\ InBounds(c')

Steps == ClientMoves /\ RestTyped' /\ ServedKept /\ AnswersTrue'

LEMMA TypeParts ==
    ASSUME TypeOK PROVE c \in ClientRecord /\ InBounds(c) /\ RestTyped
<1>1. c \in ClientRecord BY PhaseStarts DEF TypeOK, ClientRecord
<1>2. InBounds(c) BY DEF TypeOK, InBounds
<1>3. RestTyped BY DEF TypeOK, RestTyped
<1> QED BY <1>1, <1>2, <1>3

LEMMA StepsPreserve ==
    ASSUME PanelInductive, Steps
    PROVE  /\ PanelInductive'
           /\ c.active /\ c'.active /\ c'.run = c.run => c'.pct >= c.pct
<1>1. Sound(c) /\ Sound(c') /\ Advances(c, c') /\ InBounds(c') /\ ServedKept
    BY DEF PanelInductive, Steps, ClientMoves, Follows
<1>2. Sound(c)'
    <2>1. c'.waiters \subseteq Runs BY <1>1 DEF Sound, ClientRecord
    <2> QED BY <1>1, <2>1 DEF Sound, ServedKept
<1>3. TypeOK'
    <2>1. c'.run \in 0..MaxRuns /\ c'.cur \in 0..MaxRuns /\ c'.holds \in 0..MaxHolds
        BY <1>1, PanelBounds DEF Sound, ClientRecord, InBounds
    <2>2. RestTyped' BY DEF Steps
    <2>3. c' \in [active : BOOLEAN, accepted : BOOLEAN, kind : Kinds \cup {"none", "observed"},
              stage : Stages \cup {"idle"}, pct : 0..100, run : 0..MaxRuns,
              cur : 0..MaxRuns, poll : BOOLEAN, blocking : BOOLEAN, holds : 0..MaxHolds,
              waiters : SUBSET Runs,
              mode : {"standalone", "epaper"}, can : BOOLEAN, cooling : BOOLEAN]
        BY <1>1, <2>1 DEF Sound, ClientRecord
    <2> QED BY <2>2, <2>3, PhaseStarts DEF TypeOK, RestTyped
<1>4. c.active /\ c'.active /\ c'.run = c.run => c'.pct >= c.pct
    BY <1>1, SoundNumbers DEF Advances, Sound
<1> QED BY <1>2, <1>3, <1>4 DEF PanelInductive, Steps

(* A step in which the client does not move.                                 *)
LEMMA ClientRests == ASSUME PanelInductive, c' = c PROVE ClientMoves
BY TypeParts, FollowsItself DEF PanelInductive, ClientMoves

LEMMA SameServed == ASSUME served' = served PROVE ServedKept
BY DEF ServedKept

LEMMA FailCounts == ASSUME NEW k \in ClientRecord, NEW r PROVE Counts(k, FailOperation(k, r))
BY DEF FailOperation, ResetOperation, Settle, Counts, ClientRecord

LEMMA SetStageCounts ==
    ASSUME NEW k \in ClientRecord, NEW stage PROVE Counts(k, SetStage(k, stage))
BY DEF SetStage, Counts, ClientRecord

LEMMA StartCounts ==
    ASSUME NEW k \in ClientRecord, NEW kind, NEW stage
    PROVE  StartOperation(k, kind, stage).holds = k.holds
BY DEF StartOperation, SetStage, ClientRecord

LEMMA CountsInBounds ==
    ASSUME PanelInductive, Follows(c, c'), Counts(c, c') PROVE ClientMoves
BY TypeParts DEF PanelInductive, ClientMoves, InBounds, Counts

(* A failure of run r, and the end of a request that closes.                 *)
LEMMA FailMoves == ASSUME PanelInductive, NEW r, c' = FailOperation(c, r) PROVE ClientMoves
BY TypeParts, FailFollows, FailCounts, CountsInBounds DEF PanelInductive

\* A request that is not newly accepted.
LEMMA RequestMoves ==
    ASSUME PanelInductive, NEW r \in Runs, NEW st,
           st \in {"none", "preparing", "compressing", "sent", "refused", "orphan", "closed"},
           reqs' = [reqs EXCEPT ![r] = st], served' = served
    PROVE  /\ AnswersTrue' /\ ServedKept
           /\ reqs' \in [Runs -> {"none", "preparing", "compressing", "sent", "accepted", "refused",
                                  "orphan", "closed"}]
BY TypeParts DEF PanelInductive, AnswersTrue, ServedKept, RestTyped

LEMMA RefreshedTyped ==
    ASSUME RestTyped, NEW k PROVE Refreshed(k) \in Status \cup {NoStatus, Asked}
BY DEF RestTyped, Refreshed

-----------------------------------------------------------------------------
(* The client's actions.                                                     *)

LEMMA DeliverStatusSteps == ASSUME PanelInductive, DeliverStatus PROVE Steps
<1> DEFINE k == IF feat = "yes" THEN ApplyStatus(c, statReq) ELSE c
<1>0. RestTyped /\ Sound(c) BY TypeParts DEF PanelInductive
<1>1. Follows(c, k)
    <2>1. statReq.st \in States /\ statReq.can \in BOOLEAN BY DEF DeliverStatus, Status
    <2> QED BY <1>0, <2>1, ApplyStatusFollows, FollowsItself
<1>2. InBounds(k) BY DEF DeliverStatus, InBounds
<1>3. served' = served /\ UNCHANGED <<env, dev>> /\ statReq' = NoStatus /\ begins' = {}
      /\ capReq' \in {capReq, "none"}
    BY DEF DeliverStatus, device
<1>4. ASSUME c' = k, UNCHANGED reqs PROVE Steps
    <2>1. ClientMoves BY <1>1, <1>2, <1>4 DEF ClientMoves
    <2>2. RestTyped' BY <1>0, <1>3, <1>4 DEF RestTyped, env
    <2>3. AnswersTrue' BY <1>3, <1>4 DEF PanelInductive, AnswersTrue
    <2> QED BY <1>3, <2>1, <2>2, <2>3, SameServed DEF Steps
<1>5. ASSUME NEW kind \in Admitted(k, statReq), k.cur < MaxRuns,
             c' = StartOperation(k, kind, "preflight"),
             reqs' = [reqs EXCEPT ![k.cur + 1] = IF kind = "action" THEN "sent" ELSE "preparing"]
      PROVE  Steps
    <2>1. kind \in Kinds BY <1>0 DEF Admitted, RestTyped
    <2>2. k \in ClientRecord BY <1>1 DEF Follows, Sound
    <2>3. k.cur + 1 \in Runs BY <1>5, <2>2, PanelBounds DEF ClientRecord, Runs
    <2> HIDE DEF k
    <2>4. Follows(k, c') /\ c'.cur = k.cur + 1
        <3>1. Sound(k) /\ kind \in Kinds \cup {"observed"} /\ "preflight" \in Stages
            BY <1>1, <2>1 DEF Follows, Stages
        <3> DEFINE n == StartOperation(k, kind, "preflight")
        <3>2. Follows(k, n) /\ n.cur = k.cur + 1 BY <3>1, StartFollows
        <3>3. c' = n BY <1>5
        <3> HIDE DEF n
        <3> QED BY <3>2, <3>3
    <2>5. c'.holds = k.holds BY <1>5, <2>2, StartCounts
    <2>6. Follows(c, c') BY <1>0, <1>1, <2>4, FollowsTransitive
    <2>7. InBounds(c') BY <1>2, <1>5, <2>2, <2>4, <2>5, PanelBounds DEF InBounds, ClientRecord
    <2>8. /\ AnswersTrue' /\ ServedKept
          /\ reqs' \in [Runs -> {"none", "preparing", "compressing", "sent", "accepted", "refused",
                                 "orphan", "closed"}]
        BY <1>3, <1>5, <2>3, RequestMoves
    <2>9. RestTyped' BY <1>0, <1>3, <2>8 DEF RestTyped, env
    <2> QED BY <2>6, <2>7, <2>8, <2>9 DEF Steps, ClientMoves
<1>6. \/ c' = k /\ UNCHANGED reqs
      \/ \E kind \in Admitted(k, statReq) :
            /\ k.cur < MaxRuns
            /\ c' = StartOperation(k, kind, "preflight")
            /\ reqs' = [reqs EXCEPT ![k.cur + 1] = IF kind = "action" THEN "sent" ELSE "preparing"]
    BY DEF DeliverStatus
<1> QED BY <1>4, <1>5, <1>6

\* Requests that start or end without the client's knowing more.
LEMMA QuietSteps ==
    ASSUME PanelInductive, c' = c, reqs' = reqs, served' = served, RestTyped' PROVE Steps
BY ClientRests, SameServed DEF Steps, PanelInductive, AnswersTrue

LEMMA StatusSteps ==
    ASSUME PanelInductive,
           \/ StatusFails \/ CapabilitiesFail \/ GoOffline \/ GoOnline \/ Reflash
           \/ \E caller \in BOOLEAN : AskStatus(caller)
           \/ \E kind \in Kinds : BeginOperation(kind)
    PROVE  Steps
<1>0. RestTyped BY TypeParts DEF PanelInductive
<1> USE DEF env, device
<1>1. CASE StatusFails BY <1>0, <1>1, QuietSteps DEF StatusFails, RestTyped
<1>2. CASE CapabilitiesFail BY <1>0, <1>2, QuietSteps DEF CapabilitiesFail, RestTyped
<1>3. CASE GoOffline
    <2>1. budget' \in 0..MaxEvents BY <1>0, <1>3, PanelBounds DEF GoOffline, RestTyped
    <2> QED BY <1>0, <1>3, <2>1, QuietSteps DEF GoOffline, RestTyped
<1>4. CASE GoOnline BY <1>0, <1>4, QuietSteps DEF GoOnline, RestTyped
<1>5. CASE Reflash BY <1>0, <1>5, QuietSteps DEF Reflash, RestTyped
<1>6. ASSUME NEW caller \in BOOLEAN, AskStatus(caller) PROVE Steps
    BY <1>0, <1>6, QuietSteps DEF AskStatus, RestTyped
<1>7. ASSUME NEW kind \in Kinds, BeginOperation(kind) PROVE Steps
    BY <1>0, <1>7, QuietSteps, RefreshedTyped DEF BeginOperation, RestTyped
<1> QED BY <1>1, <1>2, <1>3, <1>4, <1>5, <1>6, <1>7

(* The steps of a draw request.                                              *)
LEMMA RequestSteps ==
    ASSUME PanelInductive, ClientMoves, NEW r \in Runs, NEW st,
           st \in {"none", "preparing", "compressing", "sent", "refused", "orphan", "closed"},
           reqs' = [reqs EXCEPT ![r] = st], UNCHANGED <<capReq, begins, env, device>>,
           statReq' \in Status \cup {NoStatus, Asked}
    PROVE  Steps
<1>0. RestTyped BY TypeParts DEF PanelInductive
<1>1. served' = served BY DEF device
<1>2. /\ AnswersTrue' /\ ServedKept
      /\ reqs' \in [Runs -> {"none", "preparing", "compressing", "sent", "accepted", "refused",
                             "orphan", "closed"}]
    BY <1>1, RequestMoves
<1>3. RestTyped' BY <1>0, <1>2 DEF RestTyped, env, device
<1> QED BY <1>2, <1>3 DEF Steps

LEMMA RejectedMoves ==
    ASSUME PanelInductive, NEW r \in Runs, Rejected(r)
    PROVE  ClientMoves /\ reqs' = [reqs EXCEPT ![r] = "closed"]
BY FailMoves, ClientRests DEF Rejected

LEMMA DrawRequestSteps ==
    ASSUME PanelInductive, NEW r \in Runs,
           \/ PrepareFails(r) \/ SubmitUpload(r) \/ Compressed(r)
           \/ Refused(r) \/ RequestFails(r)
    PROVE  Steps
<1>0. statReq \in Status \cup {NoStatus, Asked} BY TypeParts DEF PanelInductive, RestTyped
<1>1. CASE PrepareFails(r) BY <1>0, <1>1, FailMoves, RequestSteps DEF PrepareFails
<1>2. CASE SubmitUpload(r)
    <2>1. ASSUME c' = SetStage(c, "uploading") PROVE ClientMoves
        BY <2>1, TypeParts, SetStageFollows, SetStageCounts, CountsInBounds
           DEF PanelInductive, Stages
    <2>2. ClientMoves BY <1>2, <2>1, ClientRests DEF SubmitUpload
    <2> QED BY <1>0, <1>2, <2>2, RequestSteps DEF SubmitUpload
<1>3. CASE Compressed(r)
    BY <1>0, <1>3, RejectedMoves, ClientRests, RequestSteps DEF Compressed
<1>4. CASE Refused(r) BY <1>0, <1>4, RejectedMoves, RequestSteps DEF Refused
<1>5. CASE RequestFails(r)
    <2>1. ClientMoves BY <1>5, FailMoves, ClientRests DEF RequestFails
    <2> DEFINE st == IF reqs[r] = "sent" THEN "orphan" ELSE "closed"
    <2>2. reqs' = [reqs EXCEPT ![r] = st] BY <1>5 DEF RequestFails
    <2>3. statReq' = statReq /\ UNCHANGED <<capReq, begins, env, device>>
        BY <1>5 DEF RequestFails
    <2>4. st \in {"none", "preparing", "compressing", "sent", "refused", "orphan", "closed"}
        OBVIOUS
    <2> HIDE DEF st
    <2> QED BY <1>0, <2>1, <2>2, <2>3, <2>4, RequestSteps
<1> QED BY <1>1, <1>2, <1>3, <1>4, <1>5

(* The answer "accepted" is taken only by its own run, which the device      *)
(* serves.                                                                   *)
LEMMA AcceptedSteps == ASSUME PanelInductive, NEW r \in Runs, Accepted(r) PROVE Steps
<1>0. RestTyped /\ Sound(c) /\ c \in ClientRecord BY TypeParts DEF PanelInductive
<1>1. CASE Current(r)
    <2> DEFINE s == SetStage(c, "queued")
               k == [s EXCEPT !.accepted = TRUE, !.poll = TRUE, !.waiters = @ \cup {r}]
    <2>1. Follows(c, s) /\ Counts(c, s) BY <1>0, SetStageFollows, SetStageCounts DEF Stages
    <2>2. s.active /\ s.run = r BY <1>0, <1>1 DEF SetStage, Current, ClientRecord
    <2>3. served[r] # "none" BY DEF PanelInductive, AnswersTrue, Accepted
    <2>4. c' = k /\ statReq' = Refreshed(k) /\ reqs' = [reqs EXCEPT ![r] = "closed"]
          /\ UNCHANGED <<capReq, begins, env, device>>
        BY <1>1 DEF Accepted
    <2> HIDE DEF s
    <2>5. /\ k \in ClientRecord /\ k.poll /\ k.active = s.active /\ k.pct = s.pct
          /\ k.run = s.run /\ k.waiters = s.waiters \cup {r}
          /\ k.cur = s.cur /\ k.holds = s.holds
        BY <2>1 DEF Follows, Sound, ClientRecord
    <2>6. statReq' \in Status \cup {NoStatus, Asked} BY <1>0, <2>4, RefreshedTyped
    <2> HIDE DEF k
    <2>7. Follows(s, k)
        BY <2>1, <2>2, <2>3, <2>5, SoundNumbers DEF Follows, Advances, Sound
    <2>8. Follows(c, k) BY <1>0, <2>1, <2>7, FollowsTransitive
    <2>9. Counts(c, k) BY <2>1, <2>5 DEF Counts
    <2>10. ClientMoves BY <2>4, <2>8, <2>9, CountsInBounds
    <2> QED BY <2>4, <2>6, <2>10, RequestSteps
<1>2. CASE ~Current(r)
    BY <1>0, <1>2, RejectedMoves, RequestSteps DEF Accepted, RestTyped
<1> QED BY <1>1, <1>2

LEMMA TimerSteps == ASSUME PanelInductive, HoldFires \/ CooldownTick PROVE Steps
<1>0. RestTyped /\ Sound(c) /\ c \in ClientRecord /\ InBounds(c) BY TypeParts DEF PanelInductive
<1>1. CASE HoldFires
    <2> DEFINE k == ResetOperation(c)
    <2>1. Follows(c, k) /\ ~k.active BY <1>0, ResetFollows
    <2>2. Counts(c, k) BY <1>0 DEF ResetOperation, Counts, ClientRecord
    <2>3. c' = [k EXCEPT !.holds = @ - 1] BY <1>1 DEF HoldFires
    <2>4. k.holds - 1 \in Nat BY <1>0, <1>1, <2>2 DEF HoldFires, Counts, ClientRecord
    <2> HIDE DEF k
    <2>5. /\ c' \in ClientRecord /\ ~c'.active /\ c'.run = k.run /\ c'.waiters = k.waiters
          /\ c'.cur = k.cur /\ c'.holds = k.holds - 1
        BY <2>1, <2>3, <2>4 DEF Follows, Sound, ClientRecord
    <2>6. Follows(k, c') BY <2>1, <2>5, SoundNumbers DEF Follows, Advances, Sound
    <2>7. Follows(c, c') BY <1>0, <2>1, <2>6, FollowsTransitive
    <2>8. InBounds(c')
        BY <1>0, <2>2, <2>5, PanelBounds DEF InBounds, Counts, ClientRecord
    <2>9. ClientMoves BY <2>7, <2>8 DEF ClientMoves
    <2>10. RestTyped' /\ AnswersTrue'
        BY <1>0, <1>1 DEF HoldFires, RestTyped, env, device, PanelInductive, AnswersTrue
    <2> QED BY <1>1, <2>9, <2>10, SameServed DEF HoldFires, Steps, device
<1>2. CASE CooldownTick
    <2>1. c' = [c EXCEPT !.cooling = FALSE] BY <1>2 DEF CooldownTick
    <2>2. Follows(c, c') BY <1>0, <2>1, CoolingFollows
    <2>3. Counts(c, c') BY <1>0, <2>1 DEF Counts, ClientRecord
    <2>4. ClientMoves BY <2>2, <2>3, CountsInBounds
    <2>5. RestTyped' /\ AnswersTrue'
        BY <1>0, <1>2 DEF CooldownTick, RestTyped, env, device, PanelInductive, AnswersTrue
    <2> QED BY <1>2, <2>4, <2>5, SameServed DEF CooldownTick, Steps, device
<1> QED BY <1>1, <1>2

(* Features, and the discovery of the panel.                                 *)
LEMMA DiscoverySteps ==
    ASSUME PanelInductive, FeaturesKnown \/ CapabilitiesKnown PROVE Steps
<1>0. RestTyped /\ Sound(c) /\ c \in ClientRecord BY TypeParts DEF PanelInductive
<1>1. CASE FeaturesKnown
    <2>1. ASSUME built = "no" PROVE ClientMoves
        <3> DEFINE k == IF c.active THEN FailOperation(c, c.run) ELSE c
        <3>1. Follows(c, k) BY <1>0, FailFollows, FollowsItself
        <3>2. Counts(c, k) BY <1>0, FailCounts DEF Counts
        <3>3. c' = [k EXCEPT !.mode = "standalone", !.can = FALSE]
            BY <1>1, <2>1 DEF FeaturesKnown
        <3> HIDE DEF k
        <3>4. c' \in ClientRecord /\ Same(k, c') /\ c'.poll = k.poll /\ Counts(k, c')
            BY <3>1, <3>3 DEF Follows, Sound, ClientRecord, Same, Counts
        <3>5. Follows(k, c') BY <3>1, <3>4, SameFollows DEF Follows
        <3>6. Follows(c, c') BY <1>0, <3>1, <3>5, FollowsTransitive
        <3>7. Counts(c, c') BY <3>2, <3>4 DEF Counts
        <3> QED BY <3>6, <3>7, CountsInBounds
    <2>2. ClientMoves BY <1>1, <2>1, ClientRests DEF FeaturesKnown
    <2>3. RestTyped' BY <1>0, <1>1 DEF FeaturesKnown, RestTyped, device
    <2>4. AnswersTrue' /\ served' = served
        BY <1>1 DEF FeaturesKnown, device, PanelInductive, AnswersTrue
    <2> QED BY <2>2, <2>3, <2>4, SameServed DEF Steps
<1>2. CASE CapabilitiesKnown
    <2>1. ASSUME c' = [c EXCEPT !.mode = "epaper"] PROVE ClientMoves
        <3>1. c' \in ClientRecord /\ Same(c, c') /\ c'.poll = c.poll /\ Counts(c, c')
            BY <1>0, <2>1 DEF ClientRecord, Same, Counts
        <3>2. Follows(c, c') BY <1>0, <3>1, SameFollows
        <3> QED BY <3>1, <3>2, CountsInBounds
    <2>2. ClientMoves BY <1>2, <2>1, ClientRests DEF CapabilitiesKnown
    <2>3. RestTyped'
        BY <1>0, <1>2, RefreshedTyped DEF CapabilitiesKnown, RestTyped, env, device
    <2>4. AnswersTrue' /\ served' = served
        BY <1>2 DEF CapabilitiesKnown, device, PanelInductive, AnswersTrue
    <2> QED BY <2>2, <2>3, <2>4, SameServed DEF Steps
<1> QED BY <1>1, <1>2

-----------------------------------------------------------------------------
(* The device.                                                               *)

DeviceRecord ==
    [st : States, last : Results, marker : BOOLEAN, open : BOOLEAN, held : BOOLEAN,
     owner : 0..MaxRuns]

LEMMA DeviceUpdates ==
    ASSUME NEW d \in DeviceRecord
    PROVE  /\ \A v \in States : [d EXCEPT !.st = v] \in DeviceRecord
           /\ \A v \in Results : [d EXCEPT !.last = v] \in DeviceRecord
           /\ \A v \in BOOLEAN : [d EXCEPT !.marker = v] \in DeviceRecord
           /\ \A v \in BOOLEAN : [d EXCEPT !.open = v] \in DeviceRecord
           /\ \A v \in BOOLEAN : [d EXCEPT !.held = v] \in DeviceRecord
           /\ \A v \in 0..MaxRuns : [d EXCEPT !.owner = v] \in DeviceRecord
BY DEF DeviceRecord

LEMMA NamedStates ==
    /\ {"idle", "uploading", "queued", "drawing", "cooldown", "unavailable"} \subseteq States
    /\ {"none", "ok", "failed"} \subseteq Results
    /\ 0 \in 0..MaxRuns
BY PanelBounds DEF States, Busy, Results

(* What the answer to a request becomes.                                     *)
LEMMA AnsweredTyped ==
    ASSUME RestTyped, NEW r \in Runs, NEW st \in {"accepted", "refused"}
    PROVE  /\ Answered(r, st) \in [Runs -> {"none", "preparing", "compressing", "sent", "accepted",
                                            "refused", "orphan", "closed"}]
           /\ \A q \in Runs : Answered(r, st)[q] = "accepted" =>
                  reqs[q] = "accepted" \/ (q = r /\ st = "accepted")
BY DEF Answered, RestTyped

(* A step of the device that the client and its requests do not see.         *)
LEMMA UnseenSteps ==
    ASSUME PanelInductive, dev' \in DeviceRecord, budget' \in 0..MaxEvents,
           UNCHANGED <<c, built, live, feat, statReq, capReq, begins, reqs, served>>
    PROVE  Steps
<1>1. RestTyped' BY TypeParts DEF PanelInductive, RestTyped, DeviceRecord
<1> QED BY <1>1, QuietSteps

(* A step of the device that ends the request of a run without a draw.       *)
LEMMA BreakSteps ==
    ASSUME PanelInductive, dev' \in DeviceRecord, budget' \in 0..MaxEvents,
           \/ reqs' = reqs
           \/ \E r \in Runs : reqs' = Answered(r, "refused"),
           UNCHANGED <<c, built, live, feat, statReq, capReq, begins, served>>
    PROVE  Steps
<1>0. RestTyped BY TypeParts DEF PanelInductive
<1>1. CASE reqs' = reqs BY <1>1, UnseenSteps
<1>2. ASSUME NEW r \in Runs, reqs' = Answered(r, "refused") PROVE Steps
    <2>1. /\ reqs' \in [Runs -> {"none", "preparing", "compressing", "sent", "accepted",
                                 "refused", "orphan", "closed"}]
          /\ \A q \in Runs : reqs'[q] = "accepted" => reqs[q] = "accepted"
        BY <1>0, <1>2, AnsweredTyped
    <2>2. RestTyped' BY <1>0, <2>1 DEF RestTyped, DeviceRecord
    <2>3. AnswersTrue' BY <2>1 DEF PanelInductive, AnswersTrue
    <2> QED BY <2>2, <2>3, ClientRests, SameServed DEF Steps
<1> QED BY <1>1, <1>2

LEMMA LessBudget ==
    ASSUME RestTyped, budget > 0 PROVE budget - 1 \in 0..MaxEvents
BY PanelBounds DEF RestTyped

\* What a reset leaves.
LEMMA RestartedKeeps ==
    ASSUME RestTyped, Restarted
    PROVE  /\ dev' \in DeviceRecord
           /\ \/ reqs' = reqs
              \/ \E r \in Runs : reqs' = Answered(r, "refused")
<1>1. PICK st \in Recovered(dev.st) :
          dev' = [st |-> st, last |-> "none", marker |-> FALSE, open |-> TRUE, held |-> FALSE,
                  owner |-> 0]
    BY DEF Restarted
<1>2. st \in States BY NamedStates DEF Recovered
<1>3. dev' \in DeviceRecord BY <1>1, <1>2, NamedStates DEF DeviceRecord
<1>4. dev.owner # 0 => dev.owner \in Runs BY PanelBounds DEF RestTyped, Runs
<1> QED BY <1>3, <1>4 DEF Restarted

LEMMA DeviceSteps == ASSUME PanelInductive, Device PROVE Steps
<1>0. RestTyped BY TypeParts DEF PanelInductive
<1>d. /\ dev \in DeviceRecord /\ budget \in 0..MaxEvents
      /\ dev.st \in States /\ dev.last \in Results
      /\ dev.owner # 0 => dev.owner \in Runs
    BY <1>0, PanelBounds DEF RestTyped, DeviceRecord, Runs
<1>1. CASE AnswerStatus
    <2>1. Snapshot \in Status BY <1>0 DEF RestTyped, Snapshot, Status, Admits
    <2>2. RestTyped' BY <1>0, <1>1, <2>1 DEF AnswerStatus, RestTyped, env, device
    <2> QED BY <1>1, <2>2, QuietSteps DEF AnswerStatus, device
<1>2. ASSUME NEW st \in {"uploading", "queued"}, NEW r \in 0..MaxRuns,
             dev' = [dev EXCEPT !.st = st, !.held = TRUE, !.owner = r]
      PROVE  dev' \in DeviceRecord
    BY <1>2, <1>d, NamedStates, DeviceUpdates, Zenon
<1>3. ASSUME NEW r \in Runs, Reserve(r) PROVE Steps
    <2>1. r \in 0..MaxRuns BY PanelBounds DEF Runs
    <2>2. dev' \in DeviceRecord
        <3>1. PICK st \in {"uploading", "queued"} :
                  dev' = [dev EXCEPT !.st = st, !.held = TRUE, !.owner = r]
            BY <1>3, Zenon DEF Reserve
        <3> QED BY <1>2, <2>1, <3>1, Zenon
    <2> QED BY <1>3, <1>d, <2>2, UnseenSteps DEF Reserve, env
<1>4. ASSUME NEW r \in Runs, Refuse(r) PROVE Steps
    BY <1>4, <1>d, BreakSteps DEF Refuse, env, device
<1>5. CASE OtherClientReserves
    <2>1. dev' \in DeviceRecord
        <3>1. PICK st \in {"uploading", "queued"} :
                  dev' = [dev EXCEPT !.st = st, !.held = TRUE, !.owner = 0]
            BY <1>5, Zenon DEF OtherClientReserves
        <3> QED BY <1>2, <3>1, NamedStates, Zenon
    <2> QED BY <1>0, <1>5, <2>1, LessBudget, UnseenSteps DEF OtherClientReserves
<1>6. CASE QueueDraw
    <2>1. dev' \in DeviceRecord BY <1>6, <1>d, NamedStates, DeviceUpdates, Zenon DEF QueueDraw
    <2>2. CASE dev.owner = 0
        BY <1>6, <1>d, <2>1, <2>2, UnseenSteps DEF QueueDraw, env
    <2>3. CASE dev.owner # 0
        <3> DEFINE r == dev.owner
        <3>1. r \in Runs BY <1>d, <2>3
        <3>2. /\ served' = [served EXCEPT ![r] = "accepted"] /\ reqs' = Answered(r, "accepted")
              /\ UNCHANGED <<c, statReq, capReq, begins, env>>
            BY <1>6, <2>3 DEF QueueDraw
        <3> HIDE DEF r
        <3>3. /\ reqs' \in [Runs -> {"none", "preparing", "compressing", "sent", "accepted",
                                     "refused", "orphan", "closed"}]
              /\ \A q \in Runs : reqs'[q] = "accepted" => reqs[q] = "accepted" \/ q = r
            BY <1>0, <3>1, <3>2, AnsweredTyped
        <3>4. RestTyped' BY <1>0, <2>1, <3>1, <3>2, <3>3 DEF RestTyped, DeviceRecord, env
        <3>5. AnswersTrue' /\ ServedKept
            BY <1>0, <3>1, <3>2, <3>3 DEF PanelInductive, AnswersTrue, ServedKept, RestTyped
        <3> QED BY <3>2, <3>4, <3>5, ClientRests DEF Steps
    <2> QED BY <2>2, <2>3
<1>7. CASE ReservationFails
    <2> DEFINE last == IF dev.st = "uploading" THEN "failed" ELSE dev.last
    <2>1. last \in Results BY <1>d, NamedStates
    <2>2. dev' = [dev EXCEPT !.st = "idle", !.held = FALSE, !.owner = 0, !.last = last]
        BY <1>7, <1>d DEF ReservationFails, DeviceRecord
    <2> HIDE DEF last
    <2>3. dev' \in DeviceRecord BY <1>d, <2>1, <2>2, NamedStates, DeviceUpdates, Zenon
    <2> QED BY <1>7, <1>d, <2>3, BreakSteps DEF ReservationFails, env
<1>8. ASSUME NEW next \in States, NEW result \in {"same", "ok", "failed"},
             DeviceMoves(next, result)
      PROVE  Steps
    <2>1. dev' \in DeviceRecord
        BY <1>d, <1>8, NamedStates DEF DeviceMoves, DeviceRecord
    <2>2. served' \in [Runs -> {"none", "accepted", "ok", "failed"}]
        BY <1>0, <1>8 DEF DeviceMoves, RestTyped
    <2>3. ServedKept BY <1>0, <1>8 DEF DeviceMoves, ServedKept, RestTyped
    <2>4. RestTyped' BY <1>0, <1>8, <2>1, <2>2 DEF DeviceMoves, RestTyped, env, DeviceRecord
    <2>5. AnswersTrue'
        BY <1>8, <2>3 DEF DeviceMoves, PanelInductive, AnswersTrue, ServedKept
    <2> QED BY <1>8, <2>3, <2>4, <2>5, ClientRests DEF DeviceMoves, Steps
<1>9. CASE StartDraw \/ RejectStored \/ FinishDraw \/ ShutdownFails \/ MarkerCleared
    BY <1>8, <1>9, NamedStates
       DEF StartDraw, RejectStored, FinishDraw, ShutdownFails, MarkerCleared
<1>10. CASE MarkerStays
    <2>1. dev' \in DeviceRecord
        BY <1>10, <1>d, NamedStates, DeviceUpdates, Zenon DEF MarkerStays
    <2> QED BY <1>10, <1>d, <2>1, UnseenSteps DEF MarkerStays, env
<1>11. CASE CloseAdmission
    <2>1. dev' \in DeviceRecord BY <1>11, <1>d, DeviceUpdates, Zenon DEF CloseAdmission
    <2> QED BY <1>0, <1>11, <2>1, LessBudget, UnseenSteps DEF CloseAdmission
<1>12. CASE DrainEnds
    <2>1. CASE dev' = [dev EXCEPT !.open = TRUE] /\ UNCHANGED reqs
        <3>1. dev' \in DeviceRecord BY <1>d, <2>1, DeviceUpdates, Zenon
        <3> QED BY <1>12, <1>d, <2>1, <3>1, UnseenSteps DEF DrainEnds, env
    <2>2. CASE Restarted
        BY <1>0, <1>12, <1>d, <2>2, RestartedKeeps, BreakSteps DEF DrainEnds, env
    <2> QED BY <1>12, <2>1, <2>2 DEF DrainEnds
<1>13. CASE Reboot
    BY <1>0, <1>13, LessBudget, RestartedKeeps, BreakSteps DEF Reboot
<1> QED BY <1>1, <1>3, <1>4, <1>5, <1>6, <1>7, <1>9, <1>10, <1>11, <1>12, <1>13 DEF Device

-----------------------------------------------------------------------------
LEMMA NextSteps == ASSUME PanelInductive, Next PROVE Steps
<1>1. CASE Device BY <1>1, DeviceSteps
<1>2. CASE DeliverStatus BY <1>2, DeliverStatusSteps
<1>3. CASE \/ StatusFails \/ CapabilitiesFail \/ GoOffline \/ GoOnline \/ Reflash
           \/ AskStatus(StatusTimer) \/ AskStatus(PollTimer) \/ AskStatus(PageMount)
           \/ \E kind \in Kinds : BeginOperation(kind)
    <2>1. c.poll \in BOOLEAN BY TypeParts DEF PanelInductive, ClientRecord
    <2>2. StatusTimer \in BOOLEAN /\ PollTimer \in BOOLEAN /\ PageMount \in BOOLEAN
        BY <2>1 DEF StatusTimer, PollTimer, PageMount
    <2> QED BY <1>3, <2>2, StatusSteps
<1>4. ASSUME NEW r \in Runs,
             \/ PrepareFails(r) \/ SubmitUpload(r) \/ Compressed(r)
             \/ Accepted(r) \/ Refused(r) \/ RequestFails(r)
      PROVE  Steps
    BY <1>4, DrawRequestSteps, AcceptedSteps
<1>5. CASE HoldFires \/ CooldownTick BY <1>5, TimerSteps
<1>6. CASE FeaturesKnown \/ CapabilitiesKnown BY <1>6, DiscoverySteps
<1> QED BY <1>1, <1>2, <1>3, <1>4, <1>5, <1>6 DEF Next, Client

LEMMA StutterSteps == ASSUME PanelInductive, UNCHANGED vars PROVE Steps
<1>0. RestTyped BY TypeParts DEF PanelInductive
<1>1. RestTyped' BY <1>0 DEF vars, RestTyped
<1> QED BY <1>1, QuietSteps DEF vars

LEMMA InitSound == Init => PanelInductive
<1> SUFFICES ASSUME Init PROVE PanelInductive
    OBVIOUS
<1>1. c \in ClientRecord /\ InBounds(c) BY PanelBounds DEF Init, ClientRecord, InBounds
<1>2. Sound(c) BY <1>1 DEF Init, Sound
<1>3. RestTyped
    BY PanelBounds, NamedStates DEF Init, RestTyped, NoStatus, Asked, Blank
<1>4. AnswersTrue BY DEF Init, AnswersTrue
<1>5. c \in [active : BOOLEAN, accepted : BOOLEAN, kind : Kinds \cup {"none", "observed"},
              stage : Stages \cup {"idle"}, pct : 0..100, run : 0..MaxRuns,
              cur : 0..MaxRuns, poll : BOOLEAN, blocking : BOOLEAN, holds : 0..MaxHolds,
              waiters : SUBSET Runs,
              mode : {"standalone", "epaper"}, can : BOOLEAN, cooling : BOOLEAN]
    BY PanelBounds DEF Init
<1>6. TypeOK BY <1>3, <1>5, PhaseStarts DEF TypeOK, RestTyped
<1> QED BY <1>2, <1>4, <1>6 DEF PanelInductive

LEMMA PanelInvariance == Spec => []PanelInductive
<1>1. PanelInductive /\ [Next]_vars => PanelInductive'
    BY NextSteps, StutterSteps, StepsPreserve
<1> QED BY <1>1, InitSound, PTL DEF Spec, Safety

(* The owner's state is well formed; a run it counts as accepted, or whose   *)
(* caller waits for its end, is one the device accepted; and an accepted     *)
(* operation is being polled, through every order of answers, failures,      *)
(* timers and other clients' draws (acceptAndWait, applyStatus).             *)
THEOREM PanelSafe == Spec => []PanelInv
<1>1. PanelInductive => PanelInv
    BY DEF PanelInductive, Sound, PanelInv, AcceptedIsOwn, AcceptedIsPolled
<1> QED BY <1>1, PanelInvariance, PTL

(* The percentage of a run never falls, whatever the device reports and in   *)
(* whichever order the answers come (setStage, startObservedOperation).      *)
THEOREM ProgressOnlyGrows == Spec => ProgressNeverFalls
<1>1. PanelInductive /\ [Next]_vars =>
         [c.active /\ c'.active /\ c'.run = c.run => c'.pct >= c.pct]_vars
    BY NextSteps, StutterSteps, StepsPreserve
<1> QED BY <1>1, PanelInvariance, PTL DEF Spec, Safety, ProgressNeverFalls

-----------------------------------------------------------------------------
(* The image editor.                                                        *)

Modes  == {"source", "prepare", "edit"}
Phases == {"ask", "work", "pack", "send", "refused"}
Panels == SUBSET Tools
EditorRecord ==
    [mounted : BOOLEAN, mode : Modes, open : Panels, img : 0..MaxLoads, rev : 0..MaxChanges,
     cal : 0..MaxRevisions, pal : BOOLEAN, status : Statuses, prev : Content, out : Content,
     job : Job, pend : BOOLEAN, timer : BOOLEAN, hold : BOOLEAN, held : BOOLEAN,
     load : BOOLEAN, loads : 0..MaxLoads, busy : BOOLEAN, stray : BOOLEAN]

\* An image that is shown was loaded, before one that is still being read.
Loaded(k) ==
    /\ k.img <= k.loads /\ (k.load => k.img < k.loads)
    /\ k.img = 0 => k.mode = "source" /\ k.prev = Nothing
Core(k) == k \in EditorRecord /\ Loaded(k)

\* The worker serves the job in force, a restore brings a picture that was opened, and a
\* preview is of one.
Served(k) ==
    /\ k.busy <=> (k.job.k # "none" /\ k.job.ph = "work")
    /\ k.job.ph # "refused"
    /\ k.job.k = "restore" => k.job.what.img \in 1..k.loads
    /\ k.job.k = "preview" => k.img # 0

\* A preview that may be committed outside the crop tool is of what the editor holds.
Fresh(k) == k.job.k = "preview" /\ k.job.ok /\ k.job.run /\ k.mode # "prepare"
            => k.job.what = ContentOf(k)

Steady(k) == Core(k) /\ Served(k) /\ Fresh(k)

\* n holds the same picture, settings, preview, work and load as k.
SameWork(k, n) ==
    /\ n.img = k.img /\ n.rev = k.rev /\ n.cal = k.cal /\ n.prev = k.prev
    /\ n.job = k.job /\ n.busy = k.busy /\ n.load = k.load /\ n.loads = k.loads
\* n shows otherwise what k is, and leaves the crop tool nowhere.
Shows(k, n) ==
    /\ n \in EditorRecord /\ SameWork(k, n)
    /\ IF k.img = 0 THEN n.mode = "source" ELSE k.mode = "prepare" => n.mode = "prepare"
\* n holds the picture and the settings that k holds.
SameImage(k, n) ==
    /\ n \in EditorRecord /\ n.mode = k.mode /\ n.img = k.img /\ n.rev = k.rev /\ n.cal = k.cal
    /\ n.prev = k.prev /\ n.load = k.load /\ n.loads = k.loads
\* n follows k with the preview that k has.
Keeps(k, n) == Steady(n) /\ n.prev = k.prev

EditorInductive ==
    /\ Steady(e) /\ op \in {"none", "claimed", "sent"}
    /\ policy \in [cal : 0..MaxRevisions, used : 0..MaxRevisions]

-----------------------------------------------------------------------------
(* Records.                                                                 *)

LEMMA EditorNames ==
    /\ {"source", "prepare", "edit"} = Modes /\ {"ask", "work", "pack", "send"} \subseteq Phases
    /\ {{}, {"input"}, {"crop"}, {"dither"}} \subseteq Panels
    /\ \A o \in Panels, s \in SUBSET STRING : o \ s \in Panels
    /\ \A t \in Tools, o \in Panels : {t} \in Panels /\ o \cup {t} \in Panels
    /\ \A t \in Tools : Group(t) \in Modes
    /\ \A mode \in Modes : {t \in Tools : Group(t) = mode} \in Panels
    /\ {"empty", "loading", "ready", "processing", "preview-ready", "exporting",
        "exporting-project", "exported", "project-exported", "error"} \subseteq Statuses
BY DEF Modes, Phases, Panels, Tools, Group, Statuses

LEMMA JobsTyped ==
    /\ Nothing \in Content /\ NoJob \in Job /\ NoJob.k = "none" /\ NoJob.ph = "work"
    /\ \A j \in Job : /\ [j EXCEPT !.ok = FALSE] \in Job /\ [j EXCEPT !.run = FALSE] \in Job
                       /\ j.what \in Content
    /\ \A j \in Job, ph \in Phases : [j EXCEPT !.ph = ph] \in Job
<1>1. Nothing \in Content BY EditorBounds DEF Nothing, Content
<1>2. NoJob \in Job /\ NoJob.k = "none" /\ NoJob.ph = "work" BY <1>1 DEF NoJob, Job, JobKinds
<1>3. \A j \in Job : /\ [j EXCEPT !.ok = FALSE] \in Job /\ [j EXCEPT !.run = FALSE] \in Job
                     /\ j.what \in Content
    BY DEF Job
<1>4. \A j \in Job, ph \in Phases : [j EXCEPT !.ph = ph] \in Job BY DEF Job, Phases
<1> QED BY <1>1, <1>2, <1>3, <1>4

LEMMA ShowsSteady ==
    ASSUME NEW k, NEW n, Shows(k, n)
    PROVE  /\ Core(k) => Core(n)
           /\ Steady(k) => Keeps(k, n)
BY DEF Core, Steady, Keeps, Shows, SameWork, Loaded, Served, Fresh, ContentOf

LEMMA ShowsTwice == ASSUME NEW k, NEW m, NEW n, Shows(k, m), Shows(m, n) PROVE Shows(k, n)
BY DEF Shows, SameWork

-----------------------------------------------------------------------------
(* The mode machine.                                                        *)

\* A record with another mode and other panels.
LEMMA ModeSame ==
    ASSUME NEW k \in EditorRecord, NEW mode \in Modes, NEW open \in Panels
    PROVE  LET n == [k EXCEPT !.mode = mode, !.open = open]
           IN  n \in EditorRecord /\ SameWork(k, n) /\ n.mode = mode
<1> DEFINE n == [k EXCEPT !.mode = mode, !.open = open]
<1>1. n \in EditorRecord BY ZenonT(60) DEF EditorRecord
<1>2. SameWork(k, n) /\ n.mode = mode BY DEF EditorRecord, SameWork
<1> QED BY <1>1, <1>2

\* What each way into a mode makes of a record.
LEMMA Modal ==
    ASSUME NEW k \in EditorRecord
    PROVE  /\ LET n == EnterSource(k) IN n \in EditorRecord /\ SameWork(k, n) /\ n.mode = "source"
           /\ LET n == EnterPrepare(k)
              IN  n \in EditorRecord /\ SameWork(k, n) /\ n.mode = IF k.img = 0 THEN "source" ELSE "prepare"
           /\ LET n == NormalizeEdit(k) IN n \in EditorRecord /\ SameWork(k, n) /\ n.mode = "edit"
           /\ LET n == NormalizeSource(k) IN n \in EditorRecord /\ SameWork(k, n) /\ n.mode = "source"
           /\ LET n == EnterEdit(k)
              IN  n \in EditorRecord /\ SameWork(k, n) /\ n.mode = IF k.img = 0 THEN "source" ELSE "edit"
           /\ \A t \in Tools :
                 LET n == OpenEditTool(k, t)
                 IN  n \in EditorRecord /\ SameWork(k, n) /\ n.mode = IF k.img = 0 THEN "source" ELSE "edit"
<1>0. k.open \in Panels /\ {"input"} \in Panels /\ {"crop"} \in Panels /\ {"dither"} \in Panels
      /\ k.open \ {"input", "crop"} \in Panels /\ k.open \ {"crop"} \in Panels
    BY EditorNames DEF EditorRecord, Panels
<1>1. EnterSource(k) \in EditorRecord /\ SameWork(k, EnterSource(k)) /\ EnterSource(k).mode = "source"
    BY <1>0, ModeSame DEF EnterSource, Modes
<1>2. LET n == EnterPrepare(k)
      IN  n \in EditorRecord /\ SameWork(k, n) /\ n.mode = IF k.img = 0 THEN "source" ELSE "prepare"
    <2> DEFINE o == {"crop"}
               m == [k EXCEPT !.mode = "prepare", !.open = o]
    <2>1. o \in Panels /\ "prepare" \in Modes BY <1>0 DEF Modes
    <2> HIDE DEF o
    <2>2. m \in EditorRecord /\ SameWork(k, m) /\ m.mode = "prepare" BY <2>1, ModeSame, Zenon
    <2>3. EnterPrepare(k) = IF k.img = 0 THEN EnterSource(k) ELSE m BY DEF EnterPrepare, o
    <2> HIDE DEF m
    <2> QED BY <1>1, <2>2, <2>3
<1>3. LET n == NormalizeEdit(k) IN n \in EditorRecord /\ SameWork(k, n) /\ n.mode = "edit"
    <2> DEFINE o == k.open \ {"input", "crop"}
               m == [k EXCEPT !.mode = "edit", !.open = o]
    <2>1. NormalizeEdit(k) = m BY DEF NormalizeEdit, EditorRecord
    <2>2. o \in Panels /\ "edit" \in Modes BY <1>0 DEF Modes
    <2> HIDE DEF o
    <2>3. m \in EditorRecord /\ SameWork(k, m) /\ m.mode = "edit" BY <2>2, ModeSame, Zenon
    <2> HIDE DEF m
    <2> QED BY <2>1, <2>3
<1>4. LET n == NormalizeSource(k) IN n \in EditorRecord /\ SameWork(k, n) /\ n.mode = "source"
    <2> DEFINE o == k.open \ {"crop"}
               m == [k EXCEPT !.mode = "source", !.open = o]
    <2>1. NormalizeSource(k) = m BY DEF NormalizeSource, EditorRecord
    <2>2. o \in Panels /\ "source" \in Modes BY <1>0 DEF Modes
    <2> HIDE DEF o
    <2>3. m \in EditorRecord /\ SameWork(k, m) /\ m.mode = "source" BY <2>2, ModeSame, Zenon
    <2> HIDE DEF m
    <2> QED BY <2>1, <2>3
<1>5. ASSUME NEW o \in Panels
      PROVE  LET n == [NormalizeEdit(k) EXCEPT !.open = o]
             IN  n \in EditorRecord /\ SameWork(k, n) /\ n.mode = "edit"
    <2> DEFINE m == NormalizeEdit(k)
               n == [m EXCEPT !.open = o]
    <2>1. m \in EditorRecord /\ SameWork(k, m) /\ m.mode = "edit" BY <1>3
    <2> HIDE DEF m
    <2>2. n \in EditorRecord BY <2>1 DEF EditorRecord
    <2>3. SameWork(k, n) /\ n.mode = "edit" BY <2>1 DEF EditorRecord, SameWork
    <2> QED BY <2>2, <2>3 DEF m
<1>6. LET n == EnterEdit(k)
      IN  n \in EditorRecord /\ SameWork(k, n) /\ n.mode = IF k.img = 0 THEN "source" ELSE "edit"
    BY <1>0, <1>1, <1>5 DEF EnterEdit
<1>7. ASSUME NEW t \in Tools
      PROVE  LET n == OpenEditTool(k, t)
             IN  n \in EditorRecord /\ SameWork(k, n) /\ n.mode = IF k.img = 0 THEN "source" ELSE "edit"
    <2>1. {t} \in Panels BY EditorNames
    <2> QED BY <1>1, <1>5, <1>6, <2>1 DEF OpenEditTool
<1> QED BY <1>1, <1>2, <1>3, <1>4, <1>6, <1>7

LEMMA RenderedShows == ASSUME NEW k \in EditorRecord PROVE Shows(k, Rendered(k))
<1>1. CASE k.img = 0 BY <1>1, Modal DEF Rendered, Shows
<1>2. CASE k.img # 0 /\ k.mode = "prepare" BY <1>2, Modal DEF Rendered, Shows
<1>3. CASE k.img # 0 /\ k.mode # "prepare" BY <1>3, Modal DEF Rendered, Shows
<1> QED BY <1>1, <1>2, <1>3

LEMMA RenderedKeeps ==
    ASSUME NEW k
    PROVE  /\ Steady(k) => Keeps(k, Rendered(k))
           /\ Core(k) => Core(Rendered(k)) /\ SameWork(k, Rendered(k))
BY RenderedShows, ShowsSteady DEF Steady, Core, Shows

-----------------------------------------------------------------------------
(* The job owner.                                                           *)

LEMMA SameImageCore == ASSUME NEW k, NEW n, Core(k), SameImage(k, n) PROVE Core(n)
BY DEF Core, SameImage, Loaded

LEMMA SteadyKeeps == ASSUME NEW k, Steady(k) PROVE Keeps(k, k)
BY DEF Keeps

LEMMA KeepsTwice == ASSUME NEW k, NEW m, NEW n, Keeps(k, m), Keeps(m, n) PROVE Keeps(k, n)
BY DEF Keeps

LEMMA TakeWorkerSame ==
    ASSUME NEW k \in EditorRecord, ~k.busy
    PROVE  LET n == TakeWorker(k)
           IN  SameImage(k, n) /\ n.busy /\ n.job = [k.job EXCEPT !.ph = "work"]
<1> DEFINE job == [k.job EXCEPT !.ph = "work"]
           n == [k EXCEPT !.job = job, !.busy = TRUE]
<1>1. job \in Job BY JobsTyped, EditorNames DEF EditorRecord
<1>2. TakeWorker(k) = n BY DEF TakeWorker, EditorRecord
<1> HIDE DEF job
<1>3. n \in EditorRecord BY <1>1 DEF EditorRecord
<1>4. SameImage(k, n) /\ n.busy /\ n.job = job BY <1>3 DEF EditorRecord, SameImage
<1> QED BY <1>2, <1>4 DEF job

LEMMA TerminateSame ==
    ASSUME NEW k \in EditorRecord
    PROVE  LET n == TerminateWorker(k) IN SameImage(k, n) /\ ~n.busy /\ n.job = k.job /\ n.pend = k.pend
<1>1. TerminateWorker(k) \in EditorRecord BY DEF TerminateWorker, EditorRecord
<1> QED BY <1>1 DEF TerminateWorker, EditorRecord, SameImage

LEMMA SupersedeSame ==
    ASSUME NEW k \in EditorRecord
    PROVE  LET n == SupersedePreview(k)
           IN  /\ SameImage(k, n) /\ n.busy = k.busy
               /\ n.job = IF IsHeavy(k) THEN k.job ELSE [k.job EXCEPT !.ok = FALSE]
<1> DEFINE job == [k.job EXCEPT !.ok = FALSE]
           n == [k EXCEPT !.job = job]
<1>1. job \in Job BY JobsTyped DEF EditorRecord
<1>2. SupersedePreview(k) = IF IsHeavy(k) THEN k ELSE n BY DEF SupersedePreview, EditorRecord
<1> HIDE DEF job
<1>3. n \in EditorRecord BY <1>1 DEF EditorRecord
<1>4. SameImage(k, n) /\ n.busy = k.busy /\ n.job = job BY <1>3 DEF EditorRecord, SameImage
<1>5. SameImage(k, k) BY DEF SameImage
<1> QED BY <1>2, <1>4, <1>5 DEF job

\* Whatever preview runs, it is dropped.
LEMMA SupersedeKeeps ==
    ASSUME NEW k, Core(k), Served(k)
    PROVE  /\ Keeps(k, SupersedePreview(k)) /\ SameImage(k, SupersedePreview(k))
<1> DEFINE n == SupersedePreview(k)
<1>1. SameImage(k, n) /\ n.busy = k.busy
      /\ n.job = IF IsHeavy(k) THEN k.job ELSE [k.job EXCEPT !.ok = FALSE]
    BY SupersedeSame DEF Core
<1>2. k.job \in Job BY DEF Core, EditorRecord
<1>3. ~IsHeavy(k) => /\ n.job.k = k.job.k /\ n.job.ph = k.job.ph /\ n.job.what = k.job.what
                     /\ ~n.job.ok
    BY <1>1, <1>2 DEF Job
<1> HIDE DEF n
<1>4. Core(n) BY <1>1, SameImageCore
<1>5. Served(n) BY <1>1, <1>3 DEF Served, SameImage
<1>6. Fresh(n) BY <1>1, <1>3 DEF Fresh, IsHeavy
<1> QED BY <1>1, <1>4, <1>5, <1>6 DEF Keeps, Steady, SameImage, n

\* A job of another kind follows none that the worker still serves.
LEMMA NoJobSteady ==
    ASSUME NEW k, Core(k), NEW n, SameImage(k, n), ~n.busy, n.job.k # "none" => n.job.ph # "work",
           n.job.k \notin {"preview", "restore"}, n.job.ph # "refused"
    PROVE  Keeps(k, n)
BY SameImageCore DEF Keeps, Steady, Served, Fresh, SameImage

LEMMA StartPreviewKeeps ==
    ASSUME NEW k, Core(k), ~k.busy
    PROVE  Keeps(k, StartPreview(k))
<1>0. k \in EditorRecord BY DEF Core
<1>1. CASE k.img = 0
    <2> DEFINE n == [k EXCEPT !.status = "empty", !.job = NoJob]
    <2>1. n \in EditorRecord BY <1>0, JobsTyped, EditorNames DEF EditorRecord
    <2>2. SameImage(k, n) /\ n.job = NoJob /\ n.busy = k.busy BY <1>0, <2>1 DEF EditorRecord, SameImage
    <2>3. StartPreview(k) = Rendered(n) BY <1>1 DEF StartPreview
    <2> HIDE DEF n
    <2>4. Keeps(k, n) BY <2>2, JobsTyped, NoJobSteady
    <2> QED BY <2>3, <2>4, RenderedKeeps, KeepsTwice DEF Keeps
<1>2. CASE k.img # 0
    <2> DEFINE job == [NoJob EXCEPT !.k = "preview", !.ok = TRUE, !.run = TRUE, !.what = ContentOf(k)]
               m == [k EXCEPT !.job = job]
               n == TakeWorker(m)
    <2>1. ContentOf(k) \in Content BY <1>0 DEF EditorRecord, ContentOf, Content
    <2>2. job \in Job /\ job.k = "preview" /\ job.what = ContentOf(k)
        <3> HIDE DEF Content
        <3> QED BY <2>1, JobsTyped DEF Job, JobKinds
    <2>3. StartPreview(k) = n BY <1>2 DEF StartPreview
    <2> HIDE DEF job
    <2>4. m \in EditorRecord BY <1>0, <2>2 DEF EditorRecord
    <2>5. SameImage(k, m) /\ m.job = job /\ ~m.busy BY <1>0, <2>4 DEF EditorRecord, SameImage
    <2> HIDE DEF m
    <2>6. SameImage(m, n) /\ n.busy /\ n.job = [job EXCEPT !.ph = "work"]
        BY <2>4, <2>5, TakeWorkerSame
    <2>7. n.job.k = "preview" /\ n.job.ph = "work" /\ n.job.what = ContentOf(k)
        BY <2>2, <2>6 DEF Job
    <2> HIDE DEF n
    <2>8. SameImage(k, n) BY <2>5, <2>6 DEF SameImage
    <2>9. Core(n) BY <2>8, SameImageCore
    <2>10. Served(n) BY <1>2, <2>6, <2>7, <2>8 DEF Served, SameImage
    <2>11. Fresh(n) BY <2>7, <2>8 DEF Fresh, ContentOf, SameImage
    <2> QED BY <2>3, <2>8, <2>9, <2>10, <2>11 DEF Keeps, Steady, SameImage
<1> QED BY <1>1, <1>2

\* The promise of a job settles: it is over, and a preview that waited for it runs.
LEMMA SettledKeeps ==
    ASSUME NEW k, Core(k), ~k.busy
    PROVE  Keeps(k, Settled(k))
<1> DEFINE n == [k EXCEPT !.job = NoJob]
           m == [k EXCEPT !.job = NoJob, !.pend = FALSE]
<1>0. k \in EditorRecord BY DEF Core
<1>1. n \in EditorRecord BY <1>0, JobsTyped DEF EditorRecord
<1>2. SameImage(k, n) /\ n.job = NoJob /\ ~n.busy BY <1>0, <1>1 DEF EditorRecord, SameImage
<1>3. m \in EditorRecord BY <1>0, JobsTyped DEF EditorRecord
<1>4. SameImage(k, m) /\ m.job = NoJob /\ ~m.busy BY <1>0, <1>3 DEF EditorRecord, SameImage
<1>5. Settled(k) = IF k.pend THEN StartPreview(m) ELSE n BY DEF Settled
<1> HIDE DEF n, m
<1>6. Keeps(k, n) BY <1>2, JobsTyped, NoJobSteady
<1>7. Core(m) /\ m.prev = k.prev BY <1>4, SameImageCore DEF SameImage
<1>8. Keeps(k, StartPreview(m)) BY <1>4, <1>7, StartPreviewKeeps DEF Keeps
<1> QED BY <1>5, <1>6, <1>8

LEMMA RunPreviewKeeps == ASSUME NEW k, Steady(k) PROVE Keeps(k, RunPreview(k))
<1>0. k \in EditorRecord /\ k.job \in Job BY DEF Steady, Core, EditorRecord
<1>1. CASE IsHeavy(k)
    <2> DEFINE n == [k EXCEPT !.pend = TRUE]
    <2>1. n \in EditorRecord BY <1>0 DEF EditorRecord
    <2>2. SameImage(k, n) /\ n.job = k.job /\ n.busy = k.busy BY <1>0, <2>1 DEF EditorRecord, SameImage
    <2>3. RunPreview(k) = n BY <1>1 DEF RunPreview
    <2> HIDE DEF n
    <2> QED BY <2>2, <2>3, SameImageCore DEF Keeps, Steady, Served, Fresh, SameImage, ContentOf
<1>2. CASE ~IsHeavy(k) /\ k.job.k = "preview"
    <2> DEFINE job == [k.job EXCEPT !.ok = FALSE]
               n == [k EXCEPT !.job = job, !.pend = TRUE]
    <2>1. /\ job \in Job /\ job.k = k.job.k /\ job.ph = k.job.ph /\ job.what = k.job.what /\ ~job.ok
        BY <1>0 DEF Job
    <2>2. RunPreview(k) = n BY <1>0, <1>2 DEF RunPreview, EditorRecord
    <2> HIDE DEF job
    <2>3. n \in EditorRecord BY <1>0, <2>1 DEF EditorRecord
    <2>4. SameImage(k, n) /\ n.job = job /\ n.busy = k.busy BY <1>0, <2>3 DEF EditorRecord, SameImage
    <2> HIDE DEF n
    <2>5. Core(n) BY <2>4, SameImageCore DEF Steady
    <2>6. Served(n) BY <2>1, <2>4 DEF Steady, Served, SameImage
    <2>7. Fresh(n) BY <2>1, <2>4 DEF Fresh
    <2> QED BY <2>2, <2>4, <2>5, <2>6, <2>7 DEF Keeps, Steady, SameImage
<1>3. CASE ~IsHeavy(k) /\ k.job.k # "preview"
    <2>1. ~k.busy BY <1>3 DEF Steady, Served, IsHeavy
    <2> QED BY <1>3, <2>1, StartPreviewKeeps DEF RunPreview, Steady
<1> QED BY <1>1, <1>2, <1>3

\* A new generation: no job is left, and the worker is free.
LEMMA InvalidateKeeps ==
    ASSUME NEW k, Core(k)
    PROVE  LET n == Invalidate(k)
           IN  Keeps(k, n) /\ SameImage(k, n) /\ n.job = NoJob /\ ~n.busy
<1> DEFINE stray == k.stray \/ (k.job.k = "draw" /\ k.job.ph = "ask")
           m == [k EXCEPT !.job = NoJob, !.pend = FALSE, !.stray = stray]
           n == TerminateWorker(m)
<1>0. k \in EditorRecord BY DEF Core
<1>1. stray \in BOOLEAN BY <1>0 DEF EditorRecord
<1>2. Invalidate(k) = n BY DEF Invalidate
<1> HIDE DEF stray
<1>3. m \in EditorRecord BY <1>0, <1>1, JobsTyped DEF EditorRecord
<1>4. SameImage(k, m) /\ m.job = NoJob BY <1>0, <1>3 DEF EditorRecord, SameImage
<1> HIDE DEF m
<1>5. SameImage(m, n) /\ ~n.busy /\ n.job = NoJob BY <1>3, <1>4, TerminateSame
<1> HIDE DEF n
<1>6. SameImage(k, n) BY <1>4, <1>5 DEF SameImage
<1>7. Keeps(k, n) BY <1>5, <1>6, JobsTyped, NoJobSteady
<1> QED BY <1>2, <1>5, <1>6, <1>7

\* A heavy job, before the worker takes it.
LEMMA HeavySame ==
    ASSUME NEW k, Core(k), NEW kind \in JobKinds, NEW what \in Content
    PROVE  LET n == HeavyJob(k, kind, what)
           IN  /\ SameImage(k, n) /\ ~n.busy /\ n.job \in Job
               /\ n.job.k = kind /\ n.job.what = what /\ n.job.ph = "work"
<1> DEFINE i == Invalidate(k)
           job == [NoJob EXCEPT !.k = kind, !.ok = TRUE, !.what = what]
           n == [i EXCEPT !.job = job]
<1>1. SameImage(k, i) /\ i.job = NoJob /\ ~i.busy BY InvalidateKeeps
<1>2. job \in Job /\ job.k = kind /\ job.what = what /\ job.ph = "work"
    <2> HIDE DEF Content
    <2> QED BY JobsTyped DEF Job
<1>3. HeavyJob(k, kind, what) = n BY <1>1 DEF HeavyJob, SameImage, EditorRecord
<1> HIDE DEF i, job
<1>4. n \in EditorRecord BY <1>1, <1>2 DEF EditorRecord, SameImage
<1>5. SameImage(i, n) /\ n.job = job /\ ~n.busy BY <1>1, <1>4 DEF EditorRecord, SameImage
<1> HIDE DEF n
<1> QED BY <1>1, <1>2, <1>3, <1>5 DEF SameImage

LEMMA HeavyTaken ==
    ASSUME NEW k, Core(k), NEW kind \in JobKinds \ {"none", "preview"}, NEW what \in Content,
           kind = "restore" => what.img \in 1..k.loads
    PROVE  Keeps(k, TakeWorker(HeavyJob(k, kind, what)))
<1> DEFINE h == HeavyJob(k, kind, what)
           n == TakeWorker(h)
<1>1. /\ SameImage(k, h) /\ ~h.busy /\ h.job \in Job
      /\ h.job.k = kind /\ h.job.what = what /\ h.job.ph = "work"
    BY HeavySame
<1> HIDE DEF h
<1>2. SameImage(h, n) /\ n.busy /\ n.job = [h.job EXCEPT !.ph = "work"]
    BY <1>1, TakeWorkerSame DEF SameImage
<1>3. n.job.k = kind /\ n.job.what = what /\ n.job.ph = "work" BY <1>1, <1>2 DEF Job
<1> HIDE DEF n
<1>4. SameImage(k, n) BY <1>1, <1>2 DEF SameImage
<1>5. Core(n) BY <1>4, SameImageCore
<1>6. Served(n) BY <1>2, <1>3, <1>4 DEF Served, SameImage
<1>7. Fresh(n) BY <1>3 DEF Fresh
<1> QED BY <1>4, <1>5, <1>6, <1>7 DEF Keeps, Steady, SameImage, n, h

-----------------------------------------------------------------------------
(* The controller.                                                          *)

\* What a record shows, apart from its picture and its work.
LEMMA StatusShows ==
    ASSUME NEW k, Core(k), NEW status \in Statuses
    PROVE  Shows(k, [k EXCEPT !.status = status])
<1> DEFINE n == [k EXCEPT !.status = status]
<1>1. n \in EditorRecord BY DEF Core, EditorRecord
<1>2. SameWork(k, n) /\ n.mode = k.mode BY DEF Core, EditorRecord, SameWork
<1> HIDE DEF n
<1>3. Shows(k, n) BY <1>1, <1>2 DEF Shows, Core, Loaded
<1> QED BY <1>3 DEF n

LEMMA StatusKeeps ==
    ASSUME NEW k, NEW status \in Statuses
    PROVE  /\ Steady(k) => /\ Keeps(k, [k EXCEPT !.status = status])
                           /\ Keeps(k, Rendered([k EXCEPT !.status = status]))
           /\ Core(k) => /\ Core(Rendered([k EXCEPT !.status = status]))
                         /\ SameWork(k, Rendered([k EXCEPT !.status = status]))
<1> DEFINE n == [k EXCEPT !.status = status]
<1>1. Core(k) => Shows(k, n) BY StatusShows
<1> HIDE DEF n
<1>2. Core(k) => Shows(k, Rendered(n)) BY <1>1, RenderedShows, ShowsTwice DEF Shows
<1>3. /\ Steady(k) => Keeps(k, n) /\ Keeps(k, Rendered(n))
      /\ Core(k) => Core(Rendered(n)) /\ SameWork(k, Rendered(n))
    BY <1>1, <1>2, ShowsSteady DEF Steady, Shows
<1> QED BY <1>3 DEF n

LEMMA SchedulePreviewKeeps ==
    ASSUME NEW k, Core(k), Served(k)
    PROVE  Keeps(k, SchedulePreview(k))
<1> DEFINE s == SupersedePreview(k)
           a == [k EXCEPT !.pend = TRUE]
           b == [s EXCEPT !.status = "ready"]
           h == [s EXCEPT !.held = TRUE]
           d == [s EXCEPT !.timer = TRUE, !.status = "processing"]
<1>0. k \in EditorRecord BY DEF Core
<1>1. SchedulePreview(k) = IF IsHeavy(k) THEN a ELSE IF k.mode = "prepare" THEN Rendered(b)
                           ELSE IF k.hold THEN h ELSE Rendered(d)
    BY DEF SchedulePreview
<1>2. Keeps(k, s) /\ s \in EditorRecord /\ Core(s) BY SupersedeKeeps DEF SameImage, Keeps, Steady
<1>3. IsHeavy(k) => Keeps(k, a)
    <2>1. a \in EditorRecord BY <1>0 DEF EditorRecord
    <2>2. SameImage(k, a) /\ a.job = k.job /\ a.busy = k.busy BY <1>0, <2>1 DEF EditorRecord, SameImage
    <2> HIDE DEF a
    <2> QED BY <2>2, SameImageCore DEF Keeps, Steady, Served, Fresh, SameImage, IsHeavy
<1> HIDE DEF a, s
<1>4. Keeps(k, Rendered(b)) BY <1>2, EditorNames, StatusKeeps, KeepsTwice DEF Keeps
<1>5. Keeps(k, h)
    <2>1. h \in EditorRecord BY <1>2 DEF EditorRecord
    <2>2. SameWork(s, h) /\ h.mode = s.mode BY <1>2 DEF EditorRecord, SameWork
    <2> HIDE DEF h
    <2>3. Shows(s, h) BY <1>2, <2>1, <2>2 DEF Shows, Core, Loaded
    <2> QED BY <1>2, <2>3, ShowsSteady DEF Keeps
<1>6. Keeps(k, Rendered(d))
    <2>1. d \in EditorRecord BY <1>2, EditorNames DEF EditorRecord
    <2>2. SameWork(s, d) /\ d.mode = s.mode BY <1>2 DEF EditorRecord, SameWork
    <2> HIDE DEF d
    <2>3. Shows(s, d) BY <1>2, <2>1, <2>2 DEF Shows, Core, Loaded
    <2>4. Keeps(k, d) BY <1>2, <2>3, ShowsSteady DEF Keeps
    <2> QED BY <2>4, RenderedKeeps, KeepsTwice DEF Keeps
<1> QED BY <1>1, <1>3, <1>4, <1>5, <1>6

\* Another target drops the preview in force, and what was computed for the old one.
LEMMA SyncTargetKeeps ==
    ASSUME NEW k, Steady(k), NEW target \in 0..MaxRevisions
    PROVE  Keeps(k, SyncTarget(k, target))
<1> DEFINE job == [k.job EXCEPT !.run = FALSE]
           n == [k EXCEPT !.cal = target, !.timer = FALSE, !.job = job, !.out = Nothing]
<1>0. k \in EditorRecord /\ k.job \in Job BY DEF Steady, Core, EditorRecord
<1>1. SyncTarget(k, target) = IF k.cal = target THEN k ELSE n BY <1>0 DEF SyncTarget, EditorRecord
<1>2. job \in Job /\ job.k = k.job.k /\ job.ph = k.job.ph /\ job.what = k.job.what /\ ~job.run
    BY <1>0 DEF Job
<1> HIDE DEF job
<1>3. n \in EditorRecord BY <1>0, <1>2, JobsTyped DEF EditorRecord
<1>4. /\ n.mode = k.mode /\ n.img = k.img /\ n.prev = k.prev /\ n.load = k.load
      /\ n.loads = k.loads /\ n.busy = k.busy /\ n.job = job
    BY <1>0 DEF EditorRecord
<1> HIDE DEF n
<1>5. Core(n) BY <1>3, <1>4 DEF Core, Steady, Loaded
<1>6. Served(n) BY <1>2, <1>4 DEF Served, Steady
<1>7. Fresh(n) BY <1>2, <1>4 DEF Fresh
<1> QED BY <1>1, <1>4, <1>5, <1>6, <1>7, SteadyKeeps DEF Keeps, Steady

LEMMA SyncCalibrationKeeps ==
    ASSUME NEW k, Steady(k), NEW target \in 0..MaxRevisions
    PROVE  Keeps(k, SyncEpaperCalibration(k, target))
<1> DEFINE s == SyncTarget(k, target)
<1>1. Keeps(k, s) BY SyncTargetKeeps
<1>2. SyncEpaperCalibration(k, target) \in {SchedulePreview(s), Rendered(s)} BY DEF SyncEpaperCalibration
<1> HIDE DEF s
<1>3. Keeps(s, SchedulePreview(s)) /\ Keeps(s, Rendered(s))
    BY <1>1, SchedulePreviewKeeps, RenderedKeeps DEF Keeps, Steady
<1> QED BY <1>1, <1>2, <1>3, KeepsTwice

\* A load that begins is newer than what is shown; what runs is dropped.
LEMMA BeginLoadKeeps ==
    ASSUME NEW k, Core(k), k.loads < MaxLoads
    PROVE  Keeps(k, BeginSourceLoad(k))
<1> DEFINE i == Invalidate(k)
           n == [i EXCEPT !.timer = FALSE, !.held = FALSE, !.load = TRUE, !.loads = k.loads + 1]
<1>1. Keeps(k, i) /\ SameImage(k, i) /\ i.job = NoJob /\ ~i.busy BY InvalidateKeeps
<1>2. BeginSourceLoad(k) = n BY <1>1 DEF BeginSourceLoad, SameImage, EditorRecord
<1>3. k.loads \in Nat /\ k.img \in Nat /\ k.loads + 1 \in 0..MaxLoads
    BY EditorBounds DEF Core, EditorRecord
<1> HIDE DEF i
<1>4. n \in EditorRecord BY <1>1, <1>3 DEF SameImage, EditorRecord
<1>5. /\ n.img = k.img /\ n.mode = k.mode /\ n.prev = k.prev /\ n.loads = k.loads + 1
      /\ n.job = NoJob /\ ~n.busy
    BY <1>1 DEF SameImage, EditorRecord
<1> HIDE DEF n
<1>6. Core(n) BY <1>3, <1>4, <1>5 DEF Core, Loaded
<1> QED BY <1>2, <1>5, <1>6, JobsTyped DEF Keeps, Steady, Served, Fresh

\* The picture that was read takes the place of the one before it, with no preview.
LEMMA LoadResultSteady ==
    ASSUME NEW k, Steady(k), k.load, NEW target \in 0..MaxRevisions
    PROVE  Steady(LoadResult(k, target)) /\ LoadResult(k, target).img # k.img
<1> DEFINE n == [k EXCEPT !.load = FALSE, !.img = k.loads, !.rev = 0, !.cal = target, !.pal = FALSE,
                          !.prev = Nothing, !.out = Nothing, !.status = "ready"]
           p == EnterPrepare(n)
<1>0. k \in EditorRecord /\ k.loads \in Nat /\ k.img \in Nat /\ k.img < k.loads
    BY DEF Steady, Core, Loaded, EditorRecord
<1>1. LoadResult(k, target) = Rendered(p) BY DEF LoadResult
<1>2. n \in EditorRecord
    <2>1. 0 \in 0..MaxChanges /\ "ready" \in Statuses /\ Nothing \in Content
        BY EditorBounds, EditorNames, JobsTyped
    <2> QED BY <1>0, <2>1, ZenonT(60) DEF EditorRecord
<1>3. n.img = k.loads /\ n.loads = k.loads /\ n.prev = Nothing /\ ~n.load /\ n.job = k.job /\ n.busy = k.busy
    BY <1>0 DEF EditorRecord
<1> HIDE DEF n
<1>4. p \in EditorRecord /\ SameWork(n, p) /\ p.mode = "prepare"
    <2>1. n.img # 0 BY <1>0, <1>3
    <2> QED BY <1>2, <2>1, Modal, Zenon
<1> HIDE DEF p
<1>5. Core(p) BY <1>0, <1>3, <1>4 DEF Core, Loaded, SameWork
<1>6. Served(p) BY <1>0, <1>3, <1>4 DEF Steady, Served, SameWork
<1>7. Steady(p) BY <1>4, <1>5, <1>6 DEF Steady, Fresh
<1>8. Keeps(p, Rendered(p)) /\ SameWork(p, Rendered(p)) BY <1>7, RenderedKeeps DEF Steady
<1> QED BY <1>0, <1>1, <1>3, <1>4, <1>8 DEF Keeps, SameWork

\* A project's picture is one that was opened, and no work is left at it.
LEMMA RestoredCore ==
    ASSUME NEW k, Core(k), ~k.busy, k.job.what.img \in 1..k.loads
    PROVE  Core(Restored(k, "edit")) /\ ~Restored(k, "edit").busy
<1> DEFINE open == {t \in Tools : Group(t) = "edit"}
           what == k.job.what
           status == IF "edit" = "prepare" THEN "ready" ELSE "preview-ready"
           n == [k EXCEPT !.img = what.img, !.rev = 0, !.cal = what.cal, !.pal = TRUE,
                          !.prev = what, !.out = what, !.load = FALSE, !.mode = "edit",
                          !.open = open, !.status = status]
<1>0. k \in EditorRecord /\ k.loads \in 0..MaxLoads /\ what \in Content
    <2>1. k \in EditorRecord /\ k.loads \in 0..MaxLoads /\ k.job \in Job BY DEF Core, EditorRecord
    <2> QED BY <2>1, JobsTyped
<1>1. Restored(k, "edit") = Rendered(n) BY Zenon DEF Restored
<1>2. /\ open \in Panels /\ status \in Statuses /\ "edit" \in Modes /\ 0 \in 0..MaxChanges
      /\ what.img \in 0..MaxLoads /\ what.cal \in 0..MaxRevisions
    BY <1>0, EditorNames, EditorBounds DEF Content, Modes
<1>9. what.img \in 1..k.loads OBVIOUS
<1> HIDE DEF open, what, status
<1>3. n \in EditorRecord BY <1>0, <1>2, ZenonT(60) DEF EditorRecord
<1>4. n.img = what.img /\ n.loads = k.loads /\ ~n.load /\ n.busy = k.busy BY <1>0 DEF EditorRecord
<1> HIDE DEF n
<1>5. Core(n) BY <1>0, <1>3, <1>4, <1>9 DEF Core, Loaded
<1> QED BY <1>1, <1>4, <1>5, RenderedKeeps DEF SameWork

LEMMA PreviewReadyKeeps ==
    ASSUME NEW k, Steady(k)
    PROVE  Keeps(k, PreviewReady(k))
<1> DEFINE s == IF k.status \in Transient
                THEN IF k.prev # Nothing THEN "preview-ready" ELSE "ready" ELSE k.status
<1>1. k \in EditorRecord /\ s \in Statuses BY EditorNames DEF Steady, Core, EditorRecord
<1>2. PreviewReady(k) = [k EXCEPT !.status = s] BY <1>1 DEF PreviewReady, EditorRecord
<1> HIDE DEF s
<1> QED BY <1>1, <1>2, StatusKeeps

\* The worker stops, and what failed is over.
LEMMA FailedKeeps == ASSUME NEW k, Core(k) PROVE Keeps(k, Failed(k))
<1> DEFINE w == TerminateWorker(k)
           r == Rendered([w EXCEPT !.status = "error"])
<1>1. SameImage(k, w) /\ ~w.busy BY TerminateSame DEF Core
<1>2. Failed(k) = Settled(r) BY DEF Failed
<1>3. Core(w) BY <1>1, SameImageCore
<1> HIDE DEF w
<1>4. Core(r) /\ SameWork(w, r) BY <1>3, EditorNames, StatusKeeps
<1> HIDE DEF r
<1> QED BY <1>1, <1>2, <1>4, SettledKeeps DEF Keeps, SameWork, SameImage

-----------------------------------------------------------------------------
(* The panels.                                                              *)

\* Another mode, with the crop tool left or not.
Turned(k, n) == n \in EditorRecord /\ SameWork(k, n) /\ (k.img = 0 => n.mode = "source")

LEMMA TurnedServed ==
    ASSUME NEW k, NEW n, Core(k), Served(k), Turned(k, n)
    PROVE  Core(n) /\ Served(n) /\ n.prev = k.prev
BY DEF Turned, SameWork, Core, Loaded, Served

LEMMA TurnedScheduled ==
    ASSUME NEW k, NEW n, Steady(k), Turned(k, n)
    PROVE  /\ Keeps(k, SchedulePreview(n))
           /\ k.mode # "prepare" => Keeps(k, Rendered(n))
<1>1. Core(n) /\ Served(n) /\ n.prev = k.prev BY TurnedServed DEF Steady
<1>2. Keeps(k, SchedulePreview(n)) BY <1>1, SchedulePreviewKeeps DEF Keeps
<1>3. ASSUME k.mode # "prepare" PROVE Keeps(k, Rendered(n))
    <2>1. Shows(k, n) BY <1>3 DEF Turned, Shows
    <2> QED BY <2>1, ShowsSteady, RenderedKeeps, KeepsTwice DEF Keeps
<1> QED BY <1>2, <1>3

LEMMA CommitTurned ==
    ASSUME NEW k, NEW m, Turned(k, m) PROVE Turned(k, CommitPrepareChanges(m))
<1> DEFINE n == [m EXCEPT !.pal = TRUE]
<1>1. n \in EditorRecord BY DEF Turned, EditorRecord
<1>2. SameWork(m, n) /\ n.mode = m.mode BY DEF Turned, EditorRecord, SameWork
<1> HIDE DEF n
<1>3. Turned(k, n) BY <1>1, <1>2 DEF Turned, SameWork
<1> QED BY <1>3 DEF n, CommitPrepareChanges

LEMMA OpenPrepareKeeps == ASSUME NEW k, Steady(k) PROVE Keeps(k, OpenPrepareMode(k))
<1> DEFINE s == SupersedePreview(k)
           m == [s EXCEPT !.timer = FALSE, !.status = "ready"]
           p == EnterPrepare(m)
<1>1. Keeps(k, s) /\ SameImage(k, s) /\ s \in EditorRecord BY SupersedeKeeps DEF Steady, SameImage
<1>2. OpenPrepareMode(k) = IF k.img = 0 THEN k ELSE Rendered(p) BY DEF OpenPrepareMode
<1> HIDE DEF s
<1>3. m \in EditorRecord BY <1>1, EditorNames DEF EditorRecord
<1>4. SameWork(s, m) /\ m.mode = s.mode BY <1>1 DEF EditorRecord, SameWork
<1> HIDE DEF m
<1>5. CASE k.img # 0
    <2>1. m.img # 0 BY <1>1, <1>4, <1>5 DEF SameImage, SameWork
    <2>2. p \in EditorRecord /\ SameWork(m, p) /\ p.mode = "prepare" BY <1>3, <2>1, Modal, Zenon
    <2> HIDE DEF p
    <2>3. Shows(s, p) BY <1>4, <2>1, <2>2 DEF Shows, SameWork
    <2> QED BY <1>1, <1>2, <1>5, <2>3, ShowsSteady, RenderedKeeps, KeepsTwice DEF Keeps
<1> QED BY <1>2, <1>5, SteadyKeeps

LEMMA OpenSourceKeeps == ASSUME NEW k, Steady(k) PROVE Keeps(k, OpenSourcePanel(k))
<1>1. Turned(k, EnterSource(k)) BY Modal DEF Turned, Steady, Core
<1> QED BY <1>1, TurnedScheduled DEF OpenSourcePanel

LEMMA OpenEditKeeps ==
    ASSUME NEW k, Steady(k), NEW t \in Tools PROVE Keeps(k, OpenEditPanel(k, t))
<1>0. k \in EditorRecord BY DEF Steady, Core
<1>1. Turned(k, OpenEditTool(k, t)) BY <1>0, Modal DEF Turned
<1> QED BY <1>1, CommitTurned, TurnedScheduled DEF OpenEditPanel

LEMMA ClosePrepareKeeps == ASSUME NEW k, Steady(k) PROVE Keeps(k, ClosePrepareMode(k))
<1>0. k \in EditorRecord BY DEF Steady, Core
<1>1. Turned(k, EnterEdit(k)) BY <1>0, Modal DEF Turned
<1> QED BY <1>1, CommitTurned, TurnedScheduled DEF ClosePrepareMode

LEMMA PanelsKeeps ==
    ASSUME NEW k, Steady(k), NEW open \in Panels
    PROVE  Keeps(k, Rendered([k EXCEPT !.open = open]))
<1> DEFINE n == [k EXCEPT !.open = open]
<1>1. n \in EditorRecord BY DEF Steady, Core, EditorRecord
<1>2. SameWork(k, n) /\ n.mode = k.mode BY DEF Steady, Core, EditorRecord, SameWork
<1> HIDE DEF n
<1>3. Shows(k, n) BY <1>1, <1>2 DEF Shows, Steady, Core, Loaded
<1>4. Keeps(k, Rendered(n)) BY <1>3, ShowsSteady, RenderedKeeps, KeepsTwice DEF Keeps
<1> QED BY <1>4 DEF n

-----------------------------------------------------------------------------
(* Steps.                                                                   *)

\* What the two properties ask of a step from k to n.
Commits(k, n) ==
    k.job.k = "preview" /\ n.prev # k.prev /\ k.mode = "edit" /\ k.img = n.img
    => n.prev = ContentOf(k)
StepOk(k, n) == Steady(n) /\ Commits(k, n)

LEMMA KeepsOk == ASSUME NEW k, NEW n, Keeps(k, n) PROVE StepOk(k, n)
BY DEF Keeps, StepOk, Commits

LEMMA UserOk ==
    ASSUME EditorInductive, UserNext
    PROVE  StepOk(e, e') /\ UNCHANGED <<op, policy>>
<1>0. Steady(e) /\ Core(e) /\ Served(e) /\ e \in EditorRecord BY DEF EditorInductive, Steady, Core
<1>1. ASSUME LoadFile PROVE Keeps(e, e') /\ UNCHANGED <<op, policy>>
    <2> DEFINE b == BeginSourceLoad(e)
    <2>1. Keeps(e, b) BY <1>0, <1>1, BeginLoadKeeps DEF LoadFile
    <2>2. e' = Rendered([b EXCEPT !.status = "loading"]) /\ UNCHANGED <<op, policy>>
        BY <1>1 DEF LoadFile, Does
    <2> HIDE DEF b
    <2> QED BY <2>1, <2>2, EditorNames, StatusKeeps, KeepsTwice DEF Keeps
<1>2. ASSUME UpdateSetting PROVE Keeps(e, e') /\ UNCHANGED <<op, policy>>
    <2> DEFINE k == [e EXCEPT !.rev = e.rev + 1]
               p == [k EXCEPT !.status = "ready", !.pal = FALSE]
    <2>1. e.rev < MaxChanges /\ e.rev \in 0..MaxChanges BY <1>0, <1>2 DEF UpdateSetting, EditorRecord
    <2>2. e.rev + 1 \in 0..MaxChanges BY <2>1, EditorBounds
    <2>3. k \in EditorRecord BY <1>0, <2>2 DEF EditorRecord
    <2>4. /\ k.mode = e.mode /\ k.img = e.img /\ k.prev = e.prev /\ k.job = e.job /\ k.busy = e.busy
          /\ k.load = e.load /\ k.loads = e.loads
        BY <1>0 DEF EditorRecord
    <2>5. e' = (IF e.mode = "prepare" THEN Rendered(p) ELSE SchedulePreview(k)) /\ UNCHANGED <<op, policy>>
        BY <1>0, <1>2 DEF UpdateSetting, Does, EditorRecord
    <2> HIDE DEF k
    <2>6. Core(k) /\ Served(k) BY <1>0, <2>3, <2>4 DEF Core, Loaded, Served
    <2>7. CASE e.mode = "prepare"
        <3>1. p \in EditorRecord BY <2>3, EditorNames DEF EditorRecord
        <3>2. SameWork(k, p) /\ p.mode = k.mode BY <2>3 DEF EditorRecord, SameWork
        <3> HIDE DEF p
        <3>3. Steady(k) BY <2>4, <2>6, <2>7 DEF Steady, Fresh
        <3>4. Shows(k, p) BY <2>6, <3>1, <3>2 DEF Shows, Core, Loaded
        <3>5. Keeps(k, Rendered(p)) BY <3>3, <3>4, ShowsSteady, RenderedKeeps, KeepsTwice DEF Keeps
        <3> QED BY <2>4, <2>5, <2>7, <3>5 DEF Keeps
    <2>8. CASE e.mode # "prepare"
        BY <2>4, <2>5, <2>6, <2>8, SchedulePreviewKeeps DEF Keeps
    <2> QED BY <2>5, <2>7, <2>8
<1>3. ASSUME BeginPreviewHold PROVE Keeps(e, e') /\ UNCHANGED <<op, policy>>
    <2> DEFINE timer == IsHeavy(e) /\ e.timer
               n == [e EXCEPT !.hold = TRUE, !.timer = timer]
    <2>1. e' = n /\ UNCHANGED <<op, policy>> BY <1>0, <1>3 DEF BeginPreviewHold, Does, EditorRecord
    <2>2. timer \in BOOLEAN BY <1>0 DEF EditorRecord
    <2> HIDE DEF timer
    <2>3. n \in EditorRecord BY <1>0, <2>2 DEF EditorRecord
    <2>4. SameWork(e, n) /\ n.mode = e.mode BY <1>0 DEF EditorRecord, SameWork
    <2> HIDE DEF n
    <2>5. Shows(e, n) BY <1>0, <2>3, <2>4 DEF Shows, Core, Loaded
    <2> QED BY <1>0, <2>1, <2>5, ShowsSteady
<1>4. ASSUME EndPreviewHold PROVE Keeps(e, e') /\ UNCHANGED <<op, policy>>
    <2> DEFINE k == [e EXCEPT !.hold = FALSE]
               h == [k EXCEPT !.held = FALSE, !.timer = FALSE]
    <2>1. e' \in {SchedulePreview(h), Rendered(k)} /\ UNCHANGED <<op, policy>>
        BY <1>4 DEF EndPreviewHold, Does
    <2>2. k \in EditorRecord BY <1>0 DEF EditorRecord
    <2>3. SameWork(e, k) /\ k.mode = e.mode BY <1>0 DEF EditorRecord, SameWork
    <2> HIDE DEF k
    <2>4. h \in EditorRecord BY <2>2 DEF EditorRecord
    <2>5. SameWork(k, h) /\ h.mode = k.mode BY <2>2 DEF EditorRecord, SameWork
    <2> HIDE DEF h
    <2>6. Shows(e, k) /\ Shows(k, h) BY <1>0, <2>2, <2>3, <2>4, <2>5 DEF Shows, Core, Loaded, SameWork
    <2>7. Keeps(e, k) /\ Keeps(e, h) BY <1>0, <2>6, ShowsSteady, KeepsTwice DEF Keeps
    <2> QED BY <2>1, <2>7, SchedulePreviewKeeps, RenderedKeeps, KeepsTwice DEF Keeps, Steady
<1>5. ASSUME NEW t \in Tools, ClickTool(t) PROVE Keeps(e, e') /\ UNCHANGED <<op, policy>>
    <2> DEFINE less == e.open \ {t}
               more == IF t \in e.open THEN e.open \ {t} ELSE e.open \cup {t}
    <2>1. less \in Panels /\ more \in Panels BY <1>0 DEF EditorRecord, Panels
    <2>2. UNCHANGED <<op, policy>>
          /\ \/ e.img = 0 /\ e' = Rendered(EnterSource(e))
             \/ e' = Rendered([e EXCEPT !.open = less])
             \/ e' = OpenSourcePanel(e)
             \/ e' = ClosePrepareMode(e)
             \/ e' = OpenPrepareMode(e)
             \/ e' = OpenEditPanel(e, t)
             \/ e' = Rendered([e EXCEPT !.open = more])
        BY <1>5, Zenon DEF ClickTool, Does
    <2> HIDE DEF less, more
    <2>3. e.img = 0 => Keeps(e, Rendered(EnterSource(e)))
        <3>1. Turned(e, EnterSource(e)) BY <1>0, Modal DEF Turned
        <3>2. e.img = 0 => e.mode # "prepare" BY <1>0 DEF Core, Loaded
        <3> QED BY <1>0, <3>1, <3>2, TurnedScheduled
    <2> QED BY <1>0, <2>1, <2>2, <2>3, PanelsKeeps, OpenSourceKeeps, ClosePrepareKeeps,
               OpenPrepareKeeps, OpenEditKeeps
<1>6. ASSUME CropOk PROVE Keeps(e, e') /\ UNCHANGED <<op, policy>>
    BY <1>0, <1>6, ClosePrepareKeeps DEF CropOk, Does
<1>7. ContentOf(e) \in Content BY <1>0 DEF EditorRecord, ContentOf, Content
<1>8. ASSUME ExportPng PROVE Keeps(e, e') /\ UNCHANGED <<op, policy>>
    <2> DEFINE n == TakeWorker(HeavyJob(e, "export", ContentOf(e)))
    <2>1. Keeps(e, n) BY <1>0, <1>7, HeavyTaken DEF JobKinds
    <2>2. e' = Rendered([n EXCEPT !.status = "exporting"]) /\ UNCHANGED <<op, policy>>
        BY <1>8 DEF ExportPng, Does
    <2> HIDE DEF n
    <2> QED BY <2>1, <2>2, EditorNames, StatusKeeps, KeepsTwice DEF Keeps
<1>9. ASSUME CancelExport PROVE Keeps(e, e') /\ UNCHANGED <<op, policy>>
    <2> DEFINE n == Invalidate(e)
               s == IF e.prev # Nothing THEN "preview-ready" ELSE "ready"
    <2>1. Keeps(e, n) BY <1>0, InvalidateKeeps
    <2>2. e' = Rendered([n EXCEPT !.status = s]) /\ UNCHANGED <<op, policy>>
        BY <1>9 DEF CancelExport, Does
    <2>3. s \in Statuses BY EditorNames
    <2> HIDE DEF n, s
    <2> QED BY <2>1, <2>2, <2>3, StatusKeeps, KeepsTwice DEF Keeps
<1>10. ASSUME ExportProject PROVE Keeps(e, e') /\ UNCHANGED <<op, policy>>
    <2> DEFINE n == TakeWorker(HeavyJob(e, "project", ContentOf(e)))
    <2>1. Keeps(e, n) BY <1>0, <1>7, HeavyTaken DEF JobKinds
    <2>2. e' = Rendered([n EXCEPT !.status = "exporting-project"]) /\ UNCHANGED <<op, policy>>
        BY <1>10 DEF ExportProject, Does
    <2> HIDE DEF n
    <2> QED BY <2>1, <2>2, EditorNames, StatusKeeps, KeepsTwice DEF Keeps
<1>11. ASSUME DrawEpaper PROVE Keeps(e, e') /\ UNCHANGED <<op, policy>>
    <2> DEFINE h == HeavyJob(e, "draw", ContentOf(e))
               job == [h.job EXCEPT !.ph = "ask"]
               n == [h EXCEPT !.job = job]
    <2>1. SameImage(e, h) /\ ~h.busy /\ h.job \in Job /\ h.job.k = "draw"
        BY <1>0, <1>7, HeavySame DEF JobKinds
    <2>2. e' = [h EXCEPT !.job.ph = "ask"] /\ UNCHANGED <<op, policy>> BY <1>11 DEF DrawEpaper, Does
    <2> HIDE DEF h
    <2>3. e' = n BY <2>1, <2>2 DEF SameImage, EditorRecord
    <2>4. job \in Job /\ job.k = "draw" /\ job.ph = "ask" BY <2>1 DEF Job
    <2> HIDE DEF job
    <2>5. n \in EditorRecord BY <2>1, <2>4 DEF SameImage, EditorRecord
    <2>6. SameImage(h, n) /\ ~n.busy /\ n.job = job BY <2>1, <2>5 DEF SameImage, EditorRecord
    <2> HIDE DEF n
    <2>7. SameImage(e, n) BY <2>1, <2>6 DEF SameImage
    <2> QED BY <1>0, <2>2, <2>3, <2>4, <2>6, <2>7, NoJobSteady
<1>12. ASSUME Unmount PROVE Keeps(e, e') /\ UNCHANGED <<op, policy>>
    <2> DEFINE i == Invalidate(e)
               n == [i EXCEPT !.mounted = FALSE, !.load = FALSE, !.timer = FALSE,
                              !.hold = FALSE, !.held = FALSE, !.stray = FALSE]
    <2>1. Keeps(e, i) /\ i \in EditorRecord /\ i.job = NoJob /\ ~i.busy
        BY <1>0, InvalidateKeeps DEF SameImage
    <2>2. e' = n /\ UNCHANGED <<op, policy>> BY <1>12 DEF Unmount, Does
    <2> HIDE DEF i
    <2>3. n \in EditorRecord BY <2>1, ZenonT(60) DEF EditorRecord
    <2>4. /\ n.mode = i.mode /\ n.img = i.img /\ n.prev = i.prev /\ ~n.load /\ n.loads = i.loads
          /\ n.job = NoJob /\ ~n.busy
        BY <2>1 DEF EditorRecord
    <2> HIDE DEF n
    <2>5. Core(n) BY <2>1, <2>3, <2>4 DEF Keeps, Steady, Core, Loaded
    <2> QED BY <2>1, <2>2, <2>4, <2>5, JobsTyped DEF Keeps, Steady, Served, Fresh
<1>13. ASSUME Mount PROVE Keeps(e, e') /\ UNCHANGED <<op, policy>>
    <2> DEFINE m == [e EXCEPT !.mounted = TRUE]
               n == Rendered(m)
               s == SyncTarget(n, policy.cal)
               p == PreviewReady(s)
               r == Rendered(p)
    <2>1. m \in EditorRecord BY <1>0 DEF EditorRecord
    <2>2. SameWork(e, m) /\ m.mode = e.mode BY <1>0 DEF EditorRecord, SameWork
    <2>3. policy.cal \in 0..MaxRevisions BY DEF EditorInductive
    <2>4. UNCHANGED <<op, policy>>
          /\ \/ n.img = 0 /\ e' = Rendered(EnterSource(s))
             \/ e' = SchedulePreview(r)
             \/ e' = r
        BY <1>13, Zenon DEF Mount, Does
    <2> HIDE DEF m
    <2>5. Shows(e, m) BY <1>0, <2>1, <2>2 DEF Shows, Core, Loaded
    <2>6. Keeps(e, n) BY <1>0, <2>5, ShowsSteady, RenderedKeeps, KeepsTwice DEF Keeps
    <2> HIDE DEF n
    <2>7. Keeps(e, s) /\ (n.img = 0 => s.img = 0)
        <3>1. s.img = n.img BY <2>3, <2>6 DEF SyncTarget, Keeps, Steady, Core, EditorRecord
        <3> QED BY <2>3, <2>6, <3>1, SyncTargetKeeps, KeepsTwice DEF Keeps
    <2> HIDE DEF s
    <2>8. Keeps(e, p) BY <2>7, PreviewReadyKeeps, KeepsTwice DEF Keeps
    <2> HIDE DEF p
    <2>9. Keeps(e, r) BY <2>8, RenderedKeeps, KeepsTwice DEF Keeps
    <2> HIDE DEF r
    <2>10. Keeps(e, SchedulePreview(r)) BY <2>9, SchedulePreviewKeeps, KeepsTwice DEF Keeps, Steady
    <2>11. n.img = 0 => Keeps(e, Rendered(EnterSource(s)))
        <3>1. Turned(s, EnterSource(s)) BY <2>7, Modal DEF Turned, Keeps, Steady, Core
        <3>2. n.img = 0 => s.mode # "prepare" BY <2>7 DEF Keeps, Steady, Core, Loaded
        <3> QED BY <2>7, <3>1, <3>2, TurnedScheduled, KeepsTwice DEF Keeps
    <2> QED BY <2>4, <2>9, <2>10, <2>11
<1> QED BY <1>1, <1>2, <1>3, <1>4, <1>5, <1>6, <1>8, <1>9, <1>10, <1>11, <1>12, <1>13, KeepsOk
        DEF UserNext

LEMMA DecodedOk ==
    ASSUME EditorInductive, Decoded
    PROVE  StepOk(e, e') /\ UNCHANGED <<op, policy>>
<1>0. /\ Steady(e) /\ Core(e) /\ Served(e) /\ e \in EditorRecord
      /\ policy.cal \in 0..MaxRevisions
    BY DEF EditorInductive, Steady, Core
<1>1. ASSUME DecodeImage PROVE StepOk(e, e') /\ UNCHANGED <<op, policy>>
    <2>1. Steady(e') /\ e'.img # e.img BY <1>0, <1>1, LoadResultSteady DEF DecodeImage, Does
    <2> QED BY <1>1, <2>1 DEF StepOk, Commits, DecodeImage, Does
<1>2. ASSUME DecodeFails PROVE Keeps(e, e') /\ UNCHANGED <<op, policy>>
    <2> DEFINE n == [e EXCEPT !.load = FALSE, !.status = "error"]
    <2>1. e' = Rendered(n) /\ UNCHANGED <<op, policy>> BY <1>2 DEF DecodeFails, Does
    <2>2. n \in EditorRecord BY <1>0, EditorNames DEF EditorRecord
    <2>3. /\ n.mode = e.mode /\ n.img = e.img /\ n.rev = e.rev /\ n.cal = e.cal /\ n.prev = e.prev
          /\ n.job = e.job /\ n.busy = e.busy /\ ~n.load /\ n.loads = e.loads
        BY <1>0 DEF EditorRecord
    <2> HIDE DEF n
    <2>4. Core(n) BY <1>0, <2>2, <2>3 DEF Core, Loaded
    <2>5. Served(n) /\ Fresh(n) BY <1>0, <2>3 DEF Steady, Served, Fresh, ContentOf
    <2>6. Keeps(e, n) BY <2>3, <2>4, <2>5 DEF Keeps, Steady
    <2> QED BY <2>1, <2>6, RenderedKeeps, KeepsTwice DEF Keeps
<1>3. ASSUME DecodeProject PROVE Keeps(e, e') /\ UNCHANGED <<op, policy>>
    <2> DEFINE n == [e EXCEPT !.load = FALSE]
               what == [img |-> e.loads, rev |-> 0, cal |-> policy.cal]
    <2>1. /\ e' = IF IsHeavy(e) THEN n ELSE TakeWorker(HeavyJob(e, "restore", what))
          /\ UNCHANGED <<op, policy>>
        BY <1>3 DEF DecodeProject, Does
    <2>2. n \in EditorRecord BY <1>0 DEF EditorRecord
    <2>3. /\ n.mode = e.mode /\ n.img = e.img /\ n.rev = e.rev /\ n.cal = e.cal /\ n.prev = e.prev
          /\ n.job = e.job /\ n.busy = e.busy /\ ~n.load /\ n.loads = e.loads
        BY <1>0 DEF EditorRecord
    <2> HIDE DEF n
    <2>4. Keeps(e, n)
        <3>1. Core(n) BY <1>0, <2>2, <2>3 DEF Core, Loaded
        <3>2. Served(n) /\ Fresh(n) BY <1>0, <2>3 DEF Steady, Served, Fresh, ContentOf
        <3> QED BY <2>3, <3>1, <3>2 DEF Keeps, Steady
    <2>5. e.loads \in 0..MaxLoads /\ e.img \in 0..MaxLoads /\ e.img < e.loads
        BY <1>0, <1>3 DEF DecodeProject, Core, Loaded, EditorRecord
    <2>6. what \in Content /\ what.img \in 1..e.loads
        BY <1>0, <2>5, EditorBounds DEF Content
    <2> HIDE DEF what
    <2>7. Keeps(e, TakeWorker(HeavyJob(e, "restore", what)))
        BY <1>0, <2>6, HeavyTaken DEF JobKinds
    <2> QED BY <2>1, <2>4, <2>7
<1> QED BY <1>1, <1>2, <1>3, KeepsOk DEF Decoded

LEMMA TimerOk ==
    ASSUME EditorInductive, TimerFires
    PROVE  StepOk(e, e') /\ UNCHANGED <<op, policy>>
<1> DEFINE n == [e EXCEPT !.timer = FALSE]
<1>0. Steady(e) /\ Core(e) /\ e \in EditorRecord BY DEF EditorInductive, Steady, Core
<1>1. e' = RunPreview(n) /\ UNCHANGED <<op, policy>> BY DEF TimerFires, Does
<1>2. n \in EditorRecord BY <1>0 DEF EditorRecord
<1>3. SameWork(e, n) /\ n.mode = e.mode BY <1>0 DEF EditorRecord, SameWork
<1> HIDE DEF n
<1>4. Shows(e, n) BY <1>0, <1>2, <1>3 DEF Shows, Core, Loaded
<1>5. Keeps(e, RunPreview(n)) BY <1>0, <1>4, ShowsSteady, RunPreviewKeeps, KeepsTwice DEF Keeps
<1> QED BY <1>1, <1>5, KeepsOk

LEMMA PipelineOk ==
    ASSUME EditorInductive, Pipeline
    PROVE  StepOk(e, e') /\ op' \in {op, "none"} /\ UNCHANGED policy
<1>0. Steady(e) /\ Core(e) /\ Served(e) /\ e \in EditorRecord /\ e.job \in Job
    BY DEF EditorInductive, Steady, Core, EditorRecord
<1> DEFINE w == TerminateWorker(e)
<1>1. SameImage(e, w) /\ ~w.busy /\ w.job = e.job /\ Core(w)
    BY <1>0, TerminateSame, SameImageCore
<1>2. ASSUME PreviewComputed PROVE StepOk(e, e') /\ UNCHANGED <<op, policy>>
    <2> DEFINE what == e.job.what
               n == [w EXCEPT !.prev = what, !.out = what, !.status = "preview-ready"]
    <2>1. /\ e.job.k = "preview" /\ UNCHANGED <<op, policy>>
          /\ e' = Settled(IF e.job.ok /\ e.job.run THEN Rendered(n) ELSE w)
        BY <1>2, Zenon DEF PreviewComputed, Does
    <2>2. what \in Content BY <1>0, JobsTyped
    <2>3. e.job.ok /\ e.job.run /\ e.mode = "edit" => what = ContentOf(e)
        BY <1>0, <2>1 DEF Steady, Fresh
    <2> HIDE DEF w, what
    <2>4. n \in EditorRecord BY <1>1, <2>2, EditorNames DEF SameImage, EditorRecord
    <2>5. /\ n.mode = w.mode /\ n.img = w.img /\ n.prev = what /\ n.load = w.load
          /\ n.loads = w.loads /\ n.busy = w.busy
        BY <1>1 DEF SameImage, EditorRecord
    <2> HIDE DEF n
    <2>6. CASE e.job.ok /\ e.job.run
        <3>1. Core(n) BY <1>0, <1>1, <2>1, <2>4, <2>5 DEF Core, Loaded, Served, SameImage
        <3>2. Core(Rendered(n)) /\ SameWork(n, Rendered(n)) BY <3>1, RenderedKeeps
        <3>3. Keeps(Rendered(n), e')
            BY <1>1, <2>1, <2>5, <2>6, <3>2, SettledKeeps DEF SameWork
        <3>4. Steady(e') BY <3>3 DEF Keeps
        <3>5. e'.prev = what BY <2>5, <3>2, <3>3 DEF Keeps, SameWork
        <3> QED BY <2>1, <2>3, <2>6, <3>4, <3>5 DEF StepOk, Commits
    <2>7. CASE ~(e.job.ok /\ e.job.run)
        BY <1>1, <2>1, <2>7, SettledKeeps, KeepsOk DEF Keeps, SameImage
    <2> QED BY <2>1, <2>6, <2>7
<1>3. ASSUME RestoreComputed PROVE StepOk(e, e') /\ UNCHANGED <<op, policy>>
    <2> DEFINE r == Restored(w, "edit")
    <2>1. e.job.k = "restore" /\ e' = Settled(r) /\ UNCHANGED <<op, policy>>
        BY <1>3 DEF RestoreComputed, Does
    <2>2. w.job.what.img \in 1..w.loads BY <1>0, <1>1, <2>1 DEF Served, SameImage
    <2> HIDE DEF w
    <2>3. Core(r) /\ ~r.busy BY <1>1, <2>2, RestoredCore
    <2> HIDE DEF r
    <2>4. Steady(e') BY <2>1, <2>3, SettledKeeps DEF Keeps
    <2> QED BY <2>1, <2>4 DEF StepOk, Commits
<1>4. ASSUME ExportComputed PROVE Keeps(e, e') /\ UNCHANGED <<op, policy>>
    <2> DEFINE job == [w.job EXCEPT !.ph = "pack"]
               out == IF e.job.k = "project" THEN w.out ELSE e.job.what
               n == [w EXCEPT !.job = job, !.out = out]
    <2>1. e.job.k \in {"export", "project", "draw"} /\ UNCHANGED <<op, policy>>
          /\ e' = [w EXCEPT !.job.ph = "pack", !.out = IF e.job.k = "project" THEN @ ELSE e.job.what]
        BY <1>4 DEF ExportComputed, Does
    <2> HIDE DEF w
    <2>2. e' = n BY <1>1, <2>1 DEF SameImage, EditorRecord
    <2>3. job \in Job /\ job.k = e.job.k /\ job.ph = "pack" BY <1>0, <1>1 DEF Job
    <2>4. out \in Content BY <1>0, <1>1, JobsTyped DEF SameImage, EditorRecord
    <2> HIDE DEF job, out
    <2>5. n \in EditorRecord BY <1>1, <2>3, <2>4 DEF SameImage, EditorRecord
    <2>6. SameImage(w, n) /\ ~n.busy /\ n.job = job BY <1>1, <2>5 DEF SameImage, EditorRecord
    <2> HIDE DEF n
    <2>7. SameImage(e, n) BY <1>1, <2>6 DEF SameImage
    <2> QED BY <1>0, <2>1, <2>2, <2>3, <2>6, <2>7, NoJobSteady
<1>5. ASSUME Exported PROVE Keeps(e, e') /\ UNCHANGED <<op, policy>>
    <2> DEFINE s == IF e.job.k = "export" THEN "exported" ELSE "project-exported"
               n == Rendered([e EXCEPT !.status = s])
    <2>1. ~e.busy /\ e' = Settled(n) /\ UNCHANGED <<op, policy>>
        BY <1>0, <1>5 DEF Exported, Does, Served
    <2>2. s \in Statuses BY EditorNames
    <2> HIDE DEF s
    <2>3. Core(n) /\ SameWork(e, n) BY <1>0, <2>2, StatusKeeps
    <2> HIDE DEF n
    <2> QED BY <2>1, <2>3, SettledKeeps DEF Keeps, SameWork
<1>6. ASSUME JobFails PROVE StepOk(e, e') /\ op' \in {op, "none"} /\ UNCHANGED policy
    <2> DEFINE load == e.load /\ e.job.k # "restore"
               n == [e EXCEPT !.load = load]
    <2>1. op' \in {op, "none"} /\ UNCHANGED policy /\ e' \in {Settled(w), Failed(n)}
        BY <1>0, <1>6 DEF JobFails, Release, EditorRecord
    <2>2. load \in BOOLEAN /\ (load => e.load) BY <1>0 DEF EditorRecord
    <2> HIDE DEF load, w
    <2>3. n \in EditorRecord BY <1>0, <2>2 DEF EditorRecord
    <2>4. /\ n.mode = e.mode /\ n.img = e.img /\ n.prev = e.prev /\ n.load = load /\ n.loads = e.loads
        BY <1>0 DEF EditorRecord
    <2> HIDE DEF n
    <2>5. Core(n) BY <1>0, <2>2, <2>3, <2>4 DEF Core, Loaded
    <2>6. Keeps(e, Failed(n)) BY <2>4, <2>5, FailedKeeps DEF Keeps
    <2>7. Keeps(e, Settled(w)) BY <1>1, SettledKeeps DEF Keeps, SameImage
    <2> QED BY <2>1, <2>6, <2>7, KeepsOk
<1> QED BY <1>2, <1>3, <1>4, <1>5, <1>6, KeepsOk DEF Pipeline

LEMMA DrawingOk ==
    ASSUME EditorInductive, Drawing
    PROVE  StepOk(e, e') /\ op' \in {"none", "claimed", "sent"} /\ UNCHANGED policy
<1>0. Steady(e) /\ Core(e) /\ Served(e) /\ e \in EditorRecord /\ e.job \in Job
      /\ op \in {"none", "claimed", "sent"}
    BY DEF EditorInductive, Steady, Core, EditorRecord
<1>1. ASSUME DrawAdmitted PROVE Keeps(e, e') /\ op' = "claimed" /\ UNCHANGED policy
    <2> DEFINE n == TakeWorker(e)
    <2>1. /\ e.job.k = "draw" /\ ~e.busy /\ op' = "claimed" /\ UNCHANGED policy
          /\ e' = Rendered([n EXCEPT !.status = "exporting"])
        BY <1>0, <1>1 DEF DrawAdmitted, Served
    <2>2. SameImage(e, n) /\ n.busy /\ n.job = [e.job EXCEPT !.ph = "work"]
        BY <1>0, <2>1, TakeWorkerSame
    <2>3. n.job.k = "draw" /\ n.job.ph = "work" BY <1>0, <2>1, <2>2 DEF Job
    <2> HIDE DEF n
    <2>4. Core(n) BY <1>0, <2>2, SameImageCore
    <2>5. Served(n) /\ Fresh(n) BY <2>2, <2>3 DEF Served, Fresh
    <2>6. Keeps(e, n) BY <2>2, <2>4, <2>5 DEF Keeps, Steady, SameImage
    <2> QED BY <2>1, <2>6, EditorNames, StatusKeeps, KeepsTwice DEF Keeps
<1>2. ASSUME DrawRefused PROVE Keeps(e, e') /\ UNCHANGED <<op, policy>>
    BY <1>0, <1>2, FailedKeeps DEF DrawRefused, Does
<1>3. ASSUME DrawAccepted PROVE Keeps(e, e') /\ op' = "sent" /\ UNCHANGED policy
    <2> DEFINE job == [e.job EXCEPT !.ph = "send"]
               n == [e EXCEPT !.job = job]
    <2>1. /\ e.job.k = "draw" /\ ~e.busy /\ op' = "sent" /\ UNCHANGED policy /\ e' = n
        BY <1>0, <1>3 DEF DrawAccepted, Served, EditorRecord
    <2>2. job \in Job /\ job.k = "draw" /\ job.ph = "send" BY <1>0, <2>1 DEF Job
    <2> HIDE DEF job
    <2>3. n \in EditorRecord BY <1>0, <2>2 DEF EditorRecord
    <2>4. SameImage(e, n) /\ ~n.busy /\ n.job = job BY <1>0, <2>1, <2>3 DEF SameImage, EditorRecord
    <2> HIDE DEF n
    <2> QED BY <1>0, <2>1, <2>2, <2>4, NoJobSteady
<1>4. ASSUME DrawEnds PROVE Keeps(e, e') /\ op' = "none" /\ UNCHANGED policy
    <2> DEFINE n == Rendered([e EXCEPT !.status = "exported"])
    <2>1. /\ op' = "none" /\ UNCHANGED policy
          /\ \/ e' = e
             \/ ~e.busy /\ e' = Settled(n)
             \/ e' = Failed(e)
        BY <1>0, <1>4 DEF DrawEnds, Served
    <2>2. Core(n) /\ SameWork(e, n) BY <1>0, EditorNames, StatusKeeps
    <2> HIDE DEF n
    <2>3. ~e.busy => Keeps(e, Settled(n)) BY <2>2, SettledKeeps DEF Keeps, SameWork
    <2> QED BY <1>0, <2>1, <2>3, FailedKeeps, SteadyKeeps
<1> QED BY <1>0, <1>1, <1>2, <1>3, <1>4, KeepsOk DEF Drawing

LEMMA OthersOk ==
    ASSUME EditorInductive, StrayAnswer \/ DeviceChanges
    PROVE  /\ StepOk(e, e') /\ UNCHANGED op
           /\ policy' \in [cal : 0..MaxRevisions, used : 0..MaxRevisions]
<1>0. /\ Steady(e) /\ Core(e) /\ e \in EditorRecord
      /\ policy \in [cal : 0..MaxRevisions, used : 0..MaxRevisions]
    BY DEF EditorInductive, Steady, Core
<1>1. ASSUME StrayAnswer PROVE Keeps(e, e') /\ UNCHANGED <<op, policy>>
    <2>1. PICK status \in {e.status, "error"} :
              e' = Rendered([e EXCEPT !.stray = FALSE, !.status = status]) /\ UNCHANGED <<op, policy>>
        BY <1>1 DEF StrayAnswer, Does
    <2> DEFINE n == [e EXCEPT !.stray = FALSE, !.status = status]
    <2>2. status \in Statuses BY <1>0, EditorNames DEF EditorRecord
    <2>3. n \in EditorRecord BY <1>0, <2>2 DEF EditorRecord
    <2>4. SameWork(e, n) /\ n.mode = e.mode BY <1>0 DEF EditorRecord, SameWork
    <2>5. e' = Rendered(n) BY <2>1
    <2> HIDE DEF n
    <2>6. Shows(e, n) BY <1>0, <2>3, <2>4 DEF Shows, Core, Loaded
    <2> QED BY <1>0, <2>1, <2>5, <2>6, ShowsSteady, RenderedKeeps, KeepsTwice DEF Keeps
<1>2. ASSUME DeviceChanges
      PROVE  /\ Keeps(e, e') /\ UNCHANGED op
             /\ policy' \in [cal : 0..MaxRevisions, used : 0..MaxRevisions]
    <2>1. PICK target \in {0, policy.used + 1} :
              /\ policy' = [cal |-> target, used |-> policy.used + 1] /\ UNCHANGED op
              /\ e' = IF e.mounted THEN SyncEpaperCalibration(e, target) ELSE e
        BY <1>2 DEF DeviceChanges
    <2>2. policy.used \in Nat /\ policy.used < MaxRevisions BY <1>0, <1>2 DEF DeviceChanges
    <2>3. target \in 0..MaxRevisions /\ policy.used + 1 \in 0..MaxRevisions BY <2>2, EditorBounds
    <2> QED BY <1>0, <2>1, <2>3, SyncCalibrationKeeps, SteadyKeeps
<1> QED BY <1>0, <1>1, <1>2, KeepsOk

LEMMA EditorStep ==
    ASSUME EditorInductive, EditorNext
    PROVE  EditorInductive' /\ Commits(e, e')
<1>1. /\ StepOk(e, e') /\ op' \in {"none", "claimed", "sent"}
      /\ policy' \in [cal : 0..MaxRevisions, used : 0..MaxRevisions]
    <2>1. CASE UserNext BY <2>1, UserOk DEF EditorInductive
    <2>2. CASE Decoded BY <2>2, DecodedOk DEF EditorInductive
    <2>3. CASE TimerFires BY <2>3, TimerOk DEF EditorInductive
    <2>4. CASE Pipeline BY <2>4, PipelineOk DEF EditorInductive
    <2>5. CASE Drawing BY <2>5, DrawingOk DEF EditorInductive
    <2>6. CASE StrayAnswer \/ DeviceChanges BY <2>6, OthersOk DEF EditorInductive
    <2> QED BY <2>1, <2>2, <2>3, <2>4, <2>5, <2>6 DEF EditorNext
<1> QED BY <1>1 DEF EditorInductive, StepOk

LEMMA EditorStart == EditorInit => EditorInductive
<1> SUFFICES ASSUME EditorInit PROVE EditorInductive
    OBVIOUS
<1>1. /\ {"input"} \in Panels /\ "empty" \in Statuses /\ "source" \in Modes
      /\ Nothing \in Content /\ NoJob \in Job /\ NoJob.k = "none" /\ NoJob.ph = "work"
      /\ 0 \in 0..MaxLoads /\ 0 \in 0..MaxChanges /\ 0 \in 0..MaxRevisions
    BY EditorNames, JobsTyped, EditorBounds
<1>2. e \in EditorRecord BY <1>1, ZenonT(60) DEF EditorInit, EditorRecord
<1>3. /\ e.img = 0 /\ e.loads = 0 /\ ~e.load /\ e.mode = "source" /\ e.prev = Nothing
      /\ e.job = NoJob /\ ~e.busy
    BY DEF EditorInit
<1>4. Steady(e) BY <1>1, <1>2, <1>3 DEF Steady, Core, Loaded, Served, Fresh
<1>5. op \in {"none", "claimed", "sent"} /\ policy \in [cal : 0..MaxRevisions, used : 0..MaxRevisions]
    BY <1>1 DEF EditorInit
<1> QED BY <1>4, <1>5 DEF EditorInductive

LEMMA EditorStutter ==
    ASSUME EditorInductive, UNCHANGED editorVars
    PROVE  EditorInductive' /\ Commits(e, e')
BY DEF EditorInductive, Commits, editorVars, Steady, Core, Loaded, Served, Fresh, ContentOf

LEMMA EditorImplied == EditorInductive => EditorInv
<1> SUFFICES ASSUME EditorInductive PROVE EditorInv
    OBVIOUS
<1>0. e \in EditorRecord /\ Loaded(e) /\ Served(e) BY DEF EditorInductive, Steady, Core
<1>1. {e.mounted, e.pal, e.pend, e.timer, e.hold, e.held, e.load, e.busy, e.stray} \subseteq BOOLEAN
    BY <1>0 DEF EditorRecord
<1>2. ContentOf(e) \in Content BY <1>0 DEF EditorRecord, ContentOf, Content
<1>3. /\ e.mode \in {"source", "prepare", "edit"} /\ e.open \subseteq Tools
      /\ {e.prev, e.out} \subseteq Content
      /\ e.status \in Statuses /\ e.job \in Job /\ e.loads \in 0..MaxLoads
    BY <1>0 DEF EditorRecord, Modes, Panels
<1>4. EditorTypeOK BY <1>0, <1>1, <1>2, <1>3 DEF EditorTypeOK, EditorInductive, Loaded
<1> QED BY <1>0, <1>4 DEF EditorInv, WorkerServesActive, Served

-----------------------------------------------------------------------------
\* Whatever jobs supersede each other, in whichever order loads, tools, draws and mounts
\* come, the editor's state is well formed and its worker is busy exactly for the job the
\* editor still runs: no job it dropped leaves a request behind that refuses the next
\* (createJobOwner of controller.js, the worker of dither-worker-client.js).
THEOREM EditorSafe == EditorSpec => []EditorInv
<1>1. EditorInductive /\ [EditorNext]_editorVars => EditorInductive'
    BY EditorStep, EditorStutter
<1> QED BY EditorStart, EditorImplied, <1>1, PTL DEF EditorSpec

\* A preview committed in edit mode is of the image, settings and palette in force then, for
\* any number of loads, changes and calibrations: the ones that were overtaken are dropped
\* (supersedePreview and the checks of updatePreview in controller.js).
THEOREM CommitsFresh == EditorSpec => FreshCommit
<1>1. EditorInductive /\ [EditorNext]_editorVars => EditorInductive'
    BY EditorStep, EditorStutter
<1>2. EditorInductive /\ [EditorNext]_editorVars
      => [e.job.k = "preview" /\ e'.prev # e.prev /\ e.mode = "edit" /\ e.img = e'.img
          => e'.prev = ContentOf(e)]_editorVars
    BY EditorStep DEF Commits
<1> QED BY EditorStart, <1>1, <1>2, PTL DEF EditorSpec, FreshCommit

-----------------------------------------------------------------------------
(* The crop and resize tools: arithmetic first.                             *)

LEMMA QuotientBounds ==
    ASSUME NEW n \in Int, NEW d \in Nat \ {0}
    PROVE  n \div d \in Int /\ d * (n \div d) <= n /\ n < d * (n \div d) + d
BY SMT

LEMMA ScaleOrder ==
    ASSUME NEW d \in Nat, NEW a \in Int, NEW b \in Int, a <= b
    PROVE  d * a <= d * b
BY SMT

LEMMA NearestBounds ==
    ASSUME NEW n \in Int, NEW d \in Nat \ {0}
    PROVE  /\ Nearest(n, d) \in Int
           /\ 2 * (d * Nearest(n, d)) <= 2 * n + d
           /\ 2 * n < 2 * (d * Nearest(n, d)) + d
<1> DEFINE q == (2 * n + d) \div (2 * d)
<1>1. 2 * d \in Nat \ {0} /\ 2 * n + d \in Int OBVIOUS
<1>2. q \in Int /\ (2 * d) * q <= 2 * n + d /\ 2 * n + d < (2 * d) * q + 2 * d
    BY <1>1, QuotientBounds
<1> HIDE DEF q
<1>3. (2 * d) * q = 2 * (d * q) BY <1>2, SMT
<1> QED BY <1>2, <1>3, SMT DEF Nearest, q

LEMMA NearestOf ==
    ASSUME NEW n \in Int, NEW d \in Nat \ {0}, NEW k \in Int,
           2 * (d * k) <= 2 * n + d, 2 * n < 2 * (d * k) + d
    PROVE  Nearest(n, d) = k
<1> DEFINE q == Nearest(n, d)
<1>1. q \in Int /\ 2 * (d * q) <= 2 * n + d /\ 2 * n < 2 * (d * q) + d
    BY NearestBounds
<1> HIDE DEF q
<1>2. q <= k
    <2> SUFFICES ASSUME q >= k + 1 PROVE FALSE BY <1>1, SMT
    <2>1. d * (k + 1) <= d * q BY <1>1, ScaleOrder
    <2>2. d * (k + 1) = d * k + d BY SMT
    <2> QED BY <1>1, <2>1, <2>2, SMT
<1>3. k <= q
    <2> SUFFICES ASSUME k >= q + 1 PROVE FALSE BY <1>1, SMT
    <2>1. d * (q + 1) <= d * k BY <1>1, ScaleOrder
    <2>2. d * (q + 1) = d * q + d BY <1>1, SMT
    <2> QED BY <1>1, <2>1, <2>2, SMT
<1> QED BY <1>1, <1>2, <1>3, SMT DEF q

-----------------------------------------------------------------------------
(* The frame.                                                               *)

LEMMA SpanBounds ==
    ASSUME NEW b \in Sizes, NEW r \in Sizes
    PROVE  /\ Span(b, r) \in Nat \ {0}
           /\ b.w * r.h \in Nat /\ b.h * r.w \in Nat
           /\ Span(b, r) <= r.h * b.w /\ Span(b, r) <= r.w * b.h
           /\ Span(b, r) = b.w * r.h \/ Span(b, r) = b.h * r.w
<1>1. b.w \in Nat \ {0} /\ b.h \in Nat \ {0} /\ r.w \in Nat \ {0} /\ r.h \in Nat \ {0}
    BY DEF Sizes
<1>2. /\ b.w * r.h = r.h * b.w /\ b.h * r.w = r.w * b.h
      /\ b.w * r.h \in Nat \ {0} /\ b.h * r.w \in Nat \ {0}
    BY <1>1, SMT
<1> QED BY <1>2, SMT DEF Span, Least

\* Along one side: the corner and the length are rounded apart and still fit.
LEMMA RoundedFits ==
    ASSUME NEW side \in Nat \ {0}, NEW k \in Nat \ {0}, NEW span \in Nat, span <= k * side
    PROVE  /\ Nearest(side * k - span, 2 * k) \in Nat /\ Nearest(span, k) \in Nat
           /\ Nearest(side * k - span, 2 * k) + Nearest(span, k) <= side
<1> DEFINE x == Nearest(side * k - span, 2 * k)
           w == Nearest(span, k)
           gap == side * k - span
<1>1. side * k = k * side /\ k * side \in Nat /\ gap \in Nat /\ 2 * k \in Nat \ {0}
    BY SMT
<1>2. x \in Int /\ 2 * ((2 * k) * x) <= 2 * gap + 2 * k /\ 2 * gap < 2 * ((2 * k) * x) + 2 * k
    BY <1>1, NearestBounds
<1>3. w \in Int /\ 2 * (k * w) <= 2 * span + k /\ 2 * span < 2 * (k * w) + k
    BY NearestBounds
<1> HIDE DEF x, w
<1>4. (2 * k) * x = 2 * (k * x) /\ k * x \in Int /\ k * w \in Int BY <1>2, <1>3, SMT
<1>5. x >= 0
    <2> SUFFICES ASSUME x <= -1 PROVE FALSE BY <1>2, SMT
    <2>1. k * x <= k * (-1) BY <1>2, ScaleOrder
    <2> QED BY <1>1, <1>2, <1>4, <2>1, SMT
<1>6. w >= 0
    <2> SUFFICES ASSUME w <= -1 PROVE FALSE BY <1>3, SMT
    <2>1. k * w <= k * (-1) BY <1>3, ScaleOrder
    <2> QED BY <1>3, <1>4, <2>1, SMT
<1>7. x + w <= side
    <2>1. CASE x = 0
        <3> SUFFICES ASSUME w >= side + 1 PROVE FALSE BY <2>1, <1>3, SMT
        <3>1. k * (side + 1) <= k * w BY <1>3, ScaleOrder
        <3>2. k * (side + 1) = k * side + k BY SMT
        <3> QED BY <1>1, <1>3, <1>4, <3>1, <3>2, SMT
    <2>2. CASE x >= 1
        <3> SUFFICES ASSUME w >= side - x + 1 PROVE FALSE BY <1>2, <1>3, SMT
        <3>1. k * (side - x + 1) <= k * w BY <1>2, <1>3, ScaleOrder
        <3>2. k * (side - x + 1) = k * side - k * x + k BY <1>2, SMT
        <3>3. k * 1 <= k * x BY <1>2, <2>2, ScaleOrder
        <3> QED BY <1>1, <1>2, <1>3, <1>4, <3>1, <3>2, <3>3, SMT
    <2> QED BY <1>2, <1>5, <2>1, <2>2, SMT
<1> QED BY <1>2, <1>3, <1>5, <1>6, <1>7, SMT DEF x, w

\* A pan that is kept within its room passes it by no more than rounding does, and is
\* kept again.
LEMMA PanHeld ==
    ASSUME NEW p \in Int, NEW room \in Nat, NEW d \in Nat \ {0}
    PROVE  /\ HeldPan(p, room, d) \in Int
           /\ 2 * (Most(HeldPan(p, room, d), -HeldPan(p, room, d)) * d) <= 2 * room + d
           /\ HeldPan(HeldPan(p, room, d), room, d) = HeldPan(p, room, d)
           /\ HeldPan(-p, room, d) = -HeldPan(p, room, d)
<1> DEFINE q == Nearest(room, d)
<1>1. q \in Int /\ 2 * (d * q) <= 2 * room + d /\ 2 * room < 2 * (d * q) + d
    BY NearestBounds
<1> HIDE DEF q
<1>2. q >= 0
    <2> SUFFICES ASSUME q <= -1 PROVE FALSE BY <1>1, SMT
    <2>1. d * q <= d * (-1) BY <1>1, ScaleOrder
    <2> QED BY <1>1, <2>1, SMT
<1>3. d * q = q * d /\ (-q) * d = -(q * d) /\ q * d \in Nat /\ (-p) * d = -(p * d) /\ p * d \in Int
    BY <1>1, <1>2, SMT
<1>4. HeldPan(p, room, d) = IF p * d > room THEN q ELSE IF p * d < -room THEN -q ELSE p
    BY DEF HeldPan, q
<1>5. HeldPan(-p, room, d) = IF (-p) * d > room THEN q ELSE IF (-p) * d < -room THEN -q ELSE -p
    BY DEF HeldPan, q
<1>6. HeldPan(q, room, d) = q /\ HeldPan(-q, room, d) = -q
    <2>1. HeldPan(q, room, d) = IF q * d > room THEN q ELSE IF q * d < -room THEN -q ELSE q
        BY DEF HeldPan, q
    <2>2. HeldPan(-q, room, d) = IF (-q) * d > room THEN q ELSE IF (-q) * d < -room THEN -q ELSE -q
        BY DEF HeldPan, q
    <2> QED BY <1>1, <1>2, <1>3, <2>1, <2>2, SMT
<1>7. CASE p * d > room
    <2>1. HeldPan(p, room, d) = q /\ HeldPan(-p, room, d) = -q BY <1>3, <1>4, <1>5, <1>7, SMT
    <2>2. Most(q, -q) = q BY <1>1, <1>2, SMT DEF Most
    <2> QED BY <1>1, <1>3, <1>6, <2>1, <2>2, SMT
<1>8. CASE p * d < -room
    <2>1. HeldPan(p, room, d) = -q /\ HeldPan(-p, room, d) = q BY <1>3, <1>4, <1>5, <1>8, SMT
    <2>2. Most(-q, -(-q)) = q /\ -(-q) = q BY <1>1, <1>2, SMT DEF Most
    <2> QED BY <1>1, <1>3, <1>6, <2>1, <2>2, SMT
<1>9. CASE p * d <= room /\ p * d >= -room
    <2>1. HeldPan(p, room, d) = p /\ HeldPan(-p, room, d) = -p BY <1>3, <1>4, <1>5, <1>9, SMT
    <2>2. Most(p, -p) * d <= room BY <1>3, <1>9, SMT DEF Most
    <2>3. Most(p, -p) * d \in Int BY SMT DEF Most
    <2> QED BY <1>3, <2>1, <2>2, <2>3, SMT
<1> QED BY <1>3, <1>7, <1>8, <1>9, SMT

LEMMA PanGrows ==
    ASSUME NEW side \in Nat, NEW k \in Nat, NEW span \in Nat, NEW y \in Int, NEW z \in Int, y <= z
    PROVE  /\ MaxPan(side, k, span, y) \in Nat /\ MaxPan(side, k, span, z) \in Nat
           /\ MaxPan(side, k, span, y) <= MaxPan(side, k, span, z)
<1>1. side * k \in Nat /\ side * y * k = (side * k) * y /\ side * z * k = (side * k) * z BY SMT
<1>2. (side * k) * y <= (side * k) * z BY <1>1, ScaleOrder
<1>3. (side * k) * y \in Int /\ (side * k) * z \in Int BY <1>1, SMT
<1> DEFINE u == (side * k) * y
           v == (side * k) * z
<1>4. /\ MaxPan(side, k, span, y) = Most(0, u - 1000 * span)
      /\ MaxPan(side, k, span, z) = Most(0, v - 1000 * span)
    BY <1>1 DEF MaxPan
<1>5. u \in Int /\ v \in Int /\ u <= v BY <1>2, <1>3
<1> HIDE DEF u, v
<1>6. /\ Most(0, u - 1000 * span) \in Nat /\ Most(0, v - 1000 * span) \in Nat
      /\ Most(0, u - 1000 * span) <= Most(0, v - 1000 * span)
    BY <1>5, SMT DEF Most
<1> QED BY <1>4, <1>6

LEMMA RegisteredRatios ==
    /\ AspectRatios \subseteq Sizes
    /\ \A id : RatioFor(id) \in AspectRatios /\ (id \in AspectRatios => RatioFor(id) = id)
<1>1. \A w, h \in Nat \ {0} : Ratio(w, h) \in Sizes BY DEF Ratio, Sizes
<1>2. AspectRatios \subseteq Sizes
    BY <1>1, CropAssumption DEF AspectRatios
<1>3. DefaultRatio \in AspectRatios BY DEF DefaultRatio, AspectRatios
<1> QED BY <1>2, <1>3 DEF RatioFor

\* A zoom within its range, and its percent.
LEMMA ZoomStored ==
    ASSUME NEW z \in Int, NEW crop, crop = Clamp(z, MinZoom, MaxZoom), NEW n, n = Nearest(crop, 10)
    PROVE  /\ crop \in Int /\ n \in Int /\ crop >= 1000 /\ crop <= 8000 /\ 100 <= n /\ n <= 800
           /\ crop <= 10 * n + 5 /\ (z % 10 = 0 => 10 * n = crop)
<1>1. crop \in Int /\ crop >= 1000 /\ crop <= 8000 /\ (crop = z \/ crop = 1000 \/ crop = 8000)
    BY SMT DEF Clamp, Most, Least, MinZoom, MaxZoom
<1>2. n \in Int /\ 2 * (10 * n) <= 2 * crop + 10 /\ 2 * crop < 2 * (10 * n) + 10
    <2> DEFINE d == 10
    <2>1. d \in Nat \ {0} BY SMT
    <2>2. n = Nearest(crop, d) /\ crop \in Int BY <1>1
    <2> HIDE DEF d
    <2>3. n \in Int /\ 2 * (d * n) <= 2 * crop + d /\ 2 * crop < 2 * (d * n) + d
        <3>1. /\ Nearest(crop, d) \in Int /\ 2 * (d * Nearest(crop, d)) <= 2 * crop + d
              /\ 2 * crop < 2 * (d * Nearest(crop, d)) + d
            BY <2>1, <2>2, NearestBounds
        <3> QED BY <2>2, <3>1
    <2> QED BY <2>3 DEF d
<1>3. ASSUME z % 10 = 0 PROVE 10 * n = crop
    <2>1. crop % 10 = 0 BY <1>1, <1>3, SMT
    <2> DEFINE m == crop \div 10
    <2>2. m \in Int /\ crop = 10 * m BY <1>1, <2>1, SMT
    <2> HIDE DEF m
    <2> QED BY <1>1, <1>2, <2>2, SMT
<1>4. 100 <= n /\ n <= 800 /\ crop <= 10 * n + 5 BY <1>1, <1>2, SMT
<1> QED BY <1>1, <1>2, <1>3, <1>4

\* The fields of what is stored.
Asking(s) == s.px \in Int /\ s.py \in Int /\ s.zoom \in Int /\ s.rot \in Int

LEMMA StoredFields ==
    ASSUME NEW b \in Sizes, NEW s, Asking(s),
           NEW r, r = RatioFor(s.ratio), NEW span, span = Span(b, r),
           NEW z, z = Clamp(s.zoom, MinZoom, MaxZoom)
    PROVE  LET crop == Normalized(b, s) IN
           /\ crop = [x |-> crop.x, y |-> crop.y, w |-> crop.w, h |-> crop.h, px |-> crop.px, py |-> crop.py,
                   ratio |-> crop.ratio, zoom |-> crop.zoom, rot |-> crop.rot, fx |-> crop.fx, fy |-> crop.fy]
           /\ crop.x = Nearest(b.w * r.h - span, 2 * r.h) /\ crop.y = Nearest(b.h * r.w - span, 2 * r.w)
           /\ crop.w = Nearest(span, r.h) /\ crop.h = Nearest(span, r.w)
           /\ crop.px = HeldPan(s.px, MaxPan(b.w, r.h, span, z), 20 * r.h)
           /\ crop.py = HeldPan(s.py, MaxPan(b.h, r.w, span, z), 20 * r.w)
           /\ crop.ratio = r /\ crop.zoom = 10 * Nearest(z, 10) /\ crop.rot = Clamp(s.rot, -180, 180)
           /\ crop.fx = s.fx /\ crop.fy = s.fy
BY DEF Normalized

LEMMA StoredIsCrop ==
    ASSUME NEW b \in Sizes, NEW s, Asking(s)
    PROVE  CropHolds(b, Normalized(b, s)) /\ Asking(Normalized(b, s))
<1> DEFINE crop == Normalized(b, s)
           r == RatioFor(s.ratio)
           span == Span(b, r)
           z == Clamp(s.zoom, MinZoom, MaxZoom)
           roomX == MaxPan(b.w, r.h, span, z)
           roomY == MaxPan(b.h, r.w, span, z)
<1>1. /\ crop.x = Nearest(b.w * r.h - span, 2 * r.h) /\ crop.y = Nearest(b.h * r.w - span, 2 * r.w)
      /\ crop.w = Nearest(span, r.h) /\ crop.h = Nearest(span, r.w)
      /\ crop.px = HeldPan(s.px, roomX, 20 * r.h) /\ crop.py = HeldPan(s.py, roomY, 20 * r.w)
      /\ crop.ratio = r /\ crop.zoom = 10 * Nearest(z, 10) /\ crop.rot = Clamp(s.rot, -180, 180)
    BY StoredFields
<1>2. r \in AspectRatios /\ r \in Sizes BY RegisteredRatios
<1> HIDE DEF crop, r
<1>3. /\ b.w \in Nat \ {0} /\ b.h \in Nat \ {0} /\ r.w \in Nat \ {0} /\ r.h \in Nat \ {0}
    BY <1>2 DEF Sizes
<1>4. span \in Nat /\ span <= r.h * b.w /\ span <= r.w * b.h BY <1>2, SpanBounds
<1> HIDE DEF span
<1>5. crop.x \in Nat /\ crop.w \in Nat /\ crop.x + crop.w <= b.w
    <2>1. /\ Nearest(b.w * r.h - span, 2 * r.h) \in Nat /\ Nearest(span, r.h) \in Nat
          /\ Nearest(b.w * r.h - span, 2 * r.h) + Nearest(span, r.h) <= b.w
        BY <1>3, <1>4, RoundedFits, Zenon
    <2> QED BY <1>1, <2>1, Zenon
<1>6. crop.y \in Nat /\ crop.h \in Nat /\ crop.y + crop.h <= b.h
    <2>1. /\ Nearest(b.h * r.w - span, 2 * r.w) \in Nat /\ Nearest(span, r.w) \in Nat
          /\ Nearest(b.h * r.w - span, 2 * r.w) + Nearest(span, r.w) <= b.h
        BY <1>3, <1>4, RoundedFits, Zenon
    <2> QED BY <1>1, <2>1, Zenon
<1>7. /\ z \in Int /\ crop.zoom \in Int /\ z >= 1000 /\ z <= 8000
      /\ 1000 <= crop.zoom /\ crop.zoom <= 8000 /\ z <= crop.zoom + 5
    <2> DEFINE n == Nearest(z, 10)
    <2>1. /\ z \in Int /\ n \in Int /\ z >= 1000 /\ z <= 8000 /\ 100 <= n /\ n <= 800
          /\ z <= 10 * n + 5
        BY ZoomStored DEF Asking
    <2>2. crop.zoom = 10 * n BY <1>1
    <2> HIDE DEF n, z
    <2> QED BY <2>1, <2>2, SMT
<1> HIDE DEF z
<1>8. crop.rot \in -180..180 BY <1>1, SMT DEF Asking, Clamp, Most, Least
<1>9. /\ roomX \in Nat /\ MaxPan(b.w, r.h, span, crop.zoom + 5) \in Nat
      /\ roomX <= MaxPan(b.w, r.h, span, crop.zoom + 5)
    <2>1. z \in Int /\ crop.zoom + 5 \in Int /\ b.w \in Nat /\ b.h \in Nat /\ r.w \in Nat /\ r.h \in Nat
        BY <1>3, <1>7, SMT
    <2> DEFINE v == crop.zoom + 5
    <2>2. v \in Int /\ z <= v BY <1>7, <2>1
    <2> HIDE DEF v
    <2>3. /\ MaxPan(b.w, r.h, span, z) \in Nat /\ MaxPan(b.w, r.h, span, v) \in Nat
          /\ MaxPan(b.w, r.h, span, z) <= MaxPan(b.w, r.h, span, v)
        BY <1>4, <2>1, <2>2, PanGrows
    <2> QED BY <2>3 DEF v
<1>10. /\ roomY \in Nat /\ MaxPan(b.h, r.w, span, crop.zoom + 5) \in Nat
       /\ roomY <= MaxPan(b.h, r.w, span, crop.zoom + 5)
    <2>1. z \in Int /\ crop.zoom + 5 \in Int /\ b.w \in Nat /\ b.h \in Nat /\ r.w \in Nat /\ r.h \in Nat
        BY <1>3, <1>7, SMT
    <2> DEFINE v == crop.zoom + 5
    <2>2. v \in Int /\ z <= v BY <1>7, <2>1
    <2> HIDE DEF v
    <2>3. /\ MaxPan(b.h, r.w, span, z) \in Nat /\ MaxPan(b.h, r.w, span, v) \in Nat
          /\ MaxPan(b.h, r.w, span, z) <= MaxPan(b.h, r.w, span, v)
        BY <1>4, <2>1, <2>2, PanGrows
    <2> QED BY <2>3 DEF v
<1> HIDE DEF roomX, roomY
<1>11. 20 * r.h \in Nat \ {0} /\ 20 * r.w \in Nat \ {0} BY <1>3, SMT
<1>12. crop.px \in Int /\ 2 * (Most(crop.px, -crop.px) * (20 * r.h)) <= 2 * roomX + 20 * r.h
    <2>1. s.px \in Int BY DEF Asking
    <2> DEFINE p == HeldPan(s.px, roomX, 20 * r.h)
    <2>2. p \in Int /\ 2 * (Most(p, -p) * (20 * r.h)) <= 2 * roomX + 20 * r.h
        BY <1>9, <1>11, <2>1, PanHeld, Zenon
    <2> HIDE DEF p
    <2>3. crop.px = p BY <1>1 DEF p
    <2> QED BY <2>2, <2>3
<1>13. crop.py \in Int /\ 2 * (Most(crop.py, -crop.py) * (20 * r.w)) <= 2 * roomY + 20 * r.w
    <2>1. s.py \in Int BY DEF Asking
    <2> DEFINE p == HeldPan(s.py, roomY, 20 * r.w)
    <2>2. p \in Int /\ 2 * (Most(p, -p) * (20 * r.w)) <= 2 * roomY + 20 * r.w
        BY <1>10, <1>11, <2>1, PanHeld, Zenon
    <2> HIDE DEF p
    <2>3. crop.py = p BY <1>1 DEF p
    <2> QED BY <2>2, <2>3
<1>14. Most(crop.px, -crop.px) \in Int /\ Most(crop.py, -crop.py) \in Int BY <1>12, <1>13, SMT DEF Most
<1>15. /\ 2 * Most(crop.px, -crop.px) * 20 * r.h = 2 * (Most(crop.px, -crop.px) * (20 * r.h))
       /\ 2 * Most(crop.py, -crop.py) * 20 * r.w = 2 * (Most(crop.py, -crop.py) * (20 * r.w))
    BY <1>3, <1>14, SMT
<1>16. 2 * Most(crop.px, -crop.px) * 20 * r.h <= 2 * MaxPan(b.w, r.h, span, crop.zoom + 5) + 20 * r.h
    <2>1. 2 * (Most(crop.px, -crop.px) * (20 * r.h)) \in Int BY <1>3, <1>14, SMT
    <2> QED BY <1>3, <1>9, <1>12, <1>15, <2>1, SMT
<1>17. 2 * Most(crop.py, -crop.py) * 20 * r.w <= 2 * MaxPan(b.h, r.w, span, crop.zoom + 5) + 20 * r.w
    <2>1. 2 * (Most(crop.py, -crop.py) * (20 * r.w)) \in Int BY <1>3, <1>14, SMT
    <2> QED BY <1>3, <1>10, <1>13, <1>15, <2>1, SMT
<1>18. CropHolds(b, crop)
    <2>1. crop.ratio = r /\ Span(b, crop.ratio) = span BY <1>1 DEF span
    <2>2. crop.x >= 0 /\ crop.y >= 0 BY <1>5, <1>6, SMT
    <2> DEFINE k == crop.zoom
    <2>3. k \in MinZoom..MaxZoom
        <3>1. k \in Int /\ 1000 <= k /\ k <= 8000 BY <1>7
        <3> HIDE DEF k
        <3> QED BY <3>1, SMT DEF MinZoom, MaxZoom
    <2> QED BY <1>2, <1>5, <1>6, <1>8, <1>16, <1>17, <2>1, <2>2, <2>3 DEF CropHolds
<1>19. Asking(crop)
    <2>1. crop.rot \in Int BY <1>8, SMT
    <2> QED BY <1>7, <1>12, <1>13, <2>1 DEF Asking
<1> QED BY <1>18, <1>19 DEF crop

-----------------------------------------------------------------------------
LEMMA NearestPositive ==
    ASSUME NEW n \in Nat, NEW d \in Nat \ {0}, d <= 2 * n
    PROVE  Nearest(n, d) \in Nat \ {0}
<1> DEFINE q == Nearest(n, d)
<1>1. q \in Int /\ 2 * (d * q) <= 2 * n + d /\ 2 * n < 2 * (d * q) + d
    BY NearestBounds
<1> HIDE DEF q
<1>2. q >= 1
    <2> SUFFICES ASSUME q <= 0 PROVE FALSE BY <1>1, SMT
    <2>1. d * q <= d * 0 BY <1>1, ScaleOrder
    <2>2. d * q \in Int /\ d * 0 = 0 BY <1>1, SMT
    <2> QED BY <1>1, <2>1, <2>2, SMT
<1>3. q \in Nat \ {0} BY <1>1, <1>2, SMT
<1> QED BY <1>3 DEF q

\* A ratio within two to one gives a frame of at least a pixel.
LEMMA FrameHasPixels ==
    ASSUME NEW b \in Sizes, NEW r \in Sizes, r.w <= 2 * r.h, r.h <= 2 * r.w,
           NEW span, span = Span(b, r)
    PROVE  Nearest(span, r.h) \in Nat \ {0} /\ Nearest(span, r.w) \in Nat \ {0}
<1>1. b.w \in Nat \ {0} /\ b.h \in Nat \ {0} /\ r.w \in Nat \ {0} /\ r.h \in Nat \ {0}
    BY DEF Sizes
<1>2. r.h * 1 <= r.h * b.w /\ r.w * 1 <= r.w * b.h
    <2>1. 1 <= b.w /\ 1 <= b.h BY <1>1, SMT
    <2> QED BY <1>1, <2>1, ScaleOrder, SMT
<1>3. b.w * r.h = r.h * b.w /\ b.h * r.w = r.w * b.h BY <1>1, SMT
<1>4. span \in Nat /\ (span = b.w * r.h \/ span = b.h * r.w) BY SpanBounds
<1>5. span >= r.h \/ span >= r.w BY <1>1, <1>2, <1>3, <1>4, SMT
<1>6. r.h <= 2 * span /\ r.w <= 2 * span BY <1>1, <1>4, <1>5, SMT
<1> QED BY <1>1, <1>4, <1>6, NearestPositive

LEMMA OutputIsCropped ==
    ASSUME NEW b \in Sizes, NEW s, Asking(s), NEW crop, crop = Normalized(b, s),
           crop.ratio.w <= 2 * crop.ratio.h, crop.ratio.h <= 2 * crop.ratio.w
    PROVE  CropSaved(crop) /\ OutputSize(crop, b) = Cropped(b, crop)
<1> DEFINE r == RatioFor(s.ratio)
           span == Span(b, r)
<1>1. crop.ratio = r /\ crop.w = Nearest(span, r.h) /\ crop.h = Nearest(span, r.w)
    BY StoredFields
<1>2. r \in AspectRatios /\ r \in Sizes /\ RatioFor(crop.ratio) = r BY <1>1, RegisteredRatios
<1> HIDE DEF r
<1>3. Nearest(span, r.h) \in Nat \ {0} /\ Nearest(span, r.w) \in Nat \ {0}
    BY <1>1, <1>2, FrameHasPixels
<1>4. crop.w \in Nat \ {0} /\ crop.h \in Nat \ {0} BY <1>1, <1>3, Zenon
<1>5. OutputSize(crop, b) = Ratio(crop.w, crop.h) BY <1>4 DEF OutputSize
<1>6. Most(1, crop.w) = crop.w /\ Most(1, crop.h) = crop.h BY <1>4, SMT DEF Most
<1>7. /\ Nearest(Span(b, RatioFor(crop.ratio)), RatioFor(crop.ratio).h) = crop.w
      /\ Nearest(Span(b, RatioFor(crop.ratio)), RatioFor(crop.ratio).w) = crop.h
    BY <1>1, <1>2
<1>8. Cropped(b, crop) = Ratio(crop.w, crop.h)
    <2>1. CASE crop.rot = 0 /\ crop.px = 0 /\ crop.py = 0 /\ crop.zoom = 1000 /\ ~crop.fx /\ ~crop.fy
               /\ crop.w = b.w /\ crop.h = b.h
        BY <2>1 DEF Cropped
    <2>2. CASE ~(crop.rot = 0 /\ crop.px = 0 /\ crop.py = 0 /\ crop.zoom = 1000 /\ ~crop.fx /\ ~crop.fy
                 /\ crop.w = b.w /\ crop.h = b.h)
        <3>1. Cropped(b, crop) = Ratio(Most(1, Nearest(Span(b, RatioFor(crop.ratio)), RatioFor(crop.ratio).h)),
                                    Most(1, Nearest(Span(b, RatioFor(crop.ratio)), RatioFor(crop.ratio).w)))
            BY <2>2 DEF Cropped
        <3> QED BY <1>6, <1>7, <3>1
    <2> QED BY <2>1, <2>2
<1>9. CropSaved(crop)
    <2>1. CropHolds(b, crop) BY StoredIsCrop
    <2> DEFINE z == crop.zoom
               a == crop.rot
    <2>2. z \in MinZoom..MaxZoom BY <2>1, Zenon DEF CropHolds
    <2>3. a \in -180..180 BY <2>1, Zenon DEF CropHolds
    <2> HIDE DEF z, a
    <2>4. z >= 100 /\ z <= 20000 BY <2>2, SMT DEF MinZoom, MaxZoom
    <2>5. a >= -180 /\ a <= 180 BY <2>3, SMT
    <2>6. crop.w >= 1 /\ crop.h >= 1
        <3> DEFINE w == crop.w
                   h == crop.h
        <3>1. w \in Nat \ {0} /\ h \in Nat \ {0} BY <1>4
        <3> HIDE DEF w, h
        <3>2. w >= 1 /\ h >= 1 BY <3>1, SMT
        <3> QED BY <3>2 DEF w, h
    <2> QED BY <2>4, <2>5, <2>6 DEF CropSaved, z, a
<1> QED BY <1>5, <1>8, <1>9

\* What the crop tool stores of anything asked for is a crop of the picture, saved and
\* opened again, of the size that the crop operation gives: for every picture, every
\* panel's ratio and all settings (normalizedCrop and the crop operation).
THEOREM CropAlwaysFits == CropFits
<1> SUFFICES ASSUME NEW b \in Pictures, NEW s \in Asks
             PROVE  LET crop == Normalized(b, s)
                    IN  /\ CropHolds(b, crop)
                        /\ crop.ratio.w <= 2 * crop.ratio.h /\ crop.ratio.h <= 2 * crop.ratio.w
                           => CropSaved(crop) /\ OutputSize(crop, b) = Cropped(b, crop)
    BY DEF CropFits
<1>1. b \in Sizes /\ Asking(s) BY CropAssumption DEF CropSettings, Asking
<1> QED BY <1>1, StoredIsCrop, OutputIsCropped

-----------------------------------------------------------------------------
(* Stored again, flipped and turned.                                        *)

LEMMA PanKept ==
    ASSUME NEW p \in Int, NEW room \in Nat, NEW d \in Nat \ {0},
           NEW q, q = HeldPan(p, room, d), NEW k, k = q \/ k = -q
    PROVE  q \in Int /\ HeldPan(k, room, d) = k
<1>1. q \in Int /\ HeldPan(q, room, d) = q BY PanHeld
<1>2. HeldPan(-q, room, d) = -HeldPan(q, room, d) BY <1>1, PanHeld, Zenon
<1> QED BY <1>1, <1>2

\* Room for the pan is a number.
LEMMA PanRoom ==
    ASSUME NEW b \in Sizes, NEW r \in Sizes, NEW z \in Int
    PROVE  /\ MaxPan(b.w, r.h, Span(b, r), z) \in Nat /\ MaxPan(b.h, r.w, Span(b, r), z) \in Nat
           /\ 20 * r.h \in Nat \ {0} /\ 20 * r.w \in Nat \ {0}
<1>1. b.w \in Nat /\ b.h \in Nat /\ r.w \in Nat \ {0} /\ r.h \in Nat \ {0} /\ Span(b, r) \in Nat
    BY SpanBounds DEF Sizes
<1>2. z <= z BY SMT
<1>3. MaxPan(b.w, r.h, Span(b, r), z) \in Nat /\ MaxPan(b.h, r.w, Span(b, r), z) \in Nat
    BY <1>1, <1>2, PanGrows, Zenon
<1>4. 20 * r.h \in Nat \ {0} /\ 20 * r.w \in Nat \ {0} BY <1>1, SMT
<1> QED BY <1>3, <1>4

\* CropSettings that differ from what is stored by the sign of a pan, by an angle in range or
\* by a flip are stored as they are.
LEMMA StoredAgain ==
    ASSUME NEW b \in Sizes, NEW s, Asking(s), s.zoom % 10 = 0, NEW crop, crop = Normalized(b, s),
           NEW k, k.ratio = crop.ratio, k.zoom = crop.zoom, k.rot \in -180..180,
           k.px = crop.px \/ k.px = -crop.px, k.py = crop.py \/ k.py = -crop.py
    PROVE  Normalized(b, k) =
             [x |-> crop.x, y |-> crop.y, w |-> crop.w, h |-> crop.h, px |-> k.px, py |-> k.py,
              ratio |-> crop.ratio, zoom |-> crop.zoom, rot |-> k.rot, fx |-> k.fx, fy |-> k.fy]
<1> DEFINE r == RatioFor(s.ratio)
           z == Clamp(s.zoom, MinZoom, MaxZoom)
           span == Span(b, r)
           roomX == MaxPan(b.w, r.h, span, z)
           roomY == MaxPan(b.h, r.w, span, z)
<1>1. /\ crop.x = Nearest(b.w * r.h - span, 2 * r.h) /\ crop.y = Nearest(b.h * r.w - span, 2 * r.w)
      /\ crop.w = Nearest(span, r.h) /\ crop.h = Nearest(span, r.w)
      /\ crop.px = HeldPan(s.px, roomX, 20 * r.h) /\ crop.py = HeldPan(s.py, roomY, 20 * r.w)
      /\ crop.ratio = r /\ crop.zoom = 10 * Nearest(z, 10)
    BY StoredFields
<1>2. r \in AspectRatios /\ r \in Sizes /\ RatioFor(k.ratio) = r BY <1>1, RegisteredRatios
<1>3. z \in Int /\ z >= 1000 /\ z <= 8000 /\ crop.zoom = z
    <2>1. s.zoom \in Int BY DEF Asking
    <2>2. z \in Int /\ z >= 1000 /\ z <= 8000 /\ 10 * Nearest(z, 10) = z BY <2>1, ZoomStored
    <2> QED BY <1>1, <2>2
<1>4. Clamp(k.zoom, MinZoom, MaxZoom) = z /\ 10 * Nearest(z, 10) = crop.zoom
    <2>1. k.zoom = z BY <1>3
    <2> HIDE DEF z
    <2>2. Clamp(z, MinZoom, MaxZoom) = z BY <1>3, SMT DEF Clamp, Most, Least, MinZoom, MaxZoom
    <2> QED BY <1>1, <2>1, <2>2
<1>5. Clamp(k.rot, -180, 180) = k.rot
    <2> DEFINE a == k.rot
    <2>1. a \in -180..180 OBVIOUS
    <2> HIDE DEF a
    <2>2. Clamp(a, -180, 180) = a BY <2>1, SMT DEF Clamp, Most, Least
    <2> QED BY <2>2 DEF a
<1> HIDE DEF r, z
<1>6. roomX \in Nat /\ roomY \in Nat /\ 20 * r.h \in Nat \ {0} /\ 20 * r.w \in Nat \ {0}
    <2>1. z \in Int /\ r \in Sizes BY <1>2, <1>3
    <2>2. /\ MaxPan(b.w, r.h, Span(b, r), z) \in Nat /\ MaxPan(b.h, r.w, Span(b, r), z) \in Nat
          /\ 20 * r.h \in Nat \ {0} /\ 20 * r.w \in Nat \ {0}
        BY <2>1, PanRoom, Zenon
    <2> QED BY <2>2
<1> HIDE DEF span, roomX, roomY
<1>7. HeldPan(k.px, roomX, 20 * r.h) = k.px
    <2>1. s.px \in Int BY DEF Asking
    <2> QED BY <1>1, <1>6, <2>1, PanKept
<1>8. HeldPan(k.py, roomY, 20 * r.w) = k.py
    <2>1. s.py \in Int BY DEF Asking
    <2> QED BY <1>1, <1>6, <2>1, PanKept
<1>9. Normalized(b, k) =
        [x |-> Nearest(b.w * r.h - span, 2 * r.h), y |-> Nearest(b.h * r.w - span, 2 * r.w),
         w |-> Nearest(span, r.h), h |-> Nearest(span, r.w),
         px |-> HeldPan(k.px, roomX, 20 * r.h), py |-> HeldPan(k.py, roomY, 20 * r.w),
         ratio |-> r, zoom |-> 10 * Nearest(z, 10), rot |-> Clamp(k.rot, -180, 180),
         fx |-> k.fx, fy |-> k.fy]
    <2>1. Span(b, RatioFor(k.ratio)) = span BY <1>2 DEF span
    <2>2. /\ MaxPan(b.w, RatioFor(k.ratio).h, Span(b, RatioFor(k.ratio)), Clamp(k.zoom, MinZoom, MaxZoom)) = roomX
          /\ MaxPan(b.h, RatioFor(k.ratio).w, Span(b, RatioFor(k.ratio)), Clamp(k.zoom, MinZoom, MaxZoom)) = roomY
        BY <1>2, <1>4 DEF span, roomX, roomY
    <2> QED BY <1>2, <1>4, <2>1, <2>2 DEF Normalized
<1> QED BY <1>1, <1>4, <1>5, <1>7, <1>8, <1>9

\* The fields of what a flip asks for.
Whole(crop) ==
    crop = [x |-> crop.x, y |-> crop.y, w |-> crop.w, h |-> crop.h, px |-> crop.px, py |-> crop.py,
         ratio |-> crop.ratio, zoom |-> crop.zoom, rot |-> crop.rot, fx |-> crop.fx, fy |-> crop.fy]

LEMMA FlippedFields ==
    ASSUME NEW crop, Whole(crop)
    PROVE  /\ FlippedX(crop).ratio = crop.ratio /\ FlippedX(crop).zoom = crop.zoom
           /\ FlippedX(crop).rot = Clamp(-crop.rot, -180, 180)
           /\ FlippedX(crop).px = -crop.px /\ FlippedX(crop).py = crop.py
           /\ FlippedX(crop).fx = (~crop.fx) /\ FlippedX(crop).fy = crop.fy
           /\ FlippedY(crop).ratio = crop.ratio /\ FlippedY(crop).zoom = crop.zoom
           /\ FlippedY(crop).rot = Clamp(-crop.rot, -180, 180)
           /\ FlippedY(crop).px = crop.px /\ FlippedY(crop).py = -crop.py
           /\ FlippedY(crop).fx = crop.fx /\ FlippedY(crop).fy = (~crop.fy)
BY DEF Whole, FlippedX, FlippedY

LEMMA FlipTwice ==
    ASSUME NEW b \in Sizes, NEW s, Asking(s), s.fx \in BOOLEAN, s.fy \in BOOLEAN, s.zoom % 10 = 0,
           NEW crop, crop = Normalized(b, s)
    PROVE  /\ Normalized(b, crop) = crop
           /\ Normalized(b, FlippedX(Normalized(b, FlippedX(crop)))) = crop
           /\ Normalized(b, FlippedY(Normalized(b, FlippedY(crop)))) = crop
<1>1. /\ crop = [x |-> crop.x, y |-> crop.y, w |-> crop.w, h |-> crop.h, px |-> crop.px, py |-> crop.py,
              ratio |-> crop.ratio, zoom |-> crop.zoom, rot |-> crop.rot, fx |-> crop.fx, fy |-> crop.fy]
      /\ crop.fx = s.fx /\ crop.fy = s.fy
    BY StoredFields
<1>2. CropHolds(b, crop) /\ Asking(crop) BY StoredIsCrop
<1>3. crop.rot \in -180..180 BY <1>2, Zenon DEF CropHolds
<1>4. -(-crop.px) = crop.px /\ -(-crop.py) = crop.py
    <2>1. \A n \in Int : -(-n) = n BY SMT
    <2> QED BY <1>2, <2>1 DEF Asking
<1> DEFINE a == Clamp(-crop.rot, -180, 180)
<1>5. a \in -180..180 /\ Clamp(-a, -180, 180) = crop.rot
    <2>1. \A n \in -180..180 : /\ Clamp(-n, -180, 180) \in -180..180
                               /\ Clamp(-Clamp(-n, -180, 180), -180, 180) = n
        BY SMT DEF Clamp, Most, Least
    <2> QED BY <1>3, <2>1
<1>6. (~~crop.fx) = crop.fx /\ (~~crop.fy) = crop.fy BY <1>1, Zenon
<1> HIDE DEF a
<1>7. Normalized(b, crop) = crop
    <2> DEFINE k == crop
    <2>1. /\ k.ratio = crop.ratio /\ k.zoom = crop.zoom /\ k.rot = crop.rot /\ k.px = crop.px
          /\ k.py = crop.py /\ k.fx = crop.fx /\ k.fy = crop.fy
        OBVIOUS
    <2> HIDE DEF k
    <2>2. Normalized(b, k) =
            [x |-> crop.x, y |-> crop.y, w |-> crop.w, h |-> crop.h, px |-> k.px, py |-> k.py,
             ratio |-> crop.ratio, zoom |-> crop.zoom, rot |-> k.rot, fx |-> k.fx, fy |-> k.fy]
        BY <1>3, <2>1, StoredAgain
    <2>3. Normalized(b, k) = crop BY <1>1, <2>1, <2>2
    <2> QED BY <2>3 DEF k
<1>8. Normalized(b, FlippedX(Normalized(b, FlippedX(crop)))) = crop
    <2> DEFINE k == FlippedX(crop)
               once == Normalized(b, k)
               twice == FlippedX(once)
    <2>1. /\ k.ratio = crop.ratio /\ k.zoom = crop.zoom /\ k.rot = a /\ k.px = -crop.px /\ k.py = crop.py
          /\ k.fx = (~crop.fx) /\ k.fy = crop.fy
        BY <1>1, FlippedFields DEF Whole, a
    <2> HIDE DEF k
    <2>2. once = [x |-> crop.x, y |-> crop.y, w |-> crop.w, h |-> crop.h, px |-> k.px, py |-> k.py,
               ratio |-> crop.ratio, zoom |-> crop.zoom, rot |-> k.rot, fx |-> k.fx, fy |-> k.fy]
        <3>1. k.rot \in -180..180 BY <1>5, <2>1
        <3> QED BY <2>1, <3>1, StoredAgain
    <2> HIDE DEF once
    <2>3. /\ once.ratio = crop.ratio /\ once.zoom = crop.zoom /\ once.rot = a /\ once.px = -crop.px /\ once.py = crop.py
          /\ once.fx = (~crop.fx) /\ once.fy = crop.fy
        BY <2>1, <2>2
    <2>4. Whole(once) BY <2>2 DEF Whole
    <2>5. /\ twice.ratio = once.ratio /\ twice.zoom = once.zoom /\ twice.rot = Clamp(-once.rot, -180, 180)
          /\ twice.px = -once.px /\ twice.py = once.py /\ twice.fx = (~once.fx) /\ twice.fy = once.fy
        BY <2>4, FlippedFields
    <2> HIDE DEF twice
    <2>6. twice.ratio = crop.ratio /\ twice.zoom = crop.zoom /\ twice.rot = crop.rot /\ twice.px = crop.px /\ twice.py = crop.py
        BY <1>4, <1>5, <2>3, <2>5
    <2>7. twice.fx = crop.fx /\ twice.fy = crop.fy BY <1>6, <2>3, <2>5
    <2>8. Normalized(b, twice) =
            [x |-> crop.x, y |-> crop.y, w |-> crop.w, h |-> crop.h, px |-> twice.px, py |-> twice.py,
             ratio |-> crop.ratio, zoom |-> crop.zoom, rot |-> twice.rot, fx |-> twice.fx, fy |-> twice.fy]
        BY <1>3, <2>6, StoredAgain
    <2> QED BY <1>1, <2>6, <2>7, <2>8 DEF twice, once, k
<1>9. Normalized(b, FlippedY(Normalized(b, FlippedY(crop)))) = crop
    <2> DEFINE k == FlippedY(crop)
               once == Normalized(b, k)
               twice == FlippedY(once)
    <2>1. /\ k.ratio = crop.ratio /\ k.zoom = crop.zoom /\ k.rot = a /\ k.px = crop.px /\ k.py = -crop.py
          /\ k.fx = crop.fx /\ k.fy = (~crop.fy)
        BY <1>1, FlippedFields DEF Whole, a
    <2> HIDE DEF k
    <2>2. once = [x |-> crop.x, y |-> crop.y, w |-> crop.w, h |-> crop.h, px |-> k.px, py |-> k.py,
               ratio |-> crop.ratio, zoom |-> crop.zoom, rot |-> k.rot, fx |-> k.fx, fy |-> k.fy]
        <3>1. k.rot \in -180..180 BY <1>5, <2>1
        <3> QED BY <2>1, <3>1, StoredAgain
    <2> HIDE DEF once
    <2>3. /\ once.ratio = crop.ratio /\ once.zoom = crop.zoom /\ once.rot = a /\ once.px = crop.px /\ once.py = -crop.py
          /\ once.fx = crop.fx /\ once.fy = (~crop.fy)
        BY <2>1, <2>2
    <2>4. Whole(once) BY <2>2 DEF Whole
    <2>5. /\ twice.ratio = once.ratio /\ twice.zoom = once.zoom /\ twice.rot = Clamp(-once.rot, -180, 180)
          /\ twice.px = once.px /\ twice.py = -once.py /\ twice.fx = once.fx /\ twice.fy = (~once.fy)
        BY <2>4, FlippedFields
    <2> HIDE DEF twice
    <2>6. twice.ratio = crop.ratio /\ twice.zoom = crop.zoom /\ twice.rot = crop.rot /\ twice.px = crop.px /\ twice.py = crop.py
        BY <1>4, <1>5, <2>3, <2>5
    <2>7. twice.fx = crop.fx /\ twice.fy = crop.fy BY <1>6, <2>3, <2>5
    <2>8. Normalized(b, twice) =
            [x |-> crop.x, y |-> crop.y, w |-> crop.w, h |-> crop.h, px |-> twice.px, py |-> twice.py,
             ratio |-> crop.ratio, zoom |-> crop.zoom, rot |-> twice.rot, fx |-> twice.fx, fy |-> twice.fy]
        BY <1>3, <2>6, StoredAgain
    <2> QED BY <1>1, <2>6, <2>7, <2>8 DEF twice, once, k
<1> QED BY <1>7, <1>8, <1>9

\* A quarter turn stays in range, a full turn apart at most.
LEMMA TurnIsQuarter ==
    ASSUME NEW b \in Sizes, NEW s, Asking(s), NEW crop, crop = Normalized(b, s), NEW delta \in {-90, 90}
    PROVE  (Normalized(b, QuarterTurned(crop, delta)).rot - crop.rot - delta) % 360 = 0
<1> DEFINE a == crop.rot
           k == QuarterTurned(crop, delta)
           n == Stepped(a, delta)
<1>1. CropHolds(b, crop) /\ Asking(crop) BY StoredIsCrop
<1>2. a \in -180..180 BY <1>1, Zenon DEF CropHolds
<1>3. crop = [x |-> crop.x, y |-> crop.y, w |-> crop.w, h |-> crop.h, px |-> crop.px, py |-> crop.py,
           ratio |-> crop.ratio, zoom |-> crop.zoom, rot |-> crop.rot, fx |-> crop.fx, fy |-> crop.fy]
    BY StoredFields, Zenon
<1>4. k.px = crop.px /\ k.py = crop.py /\ k.zoom = crop.zoom /\ k.rot = n BY <1>3 DEF QuarterTurned
<1> HIDE DEF a
<1>5. n \in Int /\ Clamp(n, -180, 180) = n /\ n - a - delta \in {0, 360, -360}
    BY <1>2, SMT DEF Stepped, Clamp, Most, Least
<1> HIDE DEF n, k
<1>6. Asking(k) BY <1>1, <1>4, <1>5 DEF Asking
<1>7. Normalized(b, k).rot = n
    <2>1. Normalized(b, k).rot = Clamp(k.rot, -180, 180) BY <1>6, StoredFields
    <2> QED BY <1>4, <1>5, <2>1
<1>8. (n - a - delta) % 360 = 0 BY <1>5, SMT
<1> QED BY <1>7, <1>8 DEF k, a

\* Storing settings again changes nothing and a flip undoes itself, if the zoom is a whole
\* percent, and a quarter turn is one, for every picture, ratio and settings asked for.
THEOREM CropStays == CropSettles
<1> SUFFICES ASSUME NEW b \in Pictures, NEW s \in Asks, NEW crop, crop = Normalized(b, s)
             PROVE  /\ s.zoom % 10 = 0 =>
                         /\ Normalized(b, crop) = crop
                         /\ Normalized(b, FlippedX(Normalized(b, FlippedX(crop)))) = crop
                         /\ Normalized(b, FlippedY(Normalized(b, FlippedY(crop)))) = crop
                    /\ \A delta \in {-90, 90} : (Normalized(b, QuarterTurned(crop, delta)).rot - crop.rot - delta) % 360 = 0
    BY DEF CropSettles
<1>1. b \in Sizes /\ Asking(s) /\ s.fx \in BOOLEAN /\ s.fy \in BOOLEAN
    BY CropAssumption DEF CropSettings, Asking
<1> QED BY <1>1, FlipTwice, TurnIsQuarter

-----------------------------------------------------------------------------
(* The sizes of the resize tool.                                            *)

LEMMA NearestWhole ==
    ASSUME NEW n \in Int
    PROVE  Nearest(n, 1) = n
BY SMT DEF Nearest

LEMMA ClampedSize ==
    ASSUME NEW n \in Int, NEW d \in Nat \ {0}, NEW max \in Nat \ {0}
    PROVE  /\ ClampSize(n, d, max) \in 1..max
           /\ Nearest(n, d) <= max => ClampSize(n, d, max) = Most(1, Nearest(n, d))
           /\ Nearest(n, d) \in 1..max => ClampSize(n, d, max) = Nearest(n, d)
<1> DEFINE q == Nearest(n, d)
<1>1. q \in Int BY NearestBounds
<1>2. ClampSize(n, d, max) = Most(1, Least(max, q)) BY DEF ClampSize
<1> HIDE DEF q
<1>3. /\ Most(1, Least(max, q)) \in 1..max
      /\ q <= max => Most(1, Least(max, q)) = Most(1, q)
      /\ q \in 1..max => Most(1, Least(max, q)) = q
    BY <1>1, SMT DEF Most, Least
<1> QED BY <1>2, <1>3, Zenon DEF q

\* The largest side whose other side is not past the limit: the limit itself is exact.
LEMMA SideLimit ==
    ASSUME NEW u \in 1..MaxSize, NEW v \in 1..MaxSize
    PROVE  LET limit == Most(1, Least(MaxSize, (MaxSize * u) \div v))
           IN  /\ limit \in 1..MaxSize /\ u <= limit
               /\ \A a \in 1..limit : Nearest(a * v, u) <= MaxSize
<1> DEFINE limit == Most(1, Least(MaxSize, (MaxSize * u) \div v))
           top == 4096 * u
           q == top \div v
<1>1. u \in Nat \ {0} /\ v \in Nat \ {0} /\ u <= 4096 /\ v <= 4096 /\ top \in Nat
    BY SMT DEF MaxSize
<1>2. u * v <= u * 4096 BY <1>1, ScaleOrder, SMT
<1>3. u * v = v * u /\ u * 4096 = top /\ v * u \in Nat BY <1>1, SMT
<1> HIDE DEF top
<1>4. q \in Int /\ v * q <= top /\ top < v * q + v BY <1>1, QuotientBounds
<1> HIDE DEF q
<1>5. u <= q
    <2> SUFFICES ASSUME q + 1 <= u PROVE FALSE BY <1>1, <1>4, SMT
    <2>1. v * (q + 1) <= v * u BY <1>1, <1>4, ScaleOrder
    <2>2. v * (q + 1) = v * q + v /\ v * q \in Int BY <1>1, <1>4, SMT
    <2> QED BY <1>1, <1>2, <1>3, <1>4, <2>1, <2>2, SMT
<1>6. limit = Most(1, Least(4096, q)) BY DEF MaxSize, q, top
<1> HIDE DEF limit
<1>7. limit \in 1..MaxSize /\ u <= limit /\ limit <= q
    BY <1>1, <1>4, <1>5, <1>6, SMT DEF Most, Least, MaxSize
<1>8. ASSUME NEW a \in 1..limit
      PROVE  Nearest(a * v, u) <= MaxSize
    <2> DEFINE n == a * v
               k == Nearest(n, u)
    <2>1. a \in Nat \ {0} /\ a <= q BY <1>4, <1>7, SMT DEF MaxSize
    <2>2. v * a <= v * q BY <1>1, <1>4, <2>1, ScaleOrder, SMT
    <2>3. n = v * a /\ n \in Nat /\ n \in Int /\ v * q \in Int BY <1>1, <1>4, <2>1, SMT
    <2>4. n <= top BY <1>1, <1>4, <2>2, <2>3, SMT
    <2> HIDE DEF n
    <2>5. k \in Int /\ 2 * (u * k) <= 2 * n + u
        <3>1. n \in Int /\ u \in Nat \ {0} BY <1>1, <2>3
        <3>2. /\ Nearest(n, u) \in Int
              /\ 2 * (u * Nearest(n, u)) <= 2 * n + u
              /\ 2 * n < 2 * (u * Nearest(n, u)) + u
            BY <3>1, NearestBounds, Zenon
        <3> QED BY <3>2
    <2> HIDE DEF k
    <2>6. k <= MaxSize
        <3> SUFFICES ASSUME 4097 <= k PROVE FALSE BY <2>5, SMT DEF MaxSize
        <3>1. u * 4097 <= u * k BY <1>1, <2>5, ScaleOrder, SMT
        <3>2. u * 4097 = top + u /\ u * k \in Int BY <1>1, <1>3, <2>5, SMT
        <3> QED BY <1>1, <2>3, <2>4, <2>5, <3>1, <3>2, SMT
    <2> QED BY <2>6 DEF k, n
<1>9. /\ limit \in 1..MaxSize /\ u <= limit
      /\ \A a \in 1..limit : Nearest(a * v, u) <= MaxSize
    BY <1>7, <1>8, Zenon
<1> QED BY <1>9, Zenon DEF limit

LEMMA RatioSides ==
    ASSUME NEW u \in Int, NEW v \in Int, NEW q, q = RatioFromSize(u, v)
    PROVE  /\ q = Ratio(q.w, q.h) /\ q.w \in 1..MaxSize /\ q.h \in 1..MaxSize
           /\ u \in 1..MaxSize => q.w = u
           /\ v \in 1..MaxSize => q.h = v
<1>1. 1 \in Nat \ {0} /\ MaxSize \in Nat \ {0} BY SMT DEF MaxSize
<1>2. q.w = ClampSize(u, 1, MaxSize) /\ q.h = ClampSize(v, 1, MaxSize) /\ q = Ratio(q.w, q.h)
    BY DEF RatioFromSize, Ratio
<1>3. Nearest(u, 1) = u /\ Nearest(v, 1) = v BY NearestWhole
<1> QED BY <1>1, <1>2, <1>3, ClampedSize

LEMMA SizesFollow ==
    ASSUME NEW q, q.w \in 1..MaxSize, q.h \in 1..MaxSize, NEW w \in Int
    PROVE  LET a == ResizeFromWidth(q, w)
               b == ResizeFromHeight(q, w)
           IN  /\ ResizeSaved(a) /\ a.h = Most(1, Nearest(a.w * q.h, q.w))
               /\ ResizeSaved(b) /\ b.w = Most(1, Nearest(b.h * q.w, q.h))
               /\ w = q.w => a = [w |-> q.w, h |-> q.h, q |-> q]
<1> DEFINE u == q.w
           v == q.h
           a == ResizeFromWidth(q, w)
           b == ResizeFromHeight(q, w)
           x == ClampSize(w, 1, WidthLimit(q))
           y == ClampSize(w, 1, HeightLimit(q))
<1>1. /\ a = [w |-> x, h |-> ClampSize(x * v, u, MaxSize), q |-> q]
      /\ b = [w |-> ClampSize(y * u, v, MaxSize), h |-> y, q |-> q]
    BY DEF ResizeFromWidth, ResizeFromHeight
<1>2. /\ WidthLimit(q) = Most(1, Least(MaxSize, (MaxSize * u) \div v))
      /\ HeightLimit(q) = Most(1, Least(MaxSize, (MaxSize * v) \div u))
    BY DEF WidthLimit, HeightLimit
<1>3. u \in 1..MaxSize /\ v \in 1..MaxSize OBVIOUS
<1> HIDE DEF u, v
<1>4. /\ WidthLimit(q) \in 1..MaxSize /\ u <= WidthLimit(q)
      /\ \A k \in 1..WidthLimit(q) : Nearest(k * v, u) <= MaxSize
    BY <1>2, <1>3, SideLimit
<1>5. /\ HeightLimit(q) \in 1..MaxSize /\ v <= HeightLimit(q)
      /\ \A k \in 1..HeightLimit(q) : Nearest(k * u, v) <= MaxSize
    BY <1>2, <1>3, SideLimit
<1>6. /\ u \in Nat \ {0} /\ v \in Nat \ {0} /\ MaxSize \in Nat \ {0} /\ 1 \in Nat \ {0}
      /\ WidthLimit(q) \in Nat \ {0} /\ HeightLimit(q) \in Nat \ {0}
    <2>1. \A k \in 1..MaxSize : k \in Nat \ {0} BY SMT DEF MaxSize
    <2>2. MaxSize \in Nat \ {0} /\ 1 \in Nat \ {0} BY SMT DEF MaxSize
    <2> QED BY <1>3, <1>4, <1>5, <2>1, <2>2, Zenon
<1>7. x \in 1..WidthLimit(q) /\ y \in 1..HeightLimit(q) BY <1>6, ClampedSize
<1>8. x \in 1..MaxSize /\ y \in 1..MaxSize
    BY <1>4, <1>5, <1>6, <1>7, SMT
<1>9. ASSUME w = u PROVE x = u
    <2>1. Nearest(w, 1) = w BY NearestWhole
    <2>2. w \in 1..WidthLimit(q) BY <1>4, <1>6, <1>9, SMT
    <2> QED BY <1>6, <1>9, <2>1, <2>2, ClampedSize
<1> HIDE DEF x, y
<1>10. x * v \in Int /\ y * u \in Int BY <1>6, <1>8, SMT
<1>11. ClampSize(x * v, u, MaxSize) \in 1..MaxSize /\ ClampSize(y * u, v, MaxSize) \in 1..MaxSize
    BY <1>6, <1>10, ClampedSize, Zenon
<1>12. Nearest(x * v, u) <= MaxSize /\ Nearest(y * u, v) <= MaxSize BY <1>4, <1>5, <1>7
<1>13. /\ ClampSize(x * v, u, MaxSize) = Most(1, Nearest(x * v, u))
       /\ ClampSize(y * u, v, MaxSize) = Most(1, Nearest(y * u, v))
    BY <1>6, <1>10, <1>12, ClampedSize, Zenon
<1>14. u > 0 /\ v > 0 BY <1>6, SMT
<1>15. ResizeSaved(a) /\ a.h = Most(1, Nearest(a.w * q.h, q.w))
    BY <1>1, <1>8, <1>11, <1>13, <1>14 DEF ResizeSaved, u, v
<1>16. ResizeSaved(b) /\ b.w = Most(1, Nearest(b.h * q.w, q.h))
    BY <1>1, <1>8, <1>11, <1>13, <1>14 DEF ResizeSaved, u, v
<1>17. ASSUME w = u PROVE a = [w |-> u, h |-> v, q |-> q]
    <2>1. x = u BY <1>9, <1>17
    <2>2. Nearest(u * v, u) = v
        <3> DEFINE n == u * v
        <3>1. n \in Int /\ 2 * (u * v) <= 2 * n + u /\ 2 * n < 2 * (u * v) + u /\ v \in Int
            BY <1>6, SMT
        <3> HIDE DEF n
        <3>2. Nearest(n, u) = v BY <1>6, <3>1, NearestOf, Zenon
        <3> QED BY <3>2 DEF n
    <2>3. Most(1, v) = v BY <1>6, SMT DEF Most
    <2> QED BY <1>1, <1>13, <2>1, <2>2, <2>3
<1> QED BY <1>15, <1>16, <1>17 DEF u, v

\* Every side typed for every ratio gives sizes that a project can hold and that keep the
\* ratio, without a cut at the limit (resize-feature.js).
THEOREM ResizeKeepsRatio == ResizeFits
<1> SUFFICES ASSUME NEW u \in Lengths, NEW v \in Lengths, NEW w \in Lengths,
                    NEW q, q = RatioFromSize(u, v)
             PROVE  LET a == ResizeFromWidth(q, w)
                        b == ResizeFromHeight(q, w)
                        n == ResizeLoaded(Ratio(u, v))
                    IN  /\ ResizeSaved(a) /\ a.h = Most(1, Nearest(a.w * q.h, q.w))
                        /\ ResizeSaved(b) /\ b.w = Most(1, Nearest(b.h * q.w, q.h))
                        /\ {u, v} \subseteq 1..MaxSize => Resized(Ratio(u, v), n) = Ratio(u, v)
                        /\ PrepareCommitted(n, Ratio(u, v)) = n
    BY DEF ResizeFits
<1>1. u \in Int /\ v \in Int /\ w \in Int BY CropAssumption
<1>2. /\ q.w \in 1..MaxSize /\ q.h \in 1..MaxSize
      /\ u \in 1..MaxSize => q.w = u
      /\ v \in 1..MaxSize => q.h = v
    BY <1>1, RatioSides
<1> DEFINE n == ResizeLoaded(Ratio(u, v))
<1>3. n = [w |-> q.w, h |-> q.h, q |-> q]
    BY DEF ResizeLoaded, Ratio
<1>4. PrepareCommitted(n, Ratio(u, v)) = ResizeFromWidth(q, q.w)
    BY <1>3 DEF PrepareCommitted, Ratio
<1>5. q.w \in Int BY <1>2, SMT DEF MaxSize
<1>6. PrepareCommitted(n, Ratio(u, v)) = n BY <1>2, <1>3, <1>4, <1>5, SizesFollow
<1>7. ASSUME {u, v} \subseteq 1..MaxSize PROVE Resized(Ratio(u, v), n) = Ratio(u, v)
    <2>1. u \in 1..MaxSize /\ v \in 1..MaxSize BY <1>7
    <2>2. n.w = u /\ n.h = v BY <1>2, <1>3, <2>1
    <2>3. ClampSize(u, 1, MaxSize) = u /\ ClampSize(v, 1, MaxSize) = v
        <3>1. 1 \in Nat \ {0} /\ MaxSize \in Nat \ {0} BY SMT DEF MaxSize
        <3>2. Nearest(u, 1) = u /\ Nearest(v, 1) = v BY <1>1, NearestWhole
        <3> QED BY <1>1, <2>1, <3>1, <3>2, ClampedSize
    <2> QED BY <2>2, <2>3 DEF Resized
<1> HIDE DEF n
<1>8. LET a == ResizeFromWidth(q, w)
          b == ResizeFromHeight(q, w)
      IN  /\ ResizeSaved(a) /\ a.h = Most(1, Nearest(a.w * q.h, q.w))
          /\ ResizeSaved(b) /\ b.w = Most(1, Nearest(b.h * q.w, q.h))
    BY <1>1, <1>2, SizesFollow
<1> QED BY <1>6, <1>7, <1>8 DEF n

-----------------------------------------------------------------------------
(* The fingers.                                                             *)

ToolShape(t) ==
    t = [pic |-> t.pic, crop |-> t.crop, prepare |-> t.prepare, at |-> t.at,
         drag |-> t.drag, pinch |-> t.pinch]

LEMMA LowestOf ==
    ASSUME NEW S, S \subseteq Nat, S # {}
    PROVE  Lowest(S) \in S
<1> DEFINE R == OpToRel(<, Nat)
<1>1. PICK f \in S : \A g \in S : ~(<<g, f>> \in R)
    BY NatLessThanWellFounded, WFMin
<1>2. \A g \in S : f <= g
    <2> SUFFICES ASSUME NEW g \in S PROVE f <= g OBVIOUS
    <2>1. f \in Nat /\ g \in Nat OBVIOUS
    <2>2. ~(g < f) BY <1>1, <2>1 DEF OpToRel
    <2> QED BY <2>1, <2>2, SMT
<1> HIDE DEF R
<1> QED BY <1>2 DEF Lowest

LEMMA SameFingers ==
    ASSUME NEW t, FingersOk(t), NEW n, DOMAIN n.at = DOMAIN t.at, n.drag = t.drag, n.pinch = t.pinch
    PROVE  FingersOk(n)
BY DEF FingersOk

LEMMA PinchBegins ==
    ASSUME NEW t, ToolShape(t), DOMAIN t.at \subseteq Nat,
           NEW f \in DOMAIN t.at, NEW g \in DOMAIN t.at, f # g
    PROVE  /\ FingersOk(BeginPinch(t))
           /\ BeginPinch(t).pic = t.pic /\ BeginPinch(t).crop = t.crop
<1> DEFINE k == Lowest(DOMAIN t.at)
           l == Lowest(DOMAIN t.at \ {k})
           d == Distance(t.at[k], t.at[l])
           pinches == IF d > 0 THEN {[first |-> k, second |-> l, dist |-> d, zoom |-> t.crop.zoom]} ELSE {}
           n == BeginPinch(t)
<1>1. k \in DOMAIN t.at BY LowestOf
<1> HIDE DEF k
<1>2. l \in DOMAIN t.at \ {k}
    <2>1. DOMAIN t.at \ {k} \subseteq Nat /\ DOMAIN t.at \ {k} # {} OBVIOUS
    <2> QED BY <2>1, LowestOf
<1> HIDE DEF l
<1>3. n = [t EXCEPT !.drag = {}, !.pinch = pinches] BY DEF BeginPinch, k, l
<1>4. \A pair \in pinches : pair.first = k /\ pair.second = l OBVIOUS
<1> HIDE DEF pinches, n
<1>5. /\ n.pic = t.pic /\ n.crop = t.crop /\ n.at = t.at /\ n.drag = {} /\ n.pinch = pinches
    BY <1>3 DEF ToolShape
<1>6. FingersOk(n) BY <1>1, <1>2, <1>4, <1>5 DEF FingersOk
<1> QED BY <1>5, <1>6 DEF n

LEMMA DragBegins ==
    ASSUME NEW t, ToolShape(t), NEW f, DOMAIN t.at = {f}, t.pinch = {}
    PROVE  /\ FingersOk(BeginDrag(t, f))
           /\ BeginDrag(t, f).pic = t.pic /\ BeginDrag(t, f).crop = t.crop
<1> DEFINE n == BeginDrag(t, f)
           drags == {[finger |-> f, start |-> t.at[f], px |-> t.crop.px]}
<1>1. n = [t EXCEPT !.drag = drags] BY DEF BeginDrag
<1>2. \A k \in drags : k.finger = f OBVIOUS
<1> HIDE DEF drags, n
<1>3. n.pic = t.pic /\ n.crop = t.crop /\ n.at = t.at /\ n.pinch = t.pinch /\ n.drag = drags
    BY <1>1 DEF ToolShape
<1>4. FingersOk(n) BY <1>2, <1>3 DEF FingersOk
<1> QED BY <1>3, <1>4 DEF n

LEMMA FingerPlaced ==
    ASSUME NEW t, ToolShape(t), NEW f, NEW p
    PROVE  /\ ToolShape(Placed(t, f, p)) /\ DOMAIN Placed(t, f, p).at = DOMAIN t.at \cup {f}
           /\ \A g \in DOMAIN t.at \cup {f} : Placed(t, f, p).at[g] = IF g = f THEN p ELSE t.at[g]
           /\ Placed(t, f, p).pic = t.pic /\ Placed(t, f, p).crop = t.crop
           /\ Placed(t, f, p).drag = t.drag /\ Placed(t, f, p).pinch = t.pinch
           /\ Placed(t, f, p).prepare = t.prepare
BY DEF ToolShape, Placed

LEMMA FingerForgotten ==
    ASSUME NEW t, ToolShape(t), NEW f
    PROVE  /\ ToolShape(Forgotten(t, f)) /\ DOMAIN Forgotten(t, f).at = DOMAIN t.at \ {f}
           /\ Forgotten(t, f).pic = t.pic /\ Forgotten(t, f).crop = t.crop
           /\ Forgotten(t, f).drag = t.drag /\ Forgotten(t, f).pinch = t.pinch
BY DEF ToolShape, Forgotten

HandsOpened(t) == [t EXCEPT !.pinch = {}, !.drag = {}]

LEMMA HandsOpen ==
    ASSUME NEW t, ToolShape(t)
    PROVE  /\ ToolShape(HandsOpened(t)) /\ HandsOpened(t).at = t.at
           /\ HandsOpened(t).pic = t.pic /\ HandsOpened(t).crop = t.crop
           /\ HandsOpened(t).pinch = {} /\ HandsOpened(t).drag = {}
<1> SUFFICES ASSUME NEW v, v = {}, NEW n, n = [t EXCEPT !.pinch = v, !.drag = v]
             PROVE  /\ ToolShape(n) /\ n.at = t.at /\ n.pic = t.pic /\ n.crop = t.crop
                    /\ n.pinch = v /\ n.drag = v
    BY Zenon DEF HandsOpened
<1>1. ToolShape(n) BY DEF ToolShape
<1>2. n.at = t.at /\ n.pic = t.pic /\ n.crop = t.crop /\ n.pinch = v /\ n.drag = v
    BY DEF ToolShape
<1> QED BY <1>1, <1>2

\* A finger goes down.
LEMMA DownKeeps ==
    ASSUME NEW t, ToolShape(t), FingersOk(t), DOMAIN t.at \subseteq Nat, NEW f \in Nat, NEW p
    PROVE  /\ FingersOk(PointerDown(t, f, p))
           /\ PointerDown(t, f, p).pic = t.pic /\ PointerDown(t, f, p).crop = t.crop
<1> DEFINE n == Placed(t, f, p)
<1>1. CASE ~t.prepare BY <1>1 DEF PointerDown
<1>2. /\ ToolShape(n) /\ DOMAIN n.at = DOMAIN t.at \cup {f}
      /\ n.pic = t.pic /\ n.crop = t.crop /\ n.pinch = t.pinch
    BY FingerPlaced
<1>3. CASE t.prepare /\ DOMAIN n.at # {f}
    <2>1. PointerDown(t, f, p) = BeginPinch(n) BY <1>3 DEF PointerDown
    <2> HIDE DEF n
    <2>2. PICK g \in DOMAIN n.at : g # f BY <1>2, <1>3
    <2>3. f \in DOMAIN n.at /\ DOMAIN n.at \subseteq Nat BY <1>2
    <2>4. FingersOk(BeginPinch(n)) /\ BeginPinch(n).pic = n.pic /\ BeginPinch(n).crop = n.crop
        BY <1>2, <2>2, <2>3, PinchBegins
    <2> QED BY <1>2, <2>1, <2>4
<1>4. CASE t.prepare /\ DOMAIN n.at = {f}
    <2>1. PointerDown(t, f, p) = BeginDrag(n, f) BY <1>4 DEF PointerDown
    <2> HIDE DEF n
    <2>2. n.pinch = {} BY <1>2, <1>4 DEF FingersOk
    <2>3. FingersOk(BeginDrag(n, f)) /\ BeginDrag(n, f).pic = n.pic /\ BeginDrag(n, f).crop = n.crop
        BY <1>2, <1>4, <2>2, DragBegins
    <2> QED BY <1>2, <2>1, <2>3
<1> QED BY <1>1, <1>3, <1>4

\* A finger goes up.
LEMMA EndKeeps ==
    ASSUME NEW t, ToolShape(t), FingersOk(t), DOMAIN t.at \subseteq Nat, NEW f
    PROVE  /\ FingersOk(PointerEnd(t, f))
           /\ PointerEnd(t, f).pic = t.pic /\ PointerEnd(t, f).crop = t.crop
<1> DEFINE n == Forgotten(t, f)
           o == HandsOpened(n)
<1>1. CASE f \notin DOMAIN t.at BY <1>1 DEF PointerEnd
<1>2. /\ ToolShape(n) /\ DOMAIN n.at = DOMAIN t.at \ {f}
      /\ n.pic = t.pic /\ n.crop = t.crop /\ n.drag = t.drag /\ n.pinch = t.pinch
    BY FingerForgotten
<1>3. DOMAIN n.at \subseteq Nat BY <1>2
<1>4. CASE f \in DOMAIN t.at /\ n.pinch # {} /\ \E g, h \in DOMAIN n.at : g # h
    <2>1. PointerEnd(t, f) = BeginPinch(n) BY <1>4 DEF PointerEnd
    <2> HIDE DEF n
    <2>2. PICK g, h \in DOMAIN n.at : g # h BY <1>4
    <2>3. FingersOk(BeginPinch(n)) /\ BeginPinch(n).pic = n.pic /\ BeginPinch(n).crop = n.crop
        BY <1>2, <1>3, <2>2, PinchBegins
    <2> QED BY <1>2, <2>1, <2>3
<1>5. CASE f \in DOMAIN t.at /\ n.pinch # {} /\ ~\E g, h \in DOMAIN n.at : g # h
    <2>1. PointerEnd(t, f) = IF DOMAIN n.at = {} THEN o ELSE BeginDrag(o, Lowest(DOMAIN n.at))
        BY <1>5 DEF PointerEnd, HandsOpened
    <2> HIDE DEF n
    <2>2. /\ ToolShape(o) /\ o.at = n.at /\ o.pic = n.pic /\ o.crop = n.crop /\ o.pinch = {} /\ o.drag = {}
        BY <1>2, HandsOpen, Zenon
    <2> HIDE DEF o
    <2>3. CASE DOMAIN n.at = {}
        <3>1. FingersOk(o) BY <2>2 DEF FingersOk
        <3> QED BY <1>2, <2>1, <2>2, <2>3, <3>1
    <2>4. CASE DOMAIN n.at # {}
        <3> DEFINE k == Lowest(DOMAIN n.at)
        <3>1. k \in DOMAIN n.at BY <1>3, <2>4, LowestOf
        <3> HIDE DEF k
        <3>2. DOMAIN o.at = {k} BY <1>5, <2>2, <3>1
        <3>3. FingersOk(BeginDrag(o, k)) /\ BeginDrag(o, k).pic = o.pic /\ BeginDrag(o, k).crop = o.crop
            BY <2>2, <3>2, DragBegins
        <3>4. PointerEnd(t, f) = BeginDrag(o, k) BY <2>1, <2>4 DEF k
        <3> QED BY <1>2, <2>2, <3>3, <3>4
    <2> QED BY <2>3, <2>4
<1>6. CASE f \in DOMAIN t.at /\ n.pinch = {}
    <2> DEFINE m == [n EXCEPT !.drag = {k \in n.drag : k.finger # f}]
    <2>1. PointerEnd(t, f) = m BY <1>6 DEF PointerEnd
    <2>2. m.pic = n.pic /\ m.crop = n.crop /\ m.pinch = n.pinch /\ m.drag = {k \in n.drag : k.finger # f}
        BY <1>2 DEF ToolShape
    <2> HIDE DEF m
    <2>3. m.drag = {} BY <1>2, <1>6, <2>2 DEF FingersOk
    <2>4. FingersOk(m) BY <1>6, <2>2, <2>3 DEF FingersOk
    <2> QED BY <1>2, <2>1, <2>2, <2>4
<1> QED BY <1>1, <1>4, <1>5, <1>6

\* What is stored of settings asked for, and nothing else of the tool.
LEMMA UpdateKeeps ==
    ASSUME NEW t, ToolShape(t), FingersOk(t), t.pic \in Sizes, NEW s, Asking(s)
    PROVE  /\ FingersOk(Updated(t, s)) /\ Updated(t, s).pic = t.pic
           /\ CropHolds(Updated(t, s).pic, Updated(t, s).crop)
<1> DEFINE n == Updated(t, s)
<1>1. /\ n.pic = t.pic /\ n.at = t.at /\ n.drag = t.drag /\ n.pinch = t.pinch
      /\ n.crop = Normalized(t.pic, s)
    BY DEF ToolShape, Updated
<1> HIDE DEF n
<1>2. FingersOk(n) BY <1>1, SameFingers
<1>3. CropHolds(t.pic, Normalized(t.pic, s)) BY StoredIsCrop
<1> QED BY <1>1, <1>2, <1>3 DEF n

\* What a finger that moves asks for.
LEMMA MoveKeeps ==
    ASSUME NEW t, ToolShape(t), FingersOk(t), t.pic \in Sizes, t.crop \in Stored,
           DOMAIN t.at \subseteq Fingers, \A g \in DOMAIN t.at : t.at[g] \in Places,
           t.drag \subseteq Drag, t.pinch \subseteq Pinch,
           NEW f, NEW p \in Places, NEW n \in PointerMove(t, f, p)
    PROVE  /\ FingersOk(n)
           /\ <<n.pic, n.crop>> = <<t.pic, t.crop>> \/ CropHolds(n.pic, n.crop)
<1> DEFINE m == Placed(t, f, p)
           bare == [t EXCEPT !.at = [g \in {} |-> 0], !.drag = {}, !.pinch = {}]
<1>1. CASE f \notin DOMAIN t.at
    <2>1. n = t BY <1>1 DEF PointerMove
    <2> QED BY <2>1
<1>2. CASE f \in DOMAIN t.at /\ ~t.prepare
    <2>1. n = bare BY <1>2 DEF PointerMove
    <2>2. bare.pic = t.pic /\ bare.crop = t.crop /\ bare.drag = {} /\ bare.pinch = {} BY DEF ToolShape
    <2> HIDE DEF bare
    <2>3. FingersOk(n) BY <2>1, <2>2 DEF FingersOk
    <2> QED BY <2>1, <2>2, <2>3
<1>3. CASE f \in DOMAIN t.at /\ t.prepare
    <2>1. n \in IF m.pinch # {} THEN {Pinched(m, k) : k \in m.pinch}
                ELSE IF \A k \in m.drag : k.finger # f THEN {m}
                ELSE {Dragged(m, k, p) : k \in m.drag}
        BY <1>3, Zenon DEF PointerMove
    <2>2. /\ ToolShape(m) /\ DOMAIN m.at = DOMAIN t.at /\ m.pic = t.pic /\ m.crop = t.crop
          /\ m.drag = t.drag /\ m.pinch = t.pinch
          /\ \A g \in DOMAIN m.at : m.at[g] = IF g = f THEN p ELSE t.at[g]
        <3>1. DOMAIN t.at \cup {f} = DOMAIN t.at BY <1>3
        <3>2. /\ ToolShape(m) /\ DOMAIN m.at = DOMAIN t.at \cup {f}
              /\ \A g \in DOMAIN t.at \cup {f} : m.at[g] = IF g = f THEN p ELSE t.at[g]
              /\ m.pic = t.pic /\ m.crop = t.crop /\ m.drag = t.drag /\ m.pinch = t.pinch
            BY FingerPlaced
        <3> HIDE DEF m
        <3> QED BY <3>1, <3>2, Zenon
    <2> HIDE DEF m
    <2>3. FingersOk(m) BY <2>2, SameFingers
    <2>4. /\ m.crop.px \in Int /\ m.crop.py \in Int /\ m.crop.zoom \in Int /\ m.crop.rot \in Int
          /\ m.crop = [x |-> m.crop.x, y |-> m.crop.y, w |-> m.crop.w, h |-> m.crop.h,
                       px |-> m.crop.px, py |-> m.crop.py, ratio |-> m.crop.ratio,
                       zoom |-> m.crop.zoom, rot |-> m.crop.rot, fx |-> m.crop.fx, fy |-> m.crop.fy]
        BY <2>2 DEF Stored
    <2>5. CASE n = m BY <2>2, <2>3, <2>5
    <2>6. ASSUME NEW k \in m.pinch, n = Pinched(m, k)
          PROVE  FingersOk(n) /\ (<<n.pic, n.crop>> = <<t.pic, t.crop>> \/ CropHolds(n.pic, n.crop))
        <3> DEFINE d == Distance(m.at[k.first], m.at[k.second])
                   s == [m.crop EXCEPT !.zoom = (k.zoom * d) \div k.dist]
        <3>1. k \in Pinch BY <2>2
        <3>2. n = m \/ n = Updated(m, s) BY <2>3, <2>6 DEF Pinched, FingersOk
        <3>3. /\ k.zoom \in Int /\ k.dist \in Nat \ {0}
              /\ k.first \in DOMAIN m.at /\ k.second \in DOMAIN m.at
            BY <2>3, <3>1 DEF Pinch, FingersOk
        <3>4. m.at[k.first] \in Int /\ m.at[k.second] \in Int
            BY <2>2, <3>3, CropAssumption
        <3>5. d \in Int BY <3>4, SMT DEF Distance
        <3> HIDE DEF d
        <3>6. (k.zoom * d) \div k.dist \in Int
            <4>1. k.zoom * d \in Int BY <3>3, <3>5, SMT
            <4> QED BY <3>3, <4>1, QuotientBounds
        <3>7. Asking(s) BY <2>4, <3>6 DEF Asking
        <3> HIDE DEF s
        <3>8. FingersOk(Updated(m, s)) /\ CropHolds(Updated(m, s).pic, Updated(m, s).crop)
            BY <2>2, <2>3, <3>7, UpdateKeeps
        <3> QED BY <2>2, <2>3, <3>2, <3>8
    <2>7. ASSUME NEW k \in m.drag, n = Dragged(m, k, p)
          PROVE  FingersOk(n) /\ CropHolds(n.pic, n.crop)
        <3> DEFINE s == [m.crop EXCEPT !.px = k.px + 100 * (p - k.start)]
        <3>1. k \in Drag BY <2>2
        <3>2. k.px \in Int /\ k.start \in Int /\ p \in Int BY <3>1, CropAssumption DEF Drag
        <3>3. k.px + 100 * (p - k.start) \in Int BY <3>2, SMT
        <3>4. Asking(s) BY <2>4, <3>3 DEF Asking
        <3>5. n = Updated(m, s) BY <2>7 DEF Dragged
        <3> HIDE DEF s
        <3> QED BY <2>2, <2>3, <3>4, <3>5, UpdateKeeps
    <2> QED BY <2>1, <2>5, <2>6, <2>7
<1> QED BY <1>1, <1>2, <1>3

\* What the controls ask for.
LEMMA ControlsAsk ==
    ASSUME NEW crop \in Stored, NEW s \in Controls(crop)
    PROVE  Asking(s)
<1>1. /\ crop.px \in Int /\ crop.py \in Int /\ crop.zoom \in Int /\ crop.rot \in Int
      /\ crop = [x |-> crop.x, y |-> crop.y, w |-> crop.w, h |-> crop.h, px |-> crop.px, py |-> crop.py,
              ratio |-> crop.ratio, zoom |-> crop.zoom, rot |-> crop.rot, fx |-> crop.fx, fy |-> crop.fy]
    BY DEF Stored
<1>2. \A a \in Int : Clamp(-a, -180, 180) \in Int /\ -a \in Int BY SMT DEF Clamp, Most, Least
<1>3. \A a \in Int, delta \in {-90, 90} : Stepped(a, delta) \in Int BY SMT DEF Stepped
<1>4. \A a \in Asks : a.zoom \in Int /\ a.rot \in Int BY CropAssumption DEF CropSettings
<1>5. ASSUME NEW delta \in {-90, 90} PROVE Asking(QuarterTurned(crop, delta))
    <2>1. Stepped(crop.rot, delta) \in Int BY <1>1, <1>3
    <2> QED BY <1>1, <2>1 DEF QuarterTurned, Asking
<1>6. Asking(FlippedX(crop)) /\ Asking(FlippedY(crop))
    <2>1. Whole(crop) BY <1>1 DEF Whole
    <2> QED BY <1>1, <1>2, <2>1, FlippedFields DEF Asking
<1>7. ASSUME NEW r PROVE Asking([crop EXCEPT !.ratio = r]) BY <1>1 DEF Asking
<1>8. ASSUME NEW z \in Int PROVE Asking([crop EXCEPT !.zoom = z]) BY <1>1 DEF Asking
<1>9. ASSUME NEW a \in Int PROVE Asking([crop EXCEPT !.rot = a]) BY <1>1 DEF Asking
<1>10. {a.zoom : a \in Asks} \cup {crop.zoom - 100, crop.zoom - 20, crop.zoom + 20, crop.zoom + 100} \subseteq Int
    <2>1. \A z \in Int : {z - 100, z - 20, z + 20, z + 100} \subseteq Int BY SMT
    <2> QED BY <1>1, <1>4, <2>1
<1>11. Asking(QuarterTurned(crop, -90)) /\ Asking(QuarterTurned(crop, 90)) BY <1>5
<1>12. \/ s \in {QuarterTurned(crop, -90), QuarterTurned(crop, 90), FlippedX(crop), FlippedY(crop)}
       \/ \E r \in AspectRatios : s = [crop EXCEPT !.ratio = r]
       \/ \E z \in Int : s = [crop EXCEPT !.zoom = z]
       \/ \E a \in Int : s = [crop EXCEPT !.rot = a]
    BY <1>4, <1>10 DEF Controls
<1> QED BY <1>6, <1>7, <1>8, <1>9, <1>11, <1>12

\* A finger that was lifted keeps neither a drag nor a pinch, and what the fingers and the
\* controls ask for leaves a crop of the picture: from every state of the tool in which one
\* finger drags or two pinch, for any number of fingers (pointer-mapper.js).
THEOREM FingersKeep == ToolKeeps
<1> SUFFICES ASSUME NEW t \in CropTools, FingersOk(t)
             PROVE  /\ \A n \in Changes(t) \cup Openings(t) : FingersOk(n)
                    /\ \A n \in Changes(t) : \/ <<n.pic, n.crop>> = <<t.pic, t.crop>>
                                             \/ CropHolds(n.pic, n.crop)
    BY DEF ToolKeeps
<1>1. /\ ToolShape(t) /\ t.pic \in Sizes /\ t.crop \in Stored
      /\ DOMAIN t.at \subseteq Fingers /\ \A f \in DOMAIN t.at : t.at[f] \in Places
      /\ t.drag \subseteq Drag /\ t.pinch \subseteq Pinch
    BY CropAssumption DEF ToolShape
<1>2. Fingers \subseteq Nat /\ Pictures \subseteq Sizes BY CropAssumption
<1> DEFINE Kept(n) == FingersOk(n) /\ (<<n.pic, n.crop>> = <<t.pic, t.crop>> \/ CropHolds(n.pic, n.crop))
<1>3. ASSUME NEW f \in Fingers, NEW p \in Places PROVE Kept(PointerDown(t, f, p))
    BY <1>1, <1>2, DownKeeps
<1>4. ASSUME NEW f \in Fingers, NEW p \in Places, NEW n \in PointerMove(t, f, p) PROVE Kept(n)
    BY <1>1, MoveKeeps
<1>5. ASSUME NEW f \in Fingers PROVE Kept(PointerEnd(t, f))
    BY <1>1, <1>2, EndKeeps
<1>6. ASSUME NEW s \in Controls(t.crop) PROVE Kept(IF t.prepare THEN Updated(t, s) ELSE t)
    <2>1. Kept(t) OBVIOUS
    <2>2. Kept(Updated(t, s)) BY <1>1, ControlsAsk, UpdateKeeps
    <2> QED BY <2>1, <2>2
<1>7. ASSUME NEW b \in Pictures, NEW r \in AspectRatios PROVE Kept(ImageLoaded(t, b, r))
    <2> DEFINE n == ImageLoaded(t, b, r)
               s == DefaultCrop(b, r)
    <2>1. Asking(s) BY DEF DefaultCrop, Asking
    <2>2. n = [t EXCEPT !.pic = b, !.crop = Normalized(b, s), !.prepare = TRUE] BY DEF ImageLoaded
    <2> HIDE DEF s, n
    <2>3. /\ n.pic = b /\ n.crop = Normalized(b, s) /\ n.at = t.at /\ n.drag = t.drag
          /\ n.pinch = t.pinch
        BY <1>1, <2>2 DEF ToolShape
    <2>4. b \in Sizes BY <1>2
    <2>5. FingersOk(n) BY <2>3, SameFingers
    <2>6. CropHolds(b, Normalized(b, s)) BY <2>1, <2>4, StoredIsCrop
    <2>7. Kept(n) BY <2>3, <2>5, <2>6
    <2> QED BY <2>7 DEF n
<1>8. Kept([t EXCEPT !.prepare = ~@])
    <2> DEFINE n == [t EXCEPT !.prepare = ~@]
    <2>1. /\ n.pic = t.pic /\ n.crop = t.crop /\ n.at = t.at /\ n.drag = t.drag
          /\ n.pinch = t.pinch
        BY <1>1 DEF ToolShape
    <2> HIDE DEF n
    <2>2. FingersOk(n) BY <2>1, SameFingers
    <2>3. Kept(n) BY <2>1, <2>2
    <2> QED BY <2>3 DEF n
<1>9. ASSUME NEW k \in CropTools, NEW v \in BOOLEAN PROVE FingersOk(ProjectOpened(t, k.pic, k.crop, v))
    <2> DEFINE n == ProjectOpened(t, k.pic, k.crop, v)
    <2>1. n.at = t.at /\ n.drag = t.drag /\ n.pinch = t.pinch
        BY <1>1 DEF ProjectOpened, ToolShape
    <2> HIDE DEF n
    <2>2. FingersOk(n) BY <2>1, SameFingers
    <2> QED BY <2>2 DEF n
<1> HIDE DEF Kept
<1>10. \A n \in Changes(t) : Kept(n)
    BY <1>3, <1>4, <1>5, <1>6, <1>7, <1>8 DEF Changes
<1>11. \A n \in Openings(t) : FingersOk(n) BY <1>9 DEF Openings
<1> QED BY <1>10, <1>11 DEF Kept

\* For every picture, request, set of fingers and length: the crop and resize tools give
\* crops and sizes of the picture, and keep them (crop-feature.js, resize-feature.js,
\* pointer-mapper.js).
THEOREM CropSafe == EditorSpec => []CropInv
<1>1. CropInv BY CropAlwaysFits, CropStays, FingersKeep, ResizeKeepsRatio DEF CropInv
<1> QED BY <1>1, PTL
=============================================================================
