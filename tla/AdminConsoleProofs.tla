------------------------- MODULE AdminConsoleProofs -------------------------
(***************************************************************************)
(* The safety properties of AdminConsole, for every number of acts.        *)
(***************************************************************************)
EXTENDS AdminConsole, TLAPS

Navs    == {"idle", "features", "featuresKnown", "verify", "auth"}
Views   == {"network", "settings"}
Dialogs == {"none", "login", "scan", "reset"}
Logins  == {"idle", "asked", "granted"}
Leaves  == {"none", "logout", "password", "reset"}
Waiting == Hashes \cup {"none"}
Retries == 0..RetryDelays
Strays  == SUBSET [val : Value, tok : Nat]
ConsoleRecord ==
  [hash : Hashes, event : BOOLEAN, target : Hashes, nav : Navs, page : Views, last : Hashes,
   pending : Waiting, dialog : Dialogs, login : Logins, token : Nat, named : BOOLEAN,
   features : BOOLEAN, asking : BOOLEAN, queued : Syncs, wifi : Snap, gets : [Whys -> Get],
   form : Value, base : Value, based : BOOLEAN, busy : BOOLEAN, put : Put, poll : Poll,
   retry : Retries, strays : Strays, scan : BOOLEAN, found : BOOLEAN, shut : BOOLEAN,
   cooling : BOOLEAN, leave : Leaves, acked : Nat, proven : Nat, grant : Nat]
DeviceRecord ==
  [cfg : Value, rev : Nat, token : Nat, cand : SUBSET Value, conn : Conn,
   restart : {"none", "again", "factory"}]

\* A route is followed to the settings without asking only in the session just confirmed,
\* and asked about only in a session.
Routed(k) ==
  /\ k.login = "granted" => k.grant # 0
  /\ k.page = "network" => k.last = "network" /\ k.leave = "none" /\ k.put.st = "idle"
  /\ k.nav \in {"features", "featuresKnown", "verify"} => PageOf(k.target) = "settings"
  /\ k.page = "network" /\ k.nav = "featuresKnown" => k.token = k.proven /\ k.token # 0
Guarded(k) == Routed(k) /\ (k.page = "network" /\ k.nav = "verify" => k.token # 0)

\* What is known of the device, of which rev is the newest change, or on its way; only the
\* newest read counts, and its answer is not older than what the page has.
Current(g, k) == g.newest /\ g.st = "back" => g.snap.rev >= k.wifi.rev /\ g.snap.rev >= k.acked
Fresh(k, rev) ==
  /\ k.wifi.rev <= rev /\ k.acked <= rev /\ k.put.rev <= rev /\ k.poll.conn.rev <= rev
  /\ \A w \in Whys : k.gets[w].snap.rev <= rev /\ Current(k.gets[w], k)
  /\ \A v, w \in Whys : k.gets[v].newest /\ k.gets[w].newest => v = w

Sound(k, rev) == k \in ConsoleRecord /\ Guarded(k) /\ Fresh(k, rev)

\* What holds between any two steps.
ConsoleInductive ==
  /\ Sound(c, dev.rev) /\ dev \in DeviceRecord /\ dev.token # 0 /\ dev.conn.rev <= dev.rev
  /\ acts \in 0..MaxActs

\* m follows k, as the two properties have it.
Opens(k, m) == k.page = "network" /\ m.page = "settings" => m.token # 0 /\ m.token = m.proven
Takes(k, m) == m.wifi # k.wifi => m.wifi.rev >= k.wifi.rev /\ m.wifi.rev >= m.acked
Step(k, m)  == Opens(k, m) /\ Takes(k, m)

\* m has what k knows of the route and the session; a save may be over.
SameRoute(k, m) ==
  /\ m.hash = k.hash /\ m.target = k.target /\ m.nav = k.nav /\ m.page = k.page
  /\ m.last = k.last /\ m.login = k.login /\ m.token = k.token /\ m.leave = k.leave
  /\ m.proven = k.proven /\ m.grant = k.grant /\ m.put.st \in {k.put.st, "idle"}
\* m has also what k knows of the device: forms, dialogs and timers may differ.
SameData(k, m) == m.wifi = k.wifi /\ m.gets = k.gets /\ m.put = k.put /\ m.poll = k.poll /\ m.acked = k.acked
Same(k, m) == m \in ConsoleRecord /\ SameRoute(k, m) /\ SameData(k, m)

-----------------------------------------------------------------------------
(* Records.                                                                 *)

LEMMA NamesTyped ==
  /\ {"idle", "verify", "auth", "features", "featuresKnown"} \subseteq Navs
  /\ {"none", "login", "scan", "reset"} \subseteq Dialogs /\ {"network", "settings"} \subseteq Views
  /\ {"idle", "asked", "granted"} \subseteq Logins /\ {"none", "logout", "password", "reset"} \subseteq Leaves
  /\ "none" \in Waiting /\ Hashes \subseteq Waiting /\ {"network", "wifi", "system"} \subseteq Hashes
  /\ {0, 1} \subseteq Retries /\ {} \in Strays /\ {"none", "force", "if-clean"} \subseteq Syncs
BY DEF Navs, Dialogs, Views, Logins, Leaves, Waiting, Hashes, Retries, RetryDelays, Strays, Syncs

LEMMA SameSound ==
  ASSUME NEW k, NEW m, NEW rev, Sound(k, rev), Same(k, m) PROVE Sound(m, rev)
BY DEF Sound, Same, SameRoute, SameData, Guarded, Routed, Fresh, Current

LEMMA SameTwice == ASSUME NEW a, NEW b, NEW m, Same(a, b), Same(b, m) PROVE Same(a, m)
BY DEF Same, SameRoute, SameData

LEMMA RouteGuarded ==
  ASSUME NEW k, NEW m, Guarded(k), SameRoute(k, m) PROVE Guarded(m)
BY DEF Guarded, Routed, SameRoute

\* A newer change of the device makes nothing of what is known newer.
LEMMA FreshLater ==
  ASSUME NEW k \in ConsoleRecord, NEW rev \in Nat, NEW later \in Nat, rev <= later, Fresh(k, rev)
  PROVE  Fresh(k, later)
<1>1. /\ k.wifi.rev \in Nat /\ k.acked \in Nat /\ k.put.rev \in Nat /\ k.poll.conn.rev \in Nat
      /\ \A w \in Whys : k.gets[w].snap.rev \in Nat
  BY DEF ConsoleRecord, Snap, Put, Poll, Conn, Get
<1> QED BY <1>1 DEF Fresh

LEMMA NonesTyped ==
  /\ First \in Value /\ NoSnap \in Snap /\ NoGet \in Get /\ NoPut \in Put /\ NoConn \in Conn /\ NoPoll \in Poll
  /\ NoGet.st = "idle" /\ ~NoGet.newest /\ NoGet.snap.rev = 0 /\ NoPut.st = "idle" /\ NoPut.rev = 0
  /\ NoPoll.conn.rev = 0 /\ NoConn.rev = 0
<1>1. First \in Value BY DEF First, Value
<1>2. NoSnap \in Snap /\ NoConn \in Conn BY <1>1 DEF NoSnap, Snap, NoConn, Conn
<1>3. NoGet \in Get /\ NoPut \in Put /\ NoPoll \in Poll
  BY <1>1, <1>2 DEF NoGet, Get, Syncs, NoPut, Put, NoPoll, Poll
<1> QED BY <1>1, <1>2, <1>3 DEF NoGet, NoSnap, NoPut, NoPoll, NoConn

-----------------------------------------------------------------------------
(* The form.                                                                *)

LEMMA FillFormSame ==
  ASSUME NEW k \in ConsoleRecord PROVE Same(k, FillForm(k))
<1> DEFINE v == k.wifi.cfg
           m == [k EXCEPT !.form = v, !.base = v, !.based = TRUE]
<1>1. v \in Value BY DEF ConsoleRecord, Snap
<1> HIDE DEF v
<1>2. Same(k, m) BY <1>1 DEF Same, SameRoute, SameData, ConsoleRecord
<1>3. Same(k, k) BY DEF Same, SameRoute, SameData
<1> HIDE DEF m
<1>4. FillForm(k) \in {k, m} BY DEF FillForm, m, v
<1> QED BY <1>2, <1>3, <1>4

LEMMA RenderSame == ASSUME NEW k \in ConsoleRecord PROVE Same(k, RenderCurrent(k))
<1>1. Same(k, k) BY DEF Same, SameRoute, SameData
<1> QED BY <1>1, FillFormSame DEF RenderCurrent

LEMMA SyncSame ==
  ASSUME NEW k \in ConsoleRecord, NEW committed, NEW sync
  PROVE  Same(k, SyncViews(k, committed, sync))
BY FillFormSame, RenderSame DEF SyncViews

-----------------------------------------------------------------------------
(* Reads.                                                                   *)

LEMMA SupersededTyped ==
  ASSUME NEW k \in ConsoleRecord
  PROVE  /\ Superseded(k) \in [Whys -> Get]
         /\ \A w \in Whys : ~Superseded(k)[w].newest /\ Superseded(k)[w].snap = k.gets[w].snap
<1>1. \A g \in Get : /\ [g EXCEPT !.newest = FALSE] \in Get /\ ~[g EXCEPT !.newest = FALSE].newest
                     /\ [g EXCEPT !.newest = FALSE].snap = g.snap
  BY DEF Get
<1>2. k.gets \in [Whys -> Get] BY DEF ConsoleRecord
<1> QED BY <1>1, <1>2 DEF Superseded

\* A read begun now is the only one that counts, and no answer is out for it.
LEMMA LoadSound ==
  ASSUME NEW rev \in Nat, NEW k, Sound(k, rev), NEW w \in Whys, NEW sync \in Syncs
  PROVE  LET m == LoadSnapshot(k, w, sync)
         IN  Sound(m, rev) /\ SameRoute(k, m) /\ m.wifi = k.wifi
<1> DEFINE g == [NoGet EXCEPT !.st = "asked", !.newest = TRUE, !.own = TRUE, !.sync = sync]
           gs == [Superseded(k) EXCEPT ![w] = g]
           m == [k EXCEPT !.gets = gs]
<1>0. k \in ConsoleRecord BY DEF Sound
<1>1. g \in Get /\ g.st = "asked" /\ g.snap.rev = 0 BY NonesTyped DEF Get, NoGet
<1> HIDE DEF g
<1>2. /\ gs \in [Whys -> Get] /\ gs[w] = g
      /\ \A v \in Whys \ {w} : ~gs[v].newest /\ gs[v].snap = k.gets[v].snap
  BY <1>0, <1>1, SupersededTyped
<1> HIDE DEF gs
<1>3. m \in ConsoleRecord /\ m.gets = gs /\ SameRoute(k, m)
      /\ m.wifi = k.wifi /\ m.put = k.put /\ m.poll = k.poll /\ m.acked = k.acked
  BY <1>0, <1>2 DEF ConsoleRecord, SameRoute
<1>4. LoadSnapshot(k, w, sync) = m BY DEF LoadSnapshot, m, gs, g
<1> HIDE DEF m
<1>5. Guarded(m) BY <1>3, RouteGuarded DEF Sound
<1>6. Fresh(m, rev)
  <2>1. \A v \in Whys : m.gets[v].snap.rev <= rev /\ Current(m.gets[v], m)
    BY <1>1, <1>2, <1>3 DEF Sound, Fresh, Current
  <2> QED BY <1>2, <1>3, <2>1 DEF Sound, Fresh
<1> QED BY <1>3, <1>4, <1>5, <1>6 DEF Sound

\* The end of a save: what it changed is known, and no read of before it counts.
LEMMA AcceptedSound ==
  ASSUME NEW rev \in Nat, NEW k, Sound(k, rev), NEW mark \in Nat, mark <= rev
  PROVE  LET m == Accepted(k, mark) IN Sound(m, rev) /\ SameRoute(k, m) /\ m.wifi = k.wifi
<1> DEFINE v == k.put.val
           b == [k EXCEPT !.busy = FALSE, !.acked = mark]
           a == [b EXCEPT !.base = v, !.based = TRUE]
           gs == Superseded(a)
           m == [[a EXCEPT !.gets = gs] EXCEPT !.put = NoPut, !.poll = NoPoll]
<1>0. k \in ConsoleRecord BY DEF Sound
<1>1. v \in Value BY <1>0 DEF ConsoleRecord, Put
<1>2. Accepted(k, mark) = m
  BY <1>0 DEF Accepted, Invalidate, AcceptSaved, ConsoleRecord
<1> HIDE DEF v
<1>3. b \in ConsoleRecord /\ SameRoute(k, b) /\ b.wifi = k.wifi /\ b.acked = mark /\ b.gets = k.gets
  <2>1. b \in ConsoleRecord BY <1>0 DEF ConsoleRecord
  <2>2. b.acked = mark BY <1>0 DEF ConsoleRecord
  <2>3. b.wifi = k.wifi /\ b.gets = k.gets BY <1>0 DEF ConsoleRecord
  <2>4. SameRoute(k, b) BY <1>0 DEF ConsoleRecord, SameRoute
  <2> QED BY <2>1, <2>2, <2>3, <2>4
<1> HIDE DEF b
<1>4. a \in ConsoleRecord /\ SameRoute(k, a) /\ a.wifi = k.wifi /\ a.acked = mark /\ a.gets = k.gets
  BY <1>1, <1>3 DEF ConsoleRecord, SameRoute
<1> HIDE DEF a
<1>5. gs \in [Whys -> Get] /\ \A w \in Whys : ~gs[w].newest /\ gs[w].snap = k.gets[w].snap
  BY <1>4, SupersededTyped
<1> HIDE DEF gs
<1>6. m \in ConsoleRecord /\ SameRoute(k, m) /\ m.wifi = k.wifi /\ m.acked = mark /\ m.gets = gs
      /\ m.put = NoPut /\ m.poll = NoPoll
  BY <1>4, <1>5, NonesTyped, NamesTyped, ZenonT(60) DEF ConsoleRecord, SameRoute
<1> HIDE DEF m
<1>7. Guarded(m) BY <1>6, RouteGuarded DEF Sound
<1>8. Fresh(m, rev) BY <1>5, <1>6, NonesTyped DEF Sound, Fresh, Current
<1> QED BY <1>2, <1>6, <1>7, <1>8 DEF Sound

-----------------------------------------------------------------------------
(* The router.                                                              *)

LEMMA Pages == \A h \in Hashes : PageOf(h) = "network" <=> h = "network"
BY DEF PageOf

\* Whose requests end: nothing is out for the page that is left.
LEMMA RotateSound ==
  ASSUME NEW rev \in Nat, NEW k, Sound(k, rev)
  PROVE  LET m == Rotate(k)
         IN  /\ Sound(m, rev) /\ m.put.st = "idle" /\ m.leave = "none" /\ m.nav = "idle"
             /\ m.hash = k.hash /\ m.page = k.page /\ m.token = k.token /\ m.proven = k.proven
             /\ m.wifi = k.wifi /\ m.features = k.features
<1> DEFINE ss == IF k.put.st = "asked" THEN k.strays \cup {[val |-> k.put.val, tok |-> k.put.tok]}
                 ELSE k.strays
           dg == IF k.nav = "auth" THEN "none" ELSE k.dialog
           gs == [k.gets EXCEPT !["retry"].own = FALSE]
           a == [k EXCEPT !.strays = ss, !.dialog = dg, !.put = NoPut, !.poll = NoPoll]
           b == [a EXCEPT !.retry = 0, !.busy = FALSE, !.gets = gs]
           m == [b EXCEPT !.login = "idle", !.leave = "none", !.scan = FALSE, !.nav = "idle"]
<1>0. k \in ConsoleRecord /\ Guarded(k) /\ Fresh(k, rev) BY DEF Sound
<1>1. ss \in Strays BY <1>0 DEF ConsoleRecord, Put, Strays
<1>2. dg \in Dialogs BY <1>0, NamesTyped DEF ConsoleRecord
<1>3. /\ gs \in [Whys -> Get]
      /\ \A w \in Whys : gs[w].newest = k.gets[w].newest /\ gs[w].st = k.gets[w].st /\ gs[w].snap = k.gets[w].snap
  <2>1. \A g \in Get : /\ [g EXCEPT !.own = FALSE] \in Get /\ [g EXCEPT !.own = FALSE].newest = g.newest
                       /\ [g EXCEPT !.own = FALSE].st = g.st /\ [g EXCEPT !.own = FALSE].snap = g.snap
    BY DEF Get
  <2>2. k.gets \in [Whys -> Get] /\ "retry" \in Whys BY <1>0 DEF ConsoleRecord, Whys
  <2>3. gs = [k.gets EXCEPT !["retry"] = [k.gets["retry"] EXCEPT !.own = FALSE]] OBVIOUS
  <2> HIDE DEF gs
  <2> QED BY <2>1, <2>2, <2>3
<1>4. Rotate(k) = m BY <1>0 DEF Rotate, ConsoleRecord
<1> HIDE DEF ss, dg, gs
<1>5. /\ a \in ConsoleRecord /\ a.put = NoPut /\ a.poll = NoPoll
      /\ a.hash = k.hash /\ a.target = k.target /\ a.page = k.page /\ a.last = k.last
      /\ a.token = k.token /\ a.proven = k.proven /\ a.wifi = k.wifi /\ a.acked = k.acked /\ a.features = k.features
  <2>1. a \in ConsoleRecord BY <1>0, <1>1, <1>2, NonesTyped, NamesTyped, ZenonT(60) DEF ConsoleRecord
  <2>2. /\ a.put = NoPut /\ a.poll = NoPoll /\ a.hash = k.hash /\ a.target = k.target
        /\ a.page = k.page /\ a.last = k.last /\ a.token = k.token /\ a.proven = k.proven
        /\ a.wifi = k.wifi /\ a.acked = k.acked /\ a.features = k.features
    BY <1>0, <1>1, <1>2, NonesTyped, NamesTyped DEF ConsoleRecord
  <2> QED BY <2>1, <2>2
<1> HIDE DEF a
<1>6. /\ b \in ConsoleRecord /\ b.put = NoPut /\ b.poll = NoPoll /\ b.gets = gs
      /\ b.hash = k.hash /\ b.target = k.target /\ b.page = k.page /\ b.last = k.last
      /\ b.token = k.token /\ b.proven = k.proven /\ b.wifi = k.wifi /\ b.acked = k.acked /\ b.features = k.features
  <2>1. b \in ConsoleRecord BY <1>3, <1>5, NamesTyped, ZenonT(60) DEF ConsoleRecord
  <2>2. /\ b.put = NoPut /\ b.poll = NoPoll /\ b.gets = gs /\ b.hash = k.hash
        /\ b.target = k.target /\ b.page = k.page /\ b.last = k.last /\ b.token = k.token
        /\ b.proven = k.proven /\ b.wifi = k.wifi /\ b.acked = k.acked /\ b.features = k.features
    BY <1>3, <1>5, NamesTyped DEF ConsoleRecord
  <2> QED BY <2>1, <2>2
<1> HIDE DEF b
<1>7. /\ m \in ConsoleRecord /\ m.put = NoPut /\ m.poll = NoPoll /\ m.gets = gs
      /\ m.hash = k.hash /\ m.target = k.target /\ m.page = k.page /\ m.last = k.last
      /\ m.token = k.token /\ m.proven = k.proven /\ m.wifi = k.wifi /\ m.acked = k.acked /\ m.features = k.features
      /\ m.login = "idle" /\ m.leave = "none" /\ m.nav = "idle"
  <2>1. m \in ConsoleRecord BY <1>6, NamesTyped, ZenonT(60) DEF ConsoleRecord
  <2>2. /\ m.put = NoPut /\ m.poll = NoPoll /\ m.gets = gs /\ m.hash = k.hash
        /\ m.target = k.target /\ m.page = k.page /\ m.last = k.last /\ m.token = k.token
        /\ m.proven = k.proven /\ m.wifi = k.wifi /\ m.acked = k.acked /\ m.features = k.features /\ m.login = "idle"
        /\ m.leave = "none" /\ m.nav = "idle"
    BY <1>6 DEF ConsoleRecord
  <2> QED BY <2>1, <2>2
<1> HIDE DEF m
<1>8. Guarded(m) BY <1>0, <1>7, NonesTyped DEF Guarded, Routed
<1>9. Fresh(m, rev) BY <1>0, <1>3, <1>7, NonesTyped DEF Fresh, Current
<1> QED BY <1>4, <1>7, <1>8, <1>9, NonesTyped DEF Sound

\* A route may be landed on: the page that is left has nothing out.
Landable(k) == k.target = "network" => k.hash = "network" /\ k.leave = "none" /\ k.put.st = "idle"

LEMMA LandSound ==
  ASSUME NEW rev \in Nat, NEW k, Sound(k, rev), Landable(k)
  PROVE  LET m == Land(k)
         IN  /\ Sound(m, rev) /\ m.page = PageOf(k.target)
             /\ m.token = k.token /\ m.proven = k.proven /\ m.wifi = k.wifi
<1> DEFINE p == PageOf(k.target)
           dg == IF k.target = "network" THEN "none" ELSE k.dialog
           d == [k EXCEPT !.nav = "idle", !.last = k.hash, !.pending = "none", !.dialog = dg]
           cl == IF p = "settings" THEN d.cooling ELSE FALSE
           m == [d EXCEPT !.page = p, !.form = First, !.base = First, !.based = FALSE, !.cooling = cl]
<1>0. k \in ConsoleRecord /\ Guarded(k) /\ Fresh(k, rev) BY DEF Sound
<1>1. p \in Views /\ (p = "network" => k.target = "network")
  BY NamesTyped DEF PageOf
<1>2. dg \in Dialogs BY <1>0, NamesTyped DEF ConsoleRecord
<1> HIDE DEF dg
<1>3. /\ d \in ConsoleRecord /\ d.nav = "idle" /\ d.last = k.hash /\ d.page = k.page
      /\ d.hash = k.hash /\ d.target = k.target /\ d.login = k.login /\ d.token = k.token
      /\ d.leave = k.leave /\ d.proven = k.proven /\ d.grant = k.grant /\ SameData(k, d)
  <2>1. d \in ConsoleRecord BY <1>0, <1>2, NamesTyped, ZenonT(60) DEF ConsoleRecord
  <2>2. /\ d.nav = "idle" /\ d.last = k.hash /\ d.page = k.page /\ d.hash = k.hash
        /\ d.target = k.target /\ d.login = k.login /\ d.token = k.token /\ d.leave = k.leave
        /\ d.proven = k.proven /\ d.grant = k.grant /\ SameData(k, d)
    BY <1>0, <1>2 DEF ConsoleRecord, SameData
  <2> QED BY <2>1, <2>2
<1>4. Land(k) = IF p = k.page THEN d ELSE FillForm(m)
  <2>1. Land(k) = MountRoute(d) BY DEF Land, dg
  <2> HIDE DEF d
  <2> QED BY <2>1, <1>3 DEF MountRoute
<1> HIDE DEF d, p
<1>5. cl \in BOOLEAN BY <1>3 DEF ConsoleRecord
<1> HIDE DEF cl
<1>6. /\ m \in ConsoleRecord /\ m.nav = "idle" /\ m.last = k.hash /\ m.page = p
      /\ m.hash = k.hash /\ m.target = k.target /\ m.login = k.login /\ m.token = k.token
      /\ m.leave = k.leave /\ m.proven = k.proven /\ m.grant = k.grant /\ SameData(k, m)
  <2>1. m \in ConsoleRecord BY <1>1, <1>3, <1>5, NonesTyped, NamesTyped, ZenonT(60) DEF ConsoleRecord, SameData
  <2>2. /\ m.nav = "idle" /\ m.last = k.hash /\ m.page = p /\ m.hash = k.hash
        /\ m.target = k.target /\ m.login = k.login /\ m.token = k.token /\ m.leave = k.leave
        /\ m.proven = k.proven /\ m.grant = k.grant /\ SameData(k, m)
    BY <1>1, <1>3, <1>5, NonesTyped, NamesTyped DEF ConsoleRecord, SameData
  <2> QED BY <2>1, <2>2
<1> HIDE DEF m
<1>7. ASSUME NEW n \in ConsoleRecord, n.nav = "idle", n.last = k.hash, n.page = p, n.login = k.login,
             n.token = k.token, n.leave = k.leave, n.proven = k.proven, n.grant = k.grant, SameData(k, n)
      PROVE  Sound(n, rev) /\ n.wifi = k.wifi
  <2>1. Guarded(n) BY <1>0, <1>1, <1>7 DEF Guarded, Routed, Landable, SameData
  <2>2. Fresh(n, rev) BY <1>0, <1>7 DEF Fresh, Current, SameData
  <2> QED BY <1>7, <2>1, <2>2 DEF Sound, SameData
<1>8. Sound(m, rev) BY <1>6, <1>7
<1>9. Same(m, FillForm(m)) BY <1>6, FillFormSame
<1>10. Sound(FillForm(m), rev) BY <1>8, <1>9, SameSound
<1>11. CASE p = k.page
  BY <1>3, <1>4, <1>7, <1>11 DEF p
<1>12. CASE p # k.page
  BY <1>4, <1>6, <1>9, <1>10, <1>12 DEF p, Same, SameRoute, SameData
<1> QED BY <1>11, <1>12

LEMMA OpenLoginSound ==
  ASSUME NEW rev \in Nat, NEW k \in ConsoleRecord, Routed(k), Fresh(k, rev)
  PROVE  LET m == OpenLogin(k) IN Sound(m, rev) /\ m.page = k.page /\ m.wifi = k.wifi
<1> DEFINE d == [k EXCEPT !.pending = k.hash]
           a == [d EXCEPT !.nav = "idle", !.dialog = "login"]
           b == [d EXCEPT !.nav = "auth"]
<1>1. Same(k, d)
  <2>1. k.hash \in Waiting BY NamesTyped DEF ConsoleRecord
  <2> QED BY <2>1 DEF ConsoleRecord, Same, SameRoute, SameData
<1>2. OpenLogin(k) \in {a, b} BY DEF OpenLogin
<1> HIDE DEF d
<1>3. d \in ConsoleRecord /\ Routed(d) /\ Fresh(d, rev)
  BY <1>1 DEF Routed, Fresh, Current, Same, SameRoute, SameData
<1>4. /\ a \in ConsoleRecord /\ a.nav = "idle" /\ SameData(d, a) /\ a.login = d.login /\ a.grant = d.grant
      /\ a.page = d.page /\ a.last = d.last /\ a.leave = d.leave
  <2>1. a \in ConsoleRecord BY <1>3, NamesTyped, ZenonT(60) DEF Sound, ConsoleRecord
  <2>2. /\ a.nav = "idle" /\ SameData(d, a) /\ a.login = d.login /\ a.grant = d.grant
        /\ a.page = d.page /\ a.last = d.last /\ a.leave = d.leave
    BY <1>3 DEF Sound, ConsoleRecord, SameData
  <2> QED BY <2>1, <2>2
<1>5. /\ b \in ConsoleRecord /\ b.nav = "auth" /\ SameData(d, b) /\ b.login = d.login /\ b.grant = d.grant
      /\ b.page = d.page /\ b.last = d.last /\ b.leave = d.leave
  <2>1. b \in ConsoleRecord BY <1>3, NamesTyped DEF Sound, ConsoleRecord
  <2>2. /\ b.nav = "auth" /\ SameData(d, b) /\ b.login = d.login /\ b.grant = d.grant
        /\ b.page = d.page /\ b.last = d.last /\ b.leave = d.leave
    BY <1>3 DEF Sound, ConsoleRecord, SameData
  <2> QED BY <2>1, <2>2
<1> HIDE DEF a, b
<1>6. Sound(a, rev) /\ Sound(b, rev)
  BY <1>3, <1>4, <1>5 DEF Sound, Guarded, Routed, Fresh, Current, SameData
<1> QED BY <1>1, <1>2, <1>4, <1>5, <1>6 DEF Same, SameRoute, SameData

\* What the code calls a known session is the one just confirmed.
Proven(k, known) ==
  known /\ k.target # "network" /\ k.page = "network" => k.token = k.proven /\ k.token # 0

LEMMA VerifySound ==
  ASSUME NEW rev \in Nat, NEW k, Sound(k, rev), Landable(k), NEW known \in BOOLEAN, Proven(k, known)
  PROVE  LET m == Verify(k, known) IN Sound(m, rev) /\ Opens(k, m) /\ m.wifi = k.wifi
<1>0. k \in ConsoleRecord /\ Guarded(k) /\ Fresh(k, rev) BY DEF Sound
<1>1. CASE k.target = "network" \/ known
  <2>1. Verify(k, known) = Land(k) BY <1>1 DEF Verify
  <2> QED BY <1>1, <2>1, LandSound DEF Proven, Opens, PageOf
<1>2. CASE k.target # "network" /\ ~known /\ k.token = 0
  <2>1. Verify(k, known) = OpenLogin(k) BY <1>2 DEF Verify
  <2> QED BY <1>0, <2>1, OpenLoginSound DEF Guarded, Routed, Opens
<1>3. CASE k.target # "network" /\ ~known /\ k.token # 0
  <2> DEFINE m == [k EXCEPT !.nav = "verify"]
  <2>1. Verify(k, known) = m BY <1>3 DEF Verify
  <2>2. /\ m \in ConsoleRecord /\ m.nav = "verify" /\ SameData(k, m) /\ m.login = k.login
        /\ m.grant = k.grant /\ m.page = k.page /\ m.last = k.last /\ m.leave = k.leave
        /\ m.target = k.target /\ m.token = k.token
    <3>1. m \in ConsoleRecord BY <1>0, NamesTyped DEF ConsoleRecord
    <3>2. /\ m.nav = "verify" /\ SameData(k, m) /\ m.login = k.login /\ m.grant = k.grant
          /\ m.page = k.page /\ m.last = k.last /\ m.leave = k.leave /\ m.target = k.target
          /\ m.token = k.token
      BY <1>0 DEF ConsoleRecord, SameData
    <3> QED BY <3>1, <3>2
  <2> HIDE DEF m
  <2>3. Guarded(m) BY <1>0, <1>3, <2>2 DEF Guarded, Routed, SameData, PageOf
  <2>4. Fresh(m, rev) BY <1>0, <2>2 DEF Fresh, Current, SameData
  <2> QED BY <2>1, <2>2, <2>3, <2>4 DEF Sound, Opens, SameData
<1> QED BY <1>1, <1>2, <1>3

LEMMA HandleRouteSound ==
  ASSUME NEW rev \in Nat, NEW k, Sound(k, rev), NEW known \in BOOLEAN,
         known /\ k.hash # "network" /\ k.page = "network" => k.token = k.proven /\ k.token # 0
  PROVE  LET m == HandleRoute(k, known) IN Sound(m, rev) /\ Opens(k, m) /\ m.wifi = k.wifi
<1> DEFINE o == Rotate(k)
           r == [o EXCEPT !.target = k.hash]
           nv == IF known THEN "featuresKnown" ELSE "features"
           f == [r EXCEPT !.nav = nv, !.asking = TRUE]
<1>1. /\ Sound(o, rev) /\ o.put.st = "idle" /\ o.leave = "none" /\ o.nav = "idle"
      /\ o.hash = k.hash /\ o.page = k.page /\ o.token = k.token /\ o.proven = k.proven /\ o.wifi = k.wifi
      /\ o.features = k.features
  BY RotateSound
<1> HIDE DEF o
<1>2. /\ r \in ConsoleRecord /\ SameData(o, r) /\ r.target = k.hash /\ r.hash = k.hash /\ r.nav = "idle"
      /\ r.login = o.login /\ r.grant = o.grant /\ r.page = o.page /\ r.last = o.last
      /\ r.leave = "none" /\ r.token = k.token /\ r.proven = k.proven /\ r.features = o.features
  BY <1>1 DEF Sound, ConsoleRecord, SameData
<1>3. HandleRoute(k, known) = IF PageOf(k.hash) = "settings" /\ ~k.features THEN f ELSE Verify(r, known)
  BY <1>1, <1>2 DEF HandleRoute, o
<1> HIDE DEF r
<1>4. Sound(r, rev)
  BY <1>1, <1>2 DEF Sound, Guarded, Routed, Fresh, Current, SameData
<1>5. CASE PageOf(k.hash) = "settings" /\ ~k.features
  <2>1. nv \in Navs /\ nv \in {"features", "featuresKnown"} /\ (nv = "featuresKnown" => known)
    BY NamesTyped
  <2> HIDE DEF nv
  <2>2. /\ f \in ConsoleRecord /\ SameData(r, f) /\ f.target = k.hash /\ f.nav = nv
        /\ f.login = r.login /\ f.grant = r.grant /\ f.page = r.page /\ f.last = r.last
        /\ f.leave = r.leave /\ f.token = k.token /\ f.proven = k.proven
    BY <1>2, <2>1, ZenonT(60) DEF ConsoleRecord, SameData
  <2> HIDE DEF f
  <2>3. k.hash # "network" BY <1>5 DEF PageOf
  <2>4. Guarded(f) BY <1>1, <1>2, <1>4, <1>5, <2>1, <2>2, <2>3 DEF Guarded, Routed, SameData, Sound
  <2>5. Fresh(f, rev) BY <1>4, <2>2 DEF Sound, Fresh, Current, SameData
  <2> QED BY <1>1, <1>2, <1>3, <1>5, <2>2, <2>4, <2>5 DEF Sound, Opens, SameData
<1>6. CASE ~(PageOf(k.hash) = "settings" /\ ~k.features)
  <2>1. Landable(r) BY <1>1, <1>2 DEF Landable, SameData
  <2>2. Proven(r, known) BY <1>1, <1>2 DEF Proven
  <2>3. Sound(Verify(r, known), rev) /\ Opens(r, Verify(r, known)) /\ Verify(r, known).wifi = r.wifi
    BY <1>4, <2>1, <2>2, VerifySound
  <2> QED BY <1>1, <1>2, <1>3, <1>6, <2>3 DEF Opens, SameData
<1> QED BY <1>5, <1>6

\* From the settings, or without the token, the way leads to the network page.
LEMMA EndSessionSound ==
  ASSUME NEW rev \in Nat, NEW k, Sound(k, rev), k.page = "settings"
  PROVE  LET m == EndSession(k) IN Sound(m, rev) /\ Opens(k, m) /\ m.wifi = k.wifi
<1> DEFINE a == [k EXCEPT !.token = 0]
           b == [a EXCEPT !.hash = "network", !.event = TRUE]
<1>0. k \in ConsoleRecord /\ Guarded(k) /\ Fresh(k, rev) BY DEF Sound
<1>1. /\ a \in ConsoleRecord /\ SameData(k, a) /\ a.login = k.login /\ a.grant = k.grant /\ a.page = k.page
      /\ a.nav = k.nav /\ a.target = k.target
  BY <1>0 DEF ConsoleRecord, SameData
<1> HIDE DEF a
<1>2. Sound(a, rev) BY <1>0, <1>1 DEF Sound, Guarded, Routed, Fresh, Current, SameData
<1>3. EndSession(k) = IF a.hash = "network" THEN HandleRoute(a, FALSE) ELSE b
  BY DEF EndSession, Navigate, a
<1>4. /\ b \in ConsoleRecord /\ SameData(a, b) /\ b.login = a.login /\ b.grant = a.grant /\ b.page = a.page
      /\ b.nav = a.nav /\ b.target = a.target
  <2>1. b \in ConsoleRecord BY <1>1, ZenonT(60) DEF ConsoleRecord, SameData, Hashes
  <2>2. /\ SameData(a, b) /\ b.login = a.login /\ b.grant = a.grant /\ b.page = a.page
        /\ b.nav = a.nav /\ b.target = a.target
    BY <1>1 DEF ConsoleRecord, SameData, Hashes
  <2> QED BY <2>1, <2>2
<1> HIDE DEF b
<1>5. Sound(b, rev) /\ b.wifi = k.wifi BY <1>1, <1>2, <1>4 DEF Sound, Guarded, Routed, Fresh, Current, SameData
<1>6. Sound(HandleRoute(a, FALSE), rev) /\ HandleRoute(a, FALSE).wifi = k.wifi
  BY <1>1, <1>2, HandleRouteSound DEF SameData
<1> QED BY <1>3, <1>5, <1>6 DEF Opens

-----------------------------------------------------------------------------
(* Steps that leave route, session and snapshots alone.                     *)

StepOk == ConsoleInductive' /\ Step(c, c')

LEMMA SoundStep ==
  ASSUME ConsoleInductive, UNCHANGED dev, acts' \in 0..MaxActs,
         Sound(c', dev.rev), Opens(c, c'), c'.wifi = c.wifi
  PROVE  StepOk
BY DEF ConsoleInductive, StepOk, Step, Takes

LEMMA SameStep ==
  ASSUME ConsoleInductive, UNCHANGED dev, acts' \in 0..MaxActs, Same(c, c') PROVE StepOk
<1>1. Sound(c', dev.rev) BY SameSound DEF ConsoleInductive
<1>2. Opens(c, c') /\ c'.wifi = c.wifi BY DEF Opens, Same, SameRoute, SameData
<1> QED BY <1>1, <1>2, SoundStep

LEMMA ActsLeft ==
  ASSUME ConsoleInductive, acts' = acts \/ (acts > 0 /\ acts' = acts - 1) PROVE acts' \in 0..MaxActs
BY ConsoleBounds DEF ConsoleInductive

LEMMA DialogSame ==
  ASSUME NEW k \in ConsoleRecord, NEW d \in Dialogs PROVE Same(k, [k EXCEPT !.dialog = d])
BY DEF ConsoleRecord, Same, SameRoute, SameData

LEMMA ScanSame == ASSUME NEW k \in ConsoleRecord PROVE Same(k, ScanWifi(k))
BY ZenonT(60) DEF ScanWifi, ConsoleRecord, Same, SameRoute, SameData

LEMMA ScanSteps ==
  ASSUME ConsoleInductive,
         \/ \E b \in BOOLEAN : ScanEnds(b)
         \/ CooldownOver \/ OpenScan \/ Rescan \/ CloseDialog \/ OpenReset
  PROVE  StepOk
<1>0. c \in ConsoleRecord BY DEF ConsoleInductive, Sound
<1>1. \A d \in {"none", "login", "scan", "reset"} : Same(c, [c EXCEPT !.dialog = d])
  BY <1>0, DialogSame DEF Dialogs
<1>2. CASE \E b \in BOOLEAN : ScanEnds(b)
  <2>1. PICK b \in BOOLEAN : ScanEnds(b) BY <1>2
  <2> DEFINE e == c.found \/ b
             k == [c EXCEPT !.found = e]
  <2>2. e \in BOOLEAN OBVIOUS
  <2>3. c' = [k EXCEPT !.scan = FALSE, !.cooling = TRUE] BY <2>1 DEF ScanEnds
  <2> HIDE DEF e
  <2>4. Same(c, k)
    <3>1. k \in ConsoleRecord BY <1>0, <2>2 DEF ConsoleRecord
    <3> QED BY <1>0, <3>1 DEF ConsoleRecord, Same, SameRoute, SameData
  <2> HIDE DEF k
  <2>5. Same(k, c')
    <3>1. c' \in ConsoleRecord BY <2>3, <2>4, ZenonT(60) DEF Same, ConsoleRecord
    <3> QED BY <2>3, <2>4, <3>1 DEF ConsoleRecord, Same, SameRoute, SameData
  <2>6. Same(c, c') BY <2>4, <2>5, SameTwice
  <2> QED BY <2>1, <2>6, ActsLeft, SameStep DEF ScanEnds, Keep
<1>3. CASE CooldownOver
  <2>1. Same(c, c') BY <1>0, <1>3, ZenonT(60) DEF CooldownOver, ConsoleRecord, Same, SameRoute, SameData
  <2> QED BY <1>3, <2>1, ActsLeft, SameStep DEF CooldownOver, Keep
<1>4. CASE OpenScan
  <2> DEFINE d == [c EXCEPT !.dialog = "scan"]
  <2>1. Same(c, d) /\ d \in ConsoleRecord BY <1>1 DEF Same
  <2>2. c' \in {d, ScanWifi(d)} BY <1>4 DEF OpenScan
  <2> HIDE DEF d
  <2>3. Same(c, ScanWifi(d)) BY <2>1, ScanSame, SameTwice
  <2>4. Same(c, c') BY <2>1, <2>2, <2>3
  <2> QED BY <1>4, <2>4, ActsLeft, SameStep DEF OpenScan, Act
<1>5. CASE Rescan
  <2>1. Same(c, c') BY <1>0, <1>5, ScanSame DEF Rescan
  <2> QED BY <1>5, <2>1, ActsLeft, SameStep DEF Rescan, Act
<1>6. CASE CloseDialog \/ OpenReset
  <2>1. Same(c, c') BY <1>1, <1>6 DEF CloseDialog, OpenReset
  <2> QED BY <1>6, <2>1, ActsLeft, SameStep DEF CloseDialog, OpenReset, Keep
<1> QED BY <1>2, <1>3, <1>4, <1>5, <1>6

LEMMA FormSteps ==
  ASSUME ConsoleInductive, EditForm \/ ChangeLanguage \/ RefreshButton PROVE StepOk
<1>0. c \in ConsoleRecord /\ c.form \in Value BY DEF ConsoleInductive, Sound, ConsoleRecord
<1>1. CASE EditForm
  <2>1. PICK v \in Value : c' = [c EXCEPT !.form = v]
    <3> DEFINE E(v) == [c EXCEPT !.form = v]
               p == [c.form EXCEPT !.mode = IF @ = "ap" THEN "sta" ELSE "ap"]
               q == [c.form EXCEPT !.net = IF @ = "home" THEN "new" ELSE "home"]
               r == [c.form EXCEPT !.prot = ~@]
    <3>1. p \in Value /\ q \in Value /\ r \in Value BY <1>0 DEF Value
    <3>2. c' \in {E(p), E(q), E(r)} BY <1>1 DEF EditForm
    <3> QED BY <3>1, <3>2
  <2>2. Same(c, c') BY <1>0, <2>1 DEF ConsoleRecord, Same, SameRoute, SameData
  <2> QED BY <1>1, <2>2, ActsLeft, SameStep DEF EditForm, Act
<1>2. CASE ChangeLanguage
  <2>1. Same(c, c') BY <1>0, <1>2, RenderSame DEF ChangeLanguage
  <2> QED BY <1>2, <2>1, ActsLeft, SameStep DEF ChangeLanguage, Act
<1>3. CASE RefreshButton
  <2>1. Same(c, c')
    BY <1>0, <1>3, NamesTyped, ZenonT(60) DEF RefreshButton, ConsoleRecord, Same, SameRoute, SameData
  <2> QED BY <1>3, <2>1, ActsLeft, SameStep DEF RefreshButton, Act
<1> QED BY <1>1, <1>2, <1>3

-----------------------------------------------------------------------------
(* Routes and sessions.                                                     *)

\* k differs from the console in no data, and its route is sound.
LEMMA DataFresh ==
  ASSUME NEW k, NEW m \in ConsoleRecord, NEW rev, Sound(k, rev), SameData(k, m), Guarded(m)
  PROVE  Sound(m, rev)
BY DEF Sound, Fresh, Current, SameData

LEMMA HashSteps ==
  ASSUME ConsoleInductive, HashChanged \/ ClickHere \/ \E h \in Hashes : ChangeHash(h) PROVE StepOk
<1>0. Sound(c, dev.rev) /\ c \in ConsoleRecord /\ Guarded(c) /\ dev.rev \in Nat
  BY DEF ConsoleInductive, Sound, DeviceRecord
<1>1. CASE HashChanged
  <2> DEFINE k == [c EXCEPT !.event = FALSE]
  <2>1. Same(c, k) BY <1>0, ZenonT(60) DEF ConsoleRecord, Same, SameRoute, SameData
  <2>2. c' = HandleRoute(k, FALSE) BY <1>1 DEF HashChanged
  <2> HIDE DEF k
  <2>3. Sound(k, dev.rev) BY <1>0, <2>1, SameSound
  <2>4. Sound(c', dev.rev) /\ Opens(k, c') /\ c'.wifi = k.wifi BY <1>0, <2>2, <2>3, HandleRouteSound
  <2>5. Opens(c, c') /\ c'.wifi = c.wifi BY <2>1, <2>4 DEF Opens, Same, SameRoute, SameData
  <2> QED BY <1>1, <2>4, <2>5, ActsLeft, SoundStep DEF HashChanged, Keep
<1>2. CASE ClickHere
  <2>1. Sound(c', dev.rev) /\ Opens(c, c') /\ c'.wifi = c.wifi
    BY <1>0, <1>2, HandleRouteSound DEF ClickHere
  <2> QED BY <1>2, <2>1, ActsLeft, SoundStep DEF ClickHere, Act
<1>3. CASE \E h \in Hashes : ChangeHash(h)
  <2>1. PICK h \in Hashes : ChangeHash(h) BY <1>3
  <2>2. c' = [c EXCEPT !.hash = h, !.event = TRUE] BY <2>1 DEF ChangeHash
  <2>3. c' \in ConsoleRecord BY <1>0, <2>2, ZenonT(60) DEF ConsoleRecord
  <2>4. /\ c'.login = c.login /\ c'.grant = c.grant /\ c'.page = c.page /\ c'.last = c.last
        /\ c'.leave = c.leave /\ c'.nav = c.nav /\ c'.target = c.target /\ c'.token = c.token
        /\ c'.proven = c.proven /\ SameData(c, c')
    BY <1>0, <2>2 DEF ConsoleRecord, SameData
  <2>5. Guarded(c') BY <1>0, <2>4 DEF Guarded, Routed, SameData
  <2>6. Sound(c', dev.rev) BY <1>0, <2>3, <2>4, <2>5, DataFresh
  <2> QED BY <2>1, <2>4, <2>6, ActsLeft, SoundStep DEF ChangeHash, Act, Opens, SameData
<1> QED BY <1>1, <1>2, <1>3

LEMMA SessionSteps ==
  ASSUME ConsoleInductive,
         SessionConfirmed \/ SessionDenied \/ SessionFails \/ \E b \in BOOLEAN : AuthSettles(b)
  PROVE  StepOk
<1>0. /\ Sound(c, dev.rev) /\ c \in ConsoleRecord /\ Guarded(c) /\ dev.rev \in Nat
      /\ dev.token \in Nat /\ dev.token # 0
  BY DEF ConsoleInductive, Sound, DeviceRecord
<1>1. CASE c.nav = "verify" /\ c.token = dev.token /\ c' = Land([c EXCEPT !.proven = c.token]) /\ Keep
  <2> DEFINE k == [c EXCEPT !.proven = c.token]
  <2>1. k \in ConsoleRecord BY <1>0 DEF ConsoleRecord
  <2>2. /\ k.login = c.login /\ k.grant = c.grant /\ k.page = c.page /\ k.last = c.last
        /\ k.leave = c.leave /\ k.nav = c.nav /\ k.target = c.target /\ SameData(c, k)
        /\ k.token = c.token /\ k.proven = c.token
    BY <1>0 DEF ConsoleRecord, SameData
  <2>3. c' = Land(k) /\ c.nav = "verify" /\ c.token = dev.token BY <1>1
  <2> HIDE DEF k
  <2>4. Guarded(k) BY <1>0, <2>2, <2>3 DEF Guarded, Routed, SameData
  <2>5. Sound(k, dev.rev) BY <1>0, <2>1, <2>2, <2>4, DataFresh
  <2>6. Landable(k) BY <2>2, <2>3, <2>4 DEF Guarded, Routed, Landable, PageOf
  <2>7. Sound(c', dev.rev) /\ c'.token = k.token /\ c'.proven = k.proven /\ c'.wifi = k.wifi
    BY <1>0, <2>3, <2>5, <2>6, LandSound
  <2> QED BY <1>0, <1>1, <2>2, <2>3, <2>7, ActsLeft, SoundStep DEF Keep, Opens, SameData
<1>5. CASE c.nav = "verify" /\ c.token = 0 /\ c' = Land(c) /\ Keep
  <2>1. c.page # "network" BY <1>0, <1>5 DEF Guarded, Routed
  <2>2. Landable(c) BY <1>0, <1>5 DEF Guarded, Routed, Landable, PageOf
  <2>3. Sound(c', dev.rev) /\ c'.wifi = c.wifi BY <1>0, <1>5, <2>2, LandSound
  <2> QED BY <1>5, <2>1, <2>3, ActsLeft, SoundStep DEF Keep, Opens
<1>2. CASE SessionDenied
  <2> DEFINE k == [c EXCEPT !.token = 0]
  <2>1. k \in ConsoleRecord BY <1>0 DEF ConsoleRecord
  <2>2. /\ k.login = c.login /\ k.grant = c.grant /\ k.page = c.page /\ k.last = c.last
        /\ k.leave = c.leave /\ k.nav = c.nav /\ k.target = c.target /\ SameData(c, k)
    BY <1>0 DEF ConsoleRecord, SameData
  <2>3. c' = OpenLogin(k) /\ c.nav = "verify" BY <1>2 DEF SessionDenied
  <2> HIDE DEF k
  <2>4. Routed(k) BY <1>0, <2>2, <2>3 DEF Guarded, Routed, SameData
  <2>5. Fresh(k, dev.rev) BY <1>0, <2>2 DEF Sound, Fresh, Current, SameData
  <2>6. Sound(c', dev.rev) /\ c'.page = k.page /\ c'.wifi = k.wifi
    BY <1>0, <2>1, <2>3, <2>4, <2>5, OpenLoginSound
  <2> QED BY <1>2, <2>2, <2>6, ActsLeft, SoundStep DEF SessionDenied, Keep, Opens, SameData
<1>3. CASE SessionFails
  <2>1. Sound(c', dev.rev) /\ c'.page = c.page /\ c'.wifi = c.wifi
    BY <1>0, <1>3, OpenLoginSound DEF SessionFails, Sound, Guarded, Routed
  <2> QED BY <1>3, <2>1, ActsLeft, SoundStep DEF SessionFails, Keep, Opens
<1>4. CASE \E b \in BOOLEAN : AuthSettles(b)
  <2>1. PICK b \in BOOLEAN : AuthSettles(b) BY <1>4
  <2>2. c' = [c EXCEPT !.nav = "idle", !.named = b, !.dialog = "login"] BY <2>1 DEF AuthSettles
  <2>3. c' \in ConsoleRecord BY <1>0, <2>2, NamesTyped, ZenonT(60) DEF ConsoleRecord
  <2>4. /\ c'.login = c.login /\ c'.grant = c.grant /\ c'.page = c.page /\ c'.last = c.last
        /\ c'.leave = c.leave /\ c'.nav = "idle" /\ SameData(c, c')
    BY <1>0, <2>2 DEF ConsoleRecord, SameData
  <2>5. Guarded(c') BY <1>0, <2>4 DEF Guarded, Routed, SameData
  <2>6. Sound(c', dev.rev) BY <1>0, <2>3, <2>4, <2>5, DataFresh
  <2> QED BY <2>1, <2>4, <2>6, ActsLeft, SoundStep DEF AuthSettles, Keep, Opens, SameData
<1> QED BY <1>1, <1>2, <1>3, <1>4, <1>5 DEF SessionConfirmed

LEMMA CancelStep == ASSUME ConsoleInductive, CancelLogin PROVE StepOk
<1>0. Sound(c, dev.rev) /\ c \in ConsoleRecord /\ Guarded(c) /\ dev.rev \in Nat
  BY DEF ConsoleInductive, Sound, DeviceRecord
<1>1. CASE c.pending = "none"
  <2>1. Same(c, c') BY <1>0, <1>1, NamesTyped, DialogSame DEF CancelLogin
  <2> QED BY <2>1, ActsLeft, SameStep DEF CancelLogin, Keep
<1>2. CASE c.pending # "none"
  <2> DEFINE k == [c EXCEPT !.dialog = "none", !.pending = "none", !.hash = c.last]
  <2>1. c' = HandleRoute(k, TRUE) BY <1>2 DEF CancelLogin
  <2>2. k \in ConsoleRecord BY <1>0, NamesTyped, ZenonT(60) DEF ConsoleRecord
  <2>3. /\ k.login = c.login /\ k.grant = c.grant /\ k.page = c.page /\ k.last = c.last
        /\ k.leave = c.leave /\ k.nav = c.nav /\ k.target = c.target /\ SameData(c, k)
        /\ k.token = c.token /\ k.proven = c.proven /\ k.hash = c.last
    BY <1>0 DEF ConsoleRecord, SameData
  <2> HIDE DEF k
  <2>4. Guarded(k) BY <1>0, <2>3 DEF Guarded, Routed, SameData
  <2>5. Sound(k, dev.rev) BY <1>0, <2>2, <2>3, <2>4, DataFresh
  <2>6. k.page = "network" => k.hash = "network" BY <2>3, <2>4 DEF Guarded, Routed
  <2>7. Sound(c', dev.rev) /\ Opens(k, c') /\ c'.wifi = k.wifi
    BY <1>0, <2>1, <2>5, <2>6, HandleRouteSound
  <2> QED BY <2>3, <2>7, ActsLeft, SoundStep DEF CancelLogin, Keep, Opens, SameData
<1> QED BY <1>1, <1>2

LEMMA LoginSteps ==
  ASSUME ConsoleInductive, LoginHandled \/ LoginDone \/ LoginFails \/ SubmitLogin PROVE StepOk
<1>0. /\ Sound(c, dev.rev) /\ c \in ConsoleRecord /\ Guarded(c) /\ dev \in DeviceRecord
      /\ dev.rev \in Nat /\ dev.token \in Nat
  BY DEF ConsoleInductive, Sound, DeviceRecord
<1>1. CASE LoginHandled
  <2> DEFINE g == dev.token + 1
  <2>1. dev' = [dev EXCEPT !.token = g] BY <1>1 DEF LoginHandled
  <2>2. g \in Nat /\ g # 0 BY <1>0
  <2> HIDE DEF g
  <2>3. /\ dev' \in DeviceRecord /\ dev'.token = g /\ dev'.rev = dev.rev /\ dev'.conn = dev.conn
    BY <1>0, <2>1, <2>2 DEF DeviceRecord
  <2>4. c' = [c EXCEPT !.login = "granted", !.grant = g] BY <1>1, <2>3 DEF LoginHandled
  <2>5. c' \in ConsoleRecord BY <1>0, <2>2, <2>4, NamesTyped, ZenonT(60) DEF ConsoleRecord
  <2>6. c'.grant = g BY <1>0, <2>4 DEF ConsoleRecord
  <2>7. /\ c'.page = c.page /\ c'.last = c.last /\ c'.leave = c.leave /\ c'.nav = c.nav
        /\ c'.target = c.target /\ c'.token = c.token /\ c'.proven = c.proven /\ SameData(c, c')
    BY <1>0, <2>4 DEF ConsoleRecord, SameData
  <2>8. Guarded(c') BY <1>0, <2>2, <2>6, <2>7 DEF Guarded, Routed, SameData
  <2>9. Sound(c', dev.rev) BY <1>0, <2>5, <2>7, <2>8, DataFresh
  <2> QED BY <1>1, <2>2, <2>3, <2>7, <2>9
      DEF LoginHandled, ConsoleInductive, StepOk, Step, Opens, Takes, SameData
<1>2. CASE LoginDone
  <2> DEFINE k == [c EXCEPT !.token = c.grant, !.proven = c.grant, !.dialog = "none"]
  <2>1. c' = HandleRoute(k, TRUE) /\ c.grant # 0 BY <1>0, <1>2 DEF LoginDone, Guarded, Routed
  <2>2. k \in ConsoleRecord BY <1>0, NamesTyped DEF ConsoleRecord
  <2>3. k.token = c.grant /\ k.proven = c.grant BY <1>0 DEF ConsoleRecord
  <2>4. /\ k.login = c.login /\ k.grant = c.grant /\ k.page = c.page /\ k.last = c.last
        /\ k.leave = c.leave /\ k.nav = c.nav /\ k.target = c.target /\ SameData(c, k)
    BY <1>0 DEF ConsoleRecord, SameData
  <2> HIDE DEF k
  <2>5. Guarded(k) BY <1>0, <2>1, <2>3, <2>4 DEF Guarded, Routed, SameData
  <2>6. Sound(k, dev.rev) BY <1>0, <2>2, <2>4, <2>5, DataFresh
  <2>7. Sound(c', dev.rev) /\ Opens(k, c') /\ c'.wifi = k.wifi
    BY <1>0, <2>1, <2>3, <2>6, HandleRouteSound
  <2> QED BY <1>2, <2>4, <2>7, ActsLeft, SoundStep DEF LoginDone, Keep, Opens, SameData
<1>3. CASE LoginFails \/ SubmitLogin
  <2>1. PICK l \in {"idle", "asked"} : c' = [c EXCEPT !.login = l] BY <1>3 DEF LoginFails, SubmitLogin
  <2>2. c' \in ConsoleRecord BY <1>0, <2>1, NamesTyped DEF ConsoleRecord
  <2>3. /\ c'.login = l /\ c'.page = c.page /\ c'.last = c.last /\ c'.leave = c.leave /\ c'.nav = c.nav
        /\ c'.target = c.target /\ c'.token = c.token /\ c'.proven = c.proven /\ SameData(c, c')
    BY <1>0, <2>1 DEF ConsoleRecord, SameData
  <2>4. Guarded(c') BY <1>0, <2>3 DEF Guarded, Routed, SameData
  <2>5. Sound(c', dev.rev) BY <1>0, <2>2, <2>3, <2>4, DataFresh
  <2> QED BY <1>3, <2>3, <2>5, ActsLeft, SoundStep
      DEF LoginFails, SubmitLogin, Act, Keep, Opens, SameData
<1> QED BY <1>1, <1>2, <1>3

LEMMA FeaturesStep ==
  ASSUME ConsoleInductive, NEW known \in BOOLEAN, FeaturesSettle(known) PROVE StepOk
<1> DEFINE a == [c EXCEPT !.features = TRUE, !.asking = FALSE]
           b == [c EXCEPT !.asking = FALSE]
           f == IF known THEN RenderCurrent(a) ELSE b
           n == IF f.nav \in {"features", "featuresKnown"} THEN Verify(f, f.nav = "featuresKnown") ELSE f
           l == LoadSnapshot(n, "page", c.queued)
           q == [l EXCEPT !.queued = "none"]
           r == [n EXCEPT !.queued = "none"]
<1>0. Sound(c, dev.rev) /\ c \in ConsoleRecord /\ Guarded(c) /\ dev.rev \in Nat /\ c.queued \in Syncs
  BY DEF ConsoleInductive, Sound, DeviceRecord, ConsoleRecord
<1>1. c' \in {n, q, r} BY DEF FeaturesSettle
<1>2. Same(c, a) /\ Same(c, b) BY <1>0, ZenonT(60) DEF ConsoleRecord, Same, SameRoute, SameData
<1> HIDE DEF a, b
<1>3. Same(c, f) BY <1>2, RenderSame, SameTwice DEF Same
<1>4. Sound(f, dev.rev) BY <1>0, <1>3, SameSound
<1> HIDE DEF f
<1>5. Sound(n, dev.rev) /\ Opens(f, n) /\ n.wifi = f.wifi
  <2>1. CASE f.nav \in {"features", "featuresKnown"}
    <3>1. f.target # "network" BY <1>4, <2>1 DEF Sound, Guarded, Routed, PageOf
    <3>2. Landable(f) /\ Proven(f, f.nav = "featuresKnown")
      BY <1>4, <3>1 DEF Landable, Proven, Sound, Guarded, Routed
    <3>3. (f.nav = "featuresKnown") \in BOOLEAN OBVIOUS
    <3> QED BY <1>0, <1>4, <2>1, <3>2, <3>3, VerifySound
  <2>2. CASE f.nav \notin {"features", "featuresKnown"}
    BY <1>4, <2>2 DEF Opens
  <2> QED BY <2>1, <2>2
<1> HIDE DEF n
<1>6. Sound(l, dev.rev) /\ SameRoute(n, l) /\ l.wifi = n.wifi
  BY <1>0, <1>5, LoadSound DEF Whys
<1> HIDE DEF l
<1>7. Same(l, q) /\ Same(n, r)
  <2>1. "none" \in Syncs BY NamesTyped
  <2> QED BY <1>5, <1>6, <2>1 DEF Sound, ConsoleRecord, Same, SameRoute, SameData
<1> HIDE DEF q, r
<1>8. Sound(q, dev.rev) /\ Sound(r, dev.rev) BY <1>5, <1>6, <1>7, SameSound
<1>9. Sound(c', dev.rev) BY <1>1, <1>5, <1>8
<1>10. c'.page = n.page /\ c'.token = n.token /\ c'.proven = n.proven /\ c'.wifi = n.wifi
  BY <1>1, <1>6, <1>7 DEF Same, SameRoute, SameData
<1>11. Opens(c, c') /\ c'.wifi = c.wifi
  BY <1>3, <1>5, <1>10 DEF Opens, Same, SameRoute, SameData
<1> QED BY <1>9, <1>11, ActsLeft, SoundStep DEF FeaturesSettle, Keep

LEMMA LeaveSteps ==
  ASSUME ConsoleInductive,
         LeaveDone \/ LeaveFails \/ \E how \in {"logout", "password", "reset"} : Leave(how)
  PROVE  StepOk
<1>0. /\ Sound(c, dev.rev) /\ c \in ConsoleRecord /\ Guarded(c) /\ dev \in DeviceRecord
      /\ dev.rev \in Nat /\ dev.token \in Nat /\ dev.token # 0 /\ dev.conn.rev <= dev.rev
  BY DEF ConsoleInductive, Sound, DeviceRecord
<1> DEFINE dg == IF c.leave = "reset" THEN "none" ELSE c.dialog
           k == [c EXCEPT !.leave = "none", !.dialog = dg]
<1>1. dg \in Dialogs BY <1>0, NamesTyped DEF ConsoleRecord
<1> HIDE DEF dg
<1>2. k \in ConsoleRecord BY <1>0, <1>1, NamesTyped DEF ConsoleRecord
<1>3. /\ k.login = c.login /\ k.grant = c.grant /\ k.page = c.page /\ k.last = c.last
      /\ k.leave = "none" /\ k.nav = c.nav /\ k.target = c.target /\ k.token = c.token
      /\ k.proven = c.proven /\ SameData(c, k)
  BY <1>0 DEF ConsoleRecord, SameData
<1>4. CASE LeaveFails
  <2>1. c' = k BY <1>4 DEF LeaveFails, dg
  <2> HIDE DEF k
  <2>2. Guarded(k) BY <1>0, <1>3 DEF Guarded, Routed, SameData
  <2>3. Sound(k, dev.rev) BY <1>0, <1>2, <1>3, <2>2, DataFresh
  <2> QED BY <1>3, <1>4, <2>1, <2>3, ActsLeft, SoundStep DEF LeaveFails, Keep, Opens, SameData
<1>5. CASE LeaveDone
  <2> DEFINE tk == IF c.token = dev.token /\ c.leave # "reset" THEN dev.token + 1 ELSE dev.token
             rs == CASE c.leave = "reset" -> "factory"
                     [] c.leave = "password" /\ dev.cfg.prot -> "again"
                     [] OTHER -> dev.restart
  <2>1. c' = EndSession(k) /\ c.leave # "none" BY <1>5 DEF LeaveDone, dg
  <2>2. dev' = [dev EXCEPT !.token = tk, !.restart = rs] BY <1>0, <1>5 DEF LeaveDone, DeviceRecord
  <2>3. tk \in Nat /\ tk # 0 BY <1>0
  <2>4. rs \in {"none", "again", "factory"} BY <1>0 DEF DeviceRecord
  <2> HIDE DEF k, tk, rs
  <2>5. dev' \in DeviceRecord /\ dev'.token = tk /\ dev'.rev = dev.rev /\ dev'.conn = dev.conn
    BY <1>0, <2>2, <2>3, <2>4 DEF DeviceRecord
  <2>6. c.page = "settings" BY <1>0, <2>1, NamesTyped DEF Guarded, Routed, ConsoleRecord, Views
  <2>7. Guarded(k) BY <1>0, <1>3, <2>6 DEF Guarded, Routed, SameData
  <2>8. Sound(k, dev.rev) BY <1>0, <1>2, <1>3, <2>7, DataFresh
  <2>9. Sound(c', dev.rev) /\ c'.wifi = k.wifi BY <1>0, <1>3, <2>1, <2>6, <2>8, EndSessionSound
  <2> QED BY <1>0, <1>3, <1>5, <2>3, <2>5, <2>6, <2>9
      DEF LeaveDone, ConsoleInductive, StepOk, Step, Opens, Takes, SameData
<1>6. CASE \E how \in {"logout", "password", "reset"} : Leave(how)
  <2>1. PICK how \in {"logout", "password", "reset"} : Leave(how) BY <1>6
  <2>2. c' = [c EXCEPT !.leave = how] /\ c.page = "settings" BY <2>1 DEF Leave
  <2>3. how \in Leaves BY <2>1, NamesTyped
  <2>4. c' \in ConsoleRecord BY <1>0, <2>2, <2>3 DEF ConsoleRecord
  <2>5. /\ c'.login = c.login /\ c'.grant = c.grant /\ c'.page = c.page /\ c'.nav = c.nav
        /\ c'.target = c.target /\ SameData(c, c')
    BY <1>0, <2>2 DEF ConsoleRecord, SameData
  <2>6. Guarded(c') BY <1>0, <2>2, <2>5 DEF Guarded, Routed, SameData
  <2>7. Sound(c', dev.rev) BY <1>0, <2>4, <2>5, <2>6, DataFresh
  <2> QED BY <2>1, <2>2, <2>5, <2>7, ActsLeft, SoundStep DEF Leave, Act, Opens, SameData
<1> QED BY <1>4, <1>5, <1>6

-----------------------------------------------------------------------------
(* Saves.                                                                   *)

\* A read begun by a step, after which the page is where it was.
LEMMA LoadStep ==
  ASSUME ConsoleInductive, NEW k, Sound(k, dev.rev), SameRoute(c, k), k.wifi = c.wifi,
         NEW w \in Whys, NEW sync \in Syncs, c' = LoadSnapshot(k, w, sync), UNCHANGED <<dev, acts>>
  PROVE  StepOk
<1>1. dev.rev \in Nat BY DEF ConsoleInductive, DeviceRecord
<1>2. Sound(c', dev.rev) /\ SameRoute(k, c') /\ c'.wifi = k.wifi BY <1>1, LoadSound
<1>3. Opens(c, c') BY <1>2 DEF Opens, SameRoute
<1> QED BY <1>2, <1>3, ActsLeft, SoundStep

LEMMA TransitionFailedStep ==
  ASSUME ConsoleInductive, c' = TransitionFailed(c), UNCHANGED <<dev, acts>> PROVE StepOk
<1> DEFINE k == [c EXCEPT !.busy = FALSE, !.put = NoPut, !.poll = NoPoll]
<1>0. Sound(c, dev.rev) /\ c \in ConsoleRecord /\ Guarded(c) /\ Fresh(c, dev.rev) /\ dev.rev \in Nat
  BY DEF ConsoleInductive, Sound, DeviceRecord
<1>1. k \in ConsoleRecord BY <1>0, NonesTyped, ZenonT(60) DEF ConsoleRecord
<1>2. k.put = NoPut /\ k.poll = NoPoll /\ k.wifi = c.wifi /\ k.gets = c.gets /\ k.acked = c.acked
  BY <1>0 DEF ConsoleRecord
<1>3. SameRoute(c, k) BY <1>0, NonesTyped DEF ConsoleRecord, SameRoute
<1>4. c' = LoadSnapshot(k, "save", "none") BY DEF TransitionFailed
<1> HIDE DEF k
<1>5. Guarded(k) BY <1>0, <1>3, RouteGuarded
<1>6. Fresh(k, dev.rev) BY <1>0, <1>2, NonesTyped DEF Fresh, Current
<1>7. Sound(k, dev.rev) BY <1>1, <1>5, <1>6 DEF Sound
<1> QED BY <1>2, <1>3, <1>4, <1>7, NamesTyped, LoadStep DEF Whys

LEMMA PutAnsweredStep == ASSUME ConsoleInductive, PutAnswered PROVE StepOk
<1>0. Sound(c, dev.rev) /\ c \in ConsoleRecord /\ Guarded(c) /\ Fresh(c, dev.rev) /\ dev.rev \in Nat
  BY DEF ConsoleInductive, Sound, DeviceRecord
<1>1. c.page = "settings" /\ UNCHANGED <<dev, acts>>
  <2>1. c.put.st # "idle" BY DEF PutAnswered
  <2> QED BY <1>0, <2>1, NamesTyped DEF PutAnswered, Keep, Guarded, Routed, ConsoleRecord, Views
<1>2. CASE c.put.st = "ok"
  <2> DEFINE a == Accepted(c, c.put.rev)
             r == [a EXCEPT !.retry = 1]
  <2>1. c' = IF c.put.prot THEN EndSession(a) ELSE r BY <1>2 DEF PutAnswered
  <2>2. Sound(a, dev.rev) /\ SameRoute(c, a) /\ a.wifi = c.wifi
    <3>1. c.put.rev \in Nat /\ c.put.rev <= dev.rev BY <1>0 DEF ConsoleRecord, Put, Fresh
    <3> QED BY <1>0, <3>1, AcceptedSound
  <2> HIDE DEF a
  <2>3. a.page = "settings" BY <1>1, <2>2 DEF SameRoute
  <2>4. CASE c.put.prot
    <3>1. Sound(c', dev.rev) /\ c'.wifi = a.wifi BY <1>0, <2>1, <2>2, <2>3, <2>4, EndSessionSound
    <3>2. Opens(c, c') BY <1>1 DEF Opens
    <3> QED BY <1>1, <2>2, <3>1, <3>2, ActsLeft, SoundStep
  <2>5. CASE ~c.put.prot
    <3>1. Same(a, r)
      <4>1. a \in ConsoleRecord BY <2>2 DEF Sound
      <4> QED BY <4>1, NamesTyped DEF ConsoleRecord, Same, SameRoute, SameData
    <3> HIDE DEF r
    <3>2. Sound(r, dev.rev) BY <2>2, <3>1, SameSound
    <3>3. r.wifi = c.wifi BY <2>2, <3>1 DEF Same, SameData
    <3>4. Opens(c, r) BY <1>1 DEF Opens
    <3> QED BY <1>1, <2>1, <2>5, <3>2, <3>3, <3>4, ActsLeft, SoundStep
  <2> QED BY <2>4, <2>5
<1>3. CASE c.put.st = "connecting"
  <2> DEFINE p == [c.put EXCEPT !.st = "polling"]
             q == [NoPoll EXCEPT !.st = "asked"]
  <2>1. c' = [c EXCEPT !.put = p, !.poll = q] BY <1>0, <1>3 DEF PutAnswered, ConsoleRecord
  <2>2. p \in Put /\ p.rev = c.put.rev /\ q \in Poll /\ q.conn.rev = 0
    BY <1>0, NonesTyped DEF ConsoleRecord, Put, Poll
  <2> HIDE DEF p, q
  <2>3. c' \in ConsoleRecord BY <1>0, <2>1, <2>2, ZenonT(60) DEF ConsoleRecord
  <2>4. /\ c'.put = p /\ c'.poll = q /\ c'.wifi = c.wifi /\ c'.gets = c.gets /\ c'.acked = c.acked
        /\ c'.login = c.login /\ c'.grant = c.grant /\ c'.page = c.page /\ c'.nav = c.nav
        /\ c'.target = c.target
    BY <1>0, <2>1 DEF ConsoleRecord
  <2>5. Guarded(c') BY <1>0, <1>1, <2>4 DEF Guarded, Routed
  <2>6. Fresh(c', dev.rev) BY <1>0, <2>2, <2>4 DEF Fresh, Current
  <2>7. Sound(c', dev.rev) BY <2>3, <2>5, <2>6 DEF Sound
  <2> QED BY <1>1, <2>4, <2>7, ActsLeft, SoundStep DEF Opens
<1> QED BY <1>2, <1>3 DEF PutAnswered

LEMMA PutFailsStep == ASSUME ConsoleInductive, PutFails PROVE StepOk
<1> DEFINE ss == IF c.put.st = "asked" THEN c.strays \cup {[val |-> c.put.val, tok |-> c.put.tok]}
                 ELSE c.strays
<1>0. Sound(c, dev.rev) /\ c \in ConsoleRecord /\ Guarded(c) /\ Fresh(c, dev.rev) /\ dev.rev \in Nat
  BY DEF ConsoleInductive, Sound, DeviceRecord
<1>1. ss \in Strays BY <1>0 DEF ConsoleRecord, Put, Strays
<1>2. c' = [c EXCEPT !.put = NoPut, !.busy = FALSE, !.strays = ss]
  BY <1>0 DEF PutFails, ConsoleRecord
<1> HIDE DEF ss
<1>3. c' \in ConsoleRecord BY <1>0, <1>1, <1>2, NonesTyped, ZenonT(60) DEF ConsoleRecord
<1>4. /\ c'.put = NoPut /\ c'.poll = c.poll /\ c'.wifi = c.wifi /\ c'.gets = c.gets
      /\ c'.acked = c.acked /\ c'.page = c.page
  BY <1>0, <1>2 DEF ConsoleRecord
<1>5. SameRoute(c, c') BY <1>0, <1>2, NonesTyped DEF ConsoleRecord, SameRoute
<1>6. Guarded(c') BY <1>0, <1>5, RouteGuarded
<1>7. Fresh(c', dev.rev) BY <1>0, <1>4, NonesTyped DEF Fresh, Current
<1>8. Sound(c', dev.rev) BY <1>3, <1>6, <1>7 DEF Sound
<1> QED BY <1>4, <1>8, ActsLeft, SoundStep DEF PutFails, Keep, Opens

\* The poll is all that changes, and knows of no newer change than the device.
LEMMA PollStep ==
  ASSUME ConsoleInductive, NEW p \in Poll, p.conn.rev <= dev.rev, c' = [c EXCEPT !.poll = p],
         UNCHANGED <<dev, acts>>
  PROVE  StepOk
<1>0. Sound(c, dev.rev) /\ c \in ConsoleRecord /\ Guarded(c) /\ Fresh(c, dev.rev) /\ dev.rev \in Nat
  BY DEF ConsoleInductive, Sound, DeviceRecord
<1>1. c' \in ConsoleRecord BY <1>0 DEF ConsoleRecord
<1>2. /\ c'.poll = p /\ c'.put = c.put /\ c'.wifi = c.wifi /\ c'.gets = c.gets
      /\ c'.acked = c.acked /\ c'.page = c.page
  BY <1>0 DEF ConsoleRecord
<1>3. SameRoute(c, c') BY <1>0 DEF ConsoleRecord, SameRoute
<1>4. Guarded(c') BY <1>0, <1>3, RouteGuarded
<1>5. Fresh(c', dev.rev) BY <1>0, <1>2 DEF Fresh, Current
<1>6. Sound(c', dev.rev) BY <1>1, <1>4, <1>5 DEF Sound
<1> QED BY <1>2, <1>6, ActsLeft, SoundStep DEF Opens

LEMMA PollSteps ==
  ASSUME ConsoleInductive, PollAsks \/ PollAnswered \/ PollFails \/ Deadline \/ AnswerPoll PROVE StepOk
<1> DEFINE pa == [c.poll EXCEPT !.st = "asked"]
           pw == [NoPoll EXCEPT !.st = "wait"]
           pb == [c.poll EXCEPT !.st = "back", !.conn = dev.conn]
<1>0. /\ Sound(c, dev.rev) /\ c \in ConsoleRecord /\ Fresh(c, dev.rev) /\ dev.rev \in Nat
      /\ dev.conn \in Conn /\ dev.conn.rev <= dev.rev /\ c.poll \in Poll
  BY DEF ConsoleInductive, Sound, DeviceRecord, ConsoleRecord
<1>1. pa \in Poll /\ pa.conn = c.poll.conn /\ pw \in Poll /\ pw.conn.rev = 0 /\ pb \in Poll /\ pb.conn = dev.conn
  BY <1>0, NonesTyped DEF Poll
<1>2. c.poll.conn \in Conn /\ c.poll.conn.rev \in Nat /\ c.poll.conn.rev <= dev.rev
  BY <1>0 DEF Poll, Conn, Fresh
<1>3. CASE PollAsks
  <2>1. c' = [c EXCEPT !.poll = pa] /\ UNCHANGED <<dev, acts>> BY <1>0, <1>3 DEF PollAsks, ConsoleRecord, Keep
  <2> HIDE DEF pa
  <2> QED BY <1>1, <1>2, <2>1, PollStep
<1>4. CASE PollFails \/ (PollAnswered /\ c.poll.conn.st \notin {"connected", "failed"})
  <2>1. c' = [c EXCEPT !.poll = pw] /\ UNCHANGED <<dev, acts>>
    BY <1>4 DEF PollFails, PollAnswered, Keep
  <2> HIDE DEF pw
  <2> QED BY <1>0, <1>1, <2>1, PollStep
<1>5. CASE AnswerPoll
  <2>1. c' = [c EXCEPT !.poll = pb] /\ UNCHANGED <<dev, acts>>
    BY <1>0, <1>5 DEF AnswerPoll, ConsoleRecord, Keep
  <2> HIDE DEF pb
  <2> QED BY <1>0, <1>1, <2>1, PollStep
<1>6. CASE Deadline \/ (PollAnswered /\ c.poll.conn.st = "failed")
  BY <1>6, TransitionFailedStep DEF Deadline, PollAnswered, Keep
<1>7. CASE PollAnswered /\ c.poll.conn.st = "connected"
  <2> DEFINE k == Accepted(c, c.poll.conn.rev)
  <2>1. c' = LoadSnapshot(k, "save", "none") /\ UNCHANGED <<dev, acts>> BY <1>7 DEF PollAnswered, Keep
  <2>2. Sound(k, dev.rev) /\ SameRoute(c, k) /\ k.wifi = c.wifi BY <1>0, <1>2, AcceptedSound
  <2> HIDE DEF k
  <2> QED BY <2>1, <2>2, NamesTyped, LoadStep DEF Whys
<1> QED BY <1>3, <1>4, <1>5, <1>6, <1>7

LEMMA RetryStep == ASSUME ConsoleInductive, RetryFires PROVE StepOk
<1>1. Sound(c, dev.rev) /\ SameRoute(c, c) BY DEF ConsoleInductive, SameRoute
<1> QED BY <1>1, NamesTyped, LoadStep DEF RetryFires, Keep, Whys

-----------------------------------------------------------------------------
(* The end of a read.                                                       *)

\* A read that is over leaves nothing behind.
LEMMA ReadOverSound ==
  ASSUME NEW rev \in Nat, NEW k, Sound(k, rev), NEW w \in Whys
  PROVE  LET r == [k EXCEPT !.gets[w] = NoGet]
         IN  Sound(r, rev) /\ SameRoute(k, r) /\ r.wifi = k.wifi /\ r.acked = k.acked /\ r.retry = k.retry
             /\ \A v \in Whys : r.gets[v].newest => v # w /\ k.gets[v].newest
<1> DEFINE gs == [k.gets EXCEPT ![w] = NoGet]
           r == [k EXCEPT !.gets = gs]
<1>0. k \in ConsoleRecord /\ Guarded(k) /\ Fresh(k, rev) BY DEF Sound
<1>1. /\ gs \in [Whys -> Get] /\ gs[w] = NoGet /\ \A v \in Whys \ {w} : gs[v] = k.gets[v]
  BY <1>0, NonesTyped DEF ConsoleRecord
<1>2. [k EXCEPT !.gets[w] = NoGet] = r BY <1>0 DEF ConsoleRecord
<1> HIDE DEF gs
<1>3. r \in ConsoleRecord BY <1>0, <1>1 DEF ConsoleRecord
<1>4. r.gets = gs /\ r.put = k.put /\ r.poll = k.poll /\ r.wifi = k.wifi /\ r.acked = k.acked /\ r.retry = k.retry
  BY <1>0 DEF ConsoleRecord
<1>5. SameRoute(k, r) BY <1>0 DEF ConsoleRecord, SameRoute
<1> HIDE DEF r
<1>6. Guarded(r) BY <1>0, <1>5, RouteGuarded
<1>7. \A v \in Whys : r.gets[v].newest => v # w /\ k.gets[v].newest BY <1>1, <1>4, NonesTyped
<1>8. Fresh(r, rev)
  <2>1. \A v \in Whys : r.gets[v].snap.rev <= rev /\ Current(r.gets[v], r)
    BY <1>0, <1>1, <1>4, NonesTyped DEF Fresh, Current
  <2> QED BY <1>0, <1>4, <1>7, <2>1 DEF Fresh
<1> QED BY <1>2, <1>3, <1>4, <1>5, <1>6, <1>7, <1>8 DEF Sound

LEMMA RetryAgainSame == ASSUME NEW k \in ConsoleRecord PROVE Same(k, RetryAgain(k))
<1> DEFINE n == IF k.retry >= RetryDelays THEN 0 ELSE k.retry + 1
           m == [k EXCEPT !.retry = n]
<1>1. n \in Retries BY DEF ConsoleRecord, Retries, RetryDelays
<1>2. RetryAgain(k) = m BY DEF RetryAgain, ConsoleRecord
<1> HIDE DEF n
<1>3. m \in ConsoleRecord BY <1>1 DEF ConsoleRecord
<1>4. Same(k, m) BY <1>1, <1>3 DEF ConsoleRecord, Same, SameRoute, SameData
<1> QED BY <1>2, <1>4

\* What the answer of the newest read says is what the page has.
LEMMA TakenSound ==
  ASSUME NEW rev \in Nat, NEW k, Sound(k, rev), NEW s \in Snap, s.rev <= rev, s.rev >= k.acked,
         \A v \in Whys : ~k.gets[v].newest
  PROVE  LET m == [k EXCEPT !.wifi = s]
         IN  Sound(m, rev) /\ SameRoute(k, m) /\ m.wifi = s /\ m.acked = k.acked /\ m.retry = k.retry
<1> DEFINE m == [k EXCEPT !.wifi = s]
<1>0. k \in ConsoleRecord /\ Guarded(k) /\ Fresh(k, rev) BY DEF Sound
<1>1. m \in ConsoleRecord BY <1>0 DEF ConsoleRecord
<1>2. m.wifi = s /\ m.gets = k.gets /\ m.put = k.put /\ m.poll = k.poll /\ m.acked = k.acked /\ m.retry = k.retry
  BY <1>0 DEF ConsoleRecord
<1>3. SameRoute(k, m) BY <1>0 DEF ConsoleRecord, SameRoute
<1> HIDE DEF m
<1>4. Guarded(m) BY <1>0, <1>3, RouteGuarded
<1>5. Fresh(m, rev) BY <1>0, <1>2 DEF Fresh, Current
<1> QED BY <1>1, <1>2, <1>3, <1>4, <1>5 DEF Sound, m

LEMMA ReadSteps ==
  ASSUME ConsoleInductive, NEW w \in Whys, ReadFails(w) \/ \E b \in BOOLEAN : SnapshotRead(w, b)
  PROVE  StepOk
<1> DEFINE g == c.gets[w]
           r == [c EXCEPT !.gets[w] = NoGet]
           y == [r EXCEPT !.wifi = g.snap]
           q(s) == [s EXCEPT !.retry = 0]
<1>0. Sound(c, dev.rev) /\ c \in ConsoleRecord /\ Fresh(c, dev.rev) /\ dev.rev \in Nat
  BY DEF ConsoleInductive, Sound, DeviceRecord
<1>1. /\ Sound(r, dev.rev) /\ SameRoute(c, r) /\ r.wifi = c.wifi /\ r.acked = c.acked /\ r.retry = c.retry
      /\ \A v \in Whys : r.gets[v].newest => v # w /\ c.gets[v].newest
  BY <1>0, ReadOverSound
<1>2. g \in Get BY <1>0 DEF ConsoleRecord
<1>3. UNCHANGED <<dev, acts>> BY DEF ReadFails, SnapshotRead, Keep
<1>4. ASSUME NEW s, Same(r, s), c' \in {s, q(s), RetryAgain(s)} PROVE StepOk
  <2>1. s \in ConsoleRecord BY <1>4 DEF Same
  <2>2. Same(s, s) /\ Same(s, RetryAgain(s)) /\ Same(s, q(s))
    BY <2>1, NamesTyped, RetryAgainSame DEF ConsoleRecord, Same, SameRoute, SameData
  <2> HIDE DEF q
  <2>3. Same(s, c') BY <1>4, <2>2
  <2>4. Same(r, c') BY <1>4, <2>3, SameTwice
  <2>5. Sound(c', dev.rev) BY <1>1, <2>4, SameSound
  <2>6. Opens(c, c') /\ c'.wifi = c.wifi BY <1>1, <2>4 DEF Opens, Same, SameRoute, SameData
  <2> QED BY <1>3, <2>5, <2>6, ActsLeft, SoundStep
<1>5. CASE ReadFails(w)
  <2>1. r \in ConsoleRecord BY <1>1 DEF Sound
  <2>2. c' \in {RetryAgain(r), SyncViews(r, FALSE, g.sync), r} BY <1>5 DEF ReadFails
  <2> HIDE DEF r
  <2>3. Same(r, r) /\ Same(r, SyncViews(r, FALSE, g.sync))
    <3>1. Same(r, r) BY <2>1 DEF Same, SameRoute, SameData
    <3>2. Same(r, SyncViews(r, FALSE, g.sync)) BY <2>1, SyncSame
    <3> QED BY <3>1, <3>2
  <2> HIDE DEF g, q
  <2> QED BY <1>4, <2>2, <2>3
<1>6. CASE \E b \in BOOLEAN : SnapshotRead(w, b)
  <2>1. PICK b \in BOOLEAN : SnapshotRead(w, b) BY <1>6
  <2> DEFINE s == IF g.newest THEN SyncViews(y, TRUE, g.sync)
                  ELSE IF w = "page" THEN SyncViews(r, FALSE, g.sync) ELSE r
  <2>2. g.st = "back" /\ c' \in {s, q(s), RetryAgain(s)} BY <2>1 DEF SnapshotRead
  <2>3. CASE ~g.newest
    <3>1. r \in ConsoleRecord BY <1>1 DEF Sound
    <3> HIDE DEF r
    <3>2. Same(r, r) /\ Same(r, SyncViews(r, FALSE, g.sync))
      <4>1. Same(r, r) BY <3>1 DEF Same, SameRoute, SameData
      <4>2. Same(r, SyncViews(r, FALSE, g.sync)) BY <3>1, SyncSame
      <4> QED BY <4>1, <4>2
    <3>3. Same(r, s) BY <2>3, <3>2
    <3> HIDE DEF s, g, q
    <3> QED BY <1>4, <2>2, <3>3
  <2>4. CASE g.newest
    <3>1. /\ g.snap \in Snap /\ g.snap.rev <= dev.rev /\ g.snap.rev >= c.wifi.rev /\ g.snap.rev >= c.acked
      BY <1>0, <1>2, <2>2, <2>4 DEF Get, Fresh, Current
    <3>2. \A v \in Whys : ~r.gets[v].newest BY <1>0, <1>1, <2>4 DEF Fresh
    <3> HIDE DEF r
    <3>3. Sound(y, dev.rev) /\ SameRoute(r, y) /\ y.wifi = g.snap /\ y.acked = r.acked
      BY <1>0, <1>1, <3>1, <3>2, TakenSound
    <3> HIDE DEF y
    <3>4. Same(y, s)
      <4>1. y \in ConsoleRecord BY <3>3 DEF Sound
      <4> QED BY <2>4, <4>1, SyncSame
    <3> HIDE DEF s
    <3>5. s \in ConsoleRecord BY <3>4 DEF Same
    <3>6. Same(s, s) /\ Same(s, RetryAgain(s)) /\ Same(s, q(s))
      BY <3>5, NamesTyped, RetryAgainSame DEF ConsoleRecord, Same, SameRoute, SameData
    <3> HIDE DEF q
    <3>7. Same(y, c') BY <2>2, <3>4, <3>6, SameTwice
    <3>8. Sound(c', dev.rev) BY <3>3, <3>7, SameSound
    <3>9. Opens(c, c') BY <1>1, <3>3, <3>7 DEF Opens, Same, SameRoute
    <3>10. c'.wifi = g.snap /\ c'.acked = c.acked BY <1>1, <3>3, <3>7 DEF Same, SameData
    <3>11. Takes(c, c') BY <3>1, <3>10 DEF Takes
    <3> QED BY <1>3, <3>8, <3>9, <3>11 DEF ConsoleInductive, StepOk, Step
  <2> QED BY <2>3, <2>4
<1> QED BY <1>5, <1>6

LEMMA AnswerReadStep == ASSUME ConsoleInductive, NEW w \in Whys, AnswerRead(w) PROVE StepOk
<1> DEFINE s == [cfg |-> dev.cfg, rev |-> dev.rev]
           g == [c.gets[w] EXCEPT !.st = "back", !.snap = s]
           gs == [c.gets EXCEPT ![w] = g]
<1>0. /\ Sound(c, dev.rev) /\ c \in ConsoleRecord /\ Guarded(c) /\ Fresh(c, dev.rev)
      /\ dev.rev \in Nat /\ dev.cfg \in Value
  BY DEF ConsoleInductive, Sound, DeviceRecord
<1>1. s \in Snap /\ s.rev = dev.rev BY <1>0 DEF Snap
<1>2. c.gets \in [Whys -> Get] BY <1>0 DEF ConsoleRecord
<1>3. c' = [c EXCEPT !.gets = gs] /\ UNCHANGED <<dev, acts>>
  BY <1>0, <1>2, ZenonT(60) DEF AnswerRead, ConsoleRecord, Get, Keep
<1> HIDE DEF s
<1>4. g \in Get /\ g.newest = c.gets[w].newest /\ g.snap = s BY <1>1, <1>2 DEF Get
<1> HIDE DEF g
<1>5. /\ gs \in [Whys -> Get] /\ gs[w] = g /\ \A v \in Whys \ {w} : gs[v] = c.gets[v]
  BY <1>2, <1>4
<1> HIDE DEF gs
<1>6. c' \in ConsoleRecord BY <1>0, <1>3, <1>5 DEF ConsoleRecord
<1>7. c'.gets = gs /\ c'.put = c.put /\ c'.poll = c.poll /\ c'.wifi = c.wifi /\ c'.acked = c.acked
  BY <1>0, <1>3 DEF ConsoleRecord
<1>8. SameRoute(c, c') BY <1>0, <1>3 DEF ConsoleRecord, SameRoute
<1>9. Guarded(c') BY <1>0, <1>8, RouteGuarded
<1>10. Fresh(c', dev.rev)
  <2>1. \A v \in Whys : gs[v].newest = c.gets[v].newest BY <1>4, <1>5
  <2>2. c.wifi.rev <= dev.rev /\ c.acked <= dev.rev /\ c.wifi.rev \in Nat /\ c.acked \in Nat
    BY <1>0 DEF Fresh, ConsoleRecord, Snap
  <2>3. \A v \in Whys : c'.gets[v].snap.rev <= dev.rev /\ Current(c'.gets[v], c')
    BY <1>0, <1>1, <1>4, <1>5, <1>7, <2>2 DEF Fresh, Current
  <2> QED BY <1>0, <1>7, <2>1, <2>3 DEF Fresh
<1>11. Sound(c', dev.rev) BY <1>6, <1>9, <1>10 DEF Sound
<1> QED BY <1>3, <1>7, <1>8, <1>11, ActsLeft, SoundStep DEF Opens, SameRoute

-----------------------------------------------------------------------------
(* The save and the device.                                                 *)

LEMMA SaveWifiStep == ASSUME ConsoleInductive, SaveWifi PROVE StepOk
<1> DEFINE p == [NoPut EXCEPT !.st = "asked", !.val = c.form, !.tok = c.token,
                              !.prot = c.wifi.cfg.prot # c.form.prot]
           gs == [c.gets EXCEPT !["retry"].own = FALSE]
<1>0. /\ Sound(c, dev.rev) /\ c \in ConsoleRecord /\ Guarded(c) /\ Fresh(c, dev.rev)
      /\ dev.rev \in Nat /\ c.page = "settings"
  BY DEF ConsoleInductive, Sound, DeviceRecord, SaveWifi, OnForm
<1>1. p \in Put /\ p.rev = 0
  <2>1. c.form \in Value /\ c.token \in Nat BY <1>0 DEF ConsoleRecord
  <2> QED BY <2>1, NonesTyped DEF Put
<1>2. /\ gs \in [Whys -> Get]
      /\ \A w \in Whys : gs[w].newest = c.gets[w].newest /\ gs[w].st = c.gets[w].st /\ gs[w].snap = c.gets[w].snap
  <2>1. \A g \in Get : /\ [g EXCEPT !.own = FALSE] \in Get /\ [g EXCEPT !.own = FALSE].newest = g.newest
                       /\ [g EXCEPT !.own = FALSE].st = g.st /\ [g EXCEPT !.own = FALSE].snap = g.snap
    BY DEF Get
  <2>2. c.gets \in [Whys -> Get] /\ "retry" \in Whys BY <1>0 DEF ConsoleRecord, Whys
  <2>3. gs = [c.gets EXCEPT !["retry"] = [c.gets["retry"] EXCEPT !.own = FALSE]] OBVIOUS
  <2> HIDE DEF gs
  <2> QED BY <2>1, <2>2, <2>3
<1>3. c' = [c EXCEPT !.busy = TRUE, !.poll = NoPoll, !.retry = 0, !.gets = gs, !.put = p]
  BY <1>0 DEF SaveWifi, ConsoleRecord
<1>4. UNCHANGED dev /\ acts' \in 0..MaxActs BY ActsLeft DEF SaveWifi, Act
<1> HIDE DEF p, gs
<1>5. c' \in ConsoleRecord BY <1>0, <1>1, <1>2, <1>3, NonesTyped, NamesTyped, ZenonT(60) DEF ConsoleRecord
<1>6. /\ c'.put = p /\ c'.poll = NoPoll /\ c'.gets = gs /\ c'.wifi = c.wifi /\ c'.acked = c.acked
      /\ c'.login = c.login /\ c'.grant = c.grant /\ c'.page = c.page /\ c'.nav = c.nav
      /\ c'.target = c.target
  BY <1>0, <1>3 DEF ConsoleRecord
<1>7. Guarded(c') BY <1>0, <1>6 DEF Guarded, Routed
<1>8. Fresh(c', dev.rev) BY <1>0, <1>1, <1>2, <1>6, NonesTyped DEF Fresh, Current
<1>9. Sound(c', dev.rev) BY <1>5, <1>7, <1>8 DEF Sound
<1> QED BY <1>4, <1>6, <1>9, SoundStep DEF Opens

\* The record of the device, and that no change is undone.
DeviceOk(d) == d \in DeviceRecord /\ d.token # 0 /\ d.conn.rev <= d.rev
Later(d, e) == DeviceOk(e) /\ e.rev >= d.rev

LEMMA UpdateLater ==
  ASSUME NEW d, DeviceOk(d), NEW v \in Value PROVE Later(d, Update(d, v))
<1> DEFINE cs == {v}
           cn == [NoConn EXCEPT !.st = "connecting"]
           a == [d EXCEPT !.cand = cs, !.conn = cn]
           n == d.rev + 1
           x == [d EXCEPT !.cfg = v, !.rev = n]
           rs == IF v.prot # d.cfg.prot THEN "again" ELSE x.restart
           b == [x EXCEPT !.conn = NoConn, !.restart = rs]
<1>0. d \in DeviceRecord /\ d.rev \in Nat BY DEF DeviceOk, DeviceRecord
<1>1. Update(d, v) \in {d, a, b} BY <1>0 DEF Update, Changed, DeviceRecord
<1>2. Later(d, d) BY <1>0 DEF Later, DeviceOk
<1>3. Later(d, a)
  <2>1. cs \in SUBSET Value /\ cn \in Conn /\ cn.rev = 0 BY NonesTyped DEF Conn
  <2> HIDE DEF cs, cn
  <2>2. a \in DeviceRecord BY <1>0, <2>1 DEF DeviceRecord
  <2>3. a.rev = d.rev /\ a.token = d.token /\ a.conn = cn BY <1>0 DEF DeviceRecord
  <2> QED BY <1>0, <2>1, <2>2, <2>3 DEF Later, DeviceOk
<1>4. Later(d, b)
  <2>0. n \in Nat /\ n = d.rev + 1 BY <1>0
  <2> HIDE DEF n
  <2>1. x \in DeviceRecord /\ x.rev = d.rev + 1 /\ x.token = d.token
    <3>1. x \in DeviceRecord BY <1>0, <2>0 DEF DeviceRecord
    <3>2. x.rev = n /\ x.token = d.token BY <1>0 DEF DeviceRecord
    <3> QED BY <2>0, <3>1, <3>2
  <2> HIDE DEF x
  <2>2. rs \in {"none", "again", "factory"} BY <2>1 DEF DeviceRecord
  <2> HIDE DEF rs
  <2>3. b \in DeviceRecord /\ b.rev = d.rev + 1 /\ b.token = d.token /\ b.conn = NoConn
    BY <2>1, <2>2, NonesTyped DEF DeviceRecord
  <2> HIDE DEF b
  <2> QED BY <1>0, <2>3, NonesTyped DEF Later, DeviceOk
<1> QED BY <1>1, <1>2, <1>3, <1>4

\* The device moves on, and the page at most changes its strays or the answer to its save.
LEMMA DeviceStep ==
  ASSUME ConsoleInductive, Later(dev, dev'), acts' \in 0..MaxActs, c' \in ConsoleRecord,
         Guarded(c'), c'.page = c.page, c'.wifi = c.wifi, c'.gets = c.gets, c'.poll = c.poll,
         c'.acked = c.acked, c'.put.rev \in {c.put.rev, dev'.rev}
  PROVE  StepOk
<1>1. /\ c \in ConsoleRecord /\ dev.rev \in Nat /\ dev'.rev \in Nat /\ Fresh(c, dev.rev)
  BY DEF ConsoleInductive, Sound, DeviceRecord, Later, DeviceOk
<1>2. Fresh(c, dev'.rev) BY <1>1, FreshLater DEF Later
<1>3. Fresh(c', dev'.rev) BY <1>1, <1>2 DEF Fresh, Current
<1>4. Sound(c', dev'.rev) BY <1>3 DEF Sound
<1> QED BY <1>4 DEF Later, DeviceOk, ConsoleInductive, StepOk, Step, Opens, Takes

LEMMA HandlePutStep == ASSUME ConsoleInductive, HandlePut PROVE StepOk
<1> DEFINE p == [c.put EXCEPT !.st = PutReply(dev, c.put.tok, c.put.val), !.rev = dev'.rev]
<1>0. /\ c \in ConsoleRecord /\ Guarded(c) /\ DeviceOk(dev) /\ c.put \in Put /\ dev.rev \in Nat
      /\ c.put.st = "asked" /\ UNCHANGED acts
  BY DEF ConsoleInductive, Sound, DeviceRecord, DeviceOk, ConsoleRecord, HandlePut
<1>1. Later(dev, dev')
  <2>1. c.put.val \in Value BY <1>0 DEF Put
  <2>2. Later(dev, dev) BY <1>0 DEF Later
  <2>3. Later(dev, Update(dev, c.put.val)) BY <1>0, <2>1, UpdateLater
  <2> QED BY <2>2, <2>3 DEF HandlePut
<1>2. p \in Put /\ p.rev = dev'.rev
  <2>1. dev'.rev \in Nat BY <1>1 DEF Later, DeviceOk, DeviceRecord
  <2>2. PutReply(dev, c.put.tok, c.put.val) \in {"refused", "connecting", "ok"} BY DEF PutReply
  <2> QED BY <1>0, <2>1, <2>2 DEF Put
<1>3. c' = [c EXCEPT !.put = p] BY <1>0 DEF HandlePut, ConsoleRecord
<1> HIDE DEF p
<1>4. c' \in ConsoleRecord BY <1>0, <1>2, <1>3 DEF ConsoleRecord
<1>5. /\ c'.put = p /\ c'.poll = c.poll /\ c'.gets = c.gets /\ c'.wifi = c.wifi /\ c'.acked = c.acked
      /\ c'.login = c.login /\ c'.grant = c.grant /\ c'.page = c.page /\ c'.nav = c.nav
      /\ c'.target = c.target
  BY <1>0, <1>3 DEF ConsoleRecord
<1>6. c.page = "settings" BY <1>0, NamesTyped DEF Guarded, Routed, ConsoleRecord, Views
<1>7. Guarded(c') BY <1>0, <1>5, <1>6 DEF Guarded, Routed
<1>8. acts' \in 0..MaxActs BY <1>0, ActsLeft
<1> QED BY <1>1, <1>2, <1>4, <1>5, <1>7, <1>8, DeviceStep

LEMMA StrayStep == ASSUME ConsoleInductive, HandleStray PROVE StepOk
<1>0. c \in ConsoleRecord /\ Guarded(c) /\ DeviceOk(dev) /\ dev.rev \in Nat
  BY DEF ConsoleInductive, Sound, DeviceRecord, DeviceOk
<1>1. PICK s \in c.strays :
        /\ c' = [c EXCEPT !.strays = @ \ {s}]
        /\ dev' \in {dev, IF s.tok = dev.token THEN Update(dev, s.val) ELSE dev}
        /\ UNCHANGED acts
  BY DEF HandleStray
<1> DEFINE ss == c.strays \ {s}
<1>2. Later(dev, dev')
  <2>1. s.val \in Value BY <1>0 DEF ConsoleRecord, Strays
  <2>2. Later(dev, dev) BY <1>0 DEF Later
  <2>3. Later(dev, Update(dev, s.val)) BY <1>0, <2>1, UpdateLater
  <2> QED BY <1>1, <2>2, <2>3
<1>3. ss \in Strays BY <1>0 DEF ConsoleRecord, Strays
<1>4. c' = [c EXCEPT !.strays = ss] BY <1>0, <1>1 DEF ConsoleRecord
<1> HIDE DEF ss
<1>5. c' \in ConsoleRecord BY <1>0, <1>3, <1>4 DEF ConsoleRecord
<1>6. /\ SameRoute(c, c') /\ SameData(c, c')
  BY <1>0, <1>4 DEF ConsoleRecord, SameRoute, SameData
<1>7. Guarded(c') BY <1>0, <1>6, RouteGuarded
<1>8. acts' \in 0..MaxActs BY <1>1, ActsLeft
<1> QED BY <1>2, <1>5, <1>6, <1>7, <1>8, DeviceStep DEF SameRoute, SameData

LEMMA DeviceSteps ==
  ASSUME ConsoleInductive, TransitionEnds \/ RestartDone \/ OtherClient PROVE StepOk
<1>0. /\ c \in ConsoleRecord /\ Guarded(c) /\ DeviceOk(dev) /\ dev \in DeviceRecord /\ dev.rev \in Nat
      /\ dev.token \in Nat
  BY DEF ConsoleInductive, Sound, DeviceRecord, DeviceOk
<1>1. UNCHANGED c /\ acts' \in 0..MaxActs
  BY ActsLeft DEF TransitionEnds, RestartDone, OtherClient
<1>2. CASE TransitionEnds
  <2>1. PICK v \in dev.cand :
          dev' \in {[Changed(dev, v) EXCEPT !.cand = {}, !.conn = [st |-> "connected", rev |-> dev.rev + 1]],
                    [dev EXCEPT !.cand = {}, !.conn = [NoConn EXCEPT !.st = "failed"]]}
    BY <1>2 DEF TransitionEnds
  <2> DEFINE n == dev.rev + 1
             cc == [st |-> "connected", rev |-> n]
             cf == [NoConn EXCEPT !.st = "failed"]
             a == [dev EXCEPT !.cfg = v, !.rev = n, !.cand = {}, !.conn = cc]
             b == [dev EXCEPT !.cand = {}, !.conn = cf]
  <2>2. dev' \in {a, b} BY <1>0, <2>1 DEF Changed, DeviceRecord
  <2>3. n \in Nat /\ n >= dev.rev /\ v \in Value BY <1>0 DEF DeviceRecord
  <2>4. cc \in Conn /\ cc.rev = n /\ cf \in Conn /\ cf.rev = 0 BY <2>3, NonesTyped DEF Conn
  <2> HIDE DEF n, cc, cf
  <2>5. /\ a \in DeviceRecord /\ a.rev = n /\ a.token = dev.token /\ a.conn = cc
    BY <1>0, <2>3, <2>4 DEF DeviceRecord
  <2>6. /\ b \in DeviceRecord /\ b.rev = dev.rev /\ b.token = dev.token /\ b.conn = cf
    BY <1>0, <2>4 DEF DeviceRecord
  <2> HIDE DEF a, b
  <2>7. Later(dev, a) /\ Later(dev, b) BY <1>0, <2>3, <2>4, <2>5, <2>6 DEF Later, DeviceOk
  <2> QED BY <1>0, <1>1, <2>2, <2>7, DeviceStep
<1>3. CASE RestartDone
  <2> DEFINE x == IF dev.restart = "factory" THEN Changed(dev, First) ELSE dev
             t == x.token + 1
             e == [x EXCEPT !.token = t, !.cand = {}, !.conn = NoConn, !.restart = "none"]
  <2>1. dev' = e BY <1>0, <1>3 DEF RestartDone
  <2>2. x \in DeviceRecord /\ x.rev >= dev.rev
    <3> DEFINE n == dev.rev + 1
               y == [dev EXCEPT !.cfg = First, !.rev = n]
    <3>1. n \in Nat /\ n >= dev.rev BY <1>0
    <3>2. x \in {dev, y} BY <1>0 DEF Changed, DeviceRecord
    <3> HIDE DEF x, n
    <3>3. y \in DeviceRecord /\ y.rev = n BY <1>0, <3>1, NonesTyped DEF DeviceRecord
    <3> HIDE DEF y
    <3> QED BY <1>0, <3>1, <3>2, <3>3
  <2> HIDE DEF x
  <2>3. t \in Nat /\ t # 0 BY <2>2 DEF DeviceRecord
  <2> HIDE DEF t
  <2>4. e \in DeviceRecord /\ e.token = t /\ e.rev = x.rev /\ e.conn = NoConn
    BY <2>2, <2>3, NonesTyped DEF DeviceRecord
  <2> HIDE DEF e
  <2>5. x.rev \in Nat BY <2>2 DEF DeviceRecord
  <2>6. Later(dev, dev') BY <2>1, <2>2, <2>3, <2>4, <2>5, NonesTyped DEF Later, DeviceOk
  <2> QED BY <1>0, <1>1, <2>6, DeviceStep
<1>4. CASE OtherClient
  <2> DEFINE t == dev.token + 1
             d == [dev EXCEPT !.token = t]
             v == [dev.cfg EXCEPT !.net = IF @ = "home" THEN "new" ELSE "home"]
  <2>1. dev' = Update(d, v) BY <1>0, <1>4 DEF OtherClient, DeviceRecord
  <2>2. v \in Value
    <3>1. dev.cfg \in Value BY <1>0 DEF DeviceRecord
    <3> QED BY <3>1 DEF Value
  <2>3. t \in Nat /\ t # 0 BY <1>0
  <2> HIDE DEF v, t
  <2>4. d \in DeviceRecord /\ d.token = t /\ d.rev = dev.rev /\ d.conn = dev.conn
    BY <1>0, <2>3 DEF DeviceRecord
  <2> HIDE DEF d
  <2>5. DeviceOk(d) BY <1>0, <2>3, <2>4 DEF DeviceOk
  <2>6. Later(dev, dev') BY <2>1, <2>2, <2>4, <2>5, UpdateLater DEF Later
  <2> QED BY <1>0, <1>1, <2>6, DeviceStep
<1> QED BY <1>2, <1>3, <1>4

-----------------------------------------------------------------------------
(* The specification.                                                       *)

LEMMA InitInductive == Init => ConsoleInductive
<1> SUFFICES ASSUME Init PROVE ConsoleInductive OBVIOUS
<1> DEFINE gs == [w \in Whys |-> NoGet]
<1>1. PICK t \in {0, 1} :
         c = [hash |-> "network", event |-> FALSE, target |-> "network", nav |-> "idle",
              page |-> "network", last |-> "network", pending |-> "none", dialog |-> "none",
              login |-> "idle", token |-> t, named |-> FALSE, features |-> FALSE, asking |-> TRUE,
              queued |-> "force", wifi |-> NoSnap, gets |-> gs,
              form |-> First, base |-> First, based |-> FALSE, busy |-> FALSE, put |-> NoPut,
              poll |-> NoPoll, retry |-> 0, strays |-> {}, scan |-> FALSE, found |-> FALSE,
              shut |-> FALSE, cooling |-> FALSE, leave |-> "none", acked |-> 0, proven |-> 0, grant |-> 0]
  BY DEF Init
<1>2. /\ gs \in [Whys -> Get] /\ \A w \in Whys : gs[w] = NoGet BY NonesTyped
<1> HIDE DEF gs
<1>3. c \in ConsoleRecord BY <1>1, <1>2, NonesTyped, NamesTyped DEF ConsoleRecord
<1>4. /\ c.login = "idle" /\ c.page = "network" /\ c.last = "network" /\ c.leave = "none"
      /\ c.put = NoPut /\ c.nav = "idle" /\ c.wifi = NoSnap /\ c.acked = 0 /\ c.poll = NoPoll /\ c.gets = gs
  BY <1>1
<1>5. Guarded(c) BY <1>4, NonesTyped DEF Guarded, Routed
<1>6. Fresh(c, 1) BY <1>2, <1>4, NonesTyped DEF Fresh, Current, NoSnap
<1>7. DeviceOk(dev) /\ dev.rev = 1 BY NonesTyped DEF Init, DeviceOk, DeviceRecord
<1>8. acts \in 0..MaxActs BY ConsoleBounds DEF Init
<1> QED BY <1>3, <1>5, <1>6, <1>7, <1>8 DEF ConsoleInductive, Sound, DeviceOk

LEMMA NextOk == ASSUME ConsoleInductive, [Next]_vars PROVE StepOk
<1>1. CASE Route BY <1>1, HashSteps, FeaturesStep, SessionSteps DEF Route
<1>2. CASE Login BY <1>2, LoginSteps DEF Login
<1>3. CASE Save BY <1>3, PutAnsweredStep, PutFailsStep, PollSteps, RetryStep DEF Save
<1>4. CASE Deadline BY <1>4, PollSteps
<1>5. CASE Reads BY <1>5, ReadSteps, AnswerReadStep DEF Reads
<1>6. CASE Dialog BY <1>6, ScanSteps, LeaveSteps DEF Dialog
<1>7. CASE User
  BY <1>7, HashSteps, LeaveSteps, LoginSteps, CancelStep, FormSteps, SaveWifiStep, ScanSteps DEF User
<1>8. CASE Device BY <1>8, HandlePutStep, StrayStep, PollSteps, DeviceSteps DEF Device
<1>9. CASE UNCHANGED vars
  <2>1. UNCHANGED <<c, dev, acts>> BY <1>9 DEF vars
  <2>2. Sound(c', dev.rev) /\ Opens(c, c') BY <2>1 DEF ConsoleInductive, Opens
  <2> QED BY <2>1, <2>2, ActsLeft, SoundStep
<1> QED BY <1>1, <1>2, <1>3, <1>4, <1>5, <1>6, <1>7, <1>8, <1>9 DEF Next

\* Console, device and the acts left keep their types in every behaviour.
THEOREM ConsoleTyped == Spec => []TypeOK
<1>1. ASSUME ConsoleInductive PROVE TypeOK
  <2>1. /\ c.hash \in Hashes /\ c.target \in Hashes /\ c.last \in Hashes /\ c.pending \in Waiting
        /\ c.page \in Views /\ c.dialog \in Dialogs /\ c.nav \in Navs /\ c.login \in Logins
        /\ c.leave \in Leaves /\ c.queued \in Syncs /\ c.wifi \in Snap /\ c.gets \in [Whys -> Get]
    BY <1>1 DEF ConsoleInductive, Sound, ConsoleRecord
  <2>2. /\ c.form \in Value /\ c.base \in Value /\ c.put \in Put /\ c.poll \in Poll
        /\ c.retry \in Retries /\ c.token \in Nat /\ c.acked \in Nat /\ c.proven \in Nat
        /\ c.grant \in Nat /\ c.strays \in Strays
    BY <1>1 DEF ConsoleInductive, Sound, ConsoleRecord
  <2>3. {c.event, c.named, c.features, c.asking, c.based, c.busy, c.scan, c.found, c.shut, c.cooling}
          \subseteq BOOLEAN
    BY <1>1 DEF ConsoleInductive, Sound, ConsoleRecord
  <2>4. /\ dev.cfg \in Value /\ dev.cand \subseteq Value /\ dev.conn \in Conn /\ dev.rev \in Nat
        /\ dev.token \in Nat /\ dev.restart \in {"none", "again", "factory"} /\ acts \in 0..MaxActs
    BY <1>1 DEF ConsoleInductive, DeviceRecord
  <2> QED BY <2>1, <2>2, <2>3, <2>4
      DEF TypeOK, Waiting, Views, Dialogs, Navs, Logins, Leaves, Retries, Strays
<1>2. ConsoleInductive /\ [Next]_vars => ConsoleInductive' BY NextOk DEF StepOk
<1> QED BY InitInductive, <1>1, <1>2, PTL DEF Spec

\* The settings page opens only to a session the device has confirmed, however routes,
\* logins, cancelled logins and answers interleave (router.js handleRoute, auth.js).
THEOREM SettingsSafe == Spec => SettingsGuarded
<1>1. ConsoleInductive /\ [Next]_vars => ConsoleInductive' BY NextOk DEF StepOk
<1>2. ConsoleInductive /\ [Next]_vars
      => [c.page = "network" /\ c'.page = "settings" => c'.token # 0 /\ c'.token = c'.proven]_vars
  BY NextOk DEF StepOk, Step, Opens
<1> QED BY InitInductive, <1>1, <1>2, PTL DEF Spec, SettingsGuarded

\* The page takes no answer older than the one it has, or than a save it has reported as
\* done: one newest read, superseded by every save and every later read
\* (resource-store.js loadSnapshot, controller.js).
THEOREM SnapshotsAdvance == Spec => SnapshotAdvances
<1>1. ConsoleInductive /\ [Next]_vars => ConsoleInductive' BY NextOk DEF StepOk
<1>2. ConsoleInductive /\ [Next]_vars
      => [c'.wifi # c.wifi => c'.wifi.rev >= c.wifi.rev /\ c'.wifi.rev >= c'.acked]_vars
  BY NextOk DEF StepOk, Step, Takes
<1> QED BY InitInductive, <1>1, <1>2, PTL DEF Spec, SnapshotAdvances
=============================================================================
