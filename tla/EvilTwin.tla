------------------------------ MODULE EvilTwin ------------------------------
(***************************************************************************)
(* The evil_twin detector: signal (b), the RSSI of a known access point    *)
(* leaving its own baseline, computed in one pass over readings that come  *)
(* ordered by access point and time from a server-side cursor, with the    *)
(* last W readings of one access point in memory; and signal (a), an       *)
(* unknown BSSID under an established network name.                        *)
(*                                                                         *)
(* Source: server/detection/evil_twin.py.  The cursor is the state         *)
(* machine: one action per row.  Medians of an even number of values are   *)
(* halves, so every median is kept doubled (Mid2).                         *)
(***************************************************************************)
EXTENDS FloodRules

CONSTANTS
  APs,        \* device keys, numbers: the cursor orders by them
  Meta,       \* [AP -> its baseline row], over the APs that have one
  Rssis,      \* readings
  W,          \* window_w
  K, Floor, SdFloor, SpreadK, SpreadFloor, \* thresholds of a deviation
  Persistence, PersistWindow, Gap,         \* thresholds of a detection
  MedDev, HighDev,                         \* dB that grade medium, high
  MaxFloorShare,                           \* percent
  PersistSpan, PersistObs, CloseDbm, StrongDb, \* thresholds of signal (a)
  Inventory,    \* the access points with a name: see Unknowns
  MaxRows, MaxTs  \* bounds: rows read up to one of an access point, times

VARIABLES
  rowsRead,   \* history: the rows the cursor gave, in order
  group,      \* the access point under way, 0 before the first row
  buf,        \* its last W compared readings
  deviations, \* the deviating windows found so far
  compared    \* access points with at least one reading compared

vars == <<rowsRead, group, buf, deviations, compared>>

Abs(x) == IF x < 0 THEN -x ELSE x

(* The k-th smallest of a sequence; twice its median.                       *)
Kth(s, k) == Min({x \in Range(s) : Cardinality({i \in DOMAIN s : s[i] <= x}) >= k})
Mid2(s)   == Kth(s, (Len(s) + 1) \div 2) + Kth(s, Len(s) \div 2 + 1)

Max2(x, y) == IF x < y THEN y ELSE x
Sigma(m)   == Max2(m.sd, SdFloor)

(* The statistic of one full window: dev2 is twice the deviation of its     *)
(* median, the MAD is compared in quarters of a dB.                         *)
Facet(win, m) ==
  LET mid2   == Mid2(win)
      dev2   == mid2 - 2 * m.median
      mad4   == Mid2([i \in DOMAIN win |-> Abs(2 * win[i] - mid2)])
      shift  == Abs(dev2) >= 2 * Max2(K * Sigma(m), Floor)
      spread == mad4 >= 4 * Max2(SpreadK * Sigma(m), SpreadFloor)
  IN  [dev2 |-> dev2, shift |-> shift, spread |-> spread]

InHardwarePeriod(ts, m) == m.hwFrom <= ts /\ ts < m.hwTo

(* Eligible for signal (b): a fixed address, or a sibling of one; and a     *)
(* baseline that is not mostly censored readings.                           *)
Eligible(m) ==
  /\ ~m.random \/ m.sibling
  /\ m.nObs + m.nFloor > 0 => 100 * m.nFloor <= MaxFloorShare * (m.nObs + m.nFloor)

Baselined == {ap \in DOMAIN Meta : Eligible(Meta[ap])}

\* A reading is compared with the baseline, and what one deviating window leaves.
Uses(ap, ts) == ap \in Baselined /\ InHardwarePeriod(ts, Meta[ap])
Deviation(ap, ts, stat) == [ap |-> ap, ts |-> ts, dev2 |-> stat.dev2, shift |-> stat.shift, spread |-> stat.spread]

Push(s, x) == IF Len(s) = W THEN Append(Tail(s), x) ELSE Append(s, x)

-----------------------------------------------------------------------------
Init ==
  /\ rowsRead = <<>> /\ group = 0 /\ buf = <<>> /\ deviations = {} /\ compared = {}

(* The order the cursor's query guarantees.                                 *)
After(ap, ts) ==
  rowsRead # <<>> =>
    LET r == rowsRead[Len(rowsRead)] IN r.ap < ap \/ (r.ap = ap /\ r.ts < ts)

(* As if the window were kept when the next access point begins.            *)
RowKeepsWindow(ap, ts, rssi) ==
  LET new == Push(buf, rssi)
      stat == Facet(new, Meta[ap])
  IN  /\ Len(rowsRead) < MaxRows[ap] /\ After(ap, ts)
      /\ rowsRead' = Append(rowsRead, [ap |-> ap, ts |-> ts, rssi |-> rssi])
      /\ group' = ap /\ buf' = new /\ compared' = compared \cup {ap}
      /\ deviations' = IF Len(new) = W /\ (stat.shift \/ stat.spread)
                       THEN deviations \cup {Deviation(ap, ts, stat)} ELSE deviations

(* One row of the cursor: a new group starts with an empty window.          *)
Row(ap, ts, rssi) ==
  LET old == IF group = ap THEN buf ELSE <<>>
      new == Push(old, rssi)
      uses == Uses(ap, ts)
      stat == Facet(new, Meta[ap])
  IN  /\ Len(rowsRead) < MaxRows[ap] /\ After(ap, ts)
      /\ rowsRead' = Append(rowsRead, [ap |-> ap, ts |-> ts, rssi |-> rssi])
      /\ group' = ap
      /\ buf' = IF uses THEN new ELSE old
      /\ compared' = IF uses THEN compared \cup {ap} ELSE compared
      /\ deviations' =
           IF uses /\ Len(new) = W /\ (stat.shift \/ stat.spread)
           THEN deviations \cup {Deviation(ap, ts, stat)} ELSE deviations

Next == \E ap \in APs, ts \in 0..MaxTs, rssi \in Rssis : Row(ap, ts, rssi)

Spec == Init /\ [][Next]_vars

-----------------------------------------------------------------------------
(* What becomes of the deviations at the end of the cursor.  The guard      *)
(* drops those close to a channel change of the access point: bisect finds  *)
(* the first change not before d.ts - guard in the sorted changes.          *)
Bisect(times, x) == Cardinality({i \in DOMAIN times : times[i] < x}) + 1

NearChange(d, changes, guard) ==
  LET i == Bisect(changes, d.ts - guard)
  IN  i <= Len(changes) /\ changes[i] <= d.ts + guard

ChannelGuard(devs, changesOf, guard) ==
  IF guard <= 0 THEN devs ELSE {d \in devs : ~NearChange(d, changesOf[d.ap], guard)}

Episodes(devs) ==
  UNION {LET eps == BuildEpisodes({d \in devs : d.ap = ap}, Gap)
         IN  {eps[i] : i \in DOMAIN eps} : ap \in APs}

InWindow(ep, from, to) == LastTs(ep) >= from /\ FirstTs(ep) < to

Persistent(ep) == MaxInWindow(SortedTs(ep), PersistWindow) >= Persistence

ApOf(ep) == (CHOOSE d \in ep : TRUE).ap

(* The peak of an episode is the first of its largest deviations, and gives *)
(* its direction: stronger if it is a rise.                                 *)
Earliest(devs) == CHOOSE d \in devs : \A e \in devs : d.ts <= e.ts

PeakFirst(ep) == Earliest(ep).dev2  \* as if the first deviation stood for the episode

Peak2(ep) == Earliest({d \in ep : \A e \in ep : Abs(e.dev2) <= Abs(d.dev2)}).dev2

Direction(ep) == IF Peak2(ep) > 0 THEN "stronger" ELSE "weaker"

RaisedBy(level, n) == Levels[Min({LevelOf(level) + n, Len(Levels)})]
One(b) == IF b THEN 1 ELSE 0

GradeB(ep, corroborated) ==
  LET peak2 == Peak2(ep)
      level == IF Abs(peak2) >= 2 * HighDev THEN "high"
               ELSE IF Abs(peak2) >= 2 * MedDev THEN "medium" ELSE "low"
  IN  RaisedBy(level, One(Direction(ep) = "stronger" /\ Meta[ApOf(ep)].trusted) + One(corroborated))

-----------------------------------------------------------------------------
(* Signal (a).  A row of the inventory is an access point with the names it *)
(* advertises or ever did: [ap, ssid, ssids, oui, crypt, random, trusted,   *)
(* obs, span, median].  A name is established by its trusted members; a     *)
(* row is unknown under each such name it has if it is not one of them.     *)
Members(ssid)    == {a \in Inventory : ssid \in a.ssids}
TrustedOf(ssid)  == {a \in Members(ssid) : a.trusted}
Established      == {s \in UNION {a.ssids : a \in Inventory} : TrustedOf(s) # {}}

Unknowns ==
  UNION {{<<a, s>> : s \in {n \in Established \cap a.ssids :
                            ~a.trusted /\ a.obs > 0 /\ \A t \in TrustedOf(n) : t.ap # a.ap}} : a \in Inventory}

(* The most frequent encryption of the trusted rows; the median level.      *)
Dominant(T) ==
  LET count(c) == Cardinality({a \in T : a.crypt = c})
  IN  CHOOSE c \in {a.crypt : a \in T} : \A d \in {a.crypt : a \in T} : count(d) <= count(c)

GroupMid2(T) == Mid2([i \in 1..Cardinality(T) |->
                        Kth([j \in 1..Cardinality(T) |-> SetToSeq(T)[j].median], i)])

Sustained(a) == ~a.random /\ (a.span >= PersistSpan \/ a.obs >= PersistObs)

Close(a, ssid) ==
  a.median >= CloseDbm \/ 2 * a.median >= GroupMid2(TrustedOf(ssid)) + 2 * StrongDb

GradeA(a, ssid, corroborated) ==
  LET T == TrustedOf(ssid)
      known == a.oui \in {t.oui : t \in T} /\ a.crypt = Dominant(T)
  IN  RaisedBy(IF known THEN "low" ELSE "medium", One(Close(a, ssid)) + One(corroborated))

(* Each signal raises the other under the same name: the episode's current  *)
(* name, and any name the unknown row ever had.                             *)
SsidOf(ap) == LET a == CHOOSE x \in Inventory : x.ap = ap IN a.ssid
CorroboratedA(ep)       == SsidOf(ApOf(ep)) \in {u[2] : u \in Unknowns}
CorroboratedB(u, eps)   == u[2] \in {SsidOf(ApOf(ep)) : ep \in eps}

FindingsB(devs, from, to) ==
  {[ap |-> ApOf(ep), start |-> FirstTs(ep), end |-> LastTs(ep), direction |-> Direction(ep),
    severity |-> GradeB(ep, CorroboratedA(ep))] :
     ep \in {e \in Episodes(devs) : InWindow(e, from, to) /\ Persistent(e)}}

FindingsA(devs, from, to) ==
  LET eps == {e \in Episodes(devs) : InWindow(e, from, to)}
  IN  {[ap |-> u[1].ap, ssid |-> u[2], severity |-> GradeA(u[1], u[2], CorroboratedB(u, eps)),
        raised |-> CorroboratedB(u, eps)] : u \in {v \in Unknowns : Sustained(v[1])}}

-----------------------------------------------------------------------------
(* The readings of one access point that are compared with its baseline.    *)
Compared(ap) ==
  LET at == Ascending({i \in DOMAIN rowsRead : rowsRead[i].ap = ap /\ Uses(ap, rowsRead[i].ts)})
  IN  [k \in DOMAIN at |-> rowsRead[at[k]]]

LevelsOf(s) == [i \in DOMAIN s |-> s[i].rssi]

\* The one pass with W readings in memory finds exactly the deviating
\* windows of every access point's own compared readings: no window spans
\* two access points or a change of hardware, and none is missed.
StreamingIsWindowing ==
  deviations =
    UNION {LET s == Compared(ap)
               ends == {i \in DOMAIN s : i >= W}
               stat(i) == Facet(SubSeq(LevelsOf(s), i - W + 1, i), Meta[ap])
           IN  {Deviation(ap, s[i].ts, stat(i)) :
                  i \in {j \in ends : stat(j).shift \/ stat(j).spread}} : ap \in APs}

\* One noisy poll never fires: an access point with a single reading off
\* its baseline median has no deviating window.
OneNoisyPollNeverFires ==
  \A ap \in Baselined :
    Cardinality({i \in DOMAIN Compared(ap) : Compared(ap)[i].rssi # Meta[ap].median}) <= 1 =>
      \A d \in deviations : d.ap # ap

\* The guard, with one binary search per deviation, drops exactly the
\* deviations with some channel change of their access point within the guard.
GuardIsExact ==
  \A changing \in {d.ap : d \in deviations}, times \in SUBSET (0..MaxTs), guard \in 1..2 :
    LET changesOf == [ap \in APs |-> Ascending(IF ap = changing THEN times ELSE {})]
    IN  ChannelGuard(deviations, changesOf, guard) =
          {d \in deviations : d.ap = changing => \A t \in times : Abs(t - d.ts) > guard}

(* What the pass reports is right: it finds the deviating windows and only   *)
(* those, one outlier makes none, and the guard drops what lies near a       *)
(* channel change and nothing else.                                          *)
DeviationsAreTrue == StreamingIsWindowing /\ OneNoisyPollNeverFires /\ GuardIsExact

(* A drop of the access point within a detection that no rise in it exceeds. *)
Outweighed(f) ==
  LET span == {d \in deviations : d.ap = f.ap /\ f.start <= d.ts /\ d.ts <= f.end}
  IN  \E d \in span : d.dev2 < 0 /\ \A e \in span : e.dev2 <= -d.dev2

(* A level that rose for good is found: once every one of the last           *)
(* W + Persistence - 1 compared readings is more than a threshold above the  *)
(* baseline, at the regular pace, a run over the whole range reports the     *)
(* access point up to the last of them, and grades each unknown address      *)
(* under its name that stayed with it.  It reports it as stronger, unless an *)
(* earlier drop at least as large as every rise fell into the same episode:  *)
(* the code takes the direction of the largest deviation.  (It also fires at *)
(* exactly the threshold, where its docstring says "more than"; the property *)
(* is about what the docstring promises.)                                    *)
SustainedShiftFires ==
  \A ap \in Baselined :
    LET s == Compared(ap)
        n == W + Persistence - 1
        tail == IF Len(s) < n THEN <<>> ELSE SubSeq(s, Len(s) - n + 1, Len(s))
        m == Meta[ap]
    IN  /\ tail # <<>>
        /\ \A i \in DOMAIN tail : tail[i].rssi - m.median > Max2(K * Sigma(m), Floor)
        /\ \A i \in 2..Len(tail) : tail[i].ts - tail[i - 1].ts <= Gap
        /\ tail # <<>> => tail[n].ts - tail[W].ts <= PersistWindow
        => /\ \E f \in FindingsB(deviations, 0, MaxTs + 1) :
                /\ f.ap = ap /\ f.end = tail[n].ts
                /\ f.direction = "stronger" \/ Outweighed(f)
           /\ \A f \in FindingsA(deviations, 0, MaxTs + 1) : f.ssid = SsidOf(ap) => f.raised
=============================================================================
