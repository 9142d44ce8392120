----------------------------- MODULE Detections -----------------------------
(***************************************************************************)
(* The batch detector deauth_flood over one sensor, and the sink that      *)
(* stores its findings.  Alerts and polls reach the database at any time   *)
(* (an upload may be days late).  A run reads a window widened by the      *)
(* episode gap, finds the bursts in the polls, merges them with the alerts *)
(* into episodes and grades them in a read-only transaction; a second      *)
(* transaction matches every finding to a stored row, by overlap of        *)
(* windows, and refreshes that row or inserts one.  Any window may be run  *)
(* at any time and again: the runs are started by hand.  The operator      *)
(* labels rows in between.  An access point is known by its BSSID until a   *)
(* row of the table devices says that it is one: until then its alerts are  *)
(* found without it and its polls are not, and from then on its findings    *)
(* are about the row's device key.                                          *)
(*                                                                         *)
(* Sources: server/detection/detections.py, deauth_flood.py (analyse, run) *)
(* and the index detections_dedupe of server/schema.sql.                   *)
(*                                                                         *)
(* Times are small integers.  A row's summary and evidence are left out    *)
(* but for the window, on which the matching depends, and the run count.   *)
(***************************************************************************)
EXTENDS FloodRules

CONSTANTS
  APs,          \* the access points, by BSSID
  Arrivable,    \* what may arrive: alerts [ap, ts, kind, fromAp], kind "alert" (DEAUTHFLOOD),
                \* "bcast" (BCASTDISCON) or "code" (DISCONCODEINVALID), polls
                \* [ap, ts, kind, last, cur], kind "poll", and device rows, kind "device"
  Windows,      \* the windows an operator runs: <<frm, to>>
  Gap, MaxGap, Lookback, MinBursts, BurstWindow, Sustain, \* Params
  MinActive,    \* polls; with fewer the baseline comes from the scan range
  Background,   \* <<bursts, polls>> -> cdf of the burst count in one window
  One, Alpha,   \* the unit of a cdf, the Poisson tail
  Trusted,      \* the APs the operator trusts
  MaxRuns       \* bound: runs started

VARIABLES
  events,   \* what the database holds
  rows,     \* the table detections
  run,      \* the run under way: its findings, or Idle
  runs,     \* runs started so far
  bridged,  \* history: what arrived joined two episodes, or moved a burst
  renamed,  \* history: a device row arrived after a finding about its BSSID
  cut       \* history: a run read only a part of an episode

vars == <<events, rows, run, runs, bridged, renamed, cut>>

Idle == [on |-> FALSE]

Of(ap, E)        == {e \in E : e.ap = ap}
OfKind(kind, E)  == {e \in E : e.kind = kind}

(* Whether an access point has a device row, and what its findings are about.*)
Known(ap, E)     == OfKind("device", Of(ap, E)) # {}
NamedBy(ap, E)   == IF Known(ap, E) THEN "device_key" ELSE "bssid"

(* The polls of an access point, found by its device row, and the bursts     *)
(* that a query over a range finds in them: it sees no poll before its range. *)
Polls(ap, E)     == IF Known(ap, E) THEN OfKind("poll", Of(ap, E)) ELSE {}
BurstsOf(ap, E, from, to) ==
  {[ap |-> ap, ts |-> b.ts, kind |-> "burst", fromAp |-> FALSE] : b \in Bursts(Polls(ap, E), from, to, MaxGap)}

EventsOf(ap, E, from, to) ==
  {e \in InRange(Of(ap, E), from, to) : e.kind \notin {"poll", "device"}} \cup BurstsOf(ap, E, from, to)

Episodes(ap, E, w) == LET eps == BuildEpisodes(EventsOf(ap, E, w[1], w[2]), Gap) IN {eps[i] : i \in DOMAIN eps}

(* As if the window were narrowed by the gap at its end.                    *)
ScanNarrowed(w)  == <<w[1] - Gap, w[2] - Gap>>
ScanOf(w)        == <<w[1] - Gap, w[2] + Gap>>
Overlaps(ep, w)  == LastTs(ep) >= w[1] /\ FirstTs(ep) < w[2]
MaxBursts(ep)    == MaxInWindow(SortedTs(OfKind("burst", ep)), BurstWindow)

(* The background of an AP: its own bursts and polls before the window, or  *)
(* over the whole scan range when those polls are fewer than MinActive.     *)
Baseline(ap, E, w) ==
  LET from   == w[1] - Lookback
      polls(to) == Cardinality(InRange(Polls(ap, E), from, to))
      to     == IF polls(w[1]) < MinActive THEN ScanOf(w)[2] ELSE w[1]
  IN  Background[<<Cardinality(BurstsOf(ap, E, from, to)), polls(to)>>]

(* Frames from the access point's side: an alert about them, or one that     *)
(* corroborates that they were broadcast.                                    *)
AttackLike(ep) == (\E a \in OfKind("alert", ep) : a.fromAp) \/ OfKind("bcast", ep) # {}

Assess(ap, ep, E, w) ==
  LET alerts == OfKind("alert", ep)
      span   == IF alerts = {} THEN 0 ELSE LastTs(alerts) - FirstTs(alerts)
      ruleA  == alerts # {}
      ruleB  == MaxBursts(ep) >= PoissonThreshold(Baseline(ap, E, w), One, Alpha, MinBursts)
  IN  IF ~(ruleA \/ ruleB) THEN "none"
      ELSE Grade(ruleA, ruleB, span, Sustain, AttackLike(ep), Known(ap, E) /\ ap \in Trusted)

Candidate(ep, w) ==
  Overlaps(ep, w) /\ (OfKind("alert", ep) # {} \/ MaxBursts(ep) >= MinBursts)

FindingsOf(E, w) ==
  UNION {{[ap |-> ap, by |-> NamedBy(ap, E), start |-> FirstTs(ep), end |-> LastTs(ep), severity |-> Assess(ap, ep, E, w)] :
            ep \in {d \in Episodes(ap, E, ScanOf(w)) : Candidate(d, w) /\ Assess(ap, d, E, w) # "none"}} : ap \in APs}

-----------------------------------------------------------------------------
(* The sink: one finding after the other in one transaction.                *)

SameSubject(r, f) == r.ap = f.ap /\ r.by = f.by

(* As if the match were by the exact start, as the unique index has it.     *)
ExistingByStart(table, f) == {r \in table : SameSubject(r, f) /\ r.ts = f.start}

Existing(table, f) ==
  {r \in table : SameSubject(r, f) /\ r.end >= f.start - Gap /\ r.start <= f.end + Gap}

Stored(f, id, n, status) ==
  [id |-> id, ap |-> f.ap, by |-> f.by, ts |-> f.start, start |-> f.start, end |-> f.end,
   severity |-> f.severity, runs |-> n, status |-> status]

Write(db, f) ==
  LET same  == Existing(db.rows, f)
      old   == CHOOSE r \in same : \A q \in same : r.ts <= q.ts
      rest  == IF same = {} THEN db.rows ELSE db.rows \ {old}
      new   == IF same = {} THEN Stored(f, Cardinality(db.rows) + 1, 1, "open")
                            ELSE Stored(f, old.id, old.runs + 1, old.status)
  IN  IF ~db.ok THEN db
      ELSE [ok |-> \A r \in rest : ~(SameSubject(r, f) /\ r.ts = f.start), rows |-> rest \cup {new}]

Sink(table, findings) ==
  FoldLeft(LAMBDA db, t : FoldSet(LAMBDA f, d : Write(d, f), db, {f \in findings : f.start = t}),
           [ok |-> TRUE, rows |-> table], Ascending({f.start : f \in findings}))

-----------------------------------------------------------------------------
Init ==
  /\ events = {} /\ rows = {} /\ run = Idle /\ runs = 0
  /\ bridged = FALSE /\ renamed = FALSE /\ cut = FALSE

(* The episodes of everything that ever happened.                           *)
Whole(ap, E) == Episodes(ap, E, <<0, 1 + Max({0} \cup Times(E))>>)

(* What an arrival may do to the episodes besides adding to them.           *)
Disturbs(e) ==
  \E d \in Whole(e.ap, events) :
    \A ep \in Whole(e.ap, events \cup {e}) :
      ~(d \subseteq ep) \/ \E other \in Whole(e.ap, events) \ {d} : other \subseteq ep

(* A finding about the BSSID is stored or about to be.                       *)
FoundBefore(ap) == (\E r \in rows : r.ap = ap) \/ (run.on /\ \E f \in run.findings : f.ap = ap)

(* An alert, a poll or a device row becomes visible.                        *)
Arrive(e) ==
  /\ e \notin events
  /\ bridged' = (bridged \/ Disturbs(e))
  /\ renamed' = (renamed \/ (e.kind = "device" /\ FoundBefore(e.ap)))
  /\ events' = events \cup {e}
  /\ UNCHANGED <<rows, run, runs, cut>>

(* The read-only transaction of a run over the window w.                    *)
Analyse(w) ==
  /\ ~run.on /\ runs < MaxRuns
  /\ runs' = runs + 1
  /\ run' = [on |-> TRUE, window |-> w, seen |-> events, findings |-> FindingsOf(events, w)]
  /\ cut' = (cut \/ \E ap \in APs : \E ep \in Episodes(ap, events, ScanOf(w)) : ep \notin Whole(ap, events))
  /\ UNCHANGED <<events, rows, bridged, renamed>>

(* The writing transaction commits, or the unique index aborts it.          *)
Commit ==
  /\ run.on /\ Sink(rows, run.findings).ok
  /\ rows' = Sink(rows, run.findings).rows
  /\ run' = Idle
  /\ UNCHANGED <<events, runs, bridged, renamed, cut>>

Abort ==
  /\ run.on /\ ~Sink(rows, run.findings).ok
  /\ run' = Idle
  /\ UNCHANGED <<events, rows, runs, bridged, renamed, cut>>

Label(r) ==
  /\ r.status = "open"
  /\ rows' = (rows \ {r}) \cup {[r EXCEPT !.status = "labelled"]}
  /\ UNCHANGED <<events, run, runs, bridged, renamed, cut>>

Next ==
  \/ \E e \in Arrivable : Arrive(e)
  \/ \E w \in Windows : Analyse(w)
  \/ Commit
  \/ Abort
  \/ \E r \in rows : Label(r)

Spec == Init /\ [][Next]_vars

-----------------------------------------------------------------------------
RowsOf(ap, table) == {r \in table : r.ap = ap}
Within(r, ep)     == FirstTs(ep) <= r.start /\ r.end <= LastTs(ep)

(* As long as no run read a part of an episode, and nothing late joined two  *)
(* episodes or moved a burst (a poll that arrives late may be the first to   *)
(* show a burst the next one was taken for), the rows stand one to one for   *)
(* episodes, whatever windows were run, in whatever order and however often, *)
(* and whatever arrived in between: the matching by overlapping windows      *)
(* (find_existing) loses none and duplicates none.  But a row about a BSSID  *)
(* is not found again once the device row is there, so an episode found     *)
(* before and after has two rows, one of each subject (detections.py:7-9     *)
(* says that a rerun never duplicates one).                                  *)
OneRowPerEpisode ==
  ~cut /\ ~bridged =>
    \A ap \in APs : \A r \in RowsOf(ap, rows) :
      \E ep \in Whole(ap, events) :
        /\ Within(r, ep)
        /\ \A q \in RowsOf(ap, rows) : Within(q, ep) => q = r \/ (renamed /\ q.by # r.by)

(* When a run commits, every episode that lies in its window, was polled     *)
(* within the gap of it and meets a rule is stored whole, with the grade of  *)
(* what the run had read: no later finding of the same run has overwritten   *)
(* it.  A stored row keeps its id and label; and its window never shrinks,   *)
(* unless an episode was cut or what arrived late moved a burst.             *)
Polled(ap, E, w) == Whole(ap, E) \cap Episodes(ap, E, <<w[1] - Gap, w[2] + Gap>>)

WholeEpisodeStored ==
  [][Commit =>
       /\ \A ap \in APs : \A ep \in Polled(ap, run.seen, run.window) :
            LET w == run.window
                severity == Assess(ap, ep, run.seen, w)
            IN  w[1] <= FirstTs(ep) /\ LastTs(ep) < w[2] /\ severity # "none" =>
                  \E r \in RowsOf(ap, rows') :
                    /\ r.by = NamedBy(ap, run.seen) /\ r.severity = severity
                    /\ r.start = FirstTs(ep) /\ r.end = LastTs(ep)
       /\ \A r \in rows : \E q \in rows' :
            /\ q.id = r.id /\ (r.status = "labelled" => q.status = "labelled")
            /\ ~cut /\ ~bridged => q.start <= r.start /\ r.end <= q.end]_vars
=============================================================================
