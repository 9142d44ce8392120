------------------------------- MODULE Server -------------------------------
(***************************************************************************)
(* The parts of the server that keep a state of their own between requests: *)
(* the ingest routes of the sensors with their adapters and stalls, the     *)
(* caches of the dashboard's reads with their tags, and the import of a     *)
(* buffer's copy beside the refresher; the periods that the dashboard cuts  *)
(* from the time of day; the pages of the event feed; the detector          *)
(* deauth_flood with its findings, and the detector evil_twin; and the       *)
(* evaluation of a detector.  None reads what another writes in these models: *)
(* a behaviour is one of them at work.                                       *)
(***************************************************************************)
EXTENDS Integers, Sequences, FiniteSets

CONSTANTS
  None, Slots,
  Sensors, PoolSize, Payloads, RejectCount, AuthFailCount, Persist, Rate, Burst, FailLimit, FailSpan, Block,
  MaxArrivals, MaxNow,                                                           \* IngestService
  Summaries, Events, List, Feed, MaxBytes, Share, MaxSize, MaxEdits, MaxBegun, MaxAsked,  \* ReadCache
  ImportTimes, ImportAps, Clients, Written, Accepted, MaxImports, MaxBatches,                \* SnapshotImport
  Zones, From, To,                                                               \* Periods
  TrialTimes, Bssids, Durations, Stagings, Type, Pre, Post, Guard, EvalFrom, EvalTo, Edge, MaxTrials, MaxDetections, \* Evaluation
  EventIds, Stamps, Groups, OwnRow, Labels, PageRows, MaxChanges,                \* EventFeed
  FloodAps, FloodEvents, FloodWindows, FloodGap, CounterGap, Lookback, MinBursts, BurstWindow, Sustain, MinActive,
  Background, CdfUnit, Alpha, TrustedAps, MaxRuns,                               \* Detections
  TwinAps, Baselines, Readings, WindowW, ShiftK, ShiftFloor, SdFloor, SpreadK, SpreadFloor, TwinGap, Persistence,
  PersistWindow, MedDev, HighDev, MaxFloorShare, PersistSpan, PersistObs, CloseDbm, StrongDb, Inventory, MaxRows,
  MaxTs                                                                          \* EvilTwin

VARIABLES part,
  now, slot, merging, status, lock, open, adapter, bounds, bucket, fails, blocked, started, log, raced,
  edits, rows, begun, clock, lru, bytes, kept, copy, request, asked, overtaken,
  imported, mark, rollups, load, job, imports, batches,
  zone, moment,
  source, trials, detections,
  feed, filter, page, shown, steady, back, quiet, changes,
  seen, detected, scan, scans, bridged, renamed, cut,
  rowsRead, group, buf, deviations, compared

ingestVars == <<now, slot, merging, status, lock, open, adapter, bounds, bucket, fails, blocked, started, log,
                raced>>
readVars == <<edits, rows, begun, clock, lru, bytes, kept, copy, request, asked, overtaken>>
importVars == <<imported, mark, rollups, load, job, imports, batches>>
periodVars == <<zone, moment>>
evaluationVars == <<source, trials, detections>>
feedVars == <<feed, filter, page, shown, steady, back, quiet, changes>>
floodVars == <<seen, detected, scan, scans, bridged, renamed, cut>>
twinVars == <<rowsRead, group, buf, deviations, compared>>

Ingest == INSTANCE IngestService WITH MaxRequests <- MaxArrivals

Reads == INSTANCE ReadCache WITH slot <- request

Import == INSTANCE SnapshotImport WITH Times <- ImportTimes, Aps <- ImportAps, db <- imported

Buckets == INSTANCE Periods WITH now <- moment

Report == INSTANCE Evaluation WITH Times <- TrialTimes, Kinds <- Stagings

Pages == INSTANCE EventFeed WITH
  events <- feed, Ids <- EventIds, Own <- OwnRow, Statuses <- Labels, Limit <- PageRows

Flood == INSTANCE Detections WITH
  events <- seen, rows <- detected, run <- scan, runs <- scans,
  APs <- FloodAps, Arrivable <- FloodEvents, Windows <- FloodWindows, Gap <- FloodGap,
  MaxGap <- CounterGap, One <- CdfUnit, Trusted <- TrustedAps

Twin == INSTANCE EvilTwin WITH
  APs <- TwinAps, Gap <- TwinGap, Meta <- Baselines, Rssis <- Readings, W <- WindowW, K <- ShiftK, Floor <- ShiftFloor

\* A request brings a batch or a heartbeat; NULL is no thread, number or row.
ASSUME IngestAssumption ==
  /\ \A p \in Payloads : p.route \in {"batch", "heartbeat"}
  /\ None \notin Slots \cup Nat \cup Ingest!Statuses
  /\ {RejectCount, AuthFailCount} \subseteq Nat \ {0}
\* A refresh stamps some table, a detector another.
ASSUME ReadsAssumption == Summaries # {} /\ Events # {} /\ Summaries \cap Events = {}
\* Times are numbers, and there is a last one.
ASSUME TimesAssumption == ImportTimes \subseteq Nat /\ \E m \in ImportTimes : \A t \in ImportTimes : t <= m
\* A change of the clocks is one of an hour, at a whole hour.
ASSUME ZonesAssumption ==
  /\ \A z \in Zones : {z.at, z.before, z.after} \subseteq Int /\ z.after - z.before \in -1 .. 1
  /\ {From, To} \subseteq Int
\* Times and slacks are numbers; no date is none of them.
ASSUME TrialsAssumption ==
  TrialTimes \cup Durations \cup {Pre, Post, Guard, EvalFrom, EvalTo, Edge, MaxTrials} \subseteq Int /\ None \notin TrialTimes
\* A page has rows, and a new event a label; NULL is no cursor and no page.
Places == Stamps \X Nat
ASSUME FeedAssumption ==
  /\ Stamps \subseteq Int /\ Labels # {} /\ PageRows \in Nat \ {0}
  /\ None \notin Places \cup [rows : Seq([at : Places, members : SUBSET Nat]), newer : {None} \cup Places,
                             older : {None} \cup Places]
\* Events and access points are finitely many, times and thresholds numbers; the
\* background is known for every count of bursts and of polls among them.
ASSUME FloodAssumption ==
  /\ IsFiniteSet(FloodAps) /\ IsFiniteSet(FloodEvents)
  /\ \A e \in FloodEvents : e.ts \in Nat /\ (e.kind = "poll" => {e.last, e.cur} \subseteq Int)
  /\ \A w \in FloodWindows : {w[1], w[2]} \subseteq Int
  /\ {FloodGap, BurstWindow} \subseteq Nat
  /\ {CounterGap, Lookback, MinBursts, MinActive, CdfUnit, Alpha} \subseteq Int
  /\ LET counts == 0 .. Cardinality({e \in FloodEvents : e.kind = "poll"})
     IN  Background \in [counts \X counts -> Seq(Int)]
\* Device keys are numbers from 1; levels, times and thresholds are numbers; a
\* window and a detection take at least one reading.
ASSUME TwinAssumption ==
  /\ TwinAps \subseteq Nat \ {0} /\ Readings \subseteq Int
  /\ \A ap \in DOMAIN Baselines : {Baselines[ap].median, Baselines[ap].sd} \subseteq Int
  /\ {WindowW, Persistence} \subseteq Nat \ {0} /\ {TwinGap, PersistWindow, MaxTs} \subseteq Nat
  /\ {ShiftK, SdFloor, SpreadK, SpreadFloor} \subseteq Int /\ ShiftFloor \in Nat

-----------------------------------------------------------------------------
ServerInit ==
  /\ part \in {"ingest", "reads", "import", "periods", "evaluation", "feed", "deauth_flood", "evil_twin"}
  /\ Ingest!Init /\ Reads!Init /\ Import!Init
  /\ IF part = "periods" THEN Buckets!Init ELSE zone = (CHOOSE z \in Zones : TRUE) /\ moment = From
  /\ IF part = "evaluation" THEN Report!Init ELSE source = "database" /\ trials = {} /\ detections = {}
  /\ IF part = "feed" THEN Pages!Init
     ELSE feed = <<>> /\ filter = {} /\ page = None /\ shown = <<>> /\ steady = {} /\ back = None /\ quiet = TRUE
          /\ changes = 0
  /\ Flood!Init /\ Twin!Init

ServerNext ==
  \/ part = "ingest" /\ Ingest!Next /\ UNCHANGED <<part, readVars, importVars, periodVars, evaluationVars, feedVars, floodVars, twinVars>>
  \/ part = "reads" /\ Reads!Next /\ UNCHANGED <<part, ingestVars, importVars, periodVars, evaluationVars, feedVars, floodVars, twinVars>>
  \/ part = "import" /\ Import!Next /\ UNCHANGED <<part, ingestVars, readVars, periodVars, evaluationVars, feedVars, floodVars, twinVars>>
  \/ part = "periods" /\ Buckets!Next /\ UNCHANGED <<part, ingestVars, readVars, importVars, evaluationVars, feedVars, floodVars, twinVars>>
  \/ part = "evaluation" /\ Report!Next /\ UNCHANGED <<part, ingestVars, readVars, importVars, periodVars, feedVars, floodVars, twinVars>>
  \/ part = "feed" /\ Pages!Next /\ UNCHANGED <<part, ingestVars, readVars, importVars, periodVars, evaluationVars, floodVars, twinVars>>
  \/ part = "deauth_flood" /\ Flood!Next
     /\ UNCHANGED <<part, ingestVars, readVars, importVars, periodVars, evaluationVars, feedVars, twinVars>>
  \/ part = "evil_twin" /\ Twin!Next
     /\ UNCHANGED <<part, ingestVars, readVars, importVars, periodVars, evaluationVars, feedVars, floodVars>>

ServerSpec == ServerInit /\ [][ServerNext]_<<part, ingestVars, readVars, importVars, periodVars, evaluationVars, feedVars, floodVars, twinVars>>

-----------------------------------------------------------------------------
(* IngestService: the open stall events say what the requests went through.  *)
EventsTellTheStalls == part = "ingest" => Ingest!EventsTellTheStalls

(* IngestService: reports that contradict each other on the adapter have a   *)
(* hardware boundary between them.                                           *)
BoundaryBetweenAdapters == part = "ingest" => Ingest!BoundaryBetweenAdapters

(* ReadCache: an operator's write is on every page opened after it.          *)
EditsAreSeen == part = "reads" => Reads!EditsAreSeen

(* ReadCache: and every change is, while changes commit in order.            *)
FreshWhenOrdered == part = "reads" => Reads!FreshWhenOrdered

(* SnapshotImport: no imported poll stays out of the rollups for good.       *)
CommittedIsCovered == part = "import" => Import!CommittedIsCovered

(* Periods: every hour of a period is in one bucket, over a change of zone.  *)
BucketsTile == part = "periods" => Buckets!BucketsTile

(* Periods: a tag never keeps the boundaries of another bucket.              *)
EpochNamesBoundaries == Buckets!EpochNamesBoundaries

(* Evaluation: matches, false positives and clean hours fit each other.      *)
ReportIsHonest == part = "evaluation" => Report!ReportIsHonest

(* EventFeed: who turns the pages sees every unchanged row exactly once.     *)
PagingIsComplete == part = "feed" => Pages!PagingIsComplete

(* Detections: episodes have one row each, unless a run cut an episode or    *)
(* what arrived late joined two; or one of each subject, when the device row *)
(* came after a finding.                                                     *)
OneRowPerEpisode == part = "deauth_flood" => Flood!OneRowPerEpisode

(* Detections: a run whose window holds an episode stores all of it.         *)
WholeEpisodeStored == Flood!WholeEpisodeStored

(* EvilTwin: the one pass and the guard report the right deviations.         *)
DeviationsAreTrue == part = "evil_twin" => Twin!DeviationsAreTrue

(* EvilTwin: a level that rose for good becomes a detection.                 *)
SustainedShiftFires == part = "evil_twin" => Twin!SustainedShiftFires
=============================================================================
