------------------------------ MODULE MCServer ------------------------------
(* The parts of Server on small instances, and beside them the dashboard's    *)
(* coverage of a sensor.                                                     *)
(* None reads what another writes in these models: a behaviour is one of     *)
(* them at work.                                                             *)
EXTENDS Server, Sequences, FiniteSets, TLC

VARIABLES
  instant, polls

coverageVars == <<instant, polls>>

serverVars == <<ingestVars, readVars, importVars, periodVars, evaluationVars, feedVars, floodVars, twinVars>>

Symmetry == Permutations(Slots)

-----------------------------------------------------------------------------
(* The sensors' routes: a batch that is accepted, refused or unreadable,     *)
(* heartbeats with partial reports of the adapter, and requests without a    *)
(* valid token.                                                              *)
Adapter(u, m) == [usb |-> u, mac |-> m]
NoAdapter == Adapter(None, None)
P(route, auth, verdict, seq, risk, a) ==
  [route |-> route, auth |-> auth, verdict |-> verdict, seq |-> seq, risk |-> risk, adapter |-> a]

MCPayloads == {
  P("batch", "good", "valid", 1, FALSE, Adapter("u1", "m1")),
  P("batch", "good", "invalid", 2, FALSE, NoAdapter),
  P("batch", "good", "invalid", 3, FALSE, NoAdapter),
  P("batch", "good", "unreadable", 3, FALSE, NoAdapter),
  P("heartbeat", "good", "valid", 0, TRUE, Adapter("u2", None)),
  P("heartbeat", "good", "valid", 0, FALSE, Adapter(None, "m1")),
  P("batch", "wrong", "valid", 2, FALSE, NoAdapter),
  P("batch", "unknown", "valid", 1, FALSE, NoAdapter)}

(* Zones that change one hour to summer or winter time, at several hours.    *)
Zone(at, b, a) == [at |-> at, before |-> b, after |-> a]
MCZones == {Zone(1000 + h, 1, 2) : h \in {6, 7, 13}} \cup {Zone(1000 + h, 2, 1) : h \in {6, 7, 10}}

(* Two hours of four polls, the second cut off, as days and as one day; a     *)
(* documented window over the hour between them.                             *)
Coverage == INSTANCE SensorCoverage WITH
  now <- instant, Hour <- 4, Gap <- 3, Days <- {<<0, 4>>, <<4, 8>>, <<0, 8>>}, Notes <- {<<2, 5>>}, Scale <- 48,
  Horizon <- 6

-----------------------------------------------------------------------------
(* deauth_flood: two alerts of one access point and one that corroborates,    *)
(* two polls with the size of the burst alone and one with its last frame,    *)
(* and the device row; the counts in a window of a quiet and of a busy        *)
(* background.                                                               *)
MCEvents ==
  {[ap |-> "ap1", ts |-> 4, kind |-> "alert", fromAp |-> FALSE], [ap |-> "ap1", ts |-> 7, kind |-> "alert", fromAp |-> TRUE],
   [ap |-> "ap1", ts |-> 3, kind |-> "bcast", fromAp |-> FALSE],
   [ap |-> "ap1", ts |-> 0, kind |-> "device"],
   [ap |-> "ap1", ts |-> 1, kind |-> "poll", last |-> -1, cur |-> 0],
   [ap |-> "ap1", ts |-> 2, kind |-> "poll", last |-> -1, cur |-> 1],
   [ap |-> "ap1", ts |-> 6, kind |-> "poll", last |-> 5, cur |-> 1]}

MCWindows == {<<0, 4>>, <<5, 8>>, <<0, 8>>}

MCBackground == [x \in (0..3) \X (0..3) |-> IF x[2] = 0 THEN <<>> ELSE IF x[1] = 0 THEN <<100>>
                                            ELSE IF x[1] = 1 THEN <<90, 100>> ELSE <<60, 95, 100>>]

(* evil_twin: two access points of one name; 1 is trusted; 2 has an address  *)
(* nobody approved, and a baseline learned after the antenna was changed at 1. *)
MCMeta ==
  1 :> [median |-> -60, sd |-> 1, hwFrom |-> 0, hwTo |-> 9, random |-> TRUE, sibling |-> TRUE,
        nObs |-> 9, nFloor |-> 1, trusted |-> TRUE]
  @@ 2 :> [median |-> -60, sd |-> 1, hwFrom |-> 1, hwTo |-> 9, random |-> FALSE, sibling |-> FALSE,
        nObs |-> 0, nFloor |-> 0, trusted |-> FALSE]

MCInventory ==
  {[ap |-> ap, ssid |-> "net", ssids |-> {"net"}, oui |-> ap, crypt |-> "wpa2", random |-> ap = 1,
    trusted |-> ap = 1, obs |-> 20, span |-> 3, median |-> -60] : ap \in {1, 2}}

MCReadings == {-77, -60, -49}
MCMaxRows == <<6, 4>>
MCClose == -40

(* A campaign of two trials at the most: attacks, controls and an attack for  *)
(* the other detector.                                                       *)
Staged(t, a, b) == [type |-> t, attack |-> a, target |-> b]
MCStagings == {Staged("flood", TRUE, "x"), Staged("flood", TRUE, "y"), Staged("flood", FALSE, "x"),
            Staged("flood", FALSE, None), Staged("flood", TRUE, None), Staged("twin", TRUE, "y")}

-----------------------------------------------------------------------------
MCInit ==
  /\ \/ ServerInit
     \/ /\ part = "coverage"
        /\ Ingest!Init /\ Reads!Init /\ Import!Init
        /\ zone = Zone(1006, 1, 2) /\ moment = From
        /\ source = "database" /\ trials = {} /\ detections = {}
        /\ feed = <<>> /\ filter = {} /\ page = None /\ shown = <<>> /\ steady = {} /\ back = None /\ quiet = TRUE
        /\ changes = 0
        /\ Flood!Init /\ Twin!Init
  /\ Coverage!Init

MCNext ==
  \/ ServerNext /\ UNCHANGED coverageVars
  \/ part = "coverage" /\ Coverage!Next /\ UNCHANGED <<part, serverVars>>

MCSpec == MCInit /\ [][MCNext]_<<part, serverVars, coverageVars>>

-----------------------------------------------------------------------------
(* SensorCoverage: the shares of a day account for the whole day.             *)
DayIsAccountedFor == part = "coverage" => Coverage!DayIsAccountedFor
=============================================================================
