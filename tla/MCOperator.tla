----------------------------- MODULE MCOperator -----------------------------
(* The parts of Operator on small instances, and the plan of a capture       *)
(* configuration, from the form to the hop list.                             *)
EXTENDS MCConfigApply, Operator, TLC

VARIABLES form, caps, config, at, site, coll

planVars == <<form, caps, config, at, site, coll>>
configVars == <<deliveryVars, hopVars>>

-----------------------------------------------------------------------------
(* Two configurations beside the installed one.                              *)
Symmetry == Permutations(Saved)

(* Lists of every length, entries that are no channel or have no 40 MHz      *)
(* partner, numbers of every JSON type; files as the installer writes them,   *)
(* and with an older source before the capture source.                       *)
Num(n, t) == [n |-> n, type |-> t]
Custom(l, d, p) == [plan |-> "custom", channels |-> l, lock |-> 1, dwell |-> d, poll |-> p]
Raw(entry, upper) == [entry |-> entry, upper |-> upper]
Plain(n) == [i \in 1..n |-> Raw(i, TRUE)]
MCForms ==
  {Custom(Plain(n), Num(200000, "float"), Num(30, "int")) : n \in 0..202}
  \cup {Custom(Append(Plain(n), Raw(e, FALSE)), d, Num(30, "int")) : n \in {4, 6}, e \in {0, 2, 90, 91, 95},
        d \in {Num(500000, "float"), Num(1000000, "int"), Num(300000, "float"), Num(1000000, "bool")}}
  \cup {[plan |-> p, channels |-> <<>>, lock |-> l, dwell |-> Num(200000, "float"), poll |-> q] :
        p \in {"all_89", "ht20_37", "locked"}, l \in {1, 38, 39},
        q \in {Num(15, "int"), Num(15, "float"), Num(20, "int"), Num(1, "bool")}}

Capture(opts) == [kind |-> "source", iface |-> "wlan1", opts |-> opts]
Name(name, quoted) == [name |-> name, quoted |-> quoted]
Other(kind) == [kind |-> kind, iface |-> None, opts |-> <<>>]
MCSites ==
  {<<Other("comment"), Capture(<<<<"name", Name("capture", FALSE)>>, <<"type", "linuxwifi">>>>), Other("other")>>,
   <<Capture(<<<<"name", Name("capture", TRUE)>>, <<"channels", <<1, 6, 11>>>>>>)>>,
   <<Capture(<<<<"name", Name("old", FALSE)>>, <<"channels", <<7>>>>>>),
     Capture(<<<<"name", Name("capture", FALSE)>>, <<"channels", <<1>>>>, <<"channel_hoprate", 2>>>>)>>}
MCColls == {<<<<"# POLL_INTERVAL", 45>>>>, <<<<"POLL_INTERVAL", 30>>, <<"POLL_OVERLAP", 5>>>>}

Plan == INSTANCE CapturePlan WITH
  SourceName <- "capture", DefaultDwell <- 200000, DefaultPoll <- 30, Nothing <- None, Sites <- MCSites, Colls <- MCColls,
  Forms <- MCForms, Capabilities <- {{}, 1..89, 1..95, {1, 2, 3, 4, 5}}, All89 <- [i \in 1..89 |-> i],
  HT20 <- [i \in 1..38 |-> i], Not37 <- 33, KnownInvalid <- {90, 91}, MaxEntries <- 200,
  Dwells <- {200000, 500000, 1000000}, Polls <- {15, 30, 60}, RealError <- 3

(* Lists of one channel, of a channel twice, and of three.                   *)
MCLists == {<<1>>, <<2>>, <<1, 2, 2>>, <<2, 3, 1>>}

(* The operator's writes, all that touch the same cells.                      *)
Row(id, ssid, allowed) == [id |-> id, ssid |-> ssid, allowed |-> allowed]
MCRequests == {
  [kind |-> "label", ids |-> {"e1", "e2"}, status |-> "benign", note |-> "n"],
  [kind |-> "label", ids |-> {"e1"}, status |-> "open", note |-> None],
  [kind |-> "label", ids |-> {"e3"}, status |-> "open", note |-> None],
  [kind |-> "save", new |-> [x \in {"k1", "k2"} |-> IF x = "k1" THEN 1 ELSE 0]],
  [kind |-> "save", new |-> [x \in {"k1", "k2"} |-> IF x = "k1" THEN 0 ELSE 1]],
  [kind |-> "put networks", list |-> <<Row(1, "b", {}), Row(None, "c", {})>>],
  [kind |-> "put networks", list |-> <<Row(1, "b", {}), Row(2, "a", {})>>],
  [kind |-> "put networks", list |-> <<Row(1, "a", {}), Row(3, "c", {"x"})>>],
  [kind |-> "put networks", list |-> <<Row(1, "c", {}), Row(1, "d", {}), Row(2, "b", {})>>],
  [kind |-> "post network", ssid |-> "c"],
  [kind |-> "allow", id |-> 2, bssid |-> "x"],
  [kind |-> "config", sha |-> "h1"],
  [kind |-> "change", at |-> 1], [kind |-> "delete sensor"]}

-----------------------------------------------------------------------------
MCInit ==
  /\ part = "plan" /\ Init /\ Delivered!Init /\ Written!Init
  /\ conf = OwnList /\ list = <<>> /\ source = "off" /\ process = None /\ rewrites = 0 /\ crashes = 0 /\ faults = 0
  /\ stops = 0 /\ begun = FALSE
  /\ Plan!Init

MCStart ==
  \/ MCInit
  \/ OperatorInit /\ form = None /\ caps = {} /\ config = None /\ at = "form" /\ site = <<>> /\ coll = <<>>

MCNext ==
  \/ OperatorNext /\ UNCHANGED planVars
  \/ part = "plan" /\ Plan!Next /\ UNCHANGED <<part, vars, configVars, writeVars>>

MCSpec == MCStart /\ [][MCNext]_<<part, vars, configVars, writeVars, planVars>>

-----------------------------------------------------------------------------
(* CapturePlan: what the server stores the sensor applies.                   *)
StoredIsApplied == part = "plan" => Plan!StoredIsApplied
=============================================================================
