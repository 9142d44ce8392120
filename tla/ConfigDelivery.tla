--------------------------- MODULE ConfigDelivery ---------------------------
(***************************************************************************)
(* A capture configuration from the operator's save to its dataset         *)
(* boundary: the versions on the server, the answers that carry the newest *)
(* one, the file desired.json, the applier's tries, the report that rides  *)
(* in every heartbeat, and the polls, which arrive on their own and by     *)
(* which the server dates what the report says.  A heartbeat's answer may  *)
(* be lost, and a heartbeat the uploader gave up may be handled late.      *)
(*                                                                         *)
(* Sources: server/api/app/ingest/config.py, routes.py (_config_report,    *)
(* _config_out), the config statements of sql/ingest.sql, v2/routes        *)
(* settings.py (post_sensor_config), wifi-sensor/uploader/configsync.py,   *)
(* store.py (applied_config_version) for the polls, and of                 *)
(* wifi-sensor/sensor/config_apply.py what the report depends on: its      *)
(* files, kills and restarts are ConfigApply's.                            *)
(*                                                                         *)
(* A poll's time is its place in the order of all polls; its id starts     *)
(* again with a new buffer.  A configuration is its hash.                  *)
(***************************************************************************)
EXTENDS Integers, Sequences, FiniteSets, FiniteSetsExt

CONSTANTS
  Configs,      \* the hashes
  First,        \* the configuration the installer left, never delivered
  None,         \* no file, NULL
  VerifyPolls,  \* config_apply.py
  MaxVersions, MaxPolls, MaxBuffers, MaxReboots  \* bounds

VARIABLES
  versions,  \* sensor_config: [sha, delivered, refused, confirmed]
  notes,     \* sensor_annotations: [kind, v, at]
  open,      \* open configuration events
  polls,     \* every poll made: [buf, id, cfg, sha, good, there]
  buf,       \* the buffer in use
  desired,   \* desired.json: [v, sha, retry]
  edge,      \* the path unit will start the applier
  applied,   \* applied.json: [v, sha]
  result,    \* result.json: [v, sha, what, started, effective, restored]
  marks,     \* refused/<sha256>
  running,   \* the configuration Kismet runs
  trying,    \* the apply under way: [v, sha, started, back, after]
  request,   \* the heartbeat the uploader waits for
  late,      \* heartbeats it gave up that the server may still handle
  reboots,
  tries,     \* history: how often a configuration was tried
  ran        \* history: [v, at], the first poll of every verified apply

sensor == <<polls, buf, desired, edge, applied, result, marks, running, trying, reboots, tries, ran>>
vars == <<versions, notes, open, sensor, request, late>>

-----------------------------------------------------------------------------
(* What the files, the rows and the messages hold.                          *)

Moments   == Nat \cup {None}
Results   == {"received", "applying", "applied", "rejected", "rolled_back", "failed"}
Attempts  == [v : Nat \ {0}, sha : Configs, what : Results,
              started : Moments, effective : Moments, restored : Moments]
Offers    == [v : Nat \ {0}, sha : Configs, retry : BOOLEAN]
AppliedAs == [v : Nat \ {0}, sha : Configs]
Tries     == [v : Nat \ {0}, sha : Configs, started : Nat, prev : Configs \cup {First},
              back : BOOLEAN, after : Nat]
Beats     == [applied : Configs \cup {None}, attempt : Attempts \cup {None}]

-----------------------------------------------------------------------------
(* Polls.                                                                   *)

IdsOf(b)   == {p \in DOMAIN polls : polls[p].buf = b}
LastPollId == Cardinality(IdsOf(buf))

AppliedVersion == IF applied = None THEN None ELSE applied.v

(* A poll under a try may miss the hop list, fail, or find Kismet down.     *)
Poll ==
  /\ Len(polls) < MaxPolls
  /\ \E good \in BOOLEAN :
       /\ good \/ trying # None
       /\ polls' = Append(polls, [buf |-> buf, id |-> LastPollId + 1, cfg |-> AppliedVersion,
                                  sha |-> running, good |-> good, there |-> FALSE])
  /\ UNCHANGED <<versions, notes, open, buf, desired, edge, applied, result, marks, running, trying,
                 reboots, tries, ran, request, late>>

(* The oldest poll of the buffer that the server lacks arrives.             *)
Arrive ==
  LET missing == {p \in IdsOf(buf) : ~polls[p].there}
  IN  /\ missing # {}
      /\ polls' = [polls EXCEPT ![Min(missing)].there = TRUE]
      /\ UNCHANGED <<versions, notes, open, buf, desired, edge, applied, result, marks, running, trying,
                     reboots, tries, ran, request, late>>

NewBuffer ==
  /\ buf < MaxBuffers /\ trying = None
  /\ buf' = buf + 1
  /\ UNCHANGED <<versions, notes, open, polls, desired, edge, applied, result, marks, running, trying,
                 reboots, tries, ran, request, late>>

-----------------------------------------------------------------------------
(* The server.                                                              *)

(* The operator saves a configuration, a new version.                       *)
Save ==
  /\ Len(versions) < MaxVersions
  /\ \E c \in Configs :
       versions' = Append(versions, [sha |-> c, delivered |-> FALSE, refused |-> FALSE, confirmed |-> None])
  /\ UNCHANGED <<notes, open, sensor, request, late>>

(* The answer's "config": the newest version, unless it is settled or the   *)
(* sensor runs that very configuration.                                     *)
Offered(vs, report) ==
  LET v == Len(vs)
  IN  IF v = 0 \/ vs[v].refused \/ vs[v].confirmed # None \/ report.applied = vs[v].sha
        THEN None
        ELSE [v |-> v, sha |-> vs[v].sha,
              retry |-> \E o \in 1 .. v - 1 : vs[o].sha = vs[v].sha /\ vs[o].refused]

(* The newest poll on the server with that id, or None.                     *)
PollAt(id) ==
  LET P == {p \in DOMAIN polls : polls[p].there /\ polls[p].id = id}
  IN  IF id = None \/ P = {} THEN None ELSE Max(P)

(* As if the apply were dated by the poll before it.                        *)
DatedByStart(a) == PollAt(a.started)

Dated(a) == PollAt(a.effective)

Note(kind, v, at) == IF at = None \/ \E n \in notes : n.kind = kind /\ n.at = at
                       THEN {} ELSE {[kind |-> kind, v |-> v, at |-> at]}

(* attempt_actions and their SQL: delivered, then by the result confirm and *)
(* boundary and closing of the events, or refuse, coverage and an event.    *)
Handled(a) ==
  IF a = None \/ a.v > Len(versions) \/ versions[a.v].sha # a.sha
    THEN UNCHANGED <<versions, notes, open>>
  ELSE LET old  == versions[a.v]
           done == a.what = "applied" /\ a.effective # None
           bad  == a.what \in {"rejected", "rolled_back", "failed"}
       IN  /\ versions' = [versions EXCEPT ![a.v] =
                [sha |-> a.sha, delivered |-> TRUE,
                 refused   |-> old.refused \/ (bad /\ old.confirmed = None),
                 confirmed |-> IF done /\ old.confirmed = None THEN Dated(a) ELSE old.confirmed]]
           /\ notes' = notes \cup
                (CASE done -> Note("change", a.v, Dated(a))
                   [] a.what = "rolled_back" /\ PollAt(a.restored) # None -> Note("coverage", a.v, PollAt(a.started))
                   [] OTHER -> {})
           /\ open' = CASE done -> {}
                        [] a.what \in {"rolled_back", "failed"} -> open \cup {a.what}
                        [] OTHER -> open

-----------------------------------------------------------------------------
(* The uploader.                                                            *)

(* config_state: the applier's result for the delivered version, else       *)
(* "received".                                                              *)
Attempt ==
  IF desired # None /\ (result = None \/ <<result.v, result.sha>> # <<desired.v, desired.sha>>)
    THEN [v |-> desired.v, sha |-> desired.sha, what |-> "received",
          started |-> None, effective |-> None, restored |-> None]
    ELSE result

Beat ==
  /\ request = None
  /\ request' = [applied |-> IF applied = None THEN None ELSE applied.sha, attempt |-> Attempt]
  /\ UNCHANGED <<versions, notes, open, sensor, late>>

(* As if a delivery were written again on every answer.                     *)
NeverReceived(d) == FALSE

Received(d) == desired = d

(* PathChanged= starts the applier; a change while it runs may be missed.   *)
AcceptDelivery(d) ==
  IF d = None \/ Received(d) THEN UNCHANGED <<desired, edge>>
  ELSE desired' = d /\ edge' \in (IF trying = None THEN {TRUE} ELSE {TRUE, edge})

(* The server handles the heartbeat, and the answer arrives or not.         *)
Answer ==
  /\ request # None
  /\ Handled(request.attempt)
  /\ AcceptDelivery(Offered(versions', request)) \/ UNCHANGED <<desired, edge>>
  /\ request' = None
  /\ UNCHANGED <<polls, buf, applied, result, marks, running, trying, reboots, tries, ran, late>>

GiveUp ==
  /\ request # None
  /\ request' = None /\ late' \in {late, {request}}
  /\ UNCHANGED <<versions, notes, open, sensor>>

HandledLate ==
  \E h \in late : /\ Handled(h.attempt)
                  /\ late' = late \ {h}
                  /\ UNCHANGED <<sensor, request>>

-----------------------------------------------------------------------------
(* The applier.                                                             *)

Result(t, what, effective, restored) ==
  [v |-> t.v, sha |-> t.sha, what |-> what, started |-> t.started,
   effective |-> effective, restored |-> restored]

Triggered == edge /\ trying = None /\ desired # None

NothingToDo ==
  \/ applied # None /\ applied.sha = desired.sha
  \/ desired.sha \in marks /\ ~desired.retry

Skip ==
  /\ Triggered /\ NothingToDo
  /\ edge' = FALSE
  /\ UNCHANGED <<versions, notes, open, polls, buf, desired, applied, result, marks, running, trying,
                 reboots, tries, ran, request, late>>

(* Against the rules, which is remembered, or Kismet does not answer.       *)
Reject ==
  /\ Triggered /\ ~NothingToDo
  /\ edge' = FALSE
  /\ marks' \in {marks \ {desired.sha}, marks \cup {desired.sha}}
  /\ result' = Result([v |-> desired.v, sha |-> desired.sha, started |-> None], "rejected", None, None)
  /\ UNCHANGED <<versions, notes, open, polls, buf, desired, applied, running, trying, reboots, tries,
                 ran, request, late>>

Begin ==
  /\ Triggered /\ ~NothingToDo
  /\ edge' = FALSE /\ marks' = marks \ {desired.sha}
  /\ trying' = [v |-> desired.v, sha |-> desired.sha, started |-> LastPollId, prev |-> running,
                back |-> FALSE, after |-> LastPollId]
  /\ result' = Result(trying', "applying", None, None)
  /\ running' = desired.sha
  /\ tries' = [tries EXCEPT ![desired.sha] = @ + 1]
  /\ UNCHANGED <<versions, notes, open, polls, buf, desired, applied, reboots, ran, request, late>>

(* The last polls since the restart, all of them good.                      *)
GoodPolls ==
  LET P    == {p \in IdsOf(buf) : polls[p].id > trying.after}
      bads == {p \in P : ~polls[p].good}
  IN  {p \in P : \A q \in bads : p > q}

Verified == Cardinality(GoodPolls) >= VerifyPolls

Apply ==
  /\ trying # None /\ ~trying.back /\ Verified
  /\ LET first == Min(GoodPolls)
     IN  /\ applied' = [v |-> trying.v, sha |-> trying.sha]
         /\ result' = Result(trying, "applied", polls[first].id, None)
         /\ ran' = ran \cup {[v |-> trying.v, at |-> first]}
  /\ trying' = None
  /\ UNCHANGED <<versions, notes, open, polls, buf, desired, edge, marks, running, reboots, tries,
                 request, late>>

RollBack ==
  /\ trying # None /\ ~trying.back
  /\ marks' = marks \cup {trying.sha}
  /\ running' = trying.prev
  /\ trying' = [trying EXCEPT !.back = TRUE, !.after = LastPollId]
  /\ UNCHANGED <<versions, notes, open, polls, buf, desired, edge, applied, result, reboots, tries, ran,
                 request, late>>

RolledBack ==
  /\ trying # None /\ trying.back
  /\ result' \in {Result(trying, "failed", None, None)} \cup
       (IF Verified THEN {Result(trying, "rolled_back", None, polls[Min(GoodPolls)].id)} ELSE {})
  /\ trying' = None
  /\ UNCHANGED <<versions, notes, open, polls, buf, desired, edge, applied, marks, running, reboots,
                 tries, ran, request, late>>

(* A boot in the middle of an apply restores the last good files.           *)
Reboot ==
  /\ reboots < MaxReboots /\ trying # None
  /\ reboots' = reboots + 1
  /\ running' = trying.prev
  /\ marks' = marks \cup {trying.sha}
  /\ result' = Result(trying, "rolled_back", None, None)
  /\ trying' = None /\ edge' = FALSE
  /\ UNCHANGED <<versions, notes, open, polls, buf, desired, applied, tries, ran, request, late>>

-----------------------------------------------------------------------------
Init ==
  /\ versions = <<>> /\ notes = {} /\ open = {}
  /\ polls = <<>> /\ buf = 1 /\ desired = None /\ edge = FALSE
  /\ applied = None /\ result = None /\ marks = {} /\ running = First /\ trying = None
  /\ request = None /\ late = {} /\ reboots = 0
  /\ tries = [c \in Configs |-> 0] /\ ran = {}

Next ==
  \/ Poll \/ Arrive \/ NewBuffer
  \/ Save \/ Beat \/ Answer \/ GiveUp \/ HandledLate
  \/ Skip \/ Reject \/ Begin \/ Apply \/ RollBack \/ RolledBack \/ Reboot

Spec == Init /\ [][Next]_vars

-----------------------------------------------------------------------------
(* Properties.                                                              *)

(* While the first buffer is in use, what the server dates an apply by is   *)
(* the first collecting poll under it: the confirmation and the one         *)
(* boundary of a version agree with what happened on the sensor, in         *)
(* whatever order polls and reports arrive (ingest.sql config_confirm), and *)
(* a poll that names a configuration was made after the boundary, under it  *)
(* or under a later try: the data and the boundaries tell one story         *)
(* (polls.config_version).                                                  *)
BoundariesAreTrue ==
  /\ buf = 1 =>
       /\ \A v \in DOMAIN versions :
            versions[v].confirmed # None => [v |-> v, at |-> versions[v].confirmed] \in ran
       /\ \A n \in notes : n.kind = "change" => [v |-> n.v, at |-> n.at] \in ran
  /\ \A p \in DOMAIN polls :
       polls[p].cfg # None =>
         /\ \E e \in ran : e.v = polls[p].cfg /\ e.at < p
         /\ buf = 1 /\ polls[p].there /\ versions[polls[p].cfg].confirmed # None
              => versions[polls[p].cfg].confirmed < p

(* The sensor tries a configuration at most as often as the operator saved  *)
(* it: there is no automatic retry (config-delivery.md 5.2), whatever       *)
(* answers are lost, repeated or late.                                      *)
OneTryPerSave ==
  \A c \in Configs : tries[c] <= Cardinality({v \in DOMAIN versions : versions[v].sha = c})
=============================================================================
