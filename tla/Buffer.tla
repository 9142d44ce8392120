------------------------------- MODULE Buffer -------------------------------
(***************************************************************************)
(* What the collector derives from its polls in the SQLite buffer, for one *)
(* access point, and how it reaches the server: which polls write an       *)
(* observation, the configuration history, the hourly AP load with the     *)
(* load of unsynchronised polls that waits for the boot's clock anchor,    *)
(* and the schema migrations that run when the collector opens the file.   *)
(* LiveUpload models the polls and the cursor themselves; here the polls   *)
(* always succeed in order and no row is pruned.                           *)
(*                                                                         *)
(* Sources: wifi-sensor/collector/{store,collector}.py, wifi-sensor/       *)
(* uploader/{batch,timeline,uploader}.py, ingest_merge of schema.sql.      *)
(*                                                                         *)
(* Time.  Poll n happens at true time Epoch + 2 * n, a frame before it one *)
(* earlier; an unsynchronised clock reads that minus the boot's drift: it  *)
(* is behind or, with a negative drift, ahead, and then stepped back.      *)
(* A beacon leaves a field at Null when it does not carry it.              *)
(***************************************************************************)
EXTENDS Integers, FiniteSets, FiniteSetsExt

CONSTANTS
  Beacons,      \* what the access point may send: [conf, clients]
  Drifts,       \* how far behind the unsynchronised clock of a boot may be, negative ahead
  PollsPerHour, \* polls in one UTC hour
  Overlap,      \* POLL_OVERLAP
  BatchPolls,   \* CATCHUP_POLLS
  OldVersions,  \* versions of the buffer file the collector finds, 0 = no file
  RollBacks,    \* versions it is set back to
  MaxPolls, MaxBoots, MaxFaults \* bounds: polls, boots, kills and losses together

Null == -1
Epoch == 10
SchemaVersion == 9
Fields == {"channel", "crypt"}
NoConf == [f \in Fields |-> Null]

VARIABLES
  version,   \* meta.schema_version, 0 before it is written
  columns,   \* the migrations whose columns the tables have
  collector, \* the process: "down", "opening", "up", "stuck"
  kills,     \* collectors killed and schemas rolled back so far
  now,       \* polls made so far, the id of the newest poll
  boot, drift, synced, \* the running boot and its clock
  frame,     \* Kismet's device: last_time, the beacon and whether it is known
  since,     \* meta.last_kismet_ts, 0 when there is none
  lastBoot,  \* meta.last_boot_id, 0 when there is none
  polls,     \* table polls: [id, boot, synced]
  ntp,       \* table clock_anchors: the boots that have one
  device,    \* the row of devices
  history,   \* table device_config_history: [poll, conf]
  observed,  \* table observations, with the merged channel: [poll, channel, clients]
  load,      \* table ap_load_hourly
  pending,   \* table ap_load_pending: [poll, channel, clients]
  cursor,    \* the uploader's cursor: polls_id and load_ts
  anchors,   \* its server_anchors
  open,      \* the batch the uploader waits for, NoBatch when idle
  late,      \* batches whose request was abandoned and may still arrive
  lost,      \* answers and requests lost so far
  server     \* the server's rows: polls, history, load, conf and last_seen
VARIABLES
  fresh,     \* history: the access point was heard since the last poll
  ahead,     \* history: the boot's clock must pass this, 0 when it need not
  missed     \* history: a poll found it heard past that and wrote no observation

fileVars   == <<version, columns, collector, kills>>
clockVars  == <<boot, drift, synced>>
bufferVars == <<now, since, lastBoot, polls, ntp, device, history, observed, load, pending>>
uploadVars == <<cursor, anchors, open, late, lost, server>>
heardVars  == <<fresh, ahead, missed>>
vars == <<fileVars, clockVars, frame, bufferVars, uploadVars, heardVars>>

ASSUME BeaconsAssumption == Beacons \subseteq [conf : [Fields -> Int], clients : Nat \cup {Null}]
\* A clock that is behind still shows a time after 1970.
ASSUME DriftsAssumption == Drifts \subseteq Int /\ \A d \in Drifts : d <= Epoch
ASSUME BoundsAssumption ==
  /\ OldVersions \subseteq 0 .. SchemaVersion /\ RollBacks \subseteq 1 .. SchemaVersion
  /\ {Overlap, BatchPolls, MaxPolls, MaxBoots, MaxFaults} \subseteq Nat

NoDevice == [known |-> FALSE, conf |-> NoConf, lastSeen |-> 0, boot |-> 0, bootLast |-> 0]
NoFrame  == [known |-> FALSE, last |-> 0, beacon |-> [conf |-> NoConf, clients |-> Null]]
NoRows == [polls |-> {}, history |-> {}, load |-> {}, conf |-> NoConf, last |-> 0]
NoBatch == [rows |-> NoRows, new |-> [polls |-> 0, load |-> 0]]

TrueTime(poll) == Epoch + 2 * poll
Hour(poll)     == poll \div PollsPerHour
Clock(time)    == IF synced THEN time ELSE time - drift

-----------------------------------------------------------------------------
(* The schema.  Each migration is a transaction that adds the columns its   *)
(* tables lack and writes its version; v1 drops a table and v7 only         *)
(* announces one, so neither has columns.                                   *)

Migrations == 2 .. SchemaVersion
HasColumns == Migrations \ {2, 7}

(* As if the columns were added without a look at the table.                *)
MigrateBlindly(k) ==
  /\ version = k - 1
  /\ IF k \in columns THEN collector' = "stuck" /\ UNCHANGED <<version, columns>>
     ELSE collector' = collector /\ version' = k /\ columns' = columns \cup ({k} \cap HasColumns)

Migrate(k) ==
  /\ version = k - 1
  /\ version' = k /\ columns' = columns \cup ({k} \cap HasColumns)
  /\ UNCHANGED collector

\* _migrate_v7_to_v8 takes the devices and the resume point as of the boot it
\* runs in.
Adopt(k) ==
  IF k = 8
  THEN /\ device' = IF device.known
                    THEN [known |-> TRUE, conf |-> device.conf, boot |-> boot,
                          lastSeen |-> device.lastSeen, bootLast |-> device.lastSeen]
                    ELSE device
       /\ lastBoot' = boot
       /\ ahead' = Max({ahead, device.lastSeen, since})
  ELSE UNCHANGED <<device, lastBoot, ahead>>

Open ==
  /\ collector = "down"
  /\ collector' = "opening"
  /\ UNCHANGED <<version, columns, kills, clockVars, frame, bufferVars, uploadVars, heardVars>>

Upgrade ==
  /\ collector = "opening"
  /\ \E k \in Migrations :
       /\ version >= 1 /\ Migrate(k) /\ Adopt(k)
  /\ UNCHANGED <<kills, clockVars, frame, now, since, polls, ntp, history, observed, load,
                 pending, uploadVars, fresh, missed>>

\* The tables that are missing, the version of a new file, then boot_started:
\* a resume point of an earlier boot is dropped.
Started ==
  /\ collector = "opening" /\ version \in {0, SchemaVersion}
  /\ collector' = "up" /\ version' = SchemaVersion
  /\ columns' = IF version = 0 THEN HasColumns ELSE columns
  /\ since' = IF lastBoot = boot THEN since ELSE 0
  /\ lastBoot' = boot
  /\ UNCHANGED <<kills, clockVars, frame, now, polls, ntp, device, history, observed, load,
                 pending, uploadVars, heardVars>>

\* The collector dies between two migrations.  (A restart later on changes
\* nothing: what it needs is in meta.)
Kill ==
  /\ kills + lost < MaxFaults /\ collector = "opening"
  /\ collector' = "down" /\ kills' = kills + 1
  /\ UNCHANGED <<version, columns, clockVars, frame, bufferVars, uploadVars, heardVars>>

\* "Roll back by setting meta.schema_version" by hand, with the collector stopped.
RollBack(v) ==
  /\ kills + lost < MaxFaults /\ collector \in {"down", "up"} /\ v < version
  /\ version' = v /\ kills' = kills + 1 /\ collector' = "down"
  /\ UNCHANGED <<columns, clockVars, frame, bufferVars, uploadVars, heardVars>>

-----------------------------------------------------------------------------
(* The environment: the clock, Kismet and the access point.                 *)

Hear(b) ==
  /\ ~fresh
  /\ frame' = [known |-> TRUE, last |-> Clock(TrueTime(now + 1) - 1), beacon |-> b]
  /\ fresh' = TRUE
  /\ UNCHANGED <<fileVars, clockVars, bufferVars, uploadVars, ahead, missed>>

\* chrony steps the clock, forward or back.
Sync ==
  /\ ~synced /\ synced' = TRUE
  /\ ahead' = IF drift < 0 THEN Max({ahead, Clock(TrueTime(now + 1) - 1)}) ELSE ahead
  /\ UNCHANGED <<fileVars, boot, drift, frame, bufferVars, uploadVars, fresh, missed>>

\* Kismet and the collector start anew, whatever the file's version is by then.
Reboot(d) ==
  /\ boot < MaxBoots
  /\ boot' = boot + 1 /\ drift' = d /\ synced' = FALSE
  /\ frame' = NoFrame /\ fresh' = FALSE /\ ahead' = 0
  /\ collector' = "down"
  /\ open' = NoBatch
  /\ late' = IF open = NoBatch THEN late ELSE late \cup {open.rows}
  /\ UNCHANGED <<version, columns, kills, bufferVars, cursor, anchors, lost, server, missed>>

-----------------------------------------------------------------------------
(* The collector's poll.                                                    *)

MergeConfig(old, new) == [f \in Fields |-> IF new[f] = Null THEN old[f] ELSE new[f]]

Changed(old, new) == \E f \in Fields : old[f] # Null /\ new[f] # Null /\ new[f] # old[f]

(* As if newness were judged by the newest time of any boot.                *)
IsNewEver == device.known => frame.last > device.lastSeen

IsNew == device.known /\ device.boot = boot => frame.last > device.bootLast

Returned == frame.known /\ frame.last >= Max({0, since - Overlap})

\* SQLite's max() is NULL when either argument is; the upsert asks for the
\* known one of two.  A sum stays NULL until the first known value.
Coalesce(a, b)  == IF a = Null THEN b ELSE a
SqlMax(a, b)    == IF Null \in {a, b} THEN Null ELSE Max({a, b})
KnownMax(a, b)  == SqlMax(Coalesce(a, b), Coalesce(b, a))
KnownSum(a, b)  == IF b = Null THEN a ELSE b + IF a = Null THEN 0 ELSE a

\* _write_load: one poll more in the row of its hour and channel.
WriteLoad(table, o) ==
  LET same == {r \in table : r.hour = Hour(o.poll) /\ r.channel = o.channel}
      fresh1 == [hour |-> Hour(o.poll), channel |-> o.channel, polls |-> 0,
                 clientsPolls |-> 0, clientsMax |-> Null, clientsSum |-> Null, last |-> 0]
      r == IF same = {} THEN fresh1 ELSE CHOOSE q \in same : TRUE
  IN  (table \ same) \cup
        {[r EXCEPT !.polls = @ + 1,
                   !.clientsPolls = @ + IF o.clients = Null THEN 0 ELSE 1,
                   !.clientsMax = KnownMax(@, o.clients),
                   !.clientsSum = KnownSum(@, o.clients),
                   !.last = Max({@, o.poll})]}

PollsOf(b) == {p.id : p \in {q \in polls : q.boot = b}}

(* As if the polls before the anchor went into the hour of the anchor.      *)
FoldedAtAnchor(table, waiting) ==
  FoldSet(LAMBDA o, t : WriteLoad(t, [o EXCEPT !.poll = now + 1]), table, waiting)

\* _anchor puts what waits into its true hours.
Folded(table, waiting) == FoldSet(LAMBDA o, t : WriteLoad(t, o), table, waiting)

WriteDevice ==
  LET b      == frame.beacon
      merged == IF device.known THEN MergeConfig(device.conf, b.conf) ELSE b.conf
      new    == [poll |-> now + 1, channel |-> merged["channel"], clients |-> b.clients]
      anchor == synced /\ boot \notin ntp
      kept   == IF IsNew /\ ~synced THEN pending \cup {new} ELSE pending
      direct == IF IsNew /\ synced THEN WriteLoad(load, new) ELSE load
      waits  == {o \in kept : o.poll \in PollsOf(boot)}
  IN  /\ device' = [known |-> TRUE, conf |-> merged, boot |-> boot,
                    lastSeen |-> Max({device.lastSeen, frame.last}),
                    bootLast |-> IF device.boot = boot THEN Max({device.bootLast, frame.last})
                                 ELSE frame.last]
      /\ history' = IF device.known /\ Changed(device.conf, b.conf)
                    THEN history \cup {[poll |-> now + 1, conf |-> device.conf]} ELSE history
      /\ observed' = IF IsNew THEN observed \cup {[row |-> new, conf |-> b.conf]} ELSE observed
      /\ load' = IF anchor THEN Folded(direct, waits) ELSE direct
      /\ pending' = IF anchor THEN kept \ waits ELSE kept

NoRecord ==
  LET anchor == synced /\ boot \notin ntp
      waits  == {o \in pending : o.poll \in PollsOf(boot)}
  IN  /\ load' = IF anchor THEN Folded(load, waits) ELSE load
      /\ pending' = IF anchor THEN pending \ waits ELSE pending
      /\ UNCHANGED <<device, history, observed>>

NewPoll ==
  /\ collector = "up" /\ now < MaxPolls
  /\ now' = now + 1
  /\ polls' = polls \cup {[id |-> now + 1, boot |-> boot, synced |-> synced]}

Poll ==
  /\ NewPoll
  /\ IF Returned THEN WriteDevice ELSE NoRecord
  /\ ntp' = IF synced THEN ntp \cup {boot} ELSE ntp
  /\ since' = Clock(TrueTime(now + 1))
  /\ missed' = (missed \/ (fresh /\ frame.last > ahead /\ ~(Returned /\ IsNew)))
  /\ fresh' = FALSE
  /\ UNCHANGED <<fileVars, clockVars, frame, lastBoot, uploadVars, ahead>>

\* write_failed_poll: no anchor, no resume point.
PollFails ==
  /\ NewPoll
  /\ UNCHANGED <<fileVars, clockVars, frame, since, lastBoot, ntp, device, history, observed,
                 load, pending, uploadVars, heardVars>>

-----------------------------------------------------------------------------
(* The uploader and the merge.                                              *)

Held == {p \in polls : p.boot = boot /\ ~p.synced /\ boot \notin ntp}
Fate(p) == IF p.synced \/ p.boot \in ntp \cup anchors THEN "send"
           ELSE IF p.boot = boot THEN "hold" ELSE "unverified"

TakeAnchor ==
  /\ boot \notin anchors /\ Held # {}
  /\ anchors' = anchors \cup {boot}
  /\ UNCHANGED <<fileVars, clockVars, frame, bufferVars, cursor, open, late, lost, server, heardVars>>

Send ==
  LET due     == {p \in polls : cursor.polls < p.id /\ p.id <= cursor.polls + BatchPolls}
      before  == {p \in due : \A q \in due : Fate(q) = "hold" => p.id < q.id}
      sent    == {p.id : p \in {q \in before : Fate(q) = "send"}}
      heard   == {o.row.poll : o \in observed} \cap sent
      trueTo  == Max(sent \cup {cursor.load})
  IN  /\ open = NoBatch /\ before # {}
      /\ open' = [rows |-> [polls   |-> sent,
                            history |-> {h \in history : h.poll \in sent},
                            load    |-> {r \in load : cursor.load < r.last /\ r.last <= trueTo},
                            conf    |-> IF heard = {} THEN NoConf ELSE device.conf,
                            last    |-> IF heard = {} THEN 0 ELSE Max(heard)],
                   new |-> [polls |-> Max({p.id : p \in before}), load |-> trueTo]]
      /\ UNCHANGED <<fileVars, clockVars, frame, bufferVars, cursor, anchors, late, lost,
                     server, heardVars>>

\* ap_load_hourly: "the row with more polls wins".
SameHour(r, q) == r.hour = q.hour /\ r.channel = q.channel
MergeLoad(old, new) ==
  {r \in old : \A q \in new : SameHour(r, q) => q.polls <= r.polls} \cup
  {r \in new : \A q \in old : SameHour(r, q) => r.polls > q.polls}

(* As if a late batch replaced a newer device row.                          *)
MergeAlways(s, rows) ==
  [polls |-> s.polls \cup rows.polls, history |-> s.history \cup rows.history,
   load |-> MergeLoad(s.load, rows.load),
   conf |-> IF rows.last > 0 THEN rows.conf ELSE s.conf, last |-> Max({s.last, rows.last})]

Merge(s, rows) ==
  [polls |-> s.polls \cup rows.polls, history |-> s.history \cup rows.history,
   load |-> MergeLoad(s.load, rows.load),
   conf |-> IF rows.last > 0 /\ rows.last >= s.last THEN rows.conf ELSE s.conf,
   last |-> Max({s.last, rows.last})]

Answered ==
  /\ open # NoBatch
  /\ server' = Merge(server, open.rows) /\ cursor' = open.new /\ open' = NoBatch
  /\ UNCHANGED <<fileVars, clockVars, frame, bufferVars, anchors, late, lost, heardVars>>

AnswerLost ==
  /\ open # NoBatch /\ kills + lost < MaxFaults
  /\ server' = Merge(server, open.rows) /\ open' = NoBatch /\ lost' = lost + 1
  /\ UNCHANGED <<fileVars, clockVars, frame, bufferVars, cursor, anchors, late, heardVars>>

GivenUp ==
  /\ open # NoBatch /\ kills + lost < MaxFaults
  /\ late' = late \cup {open.rows} /\ open' = NoBatch /\ lost' = lost + 1
  /\ UNCHANGED <<fileVars, clockVars, frame, bufferVars, cursor, anchors, server, heardVars>>

Arrives ==
  /\ \E rows \in late : server' = Merge(server, rows) /\ late' = late \ {rows}
  /\ UNCHANGED <<fileVars, clockVars, frame, bufferVars, cursor, anchors, open, lost, heardVars>>

-----------------------------------------------------------------------------
\* An old file, with the access point in it, was written earlier in this boot
\* or in one before (which, like NULL, no boot equals: 0) under any clock.
Init ==
  /\ boot = 1 /\ synced = FALSE /\ drift \in Drifts
  /\ version \in OldVersions /\ columns = {k \in HasColumns : k <= version}
  /\ \E b \in Beacons, by \in {0, 1}, clock \in Drifts \cup {0} :
       /\ by = 1 => clock = drift
       /\ LET seen == TrueTime(0) - clock
          IN /\ frame = IF version > 0 /\ by = 1
                        THEN [known |-> TRUE, last |-> seen, beacon |-> b] ELSE NoFrame
             /\ device = IF version = 0 THEN NoDevice
                         ELSE [known |-> TRUE, conf |-> b.conf, lastSeen |-> seen,
                               boot |-> IF version >= 8 THEN by ELSE 0,
                               bootLast |-> IF version >= 8 THEN seen ELSE 0]
             /\ since = IF version = 0 THEN 0 ELSE seen
             /\ lastBoot = IF version >= 8 THEN by ELSE 0
  /\ collector = "down" /\ kills = 0 /\ now = 0
  /\ polls = {} /\ ntp = {} /\ history = {} /\ observed = {} /\ load = {} /\ pending = {}
  /\ cursor = [polls |-> 0, load |-> 0] /\ anchors = {} /\ open = NoBatch /\ late = {}
  /\ lost = 0 /\ server = NoRows
  /\ fresh = FALSE /\ ahead = 0 /\ missed = FALSE

Next ==
  \/ Open \/ Upgrade \/ Started \/ Kill \/ (\E v \in RollBacks : RollBack(v))
  \/ (\E b \in Beacons : Hear(b)) \/ Sync \/ (\E d \in Drifts : Reboot(d))
  \/ Poll \/ PollFails
  \/ TakeAnchor \/ Send \/ Answered \/ AnswerLost \/ GivenUp \/ Arrives

Spec == Init /\ [][Next]_vars

-----------------------------------------------------------------------------
(* The buffer opens whatever the collector was killed in or an operator     *)
(* rolled back, and then has every column (the migrations of store.py).     *)
OpensComplete ==
  collector # "stuck" /\ (collector = "up" => columns = HasColumns)

(* A poll after which the access point was heard writes an observation of   *)
(* it, over restarts, reboots under any clock, the step of the clock and an *)
(* upgrade in any boot - but for what is heard at a time the boot's clock   *)
(* had already shown when it was set back, or not past the sightings and    *)
(* the resume point that the upgrade to per-boot newness took for this      *)
(* boot's: those the code misses until the clock has passed them            *)
(* (_write_device, boot_started, _migrate_v7_to_v8).  Neither outlives a    *)
(* reboot of an upgraded file.                                              *)
EveryHearingObserved == ~missed

Settled(o) == \E p \in polls : p.id = o.poll /\ (p.synced \/ p.boot \in ntp)

\* The row of an hour and a channel, computed from its observations at once.
RowOf(rows, hour, channel) ==
  LET known == {o \in rows : o.clients # Null}
  IN  [hour |-> hour, channel |-> channel, polls |-> Cardinality(rows),
       clientsPolls |-> Cardinality(known),
       clientsMax |-> IF known = {} THEN Null ELSE Max({o.clients : o \in known}),
       clientsSum |-> IF known = {} THEN Null ELSE MapThenSumSet(LAMBDA o : o.clients, known),
       last |-> Max({o.poll : o \in rows})]

\* The hourly load counts every observation once, in its true hour and under
\* the channel known at that poll, as soon as its boot has an NTP anchor; until
\* then it waits (_write_load, _anchor).
LoadIsExact ==
  LET rows == {o.row : o \in observed}
      done == {o \in rows : Settled(o)}
      at(h, c) == {o \in done : Hour(o.poll) = h /\ o.channel = c}
  IN  /\ load = {RowOf(at(k[1], k[2]), k[1], k[2]) :
                   k \in {<<Hour(o.poll), o.channel>> : o \in done}}
      /\ pending = rows \ done

(* Every observation is counted once on its way to the server: the buffer's  *)
(* hours are exact, and when the cursor has passed every poll the server      *)
(* holds every hour as the buffer does - but for hours with polls of a boot   *)
(* that was placed by the server's time before NTP came: their load is folded *)
(* in behind the cursor and waits for a later observation of the same hour.   *)
LoadReachesServer ==
  /\ LoadIsExact
  /\ cursor.polls = now =>
       \A r \in load : \/ r \in server.load
                       \/ \E p \in polls : /\ p.boot \in anchors /\ ~p.synced
                                            /\ Hour(p.id) = r.hour

(* When the cursor has passed every poll and none was left out, every       *)
(* configuration value the access point announced in an observation is at   *)
(* the server, as the current one or in the history, whatever late batch    *)
(* arrived in between (merge_config, the history rows of the batch, the     *)
(* merge of devices).  A value first heard in a missed observation changes  *)
(* the device and its history, and waits for the next one to be sent.       *)
ConfigReachesServer ==
  cursor.polls = now /\ server.polls = 1 .. now =>
    \A o \in observed, f \in Fields :
      o.conf[f] # Null => \/ server.conf[f] = o.conf[f]
                         \/ \E h \in server.history : h.conf[f] = o.conf[f]
=============================================================================
