----------------------------- MODULE LiveUpload -----------------------------
(***************************************************************************)
(* The live-upload pipeline of one sensor: the collector appends polls and *)
(* their observations to the SQLite buffer and prunes it, the uploader     *)
(* turns the buffer into batches behind a cursor, and the server merges a  *)
(* batch in one transaction whose rows are idempotent by natural key.      *)
(*                                                                         *)
(* Sources: wifi-sensor/collector/{collector,store}.py,                    *)
(* wifi-sensor/uploader/{uploader,batch,timeline,state}.py and             *)
(* server/api/app/ingest/{routes.py,sql/ingest.sql}, server/schema.sql.    *)
(*                                                                         *)
(* Time.  Poll n of the sensor happens at true time 2 * n, reboots and     *)
(* answers between two polls.  A boot whose clock is not synchronised      *)
(* stamps its polls with a time that is behind by the boot's drift, beside *)
(* its monotonic time.  An anchor pairs the two clocks of a boot: by NTP   *)
(* at its first synchronised poll, or by the server's time in an answer,   *)
(* which is err off.                                                       *)
(***************************************************************************)
EXTENDS Integers, FiniteSets

CONSTANTS
  MaxPolls,         \* bound: polls the sensor makes
  MaxBoots,         \* bound: boots of the sensor
  MaxBuffers,       \* bound: buffer files (1 = the buffer is never replaced)
  MaxStateLosses,   \* bound: times the uploader's state file disappears
  MaxLate,          \* bound: abandoned requests that still travel
  BatchPolls,       \* CATCHUP_POLLS: polls in a batch at most
  Kinds,            \* outcomes of a poll: "heard", "quiet", "failed"
  Drifts,           \* how far behind an unsynchronised clock may be
  Errs,             \* errors of a server anchor, in half poll intervals
  LateNtp,          \* may NTP synchronise a boot that has a server anchor
  HeardInRetention  \* is an access point heard at least once per retention

PollKinds == {"heard", "quiet", "failed"}

ASSUME BoundsAssumption ==
  /\ MaxPolls \in Nat /\ MaxBoots \in Nat /\ MaxBuffers \in Nat
  /\ MaxStateLosses \in Nat /\ MaxLate \in Nat
ASSUME BatchAssumption == BatchPolls \in Nat \ {0}
ASSUME EnvAssumption ==
  /\ Kinds \subseteq PollKinds
  /\ Drifts \subseteq Nat /\ Errs \subseteq {0, 1}
  /\ LateNtp \in BOOLEAN /\ HeardInRetention \in BOOLEAN

VARIABLES
  now,          \* polls made so far, over every buffer: the sensor's true time
  boot,         \* the running boot
  bootTime,     \* when the boot began: its monotonic clock counts from there
  drift,        \* how far the boot's unsynchronised clock is behind
  bufferId,     \* meta.buffer_id
  polls,        \* table polls of the buffer
  observations, \* table observations of the buffer
  ntpAnchors,   \* table clock_anchors of the buffer
  cursor,       \* the state file's cursor, NoCursor when there is no file
  anchors,      \* the state file's server_anchors
  maxPolls,     \* the uploader's max_polls, halved by a 413
  request,      \* the request the uploader waits for, NoRequest when idle
  late,         \* batches whose request was abandoned and may still arrive
  srvPolls,     \* the server's polls of the sensor
  srvObs,       \* the server's observations of the sensor
  srvGaps       \* sensor_seq_gaps of the sensor
VARIABLES
  made,         \* history: every poll made, with its buffer and row id
  losses        \* history: how often the state file was lost

sensorVars   == <<now, boot, bootTime, drift, bufferId, polls, observations, ntpAnchors, made>>
uploaderVars == <<cursor, anchors, maxPolls, losses>>
networkVars  == <<request, late>>
serverVars   == <<srvPolls, srvObs, srvGaps>>
vars == <<sensorVars, uploaderVars, networkVars, serverVars>>

NoCursor  == [buffer |-> 0, polls |-> 0, obs |-> 0]
NoBatch   == [buffer |-> 0, polls |-> {}, obs |-> {}, gaps |-> {}]
NoRequest == [state |-> "idle", batch |-> NoBatch, new |-> NoCursor]

Ids(table) == {r.id : r \in table}
PollRows == [id : Nat, n : Nat, boot : Nat, synced : BOOLEAN, ts : Int, mono : Int]
ObsRows  == [id : Nat, poll : Nat, ts : Int]
Anchors  == [boot : Nat, wall : Int, mono : Int]
SentPolls == [seq : Nat, n : Nat, ts : Int]
SentObs   == [n : Nat, ts : Int]
Gaps      == [from : Nat, to : Nat, why : {"lost", "unverified"}]
Cursors   == [buffer : Nat, polls : Nat, obs : Nat]
Batches   == [buffer : Nat, polls : SUBSET SentPolls, obs : SUBSET SentObs,
              gaps : SUBSET Gaps]

-----------------------------------------------------------------------------
(* The two clocks.                                                         *)

Mono(t) == t - bootTime

HasAnchor(table, b) == \E a \in table : a.boot = b

\* timeline.Boot.epoch_true: when the boot began, by its anchor.
EpochTrue(table, b) ==
  LET a == CHOOSE c \in {d \in table : d.boot = b} : TRUE IN a.wall - a.mono

-----------------------------------------------------------------------------
(* Collector.                                                              *)

\* The row id SQLite gives the next row of a table without AUTOINCREMENT:
\* one more than the largest id in the table, 1 in an empty table.
IsNextId(id, table) ==
  IF table = {} THEN id = 1
  ELSE id - 1 \in Ids(table) /\ \A r \in table : r.id < id

\* write_poll and write_failed_poll.  The poll row comes first, the rows of
\* the poll carry its id, and the boot's first synchronised successful poll
\* records the boot's anchor; all in one transaction.
Poll(kind, synced) ==
  /\ now < MaxPolls
  /\ synced => LateNtp \/ \A a \in anchors : a.boot # boot
  /\ now' = now + 1
  /\ LET ts == IF synced THEN 2 * (now + 1) ELSE 2 * (now + 1) - drift
         mono == Mono(2 * (now + 1))
     IN /\ ntpAnchors' = IF synced /\ kind # "failed" /\ ~HasAnchor(ntpAnchors, boot)
                         THEN ntpAnchors \cup {[boot |-> boot, wall |-> ts, mono |-> mono]}
                         ELSE ntpAnchors
        /\ \E id \in 1 .. now + 1 :
             /\ IsNextId(id, polls)
             /\ polls' = polls \cup
                  {[id |-> id, n |-> now + 1, boot |-> boot, synced |-> synced,
                   ts |-> ts, mono |-> mono]}
             /\ made' = made \cup {[n |-> now + 1, buffer |-> bufferId, id |-> id]}
             /\ IF kind = "heard"
                THEN \E oid \in 1 .. now + 1 :
                       /\ IsNextId(oid, observations)
                       /\ observations' = observations \cup {[id |-> oid, poll |-> id, ts |-> ts]}
                ELSE UNCHANGED observations
  /\ UNCHANGED <<boot, bootTime, drift, bufferId, uploaderVars, networkVars, serverVars>>

\* Store.prune judges a synchronised poll by its ts, an unsynchronised one of
\* an anchored boot by its true time, and any other by the first synchronised
\* poll after it.
Expired(p, cutoff) ==
  IF p.synced THEN p.ts < cutoff
  ELSE IF HasAnchor(ntpAnchors, p.boot) THEN EpochTrue(ntpAnchors, p.boot) + p.mono < cutoff
  ELSE \E q \in polls : /\ q.synced /\ q.id > p.id /\ q.ts < cutoff
                        /\ \A r \in polls : r.synced /\ r.id > p.id => r.id >= q.id

\* The main loop prunes after a poll on a synchronised clock.  Observations
\* go with their poll: by their own ts unless the poll was unsynchronised.
Prune(cutoff) ==
  /\ \E p \in polls : p.n = now /\ p.synced /\ cutoff <= p.ts
  /\ HeardInRetention => \E o \in observations : o.ts >= cutoff
  /\ polls' = {p \in polls : ~Expired(p, cutoff)}
  /\ observations' =
       {o \in observations :
          /\ o.ts < cutoff => o.poll \in Ids({p \in polls : ~p.synced})
          /\ o.poll \notin Ids({p \in polls : ~p.synced /\ Expired(p, cutoff)})}
  /\ UNCHANGED <<now, boot, bootTime, drift, bufferId, ntpAnchors, made,
                 uploaderVars, networkVars, serverVars>>

\* A reboot ends the uploader process with whatever request it waits for; the
\* state file and the buffer survive.
Reboot(d) ==
  /\ boot < MaxBoots
  /\ boot' = boot + 1
  /\ bootTime' = 2 * now + 1
  /\ drift' = d
  /\ request' = NoRequest
  /\ maxPolls' = BatchPolls
  /\ UNCHANGED <<now, bufferId, polls, observations, ntpAnchors, made,
                 cursor, anchors, losses, late, serverVars>>

\* The buffer file is replaced: a new buffer_id, empty tables.  A process that
\* has the old file open keeps reading it, so both are started again; the
\* uploader finds its state file as it was.
NewBuffer ==
  /\ bufferId < MaxBuffers
  /\ bufferId' = bufferId + 1
  /\ polls' = {} /\ observations' = {} /\ ntpAnchors' = {}
  /\ request' = NoRequest
  /\ maxPolls' = BatchPolls
  /\ UNCHANGED <<now, boot, bootTime, drift, made, cursor, anchors, losses, late, serverVars>>

-----------------------------------------------------------------------------
(* Uploader.                                                               *)

\* Faulty variant: the server anchors are ignored.
AnchoredByNtp(b) == HasAnchor(ntpAnchors, b)

\* timeline.Boot.anchored, by batch.boots: an anchor of either source.
Anchored(b) == HasAnchor(ntpAnchors, b) \/ HasAnchor(anchors, b)

\* Faulty variant: nothing is held back.
FateUnheld(p) == IF p.synced \/ Anchored(p.boot) THEN "send" ELSE "unverified"

\* timeline.poll_fate.
Fate(p) ==
  IF p.synced \/ Anchored(p.boot) THEN "send"
  ELSE IF p.boot = boot THEN "hold"
  ELSE "unverified"

\* Faulty variant: the running boot's anchor places the polls of every boot.
PlacedByRunningBoot(p) ==
  LET b == IF HasAnchor(ntpAnchors, boot) THEN boot ELSE p.boot
  IN IF p.synced THEN p.ts
     ELSE EpochTrue(IF HasAnchor(ntpAnchors, b) THEN ntpAnchors ELSE anchors, b) + p.mono

\* timeline.place_poll, the anchors by batch.boots: the NTP anchor of the
\* buffer before the server anchor.
Placed(p) ==
  IF p.synced THEN p.ts
  ELSE EpochTrue(IF HasAnchor(ntpAnchors, p.boot) THEN ntpAnchors ELSE anchors, p.boot) + p.mono

\* batch.held_polls.
HeldPolls ==
  IF HasAnchor(ntpAnchors, boot) THEN {} ELSE {p \in polls : p.boot = boot /\ ~p.synced}

\* The polls a batch takes: the first maxPolls after the cursor, up to the
\* first one that has to be held back.
Taken ==
  LET after == {p \in polls : p.id > cursor.polls}
      chunk == {p \in after : Cardinality({q \in after : q.id <= p.id}) <= maxPolls}
  IN {p \in chunk : \A q \in chunk : q.id <= p.id => Fate(q) # "hold"}

IsLastOf(last, taken) ==
  IF taken = {} THEN last = cursor.polls
  ELSE last \in Ids(taken) /\ \A p \in taken : p.id <= last

\* Polls pruned before they were sent: between the cursor and the oldest row.
LostGaps ==
  {[from |-> cursor.polls + 1, to |-> p.id - 1, why |-> "lost"] :
     p \in {q \in polls : /\ \A r \in polls : q.id <= r.id
                          /\ cursor.polls > 0 /\ cursor.polls < q.id - 1}}

\* batch._ranges over the ids of the unverified polls.
UnverifiedGaps(ids) ==
  LET runs == {r \in ids \X ids : /\ r[1] <= r[2] /\ r[1] .. r[2] \subseteq ids
                                  /\ r[1] - 1 \notin ids /\ r[2] + 1 \notin ids}
  IN {[from |-> r[1], to |-> r[2], why |-> "unverified"] : r \in runs}

\* Faulty variant: the observation cursor runs past the batch's last poll.
ConsumedToEnd(last) == {o \in observations : o.id > cursor.obs}

\* The observation rows a batch consumes: in row order, up to the first row
\* of a poll beyond the batch.
ConsumedObs(last) ==
  {o \in observations :
     /\ o.id > cursor.obs
     /\ \A q \in observations : q.id > cursor.obs /\ q.id <= o.id => q.poll <= last}

IsLastObs(last, consumed) ==
  IF consumed = {} THEN last = cursor.obs
  ELSE last \in Ids(consumed) /\ \A o \in consumed : o.id <= last

SentPoll(p) == [seq |-> p.id, n |-> p.n, ts |-> Placed(p)]

\* batch.build: only the rows of polls that are sent go out.
Batch(taken, last) ==
  LET sent == {p \in taken : Fate(p) = "send"}
      obs  == ConsumedObs(last)
  IN [buffer |-> cursor.buffer,
      polls  |-> {SentPoll(p) : p \in sent},
      obs    |-> {[n |-> p.n, ts |-> Placed(p)] :
                    p \in {q \in sent : \E o \in obs : o.poll = q.id}},
      gaps   |-> LostGaps \cup UnverifiedGaps(Ids(taken \ sent))]

\* send_batch up to the post: nothing is sent when the batch is empty.
Send ==
  /\ cursor # NoCursor
  /\ request = NoRequest
  /\ \E last \in {cursor.polls} \cup Ids(polls), lastObs \in {cursor.obs} \cup Ids(observations) :
       LET b == Batch(Taken, last)
       IN /\ IsLastOf(last, Taken)
          /\ IsLastObs(lastObs, ConsumedObs(last))
          /\ b.polls # {} \/ b.gaps # {}
          /\ request' = [state |-> "sent", batch |-> b,
                         new |-> [cursor EXCEPT !.polls = last, !.obs = lastObs]]
  /\ UNCHANGED <<sensorVars, uploaderVars, late, serverVars>>

\* The server's time in an answer, with the monotonic time it came at.
AnchorOf(err) == [boot |-> boot, wall |-> 2 * now + 1 + err, mono |-> Mono(2 * now + 1)]

\* Faulty variant: every contact anchors the boot again.
ServerAnchorAgain(err) ==
  /\ HeldPolls # {}
  /\ anchors' = {a \in anchors : a.boot # boot} \cup {AnchorOf(err)}

\* contact: any answer may anchor a boot whose polls are held, once.
ServerAnchor(err) ==
  /\ HeldPolls # {}
  /\ \A a \in anchors : a.boot # boot
  /\ anchors' = anchors \cup {AnchorOf(err)}

\* Faulty variant: the cursor is saved when the batch is sent.
AcceptedUnmerged ==
  /\ request # NoRequest
  /\ cursor' = request.new
  /\ request' = NoRequest
  /\ UNCHANGED <<sensorVars, anchors, maxPolls, losses, late, serverVars>>

\* send_batch after a 200: contact, then the new cursor is saved.
Accepted ==
  /\ request.state = "merged"
  /\ cursor' = request.new
  /\ maxPolls' = BatchPolls
  /\ request' = NoRequest
  /\ \/ UNCHANGED anchors
     \/ \E err \in Errs : ServerAnchor(err)
  /\ UNCHANGED <<sensorVars, losses, late, serverVars>>

\* No answer (time-out, lost answer, a refusal, the process dies): the cursor
\* stays.  A request that was not merged yet may still reach the server.
GiveUp ==
  /\ request # NoRequest
  /\ request' = NoRequest
  /\ \/ UNCHANGED late
     \/ /\ request.state = "sent"
        /\ Cardinality(late) < MaxLate
        /\ late' = late \cup {request.batch}
  /\ UNCHANGED <<sensorVars, uploaderVars, serverVars>>

\* A 413 halves max_polls and the batch is built again.
TooLarge ==
  /\ request.state = "sent"
  /\ maxPolls > 1
  /\ maxPolls' = maxPolls \div 2
  /\ request' = NoRequest
  /\ UNCHANGED <<sensorVars, cursor, anchors, losses, late, serverVars>>

\* A heartbeat that was answered, between batches.
Heartbeat(err) ==
  /\ cursor # NoCursor
  /\ request = NoRequest
  /\ ServerAnchor(err)
  /\ UNCHANGED <<sensorVars, cursor, maxPolls, losses, networkVars, serverVars>>

\* The state file is gone at a start of the uploader.
StateLoss ==
  /\ losses < MaxStateLosses
  /\ losses' = losses + 1
  /\ cursor' = NoCursor
  /\ anchors' = {}
  /\ maxPolls' = BatchPolls
  /\ request' = NoRequest
  /\ UNCHANGED <<sensorVars, late, serverVars>>

\* Faulty variant: the poll is searched by ts on any clock.
IsPollOfAnyClock(id, newest) ==
  LET older == {p \in polls : p.ts <= newest.ts}
  IN IF older = {} THEN id = 0
     ELSE id \in Ids(older) /\ \A p \in older : p.id <= id

\* batch.cursor_after: the poll with the server's newest seq and ts, else the
\* newest synchronised poll at or before that ts; the observations start at
\* the first row, in ts order, after that ts.
IsPollOf(id, newest) ==
  LET older == {p \in polls : p.synced /\ p.ts <= newest.ts}
  IN IF \E p \in polls : p.id = newest.seq /\ p.ts = newest.ts THEN id = newest.seq
     ELSE IF older = {} THEN id = 0
     ELSE id \in Ids(older) /\ \A p \in older : p.id <= id

IsObsOf(id, newest) ==
  LET later == {o \in observations : o.ts > newest.ts}
      first == {o \in later : \A q \in later : o.ts < q.ts \/ (o.ts = q.ts /\ o.id <= q.id)}
  IN IF later # {} THEN id + 1 \in Ids(first)
     ELSE IF observations = {} THEN id = 0
     ELSE id \in Ids(observations) /\ \A o \in observations : o.id <= id

\* ensure_cursor: a heartbeat asks for the server's newest poll.
EnsureCursor ==
  /\ cursor = NoCursor
  /\ \/ /\ srvPolls = {}
        /\ cursor' = [buffer |-> bufferId, polls |-> 0, obs |-> 0]
     \/ \E newest \in srvPolls, p \in {0} \cup Ids(polls), o \in 0 .. now :
          /\ \A s \in srvPolls : s.ts <= newest.ts
          /\ IsPollOf(p, newest)
          /\ IsObsOf(o, newest)
          /\ cursor' = [buffer |-> bufferId, polls |-> p, obs |-> o]
  /\ UNCHANGED <<sensorVars, anchors, maxPolls, losses, networkVars, serverVars>>

-----------------------------------------------------------------------------
(* Server.                                                                 *)

\* INSERT ... ON CONFLICT (sensor_id, ts) DO NOTHING.
InsertByTs(table, rows) ==
  table \cup {r \in rows : \A s \in table : s.ts # r.ts}

\* gap_insert: the key of sensor_seq_gaps is (sensor, buffer, seq_from).
InsertGaps(buffer, gaps) ==
  srvGaps \cup {[buffer |-> buffer, from |-> g.from, to |-> g.to, why |-> g.why] :
                  g \in {h \in gaps : \A s \in srvGaps : s.buffer = buffer => s.from # h.from}}

\* routes._merge: polls, observations and gaps in one transaction.
MergeRows(b) ==
  /\ srvPolls' = InsertByTs(srvPolls, b.polls)
  /\ srvObs'   = InsertByTs(srvObs, b.obs)
  /\ srvGaps'  = InsertGaps(b.buffer, b.gaps)

Merge ==
  /\ request.state = "sent"
  /\ MergeRows(request.batch)
  /\ request' = [request EXCEPT !.state = "merged", !.batch = NoBatch]
  /\ UNCHANGED <<sensorVars, uploaderVars, late>>

\* A request whose sender no longer waits is merged all the same.
MergeLate(b) ==
  /\ b \in late
  /\ MergeRows(b)
  /\ late' = late \ {b}
  /\ UNCHANGED <<sensorVars, uploaderVars, request>>

-----------------------------------------------------------------------------
Init ==
  /\ now = 0 /\ boot = 1 /\ bootTime = 1 /\ drift \in Drifts /\ bufferId = 1
  /\ polls = {} /\ observations = {} /\ ntpAnchors = {} /\ made = {}
  /\ cursor = NoCursor /\ anchors = {} /\ maxPolls = BatchPolls /\ losses = 0
  /\ request = NoRequest /\ late = {}
  /\ srvPolls = {} /\ srvObs = {} /\ srvGaps = {}

Next ==
  \/ \E kind \in Kinds, synced \in BOOLEAN : Poll(kind, synced)
  \/ \E n \in 1 .. MaxPolls : Prune(2 * n)
  \/ \E d \in Drifts : Reboot(d)
  \/ NewBuffer
  \/ EnsureCursor
  \/ Send
  \/ Accepted
  \/ GiveUp
  \/ TooLarge
  \/ \E err \in Errs : Heartbeat(err)
  \/ StateLoss
  \/ Merge
  \/ \E b \in late : MergeLate(b)

Spec == Init /\ [][Next]_vars

\* The uploader's loop never ends (main: while not _stop, every exception is
\* caught), so what it can do it does; and the network is not so bad that
\* every single request or every single answer is lost.
Fairness ==
  /\ WF_vars(EnsureCursor) /\ WF_vars(Send)
  /\ WF_vars(\E err \in Errs : Heartbeat(err))
  /\ SF_vars(Merge) /\ SF_vars(Accepted)

FairSpec == Spec /\ Fairness

-----------------------------------------------------------------------------
(* Properties.                                                             *)

TypeOK ==
  /\ now \in Nat /\ boot \in Nat /\ bootTime \in Int /\ drift \in Nat /\ bufferId \in Nat
  /\ polls \subseteq PollRows /\ observations \subseteq ObsRows
  /\ ntpAnchors \subseteq Anchors
  /\ made \subseteq [n : Nat, buffer : Nat, id : Nat]
  /\ cursor \in Cursors /\ anchors \subseteq Anchors
  /\ maxPolls \in Nat \ {0} /\ losses \in Nat
  /\ request \in [state : {"idle", "sent", "merged"}, batch : Batches, new : Cursors]
  /\ late \subseteq Batches
  /\ srvPolls \subseteq SentPolls /\ srvObs \subseteq SentObs
  /\ srvGaps \subseteq [buffer : Nat, from : Nat, to : Nat, why : {"lost", "unverified"}]

StoredPolls == {s.n : s \in srvPolls}
InGap(why, buffer, id) ==
  \E g \in srvGaps : g.why = why /\ g.buffer = buffer /\ g.from <= id /\ id <= g.to

\* The cursor is safe: a poll that is still in the buffer and that the
\* uploader will not offer again is stored on the server, unless its true
\* time can never be known - whatever answer is lost, whatever is pruned,
\* restarted or late (uploader.py:11 "an outage, a crash or a refused batch
\* never loses data").
NothingSkipped ==
  \A p \in polls : p.id <= cursor.polls =>
     p.n \in StoredPolls \/ Fate(p) = "unverified"

\* It holds as long as the sensor's first buffer is in use, also when the
\* state file is lost and cursor_after finds the cursor again from the
\* server's newest poll.
FirstBufferSafe == bufferId = 1 => NothingSkipped

\* The two cursors of a batch agree: a poll the uploader will not offer again
\* and that the server stores has its observation there too.
ObservationsFollow ==
  \A p \in polls : \A o \in observations :
     o.poll = p.id /\ p.id <= cursor.polls /\ p.n \in StoredPolls
       => \E s \in srvObs : s.n = p.n

\* The true time of a poll the server counted as unverified is unknown for
\* good: its boot never turns out to be placeable after all.
UnverifiedNeverStored ==
  \A m \in made : m.n \in StoredPolls => ~InGap("unverified", m.buffer, m.id)

\* A replay inserts nothing twice: one row per poll (schema.sql:2573 "a batch
\* the sensor sends twice inserts nothing twice").
OneRowPerPoll ==
  \A s, t \in srvPolls : s.n = t.n => s = t

\* No stale time reaches the server: the anchor of a boot, stored at one of
\* its polls or contacts and used for others, maybe after a reboot, puts each
\* poll at its true time, up to the error of a server anchor.
PlacedTruly ==
  \A s \in srvPolls : s.ts - 2 * s.n \in {0} \cup Errs

\* A recorded gap holds polls that never arrived (schema.sql:800 "Polls of a
\* buffer that never arrived").
GapsNeverArrived ==
  \A m \in made, g \in srvGaps :
     m.n \in StoredPolls /\ g.buffer = m.buffer => ~(g.from <= m.id /\ m.id <= g.to)

\* While the state file is there, the pipeline implements Delivery.
Promise == INSTANCE Delivery WITH
  Polls         <- 1 .. MaxPolls,
  made          <- {m.n : m \in made},
  stored        <- StoredPolls,
  undeliverable <- {m.n : m \in made} \
                     {p.n : p \in {q \in polls : Fate(q) # "unverified"}},
  released      <- {m.n : m \in {k \in made : k.id <= cursor.polls}}
DeliveryPromise == Promise!Spec

\* The backlog drains: once the sensor stops polling, the cursor passes every
\* poll of the buffer, the held ones included, without NTP.
Drained == <>[](\A p \in polls : p.id <= cursor.polls)
=============================================================================
