# Verification of the Wi-Fi audit system

TLA+ models of this repository's sensor (`wifi-sensor/`) and server (`server/`):
where interleavings, lost answers, crashes, clocks and boundaries decide whether
data, a sensor or a conclusion is lost; TLC runs that check them on small
instances; and TLAPS proofs of the central properties for every value of the
constants. Everything is translated from the code; a definition's lines are in
`PROJECT.json` under `map`.

| module | what it is |
|---|---|
| **the upload** | |
| `LiveUpload` | collector buffer, uploader and ingest merge of one sensor |
| `Delivery` | what the upload promises, without buffers, cursors or batches; implemented by `LiveUpload` |
| `DeliveryProofs` | proofs about `LiveUpload`, and that it implements `Delivery` |
| `Buffer` | what the collector derives from its polls, the schema migrations, and the way to the server |
| `BufferProofs` | proofs about `Buffer` |
| `TimeLine` | times of a sensor without a clock: skews, steps, anchors, moved epochs, the server's bounds |
| `WireFormat` | the life of one value from Kismet's JSON to the server's verdict |
| `SendLoop` | sizes of batches, 413, waits and heartbeats of the uploader's loop |
| `Upload`, `UploadProofs` | the time line and the format beside `LiveUpload`, and the proofs about them |
| **the server's ingest and derived tables** | |
| `IngestService` | the ingest routes as concurrent requests: pool, tokens, buckets, semaphore, stall events, adapter record |
| `Refresher` | dirty marks, refresher rounds and sensor hours of the rollups |
| `RefresherProofs` | proofs about `Refresher` |
| `SensorCoverage` | hourly rows of a sensor and the shares of a day made of them |
| `SnapshotImport` | import of a copy of the buffer beside the live ingest |
| **the capture configuration** | |
| `CapturePlan`, `SiteFiles` | the rules of server and sensor for a configuration, its hash, the files and their readers |
| `ConfigDelivery` | versions, delivery, tries, reports, confirmation and boundaries |
| `ConfigApply` | applying, rolling back and recovering a configuration between any two durable writes |
| `ConfigApplyProofs` | proofs about `ConfigApply` |
| `HopGuard` | the guard of Kismet's hop list |
| **the dashboard** | |
| `ReadCache` | tags, response cache, kept access points, the browser's copy |
| `EventFeed` | grouping, order and cursors of the event feed |
| `Periods` | local-time buckets and the epoch of a tag |
| `OperatorWrites` | operator transactions and the audit log |
| **put together** | |
| `Operator`, `OperatorProofs` | applier, delivery, hop guard and operator writes, and proofs about them |
| `Server`, `ServerProofs`, `DetectorProofs` | ingest routes, caches, import, periods, event feed, evaluation and the detectors, and proofs about them (about the detectors in the last) |
| **the detectors** | |
| `FloodRules` | bursts, episodes, windows, thresholds and grades as operators |
| `Detections` | runs of `deauth_flood` over overlapping windows, and the sink of findings |
| `EvilTwin` | the one pass over the readings, deviations and unknown access points |
| `Evaluation` | trials, matches, false positives and the hours they are divided by |
| **instances for TLC** | `MCLiveUpload`, `MCUpload`, `MCBuffer`, `MCRefresher`, `MCConfigApply`, `MCOperator`, `MCServer` |

Check with `tlc -config upload_safety.cfg MCUpload.tla` and the like, prove with
`tlapm DeliveryProofs.tla` and the other `...Proofs` modules.

## 1. Inventory

The sensor (a Raspberry Pi) captures with Kismet; the **collector** polls Kismet
into an SQLite buffer; the **uploader** sends the buffer to the server in
batches; the server's **ingest** merges a batch into PostgreSQL; the
**refresher** keeps derived tables in step; the **dashboard API** reads them and
takes the operator's writes; **detectors** started by hand store findings; a
saved capture configuration travels back in the answers of the ingest and is
applied on the sensor by the **configuration applier**, next to a **hop guard**
and a **capture watchdog** that also act on Kismet.

| component | state | operations | interacts with | what is hard | what makes it correct | model |
|---|---|---|---|---|---|---|
| collector and buffer (`collector/{collector,store,clock}.py`) | tables `polls`, `observations`, `devices`, history, hourly load and its pending part, `clock_anchors`, `meta` | poll, failed poll, anchor, fold, prune, migrate, open or replace the buffer | read by the uploader and by the applier | which rows a prune may take while their time is not known; newness across reboots; a kill between two migrations | rows of one poll go together; nothing unsent and unexpired disappears; every hearing is observed and counted once | `LiveUpload`, `Buffer`, `TimeLine` |
| record shaping, hop coverage (`collector/{shape,hop_coverage,kismet}.py`) | none | conversion of a value, parsing of the hop list | collector; contract with the ingest | one value that the server refuses stops the upload | what is stored is accepted | `WireFormat`, `SiteFiles`, `CapturePlan` |
| uploader (`uploader/{uploader,batch,timeline,state}.py`) | state file: cursors, server anchors; in memory: batch size, waits | ensure cursor, build, move times, send, accept, give up, halve, heartbeat | requests to ingest; delivers configurations to the applier | a lost answer; a late request; a lost state file; two cursors that must agree; polls held for a clock | nothing skipped, stored twice or misplaced; the backlog drains; never silent for long | `LiveUpload`, `Delivery`, `SendLoop`, `TimeLine`, `Buffer` |
| ingest merge (`ingest/routes.py`, `ingest.sql`, `schema.sql: ingest_merge`) | sensor's rows, `sensor_seq_gaps`, `ingest_state` | merge one batch in one transaction | moves the refresher's mark; closes events | the same batch again, built differently; two batches at once | idempotent by natural key; gaps say what never arrived | `LiveUpload`, `Refresher`, `Buffer` |
| ingest checks and requests (`validate.py`, `tokens.py`, `ratelimit.py`, `routes.py`) | buckets and failures in memory, pool, semaphore | accept, refuse, block, wait | before the merge | a semaphore inside a pool; failures of one address | limits are kept, a refusal changes nothing | `IngestService`, `WireFormat`, `SendLoop` |
| stalls and events (`stalls.py`, `heartbeat.py`) | status rows, `sensor_events`, adapter record | heartbeat, stall checks, open and close an event | ingest, API | two transactions open the same event; partial reports | the open events say what the requests went through | `IngestService` |
| refresher (`refresher.py`, `schema.sql: refresh_rollups`) | `dirty_from`, marks in memory, rollup tables | round, take, refresh, fail, restore, killed | marks from ingest | the mark and the refresh commit apart; a batch in between | an incremental refresh leaves what a full one would | `Refresher` |
| configuration applier (`config_apply.py`, `capture_config.py`, systemd units) | two configuration files, `last-good/`, `applied`, `attempt`, `result`, `refused/`, `desired` | check, apply, verify, roll back, recover | restarts Kismet and the collector, pauses the hop guard | a power cut between any two writes; kills; failing restarts | boots on verified files; says truly what became of a configuration | `ConfigApply`, `CapturePlan`, `SiteFiles` |
| configuration delivery (`ingest/config.py`, `configsync.py`, `v2/writes.py`) | versions, what was reported, boundaries | save, deliver until reported, retry, report, confirm | applier's files through the heartbeat | repeated and late reports, saves during an apply, a replaced buffer | one try per save; boundaries where the sensor says | `ConfigDelivery`, `CapturePlan` |
| hop guard (`hop_guard.py`) | what it read, back-off | check, ask, push | Kismet; the applier's verification | the file is rewritten between read and push | one whole check restores the list | `HopGuard` |
| capture watchdog (shell) | strikes, re-plug time | restart, reload, power-cycle | Kismet, systemd, USB hub | - | - | not modelled (section 9) |
| pre-start, log retention, clock save (shell) | files | clean up | Kismet | - | - | not modelled |
| dashboard reads (`v2/{deps,respcache,apcache}.py`, `cache.py`) | caches in memory, versions in the database | tag, look up, keep, answer 304 | every write and refresh | a cached answer older than a write | a page opened after a change shows it | `ReadCache` |
| event feed (`v2/routes/events.py`) | none (cursor of the client) | group, page, count | labels, arrivals between pages | ties, groups that move | each steady row exactly once | `EventFeed` |
| periods (`v2/periods.py`) | none | edges, blocks, epoch | every chart, the tags | a change of the zone's offset | buckets tile the period | `Periods` |
| operator writes (`v2/routes/{settings,events,aps}.py`, `v2/writes.py`) | operator tables, `audit_log` | label, save, networks, configuration, delete | caches, delivery | two transactions that overlap | the journal explains the state | `OperatorWrites`, `CapturePlan` |
| sensor coverage (`schema.sql: sensor_hourly`, `v2/shape.py: day_coverage`) | hourly rows | refresh, shares of a day | charts | hours kept as counts | the shares account for the day | `SensorCoverage` |
| queries and shapes of the dashboard | - | - | - | - | - | not modelled (section 9) |
| detectors (`detection/{detections,deauth_flood,evil_twin}.py`) | stored findings | read, merge, grade, match, store | alerts and polls that arrive late; labels | windows that cut an episode; a one-pass window with a reset | one row per episode; deviations against the right baseline | `FloodRules`, `Detections`, `EvilTwin` |
| seed import and export (`seed/`) | none (one SQL stream) | stage, merge, commit, refresh | live ingest, refresher | the stream ends anywhere | what is committed reaches the rollups | `SnapshotImport` |
| evaluation (`evaluation/`) | trial log | match, count, clean hours | stored or dumped findings | overlaps, guards, other detectors | numerator and denominator agree | `Evaluation` |
| sensor analysis scripts, operations scripts, frontend | - | - | - | - | - | not modelled (section 9) |

Every hazard met while reading is listed at its line in `PROJECT.json`
(`hazards`), with the properties that would catch it or the reason none does.

### How the instances are put together

A small instance of `LiveUpload` or `ConfigApply` alone has more than a million
states, so programs that share no state in these models are not multiplied with
each other: `MCUpload`, `MCOperator` and `MCServer` hold several of them as
*parts*. `part` is chosen in the initial state and kept; a behaviour is one part
at work, the variables of the others rest. A property of a part says
`part = "..." => ...`. The parts that are proved about are put together in
`Upload`, `Operator` and `Server`, with the assumptions on their constants; the
MC modules add the values, and the parts that are only checked. Where two parts do interact the interaction is in one
module: upload and merge in `LiveUpload`, marks and merges in `Refresher` and
`SnapshotImport`, heartbeats, applier and polls in `ConfigDelivery`, restarts by
others (`Respawn`) in `ConfigApply`, rewrites by the applier in `HopGuard`.

| run | parts | about |
|---|---|---|
| `upload_safety` | pipeline, time line, format, send loop | sections 2 and 3 |
| `upload_live` | pipeline under fairness | section 2 |
| `buffer` | - | section 3 |
| `refresher` | - | section 4 |
| `operator` | applier, delivery, hop guard, writes; plan | sections 5 and 6 |
| `server` | ingest, reads, import, periods, evaluation, feed, deauth_flood, evil_twin; coverage | section 7 |
| `v_...` | one finding each | section 8 |

Deadlock is checked where the system must always have a next step: the
refresher's loop and the applier (`Rest` lets the other parts of
`operator` stop). The other instances stop when their bounded supply of
polls, requests or events is used up. Symmetry is used where only the identity
of model values differs and only safety is checked: the two saved
configurations of the delivery, the two request threads.

## 2. LiveUpload: no poll skipped, doubled or misplaced

**Correspondence.** `polls`, `observations` and `ntpAnchors` are the buffer's
tables, `cursor` and `anchors` the uploader's state file, `maxPolls` the batch
size a 413 halves, `request` the HTTP request the uploader waits for and `late`
the requests it gave up on that may still arrive; `srvPolls`, `srvObs`,
`srvGaps` are the server's rows. `Poll` is `write_poll` and
`write_failed_poll`, `Prune` the main loop's prune, `Send` the building of a
batch (`Taken`, `HeldPolls`, `LostGaps`, `UnverifiedGaps`, `ConsumedObs`),
`Merge`/`MergeLate` the one transaction of the ingest, `Accepted` the handling
of a 200 (`contact`, then the cursor), `GiveUp` every other end of a request,
`TooLarge` a 413, `Heartbeat` a contact between batches, `EnsureCursor` the
resume point, and `StateLoss`, `NewBuffer`, `Reboot` the environment. `made`
and `losses` are history. Row ids follow SQLite: in a table without AUTOINCREMENT
the next id is one more than the largest one left (`IsNextId`).

**Time.** Poll *n* happens at true time 2n. A row carries what `read_clock`
reads: the wall clock, which an unsynchronised boot shows behind by its drift,
and the monotonic clock, which starts anew with each boot (`bootTime`). An anchor
is the row of `ntpAnchors` or of the state file: a boot with a wall and a
monotonic time, the server's `err` off (0 or 1, half a poll period). `Placed` is
`timeline.py`'s arithmetic on those two clocks (`EpochTrue` + `mono`) and knows
nothing of the true time; `PlacedTruly` compares its result, as the server
stored it, with the true time. An anchor applied to a poll of another boot is
the mutant it kills.

**Environment assumptions**, as constants. `HeardInRetention`: an access point is
heard at least once in a retention period (14 days), so the observation table
is never pruned empty while newer polls are kept. `LateNtp`: may NTP synchronise
a boot that already has a server anchor.

| run | question | bounds |
|---|---|---|
| `upload_safety` | with the state file kept: `ObservationsFollow`, `UnverifiedNeverStored`, `OneRowPerPoll`, `PlacedTruly`, and the pipeline implements `Delivery` (refinement mapping `Promise`) | 3 polls, 2 boots, batches of 2, one late request, no late NTP |
| `upload_live` | also with one lost state file and one replaced buffer: `Drained` under fairness, `FirstBufferSafe` | 3 polls, 2 boots, 2 buffers, one late request, heard polls only, one drift and one error, no late NTP |
| `v_new_buffer`, `v_replay`, `v_loss` | findings, below | smaller |

Three polls are enough for a batch of two and a rest, a held poll between two
sendable ones, and a pruned poll before both; two boots for a held poll that
becomes unverified or is anchored after the fact; one late request for the only
race of the single-threaded uploader, the request it gave up against the next.
`upload_live` is narrower because liveness is checked on every cycle of its
graph: a failed poll differs from a heard one in its observation alone, which
`Drained` does not speak of. `FirstBufferSafe` is proved without these bounds.
The uploader runs may stop when everything is sent and nothing is left to
happen, so they do not check deadlock.

**Fairness** (`upload_live`). `main` loops until it is stopped and catches every
exception of a tick, so `EnsureCursor`, `Send` and a heartbeat that anchors are
weakly fair; `Merge` and `Accepted` are strongly fair: not every request and not
every answer is lost for ever. Nothing is assumed of NTP, reboots or pruning.

**Proved** (`DeliveryProofs`, any number of polls, boots, buffers, losses and
late requests; its other theorems, and the refinement, are in section 9):
`TypeCorrect`; `StoredWherePlaced` (`PlacedTruly`); and `NothingIsSkipped`
(`FirstBufferSafe`). For `StoredWherePlaced` the invariant `BootInv`
ties both clocks of every poll and every anchor of a boot to the one moment it
was switched on, so that the arithmetic gives the true
time (`NtpPlaces`) or at most `err` more (`ServerPlaces`). The last theorem is far from inductive; `SkipInv` strengthens
it with four facts: the newest poll never leaves the buffer, so a row id is the
number of its poll and is never used twice (`BufferInv`); what a batch under way
or late holds starts where the settled polls end (`BatchInv`); so do the polls
the server stores, which is why the resume point of `EnsureCursor` is safe
(`ServerInv`); and the cursor that waits for an answer is safe once its batch is
stored (`RequestInv`). A settled poll stays settled because an anchor only ever
comes to the running boot (`Onward`).

## 3. What the pipeline model leaves out: Buffer, TimeLine, WireFormat, SendLoop

`LiveUpload` has one cursor, one kind of row and exact clocks. These four
modules model what it abstracts, each for the question it was left out of.

**`Buffer`** (run `buffer`): one access point, its polls and what the collector
derives from them. `Open`, `Upgrade`, `Started` are the opening of the file with
one migration per step, because the collector may be killed between two of
them; `Poll` is `write_poll` with newness, merged channel, configuration history
and hourly load; `Sync` and the anchor release the pending load of the boot
(`Folded`); `Send`, `Answered`, `AnswerLost`, `GivenUp`, `Arrives` are the
batch, its load cursor and what a lost answer or a late batch does. The clock of a
boot is behind or ahead, and `Sync` steps it forward or back; `RollBack` sets the
file's version back at any time, before or after polls and reboots; and `Init`
finds a file of an earlier boot, under any clock, as well as one of this boot.
Bounds: 3 polls with 2 per hour, 2 boots, drifts of one and a half poll periods
in either direction, no file or one of version 6, set back to 7, one fault. Three
polls fill one hour and begin the next; the versions take the whole chain of
migrations and, a second time, the one that rewrites newness. The constraint
`Apart` leaves out states: what is sent reads neither the version nor the clock,
so a version set back, a kill within an upgrade and a boot whose clock is ahead, or
whose upgrade raised `ahead`, run without the uploader. The proofs have no such constraint.
The program of an older version that may run after `RollBack` is not modelled.
- `OpensComplete`: wherever an upgrade was cut, the next start completes it. Also
  proved.
- `EveryHearingObserved`: a poll after which the access point was heard writes an
  observation, but while the clock of the boot has not passed (`ahead`) what it
  showed before it was stepped back, or the sightings and the resume point that
  the migration to version 8 took to be of the running boot (`store.py:535`, which
  says that it runs within the boot that made them). In both cases the code does miss
  hearings, at most until the next reboot. Also proved.
- `LoadReachesServer`: the hourly load is what its observations say, and reaches
  the server - but for hours whose polls wait for an anchor when the load cursor
  passes them (a listed hazard). Also proved.
- `ConfigReachesServer`: no value of a configuration that an observation announced is
  lost; one first heard in a missed hearing waits for the next observation. Also proved.

**`TimeLine`** (part `time line`): true time against wall clocks that are off by
`Skews`, stepped by chrony, anchored by NTP or by the server, and the epochs of
Kismet's frames. `UploadDevice` and `UploadPolls` are
`timeline.py`, the request and the server's bounds in one step. Two boots,
three polls; skews far behind, slightly ahead, and far ahead.
- `TimesArePlaced`: every time the server takes is true; a poll's exactly, a
  frame's but for the four exceptions named at `PlacedTruly`. Also proved.

**`WireFormat`** (part `format`): every column's value from Kismet's JSON through
`shape.py`, SQLite and JSON to `validate.py`, and the fields of a heartbeat. A
column's raw values are the whole range of its type in Kismet, not samples of it;
the widths of the integers and the limits of text are constants, 8, 16 and 32 for 16,
32 and 64 bits in the run, and any that are in this order in the proof.
- `ShapedIsAccepted`: the server takes whatever comes of what Kismet sends, or it
  was never stored: SQLite's driver raises, which ends the collector, because
  `poll_once` catches Kismet's errors only (`collector.py:167`, `:191`); systemd
  starts it again at the last stored poll, where it meets the value again while
  Kismet reports it. The one exception is a `last_result` that quotes an answer
  of more than 200 characters: that heartbeat gets a 422 and the next one quotes
  the 422. Also proved.

**`SendLoop`** (part `send loop`): `tick()` with its two back-offs. A request takes
one unit; polls are small, long when compressed and inflated, too long for any
batch, or rich in rows; two that wait are enough to exceed each of the limits, and
a limit of four polls is halved twice before one is tried alone. `Raise` is a round that
raises, `Restart` a process that starts again; either begins the round anew. The
heartbeat interval of the run, 5, is longer than a first wait and shorter than the
third, so waits of heartbeats grow, are capped and outlive a batch that is taken.
- `SilenceIsShort`: whatever the answers are, the server hears from the sensor
  within the heartbeat interval of the last contact and six fifths of it of the
  last heartbeat that failed, plus a round, unless the oldest poll alone is too
  large: then the loop tries at once for ever and no heartbeat is sent. Also proved.

## 4. Refresher: an incremental refresh leaves what a full one leaves

**Correspondence.** `dirty` is `ingest_state.dirty_from`, `carry` the process's
`_carry`, `queue`/`job`/`pc` where `round_once` is, `summary` the sensors with a
`sensor_summary` row (refreshed before), `hourly` the `sensor_hourly` rows.
`Ingest` is the poll insert of `ingest_merge` with the mark; `Take`, `Start`,
`Read`, `Commit` are the separate moments of one refresh at which committed data
of another transaction can be seen: the statement that takes the mark (it
commits by itself), the choice of the first hour, the statement that reads the
polls, the commit. `TakeUntold` is that first statement when it has committed
and its answer is lost: it stands outside the `try`, so the round ends with the
mark neither stored nor carried. `Fail` covers a refresh that was rolled back
and, with the connection gone, one that committed and whose answer was lost; the
mark is written back at once, in a statement that may itself fail or go
unanswered, or carried to the next round. `Kill` is the end of the process with
a refresh under way. A row is the set of polls and of
gap slots of its hour; the table stores their sizes.

`refresher.cfg`: two sensors, four slots in three hours, a gap longer than one
slot, two ingests, one kill, one lost answer of a take. Two ingests let the second fall before, between or
after the reads of the first one's refresh; a gap over a whole hour fits; two
sensors show a failure ending the round for the other. Deadlock is checked.

- `OneWindowPerMishap`: an hour that differs from a full refresh is reached by a
  mark; each kill and each lost answer of a take (`Mishaps`) loses at most the
  window in hand, and no failed refresh loses one.
- `LagOneRound`: when a round is through, what was stored at its start is in, of
  all sensors but one for each mishap.
- `EventuallyFresh`, with the same exception, under `Fairness`: the loop goes on, and a statement tried
  again and again does not fail every time. Without that a sensor whose refresh
  always fails starves those behind it (a listed hazard).

**Proved** (`RefresherProofs`, any sensors, hours and gap length):
`RefresherTypeCorrect` and `NoWindowLost` (`OneWindowPerMishap`). The core lemma is
`ReadSuffices`: the last poll before the first hour is all of the past that an
incremental refresh needs. The invariant `Safe(s)` says that every stale hour
of a sensor is reached by its earliest mark (`StaleReached`), and, of the
refresh in hand, that a stale hour it will not touch (`HeadKept`) or will write
from polls that are out of date by now (`TailKept`) is reached by a mark that
was set since; `HandInv` that at most one window is in the process's memory.
`LossInv` bounds the sensors that are not safe by the mishaps, `LagInv` those
that are not `OnTime`: `MishapSafe` and `LagMishap` show that a kill and a take
without an answer cost one sensor each, since only one mark is in hand.

## 5. ConfigApply: every power cut leaves a sensor that collects

**Correspondence.** `live` is the pair of running files, `good` the pair under
`last-good/`, `applied`, `attempt`, `result`, `refused`, `desired` the files of
those names; `trig` the pending start of the path unit; `kismet`, `collector`,
`guard` what the processes run on. `job` is the applier or recover process: its
next durable step (`at`), what it is doing, and its verdict. Each `write_atomic`
and each `os.remove` is one action, because the power may fail after any of
them: `keep_last_good` is `KeepSite` then `KeepColl`, `write_files` is
`WriteSite` then `WriteColl`. `Accept` and `Reject` are the checks before the
first write; `Collecting` is what `collecting_polls` can see - the hop list and
the poll interval, not the dwell time. `Killed` is the unit's time limit (or a
kill) without a reboot, `Raises` an exception outside the inner `try`, after
which only the hop guard is started; `Reboot`, `Recover`, `RecoverFails`,
`RecoverRaises`, `Start` are the boot, with the recover unit before Kismet.
`Respawn` is any other restart: the watchdog's, systemd's, and the hop guard's
push of the file's list. A restart that fails leaves the old process running.
`verified`, `tried` and `torn` are history: the pairs of files that verified,
the configurations that were tried and did not, and the places where a run was
cut short.

Part `applier` of the run `operator`: three configurations (one installed, one that differs in the
dwell time alone, one with another list and interval), three deliveries, two
cuts. Three deliveries allow apply, refusal and retry of the same one; two cuts
allow a cut apply followed by a cut recovery, or a killed apply followed by a
reboot. Deadlock is checked.

- `SafeToBoot`: at *every* moment a power cut leads to a pair of files that has
  verified - except after a cut between the two writes of `keep_last_good`
  (`keepColl`), or when last good files could not be written back
  (`unrestored`).
- `AppliedIsRunning`: a boot starts on what `applied.json` names, except after a
  cut between it and the last good copies.
- `NoTryForgotten`: what was tried and did not verify has its marker or is on
  record for the next boot, except after a kill without reboot (`stranded`):
  the next apply overwrites `attempt.json`.
- `ReportIsTrue`: what `result.json` says is true of the files when nothing is
  under way, except after a cut behind the verdict.

Each exception is necessary: without it TLC finds a behaviour of the code that
breaks the property (two of those are the findings below). They are kept in the
properties, by the name of the place, because outside those few instants the
guarantee is unconditional, whatever was delivered before.

**Proved** (`ConfigApplyProofs`, any set of configurations and any number of
deliveries and cuts): type correctness and the part's four invariants. `Control` (what the
process can be doing where) is inductive alone and carries the rest;
`Recorded` (during an apply the attempt on record is this one) and `Restored`
(what a rollback or recovery has written so far is the last good pair) lead to
`BootInv`, `TryInv`, `NameInv` and `TellInv`, one for each property.

## 6. The rest of the capture configuration

**`ConfigDelivery`** (part `delivery`). `versions` are the rows of
`sensor_config`, `notes` the boundaries, `served` the file `desired.json`,
`reported`/`outcome`/`marks` what the applier left for the report, `request` the
heartbeat under way and `late` the ones given up that the server may still
handle. A poll's time is its place in the order of all polls. `Save` is the
operator's; `Beat` sends a heartbeat, `Answer` is the whole route with
`_config_report` and `_config_out` and then the uploader's `configsync`,
`GiveUp` and `HandledLate` the same when the answer is lost; `Begin`, `Apply`,
`RollBack` and `RolledBack` are a try (its inside is `ConfigApply`). Two versions, two polls, one replaced buffer, one reboot, one
late heartbeat: enough for a report that overtakes its polls, a save during an
apply, and a hash that is saved again.
- `BoundariesAreTrue`: the confirmation and the boundary of a version are the
  first collecting poll under it, in whatever order polls and reports arrive
  (while the first buffer is in use). Also proved.
- `OneTryPerSave`: nothing lost, repeated or late makes the sensor try again. Also
  proved.

**`CapturePlan`** over **`SiteFiles`** (part `plan`): the server's rules
(`writes.py`), the sensor's rules (`capture_config.py`), both hashes, the writer
of the two files and their three readers.
- `StoredIsApplied`: what the server accepts the sensor accepts, with the same
  hash; Kismet's walk visits every entry; and the applier, the collector and the
  hop guard read back what was sent. Forms of 0 to 202 entries (the limit is
  200), entries that are no channel, numbers of every JSON type; files as the
  installer leaves them.

**`HopGuard`** (part `hop guard`): read, ask and push are three steps, between
which the file is rewritten, Kismet restarts and the helper crashes. Two
rewrites, crashes and faults and one stop of Kismet; four lists.
- `RestoredByOneCheck`: after the last disturbance one whole check mends the
  list. Also proved.

**`OperatorWrites`** (part `writes`): every write of the dashboard is a read, and
then the locked statements with the audit rows. `DeleteSensor` takes the sensor's
configurations, hardware changes and token with it (an adapter or a log row of the
refresher goes the same way and is in no other request), and the foreign key
refuses what overlaps it: the delete if a row of the sensor arrives between its
statements, the other request if the sensor is gone. A token is made by hand, and
the first upload needs it; neither is audited. Fourteen requests that touch the
same cells, two at a time, three in all.
- `JournalExplains`: read from the start, the audit log gives the state of every
  cell unless two writes overlapped; labels, configurations and hardware changes
  even then. Also proved.

## 7. The server's programs

All in the run `server`, one part each.

**`IngestService`** (`ingest`): a request takes its connection, authenticates,
passes the bucket, is validated, waits for the semaphore and is one transaction;
the `SELECT ... FOR UPDATE` of the status row locks only when the row exists.
Two threads, four requests of eight kinds, one tick of the clock, thresholds of
two; four requests are a stall and its end, twice.
- `EventsTellTheStalls`: the open stall events are those the committed history
  gives, however requests overlapped - but for the first contact (`raced`). Also
  proved.
- `BoundaryBetweenAdapters`: contradicting reports have a boundary in between. Also
  proved.

**`ReadCache`** (`reads`): authentication reads `write_version`, the tag reads
the newest stamps, then the body is looked up or computed and the browser keeps
it. One stamped summary row, one event row; two requests; three pages.
- `EditsAreSeen`: a page opened after an operator's write shows it.
- `FreshWhenOrdered`: and any change of a refresh or a detector, as long as those
  commit in the order of their stamps (`overtaken` is the exception, a hazard).
  Both are also proved.

**`EventFeed`** (`feed`): four events of two times, pages of two, two arrivals or
labels while paging.
- `PagingIsComplete`: an unchanged row is seen exactly once; the counts agree;
  `newer` undoes `older` (unless the older page is empty). Also proved.

**`Periods`** (`periods`): every hour of five weeks around one change of the
offset, forward or back, at six local times.
- `BucketsTile`: buckets and blocks of a day tile the period (blocks only when
  every midnight exists: after a day that starts at one they overlap).
- `EpochNamesBoundaries`: equal epochs mean equal boundaries. Both are also proved,
  for every change of at most an hour, at any hour.

**`SensorCoverage`** (`coverage`): polls, failed polls and silences in two hours of
four intervals; `sensor_hourly` keeps counts, `day_coverage` rebuilds the day.
- `DayIsAccountedFor`: no share is negative, they add up to the time that has
  passed, a silence is not shown as captured.

**`SnapshotImport`** (`import`): the stream's statements, ending anywhere, beside
live merges and the refresher.
- `CommittedIsCovered`: what was committed is in the rollups or reached by a
  mark. Also proved. Here the refresher's take and refresh neither fail nor are
  killed; what they lose then is `Refresher`'s (section 4).

**`Detections`** over **`FloodRules`** (`deauth_flood`): events arrive at any time,
a run reads, then commits; three windows that cut the episodes, three runs. Events
are alerts (floods, and the broadcast ones that corroborate them), polls, and the
access point's device row: before it is there a finding is about the BSSID and no
burst is seen, after it the finding is about the device key (`NamedBy`). One access
point, one of each kind of event and three polls: enough for an episode with and
without bursts, for one that a late event joins with the next, and for runs before
and after the device row.
- `OneRowPerEpisode`: rows stand one to one for episodes, however runs are
  repeated, with three exceptions: runs that read part of an episode (`cut`);
  arrivals that join two episodes or move a burst (`bridged`: a poll that arrives
  late may be the first to show a burst the next poll was taken for); and a device
  row that arrives after a finding (`renamed`): the sink looks for the new subject,
  so an episode found before and after has one row of each, although
  `detections.py:7-9` says that a re-run never duplicates an episode.
- `WholeEpisodeStored`: a run stores every whole episode of its window, about the
  name it knew and with the right grade, keeps ids and labels and, but for `cut` and
  `bridged`, never shrinks a row. Both are also proved, for any events, windows and
  thresholds.

**`EvilTwin`** (`evil_twin`): one action per row of the server-side cursor. Windows
of 3 over up to 6 readings of one access point and 4 of another, at, above and
below the baseline; two windows that deviate make a detection. Six readings are a
drop of two windows and a rise of two in one episode; the second access point's
baseline begins in the middle.
- `DeviationsAreTrue`: the one pass equals the windows computed by definition, one
  outlier never fires, and the channel guard drops exactly what it should. Also
  proved, for windows of at least three readings and floors above zero.
- `SustainedShiftFires`: a level that stays more than a threshold above the baseline
  is reported, and as stronger. The exception (`Outweighed`) is a drop within the
  same episode that is as large as every rise: the code takes the direction of the
  largest deviation, the first of equals (`evil_twin.py:498-500`), so that a rise
  that lasts is then reported as weaker. The detector fires at exactly the threshold
  too (`>=` in `:336`), where its docstrings say more than (`evil_twin.py:14-16`,
  `:319-321`); the property is about what both promise. Also proved.

**`Evaluation`** (`evaluation`): up to two trials, also of one start, and two
detections at five times: the window takes two of them, the edge from which
detections are read as well (`_EDGE`) one on either side, and one is beyond both.
- `ReportIsHonest`: a detection belongs to one trial at most and is then no false
  positive; a log is reported as overlapping exactly when two trials of it are,
  though only neighbours are compared; false positives of the window lie in the hours
  they are divided by, and every organic detection of these hours is counted - for
  trials of the evaluated detector and detections from the database. Those read from
  the hour before and after the window (`__main__.py:27`, `:44-46`) are counted as
  well, though the hours end with the window and `metrics.py:179` calls the count
  in-window: the property names them as its exception. Also proved, for any number
  of trials and any window.

## 8. Findings

Where the code does something else than a document or comment of the
repository says; each has a run that ends in a counterexample.

| run | what happens |
|---|---|
| `v_new_buffer` | the uploader keeps its cursor when the buffer is replaced, so the new buffer's first polls are never sent (`live-upload.md` says a new `buffer_id` starts from the resume point) |
| `v_replay` | a batch rebuilt after an anchor arrived has other times for the same polls and is stored twice |
| `v_loss` | polls merged without an acknowledgement and then pruned are reported as lost |
| `v_refresher_kill` | a refresher killed between taking a mark and committing loses the window |
| `v_config_boot` | power lost inside `keep_last_good()` after a verified apply: the boot starts on a mixed pair |
| `v_config_applied` | power lost after `applied.json`: the boot restores the old files, `applied.json` names the new ones, and delivering them again does nothing |

Smaller disagreements met while modelling. They are exceptions of the properties
above or outside the models, and have no run of their own:

- `detections.py:7-9`: windows that cut an episode leave two rows for it.
- `tests/test_batch.py:172`: a `first_seen` from before a reboot is moved by no
  epoch of its own boot.
- `routes.py:50`, `live-upload.md:612`: a batch that waits for the merge semaphore
  does hold its pool connection.
- `config-delivery.md:64`: an applied version has no boundary when a later one is
  settled first.
- `seed/tests/test_import_snapshot.py:5-7`, `seed/README.md:113`: the importer takes
  versions 2 to 7 (`import_snapshot.py:72`), the collector writes 9
  (`store.py:120`).
- `evaluation/README.md:75`: in the dump of a dry run all ids are 0
  (`evaluation/__main__.py:69`), so one match hides every false positive;
  `groundtruth.py:152` looks at neighbouring trials only; the clean hours leave
  out all attacks (`__main__.py:54`), the false positives only the detector's
  type (`metrics.py:182`).
- `evil_twin.py`, docstring: an unknown address's own deviation raises a finding of
  its own although only trusted members should; both signals of one device
  share type and subject, so one may refresh the other's row (near line 730).
- `deauth_flood.py`, near line 666: a collision in the unique index ends all
  writes of the run.
- An answer of more than 200 characters makes one heartbeat a 422; a single poll
  that is answered 413 is sent for ever without a heartbeat.
- `periods.py` refuses zones with half-hour offsets; blocks overlap after a day
  that starts at one o'clock.

## 9. What is proved, and what is not

Each theorem holds for every value of the constants that its module's
assumptions admit; further hypotheses are in its statement.

| module | theorems | hypotheses |
|---|---|---|
| `DeliveryProofs` | `TypeCorrect`, `StoredWherePlaced`, `NothingIsSkipped` | none |
| | `NoneIsStoredTwice`, `UnverifiedStaysAway`, `ImplementsDelivery`, `ObservationsComeAlong` | `Kept` (no lost state file, one buffer); the first also no late NTP, the last also `HeardInRetention` |
| `BufferProofs` | `TheFileOpens`, `HearingsAreObserved`, `ValuesReachTheServer`, `TheLoadReachesTheServer` | clocks show a time after 1970 (`DriftsAssumption`); client counts and configuration values are numbers |
| `UploadProofs` | `TimesAreTrue`, `ShapedPasses`, `ServerHearsSoon` | times are numbers, boots are counted from 1 (`LineAssumption`); a wider integer type holds what a narrower one does, the narrowest holds a radio's level, the widest the clock, and a text as long as a hash is within the limit (`FormatAssumption`); limits, weights and waits are numbers, `CATCHUP_POLLS` and `WATCH_S` not 0 (`LoopAssumption`) |
| `RefresherProofs` | `RefresherTypeCorrect`, `NoWindowLost`, `ChartsLagOneRound` | none |
| `ConfigApplyProofs` | `ApplyTypeCorrect`, `BootsSafely`, `TriesAreKept`, `AppliedIsNamed`, `ReportsAreTrue` | none |
| `OperatorProofs` | `OneTryForEachSave`, `BoundariesTellTheTruth`, `OneCheckRestores`, `AuditExplains` | verifying takes a poll; the model's null is no value; a file without a list is no list (`HopAssumption`) |
| `ServerProofs` | `EditsReachThePages`, `ChangesReachThePages`, `ImportIsCovered`, `BoundariesBetweenAdapters`, `EventsFollowTheHistory`, `BucketsAlwaysTile`, `EpochsNameBoundaries`, `ReportsFitTheTrials`, `PagesAreComplete` | thresholds are not zero; some table belongs to a refresh and another to a detector; an import has a last time; a zone changes its offset once, by at most an hour (`ZonesAssumption`); times and slacks of trials are numbers (`TrialsAssumption`); a page has at least one row and there is a label (`FeedAssumption`) |
| `DetectorProofs` | `EpisodesHaveOneRow`, `EpisodesAreStoredWhole` | finitely many events and access points; times and thresholds are numbers; the background is known for every count of bursts and polls (`FloodAssumption`) |
| | `DeviationsAreRight`, `ShiftsAreReported` | device keys are numbers from 1; levels, times and thresholds are numbers; a window and a detection take at least one reading, the floor of a shift is not negative (`TwinAssumption`); the first also `Sensible`: a window takes at least three, and the floors of a shift and of a spread are above zero |

The hypotheses are those under which the property is true: `v_new_buffer` and
`v_replay` show what happens without `Kept` and with late NTP. A zone that
changed its offset by two hours would make buckets two hours longer or shorter
than their step. With windows of one or two readings an outlier would be the
median, or half of it, and with a floor of zero a window on its baseline would
deviate: `--window` and `--floor-db` are the operator's to set (10 readings and 8 dB
by default); the floor of the spread is 6 dB.

- *Stored once* (`DeliveryProofs`). `OnceInv`: a poll has one row in the buffer;
  every batch gives it the place the buffer gives it (`Placed`), and a place, once
  given, does not change, because without late NTP an anchored boot gets no
  second anchor. So two rows of one poll have one key. `GapInv` adds that of a poll
  reported unverified nothing was sent, and that what the buffer still has of it
  stays unverified (`Lapsed`): its boot is over, and no anchor comes to it.
- *Refinement* (`DeliveryProofs`). `MadeInv`: the polls made are
  `1..now`, each with its number as row id, only they are sent, and a cursor under
  way is never behind the acknowledged one. For each action of the pipeline a
  lemma says what it does to the promise's variables (polls made, still alive,
  released, stored), and each is a step of `Delivery` or a stutter.
- *Observations* (`DeliveryProofs`). `ObsInv`: under `HeardInRetention` the
  newest observation outlives every prune, so observation ids are never used
  twice; the two cursors are coherent (`Coherent`: an observation behind the one
  belongs to a poll behind the other); and a batch carries the observations of the
  polls it carries.
- *One round of lag* (`RefresherProofs`). A sensor is `OnTime` when every
  poll missing from its hours is marked or in hand (`PollKept`) and every one
  stored at the beginning of the round is still going to be written in it
  (`RoundKept`); every step keeps it so, whatever is ingested between the reads
  of a refresh, but a kill, which takes at most one sensor away.
- *The buffer* (`BufferProofs`). `FileOK`: a column is missing from the file only while
  its migration is still to come. `HearInv` compares the times that newness is decided
  by with what the boot's clock showed at the newest poll (`Told`): the resume point
  and the newest frame the device row knows of this boot lie at or before it, a
  frame heard since lies after them (`FreshOK`), unless they are no greater than
  `ahead` (`Passed`), which a step back and the migration to version 8 raise to
  whatever they leave in the future.
  `ConfInv`: every value of a stored observation is current or in the history
  (`ValuesKept`), and whatever a batch or the server holds of some polls has their
  history, and a row with the other values if it has the newest observation (`Fits`).
  `LoadInv`: the table of the hourly load is what the settled observations make
  (`Exact`), and a load cursor that has passed an hour leaves nothing of it unsent
  (`CursorOK`), for which it needs `HearInv`'s order of the times. The sums and folds of
  the model are given by recursion over a set; `SumsUp` shows that the order of
  the recursion does not matter, as no smallest set of rows can contradict it
  (`SmallestSet`), and then `FoldedIs` that folding polls into the table
  gives the table of the polls together.
- *True times* (`UploadProofs`). `LineInv`: all polls of a boot agree on when it began,
  and those before chrony's step on the error of its clock; either anchor, NTP's
  or the server's, names the same beginning. So the difference of the two epochs
  is that error, and moving a stale time by it makes it true.
- *Format* (`UploadProofs`). Every value of every column `Passes`: its coercion makes
  nothing of it and the column may be empty, or something SQLite cannot hold, or
  something within the server's check. One step per column, by what its
  coercion does to the range Kismet sends.
- *Send loop* (`UploadProofs`). `SendInv` keeps the deadline ahead of what may still hold a
  heartbeat back: while the wait of the heartbeats goes on, that wait and a round;
  while the interval runs, what is left of it and a round; and when a heartbeat
  is due, two units for each try at once that is left (`Tries`, how often the
  polls per batch can still be halved). A 413 takes one of these (`HalvedStep`): at
  one poll the batch is the oldest poll, which is not too large if it fits
  (`OneIsNotTooLarge`).
- *Delivery of a configuration* (`OperatorProofs`). `DeliveryInv`: the card's word on a
  retry is the one the server would give (`DesiredOK`), a result belongs to a start
  that is spent (`ReportsOK`), and a refusal still to be handled late changes nothing
  of an older version, because it was told again before the card got the next
  one (`LateOK`). So no version is written, and started, twice, and tries are bounded by
  the saves whose start is spent (`TriesOK`). `BoundaryInv`: a version ran once
  (`RanOK`), and whatever says it was applied - the outcome, a heartbeat on its way
  or late, a confirmation, a boundary - names its first poll (`ToldOK`).
- *Hop guard* (`OperatorProofs`). `CheckInv`: a check that began after the last
  disturbance holds the file's list, so its push, or its comparison, leaves it.
- *Audit log* (`OperatorProofs`). The property is inductive (`WriteInv`); the work is in the
  handlers (`CommitExplains`): what a transaction writes and what it tells agree on
  every cell if it read the present state, and on labels, configurations and
  hardware changes even if another write came between its read and its lock.
- *Reads* (`ServerProofs`). `ReadsInv`: whatever a cache, a request or the browser
  keeps under a tag is at least as new as everything the tag can stand for,
  because the versions are read before the data; so a match of tags never answers
  with something older than the page. Which entries are evicted does not matter.
- *Import* (`ServerProofs`). The transaction that inserts an import's polls sets the
  mark at or before each of them (`MarksItsOwn`), and a refresh that takes the mark
  keeps it as `job.from` until it commits.
- *Adapters* (`ServerProofs`). `AdaptersInv`: every report in the history is before the
  newest boundary, or the adapter record agrees with all it says (`RecordOK`); so a
  report that contradicts an earlier one finds it in the record, or a boundary
  after it.
- *Stalls* (`ServerProofs`). `StallsInv`: the stall fields of a status row tell the last
  run of refusals in the sensor's committed history (`RunTold`), and a request
  that has read a row holds its lock, so that what it writes follows from the
  present row. A row that does not exist cannot be locked: two first contacts may
  both read none (`raced`), and the property excepts them.
- *Periods* (`ServerProofs`). `UtcOrders`: a local time has come at a moment exactly when
  the clock shows it or a later one then, also in the hour that exists twice and
  after the one that does not. The local edges are a step apart, the last of them
  at or before the clock (`LocalsAre`), so the edges in UTC are (`UtcSteps`), and two
  local edges never are one moment (`UtcDistinct`).
- *Evaluation* (`ServerProofs`). `EvaluationInv`: a trial lasts and its id tells it
  from the others, a detection has one date at most, and in the database its id
  tells it from the others. A finite set in order is a sequence (`SequenceOf`, by the
  least size without one), in which every member appears (`SequenceHasAll`), by start and then id, so two
  trials that overlap have neighbours between them that do.
- *Event feed* (`ServerProofs`). Rows have places of their own (`RowsPlaced`), so any
  set of them has one order (`InOrderIs`). `FeedInv`: the rows shown so far descend,
  the cursor is the last one's place, and a row that stayed as it was is among them
  or follows the cursor; so the next page goes on after it (`OlderPage`) and the last
  leaves none. While nothing changes, the page before is the last before this one
  (`Returns`), which is what the page toward newer rows fetches (`NewerPage`).

- *Episodes* (`DetectorProofs`). The rules sort, group and count by folding; each fold is
  a function on the subsets of what is folded (`FoldExists` in `ServerProofs`, built up by size), so
  what one step keeps, the fold keeps, and the order in which it takes the
  elements does not matter. Two episodes are more than the gap apart, so a window
  near one that lies within another is in the same (`OnePlace`): matching a
  finding with the rows of its subject by overlap is matching episodes, for each
  subject by itself; `NamesInv` adds that, unless a device row came late
  (`renamed`), all rows and findings are about the name the access point has now. `FloodInv`: unless
  something was cut or joined, the rows stand one to one for episodes of what has
  arrived and also of what the run under way has read, the latter's episodes have
  only gained since (`Stays`), and what a run reads are whole episodes. So the sink
  writes each finding into a row of its own, which no later finding of the run
  takes (`SinkIs`).
- *One pass* (`DetectorProofs`). `TwinInv`: the rows read so far are in the cursor's
  order, so the compared ones of a device (`Picked`) grow at their end while its
  group is under way and not at all afterwards (`PickedGrows`); the window in memory
  is the end of them (`Recent`), which pushing a reading keeps (`RecentIsWindow`); so the
  windows found are those of the definition. If all readings but one are equal, so
  are all but one of their distances from the median, and from three readings on the
  middle ones of both are the equal ones (`MostlyMid2`). In rising times the ones
  below a bound are the first so many, which is what the binary search counts
  (`BisectIs`).
- *Lasting shifts* (`DetectorProofs`). Each of the last `Persistence` windows has only
  readings a threshold above the baseline, so has its median (`KthAtLeast`). Neighbours
  among them are no further apart than the gap, so all lie in the episode of the last
  (`ShiftedIsReported`); no compared reading is later, so it ends there. And the two
  pointers count at least what lies within the width of the right end: the left
  one never passes a time within it (`WindowReach`). The last of them is a rise of that
  episode, so a largest deviation that is not a rise is a drop no rise exceeds (`DirectionIs`).

The arguments of the first row of the table, `RefresherProofs` and
`ConfigApplyProofs` are in sections 2, 4 and 5.

**Only model-checked**, and why:
- `Drained`, `EventuallyFresh`: the prover does not reason about fairness.
- `DayIsAccountedFor`: sums of divided and rounded seconds over slots and hours.
- `StoredIsApplied`: Kismet's walk with a step that has no common divisor with the
  length visits every entry; that is number theory the provers do not have.

**Abstracted in what is modelled**: the poll's other columns; seconds (units that
keep the order of the intervals); the upload log and staging tables; AP hours,
nightly baselines and the duty-cycle delay of the refresher; wording of summaries;
the trusted-set heuristics of `evil_twin` beyond what its findings use.

**Not modelled**, and why:
- capture watchdog, Kismet pre-start, log retention, clock save: shell scripts
  whose effect is on systemd, USB and the file system; their interference with
  the applier is in `ConfigApply` (`Respawn`) and with the hop guard in
  `HopGuard`.
- the Kismet HTTP client: pure I/O; its failures are `write_failed_poll`.
- sensor analysis scripts: offline, straight-line statistics over a finished data
  set, without state.
- queries and shapes of the dashboard: read-only SQL and formatting.
- operations scripts and the web frontend: `pg_dump`, docker, presentation. The
  frontend has a store of its own: a page opened after a write may be handed a
  read that began before it and is still under way (`server/frontend/src/data/store.js`, `fetchKey`),
  so the properties of `ReadCache` are about what the browser is answered.

## 10. What is left

In this order: a composition of `ConfigDelivery` with `ConfigApply` in one
instance (sharing `desired`, `applied`, `result`; today the first abstracts the
second's kills); the capture watchdog with its rate limit against the applier's
verification window of 300 s; the alert cursor beside the poll and load cursors.
