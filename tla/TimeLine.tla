------------------------------ MODULE TimeLine ------------------------------
(***************************************************************************)
(* How the times of one access point get from a sensor without a clock to  *)
(* the server.  Every boot starts on a wall clock that is off by an        *)
(* unknown amount; chrony may step it, the collector records one anchor    *)
(* per boot at its first synchronised poll (collector/store.py), the       *)
(* uploader may make an anchor of the server's time, and timeline.py moves *)
(* the times of a batch with them.  The server refuses a batch with a time *)
(* outside its bounds (ingest/validate.py) and keeps the earliest          *)
(* first_seen and the latest last_seen (schema.sql ingest_merge()).        *)
(*                                                                         *)
(* A unit of time stands for the shortest interval that matters; an upload *)
(* is one step, because LiveUpload.tla treats its failures.                *)
(***************************************************************************)
EXTENDS Integers, Sequences, FiniteSetsExt, SequencesExt

CONSTANTS
    Boots,          \* the boots, 1..n
    Skews,          \* by how much a boot's wall clock may be off at its start
    Start, End,     \* the true times of the model (a bound)
    MaxPolls,       \* polls in the buffer (a bound)
    MinTs,          \* validate.MIN_TS
    Future,         \* validate.FUTURE_S
    MinShift,       \* timeline.MIN_SHIFT_S
    Margin,         \* timeline.WINDOW_MARGIN_S
    MaxBoots,       \* boots[] of one batch that the server takes
    CatchUp,        \* polls of one batch
    None

VARIABLES
    now,            \* true time
    boot,           \* the current boot
    booted,         \* true time at which it started: mono = now - booted
    skew,           \* error of its wall clock at its start
    stepped,        \* true time at which chrony stepped the clock, or None
    polls,          \* the buffer's polls; of each also the true time (at) and
                    \* the frame of the access point it stored, if any
    anchors,        \* clock_anchors: boot |-> [wall, mono] or None
    serverAnchors,  \* state.json: the same, of the server's time
    device,         \* the access point's row of the buffer, or None
    cursor,         \* polls_id of the upload cursor
    stored,         \* the times the server has taken, each with its true time
    row,            \* the access point's row on the server, or None
    refused         \* the reasons of the last batch's 422, {} when it was taken

vars == <<now, boot, booted, skew, stepped, polls, anchors, serverAnchors, device, cursor, stored, row,
          refused>>

\* The wall clock at the true time t of this boot.
Wall(t) == IF stepped = None \/ t < stepped THEN t + skew ELSE t

Init ==
    /\ now = Start /\ boot = 1 /\ booted = Start /\ skew \in Skews /\ stepped = None
    /\ polls = <<>> /\ anchors = [b \in Boots |-> None] /\ serverAnchors = [b \in Boots |-> None]
    /\ device = None /\ cursor = 0 /\ stored = {} /\ row = None /\ refused = {}

Tick ==
    /\ now < End
    /\ now' = now + 1
    /\ UNCHANGED <<boot, booted, skew, stepped, polls, anchors, serverAnchors, device, cursor, stored, row, refused>>

\* chrony's makestep: at the first update after the boot.
Step ==
    /\ stepped = None
    /\ stepped' = now
    /\ UNCHANGED <<now, boot, booted, skew, polls, anchors, serverAnchors, device, cursor, stored, row, refused>>

Reboot ==
    /\ boot + 1 \in Boots
    /\ boot' = boot + 1 /\ booted' = now /\ skew' \in Skews /\ stepped' = None
    /\ UNCHANGED <<now, polls, anchors, serverAnchors, device, cursor, stored, row, refused>>

-----------------------------------------------------------------------------
(* The collector. *)

LastPollAt == IF polls = <<>> THEN Start - 1 ELSE Last(polls).at

\* devices: first_seen is the MIN and last_seen the MAX over all boots.
Sighted(first, last) ==
    IF device = None
    THEN [first |-> first, last |-> last]
    ELSE [first |-> Min({device.first, first}), last |-> Max({device.last, last})]

\* A poll; the access point was heard in it (f is the true time of its latest
\* frame, of this boot and not seen by an earlier poll) or not (f = None).
Poll(f) ==
    LET p == [boot |-> boot, mono |-> now - booted, ts |-> Wall(now), synced |-> stepped # None, at |-> now,
              heard |-> f # None, last |-> IF f = None THEN 0 ELSE Wall(f), lastAt |-> IF f = None THEN 0 ELSE f]
        firstOfBoot == {Wall(f)} \cup {polls[i].last : i \in {j \in DOMAIN polls : polls[j].boot = boot /\ polls[j].heard}}
    IN  /\ Len(polls) < MaxPolls /\ LastPollAt < now
        /\ f # None => f \in Max({booted, LastPollAt + 1})..now
        /\ polls' = Append(polls, p)
        /\ device' = IF f = None THEN device ELSE Sighted(Min(firstOfBoot), Wall(f))
        /\ anchors' = IF p.synced /\ anchors[boot] = None
                      THEN [anchors EXCEPT ![boot] = [wall |-> p.ts, mono |-> p.mono]]
                      ELSE anchors
        /\ UNCHANGED <<now, boot, booted, skew, stepped, serverAnchors, cursor, stored, row, refused>>

-----------------------------------------------------------------------------
(* timeline.py *)

Unsynced(b) == {i \in DOMAIN polls : polls[i].boot = b /\ ~polls[i].synced}

\* Boot: its anchor, source, stale epoch and stale window.  Every poll of the
\* boot counts, those after the batch too (batch.boots()).
Anchor(b) == IF anchors[b] # None THEN anchors[b] ELSE serverAnchors[b]
Anchored(b) == Anchor(b) # None
EpochTrue(b) == Anchor(b).wall - Anchor(b).mono
StepMono(b) == anchors[b].mono
HasStale(b) == Unsynced(b) # {}
EpochStale(b) == LET p == polls[Min(Unsynced(b))] IN p.ts - p.mono
Delta(b) == EpochTrue(b) - EpochStale(b)
InStaleWindow(v, b) ==
    /\ HasStale(b)
    /\ v >= EpochStale(b) + Min({polls[i].mono : i \in Unsynced(b)}) - Margin
    /\ v <= EpochStale(b) + Max({polls[i].mono : i \in Unsynced(b)}) + Margin

Fate(p) ==
    IF p.synced \/ Anchored(p.boot) THEN "send"
    ELSE IF p.boot = boot THEN "hold" ELSE "unverified"

PlacePoll(p) == IF p.synced THEN p.ts ELSE EpochTrue(p.boot) + p.mono

\* As PlaceKismet for a server anchor, whatever the boot's anchor is: no step line.
PlaceKismetAlways(v, b) ==
    IF Anchored(b) /\ HasStale(b) /\ Delta(b) >= MinShift THEN v + Delta(b) ELSE v

\* A Kismet time is moved when it lies below the stale clock's reading at the step.
PlaceKismet(v, b) ==
    LET stale == anchors[b] = None \/ v < EpochStale(b) + StepMono(b)
    IN  IF Anchored(b) /\ HasStale(b) /\ Delta(b) >= MinShift /\ stale THEN v + Delta(b) ELSE v

\* A device-level value, placed with the boots of the batch, tried in any order.
Placeable(v, bs) ==
    LET hit == {b \in bs : InStaleWindow(v, b)}
        placed(b) == IF ~Anchored(b) THEN None
                     ELSE IF Delta(b) >= MinShift THEN v + Delta(b)
                     ELSE IF -Delta(b) < MinShift THEN v ELSE None
    IN  IF hit = {} THEN {v} ELSE {placed(b) : b \in hit}

-----------------------------------------------------------------------------
(* batch.build(), validate.batch() and the merge *)

Due == SubSeq(polls, cursor + 1, Min({cursor + CatchUp, Len(polls)}))

\* The polls up to the first one that is held.
Taken ==
    LET held == {i \in DOMAIN Due : Fate(Due[i]) = "hold"}
    IN  IF held = {} THEN Due ELSE SubSeq(Due, 1, Min(held) - 1)

Sent == {p \in ToSet(Taken) : Fate(p) = "send"}
BootsOf(ps) == {ps[i].boot : i \in DOMAIN ps}
Corrected == {p.boot : p \in {q \in Sent : ~q.synced}}

PollTimes == {[ts |-> PlacePoll(p), at |-> p.at, boot |-> p.boot, kind |-> "poll"] : p \in Sent}
FrameTimes == {[ts |-> PlaceKismet(p.last, p.boot), at |-> p.lastAt, boot |-> p.boot, kind |-> "kismet"] :
                   p \in {q \in Sent : q.heard}}

\* The device row of the batch: [first, last], first one of the values the
\* order of the boots allows.
LastSeen == Max({r.ts : r \in FrameTimes})
DeviceRows ==
    {[first |-> Min({IF v = None THEN Min({r.ts : r \in FrameTimes}) ELSE v, LastSeen}), last |-> LastSeen] :
        v \in Placeable(device.first, BootsOf(Due))}

Past(ts) == ts < MinTs
Ahead(ts) == ts > now + Future

\* The reasons for a 422 that the times of the batch and its boots[] give.
Refusals(times) ==
    {reason \in {"past", "future", "boots"} :
        \/ reason = "past" /\ \E ts \in times : Past(ts)
        \/ reason = "future" /\ \E ts \in times : Ahead(ts)
        \/ reason = "boots" /\ Cardinality(Corrected) > MaxBoots}

\* The server's row keeps the least first_seen and the greatest last_seen.
Merged(d) ==
    IF row = None THEN d ELSE [first |-> Min({row.first, d.first}), last |-> Max({row.last, d.last})]

Answered(times, newRow) ==
    LET reasons == Refusals(times)
    IN  /\ refused' = reasons
        /\ IF reasons = {}
           THEN /\ cursor' = cursor + Len(Taken)
                /\ stored' = stored \cup PollTimes \cup FrameTimes
                /\ row' = newRow
           ELSE UNCHANGED <<cursor, stored, row>>
        /\ UNCHANGED <<now, boot, booted, skew, stepped, polls, anchors, serverAnchors, device>>

\* An upload whose polls heard the access point, and one whose polls did not.
UploadDevice ==
    /\ Taken # <<>> /\ FrameTimes # {}
    /\ \E d \in DeviceRows :
         Answered({r.ts : r \in PollTimes \cup FrameTimes} \cup {d.first, d.last}, Merged(d))

UploadPolls ==
    /\ Taken # <<>> /\ FrameTimes = {}
    /\ Answered({r.ts : r \in PollTimes}, row)

\* Contact without NTP while polls of this boot are held.
ServerAnchor ==
    /\ serverAnchors[boot] = None /\ anchors[boot] = None /\ HasStale(boot)
    /\ serverAnchors' = [serverAnchors EXCEPT ![boot] = [wall |-> now, mono |-> now - booted]]
    /\ UNCHANGED <<now, boot, booted, skew, stepped, polls, anchors, device, cursor, stored, row, refused>>

Next ==
    \/ Tick \/ Step \/ Reboot \/ ServerAnchor
    \/ \E f \in {None} \cup Start..End : Poll(f)
    \/ UploadDevice \/ UploadPolls

Spec == Init /\ [][Next]_vars

-----------------------------------------------------------------------------
(* Properties *)

FirstPollOf(b) == polls[Min({i \in DOMAIN polls : polls[i].boot = b})]

MayBeOff(r) ==
    LET d == Delta(r.boot)
    IN  IF ~HasStale(r.boot) THEN r.at <= FirstPollOf(r.boot).at
        ELSE \/ d < MinShift /\ r.ts = r.at - d
             \/ /\ anchors[r.boot] # None /\ r.ts = r.at + d
                /\ d <= anchors[r.boot].wall - r.at

(* Every time the server has taken is the true time of what it stamps: a
   poll's exactly, a frame's with four exceptions - the boot's clock was ahead
   (the frame stays that much ahead), its error was below MIN_SHIFT_S, its
   error did not exceed the time between the frame and the first synchronised
   poll (the frame is moved although the clock had been stepped), or chrony
   stepped the clock before the boot's first poll, which leaves no stale epoch
   to move by.  docs/live-upload.md 8.3 promises the rest of timeline.py,
   across boots, steps and both kinds of anchor. *)
PlacedTruly ==
    \A r \in stored : r.ts = r.at \/ (r.kind = "kismet" /\ MayBeOff(r))

=============================================================================
