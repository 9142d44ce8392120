------------------------------ MODULE Periods ------------------------------
(***************************************************************************)
(* The periods of the dashboard (api/app/v2/periods.py): a range is cut     *)
(* into buckets at local times, the buckets are joined with hourly rows in   *)
(* UTC, and the start of the current bucket stands for all boundaries in     *)
(* the ETag.  Time is in hours: the code refuses zones without whole-hour   *)
(* offsets.  A zone changes its offset once within the horizon, forward or   *)
(* back, at some hour of the local day - or at midnight itself.              *)
(***************************************************************************)
EXTENDS Integers, Sequences, FiniteSets

CONSTANTS
    Zones,          \* [at, before, after]: the UTC hour of the change, the offsets
    From, To        \* the first and the last hour of the model (a bound)

VARIABLES zone, now

vars == <<zone, now>>

Larger(a, b) == IF a > b THEN a ELSE b
Smaller(a, b) == IF a < b THEN a ELSE b

-----------------------------------------------------------------------------
(* Local time.  A time that exists twice is the first one; one that does not
   exist is read with the offset before the change. *)

Offset(utc) == IF utc < zone.at THEN zone.before ELSE zone.after
Wall(utc) == utc + Offset(utc)

\* As ToUtc with the offset of now: the buckets are cut in UTC.
ToUtcToday(wall) == wall - Offset(now)
ToUtc(wall) == wall - (IF wall < zone.at + Larger(zone.before, zone.after) THEN zone.before ELSE zone.after)

-----------------------------------------------------------------------------
(* period(): n buckets of step local hours, the last one begun already. *)

Steps == [range \in {"24h", "7d", "30d"} |-> CASE range = "24h" -> 1 [] range = "7d" -> 6 [] OTHER -> 24]
Counts == [range \in {"24h", "7d", "30d"} |-> CASE range = "24h" -> 24 [] range = "7d" -> 28 [] OTHER -> 30]
Ranges == DOMAIN Steps

\* The n + 1 local edges, the n-th of them the last before now.
LocalEdges(step, n) == LET last == Wall(now) - (Wall(now) % step) IN [i \in 1..n + 1 |-> last - step * (n - i)]

\* The edges in UTC.  The 24 hours are counted in UTC at once.
Edges(range) ==
    IF range = "24h" THEN [i \in 1..25 |-> now - (24 - i)]
    ELSE LET local == LocalEdges(Steps[range], Counts[range]) IN [i \in DOMAIN local |-> ToUtc(local[i])]

\* As Epoch, but the day of now for every range.
EpochOfDay(range) == now \div 24
Epoch(range) == Edges(range)[Counts[range]]

\* blocks(): each bucket of a day cut into blocks of some local hours, the last
\* one cut off at the end of the day; empty ones are dropped.
Blocks(range, hours) ==
    LET edges == Edges(range)
        cut(i) == LET day == Wall(edges[i])
                  IN  {<<ToUtc(b), ToUtc(Smaller(b + hours, day + 24))>> : b \in {day + k * hours : k \in 0..(23 \div hours)}}
    IN  {ab \in UNION {cut(i) : i \in 1..Counts[range]} : ab[1] < ab[2]}

-----------------------------------------------------------------------------
\* A page is opened at any moment, and refreshed every hour from then on.
Init == zone \in Zones /\ now \in From..To

Tick == now < To /\ now' = now + 1 /\ UNCHANGED zone

Next == Tick

Spec == Init /\ [][Next]_vars

-----------------------------------------------------------------------------
(* Properties *)

InGap(wall) == wall >= zone.at + zone.before /\ wall < zone.at + zone.after

\* The blocks of four hours tile the period as well, where every midnight
\* exists: after a day that starts at one o'clock they overlap.
BlocksTile ==
    LET edges == Edges("30d")
        blocks == Blocks("30d", 4)
    IN  {Wall(edges[i]) % 24 : i \in 1..30} = {0} =>
            /\ \A ab \in blocks : ab[2] - ab[1] \in 3..5 /\ ab[2] \in {cd[1] : cd \in blocks} \cup {edges[31]}
            /\ Cardinality({ab[1] : ab \in blocks}) = Cardinality(blocks)

(* Every hour from the start of a period to the end of its current bucket is in
   one bucket, now in the last one; each bucket starts at its local time, or as
   late as the clock allows when the clock skips that time, and is as long as
   docs and charts say, give or take the hour of the change.  So it is with the
   blocks of a day. *)
BucketsTile ==
    /\ \A range \in Ranges :
        LET edges == Edges(range)
            n == Counts[range]
        IN  /\ edges[n] <= now /\ now < edges[n + 1]
            /\ \A i \in 1..n :
                 /\ edges[i + 1] - edges[i] \in
                      IF range = "24h" THEN {1} ELSE {Steps[range] - 1, Steps[range], Steps[range] + 1}
                 /\ Wall(edges[i]) % Steps[range] = 0
                    \/ (InGap(Wall(edges[i]) - 1) /\ (Wall(edges[i]) - 1) % Steps[range] = 0)
    /\ BlocksTile

(* A 304 never keeps the boundaries of another hour, window or day: two moments
   with the same epoch have the same boundaries, also around a change. *)
EpochNamesBoundaries ==
    [][Tick => \A range \in Ranges : Epoch(range)' = Epoch(range) => Edges(range)' = Edges(range)]_vars

=============================================================================
