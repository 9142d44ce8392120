--------------------------- MODULE SensorCoverage ---------------------------
(***************************************************************************)
(* What a sensor captured, from its polls to the shares of a day on the      *)
(* sensors page: sensor_hourly and sensor_summary (schema.sql,               *)
(* refresh_rollups) and day_coverage (api/app/v2/shape.py).  Time is counted *)
(* in poll intervals.  An hour's row keeps no more than counts and the       *)
(* seconds of the gaps longer than 90 s, so what a page shows is rebuilt.    *)
(* The seconds of a page are multiples of 1/Scale of an interval.            *)
(***************************************************************************)
EXTENDS Integers, FiniteSets, FiniteSetsExt, TLC

CONSTANTS
    Hour,           \* poll intervals in an hour (a bound: 120 in the code)
    Gap,            \* the 90 s after which a silence counts as a gap
    Days,           \* <<start, end>> of the local days, at whole hours (periods.py refuses other zones)
    Notes,          \* <<start, end>> of the documented windows of limited capture
    Scale,          \* a multiple of every number of polls in an hour, times Hour
    Horizon         \* the last moment (a bound)

VARIABLES
    now,
    polls           \* what the polls found, by time

vars == <<now, polls>>

Kinds == {"ok", "limited", "down"}      \* full hop list, part of it, no capture

Smaller(a, b) == IF a < b THEN a ELSE b
Larger(a, b) == IF a > b THEN a ELSE b
Overlap(ab, cd) == Larger(0, Smaller(ab[2], cd[2]) - Larger(ab[1], cd[1]))

-----------------------------------------------------------------------------
(* The rollups of the polls. *)

\* Two polls in a row that are further apart than Gap.
Gaps == {pq \in (DOMAIN polls) \X (DOMAIN polls) :
            pq[2] - pq[1] > Gap /\ \A t \in DOMAIN polls : t <= pq[1] \/ t >= pq[2]}

HourlyRow(h) ==
    LET of(kinds) == Cardinality({t \in DOMAIN polls : t \div Hour = h \div Hour /\ polls[t] \in kinds})
    IN  [hour |-> h, polls |-> of(Kinds), capture |-> of({"ok", "limited"}), limited |-> of({"limited"}),
         gap |-> MapThenSumSet(LAMBDA g : Overlap(g, <<h, h + Hour>>), Gaps)]

FirstPoll == Min(DOMAIN polls)
LastPoll == Max(DOMAIN polls)

-----------------------------------------------------------------------------
(* The page. *)

\* As HourCapture, up to the end of the hour.
WholeHourCapture(row) ==
    IF row.polls = 0 THEN 0
    ELSE (Larger(0, row.hour + Hour - Larger(row.hour, FirstPoll) - row.gap) * row.capture * Scale) \div row.polls

HourCapture(row) ==
    IF row.polls = 0 THEN 0
    ELSE LET span == Smaller(row.hour + Hour, LastPoll + 1) - Larger(row.hour, FirstPoll)
         IN  (Larger(0, span - row.gap) * row.capture * Scale) \div row.polls

\* The part of it that was limited: by the polls or by the documented windows.
HourLimited(row) ==
    LET noted == Smaller(Hour, MapThenSumSet(LAMBDA w : Overlap(w, <<row.hour, row.hour + Hour>>), Notes))
    IN  IF row.capture = 0 THEN 0
        ELSE Larger((HourCapture(row) * row.limited) \div row.capture, (HourCapture(row) * noted) \div Hour)

\* The shares of a day up to now, times its length.
DayCoverage(day) ==
    LET from == day[1]
        to == Smaller(day[2], now)
        rows == {HourlyRow(h) : h \in {t \in from..(to - 1) : (t - from) % Hour = 0}}
        captured == MapThenSumSet(HourCapture, rows)
        limited == MapThenSumSet(HourLimited, rows)
        part(a, b) == Scale * Overlap(<<from, to>>, <<a, b>>)
        none == [ok |-> 0, limited |-> 0, outage |-> 0, notInstalled |-> 0, noData |-> 0]
    IN  IF to <= from THEN none
        ELSE IF polls = <<>> THEN [none EXCEPT !.notInstalled = Scale * (to - from)]
        ELSE [ok |-> captured - limited,
              limited |-> limited,
              outage |-> Larger(0, part(FirstPoll, LastPoll + 1) - captured),
              notInstalled |-> part(from, FirstPoll),
              noData |-> part(LastPoll + 1, to)]

-----------------------------------------------------------------------------
Init == now = 0 /\ polls = <<>>

Poll ==
    /\ now \notin DOMAIN polls
    /\ \E kind \in Kinds : polls' = (now :> kind) @@ polls
    /\ UNCHANGED now

Tick == now < Horizon /\ now' = now + 1 /\ UNCHANGED polls

Next == Poll \/ Tick

Spec == Init /\ [][Next]_vars

-----------------------------------------------------------------------------
(* Properties *)

\* The intervals of a day that lie in a gap.
Silent(from, to) == {t \in from..(to - 1) : \E g \in Gaps : g[1] <= t /\ t < g[2]}

(* The five shares of a day account for the day: none is negative, they add up
   to the time that has passed of it, to one poll interval; a silence between
   two polls is never shown as captured; and what was captured is shown, but
   one poll's interval for every silence, and nothing else.  That is what day_coverage can keep
   of hours that count polls and gaps only: it fails if the part of an hour
   before the first poll, after the last one or in a gap is counted twice. *)
DayIsAccountedFor ==
    \A day \in Days :
        LET c == DayCoverage(day)
            to == Smaller(day[2], now)
            passed == Scale * Larger(0, to - day[1])
            sum == c.ok + c.limited + c.outage + c.notInstalled + c.noData
            collecting(end) == {t \in DOMAIN polls : t >= day[1] /\ t < end /\ polls[t] # "down"}
            begun == {g \in Gaps : g[1] >= day[1] /\ g[1] < to}
        IN  /\ \A share \in DOMAIN c : c[share] >= 0
            /\ passed <= sum /\ sum <= passed + (IF passed = 0 THEN 0 ELSE Scale)
            /\ c.outage >= Scale * (Cardinality(Silent(day[1], to)) - 1)
            /\ c.ok + c.limited >= Scale * (Cardinality(collecting(to)) - Cardinality(begun))
            /\ collecting(day[2]) = {} => c.ok + c.limited = 0

=============================================================================
