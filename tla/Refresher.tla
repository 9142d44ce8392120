----------------------------- MODULE Refresher ------------------------------
(***************************************************************************)
(* Keeping the hourly rollups of every sensor equal to its polls.  The     *)
(* ingest inserts polls and moves the sensor's dirty mark back to the      *)
(* earliest of them, in one transaction.  The refresher - one process, one *)
(* autocommit connection - takes the mark in a statement of its own and    *)
(* recomputes the hours from the mark on; a refresh that fails leaves its  *)
(* mark in the process's memory until it is written back.  Whatever takes  *)
(* the answer of a statement, or the process, leaves what was committed.   *)
(*                                                                         *)
(* Sources: server/api/app/refresher.py and, in server/schema.sql,         *)
(* ingest_merge() and the sensor hours of refresh_rollups().               *)
(*                                                                         *)
(* Time is a number of poll slots.  A rollup row holds the polls of its    *)
(* hour and the slots of the hour that lie in a poll gap: the sets whose   *)
(* sizes the table stores.                                                 *)
(***************************************************************************)
EXTENDS Integers, FiniteSets

CONSTANTS
  Sensors,     \* sensor ids
  MaxTime,     \* bound: the last poll slot
  HourOf,      \* the hour of a slot
  GapLen,      \* a longer distance between two polls is a gap (90 s)
  MaxIngests,  \* bound: batches that insert polls
  MaxKills,    \* bound: times the refresher process is killed
  MaxUntold    \* bound: marks taken in a statement whose answer is lost

Times  == 1 .. MaxTime
Hours  == {HourOf[t] : t \in Times}
NoMark == MaxTime + 1         \* NULL, which least() ignores
Marks  == 1 .. NoMark

ASSUME SensorsAssumption == Sensors \subseteq Nat
ASSUME TimeAssumption ==
  /\ MaxTime \in Nat \ {0} /\ GapLen \in Nat
  /\ HourOf \in [Times -> Nat]
  /\ \A t, u \in Times : t <= u => HourOf[t] <= HourOf[u]
ASSUME RefresherBounds == {MaxIngests, MaxKills, MaxUntold} \subseteq Nat

VARIABLES
  polls,    \* table polls: the times of each sensor's polls
  hourly,   \* table sensor_hourly: a row for each hour of each sensor
  summary,  \* the sensors with a row in sensor_summary: refreshed before
  dirty,    \* ingest_state.dirty_from
  carry,    \* _carry: marks of refreshes that failed
  pc,       \* where the refresher is
  queue,    \* the round's dirty sensors still to refresh
  job,      \* the refresh under way
  ingests,  \* batches so far
  kills,    \* kills so far
  untold,   \* marks taken whose answer was lost
  before    \* history: the polls at the start of the round under way

dbVars == <<polls, hourly, summary, dirty>>
vars == <<dbVars, carry, pc, queue, job, ingests, kills, untold, before>>

NoPolls == [s \in Sensors |-> {}]

NoJob == [sensor |-> 0, mark |-> NoMark, from |-> 0, seen |-> {}]

Least(a, b) == IF a <= b THEN a ELSE b

-----------------------------------------------------------------------------
(* The rollups.                                                            *)

\* Does the slot lie between two consecutive polls further apart than GapLen?
InGap(t, P) ==
  \E a, b \in P : /\ a <= t /\ t < b /\ b - a > GapLen
                  /\ \A v \in P : ~(a < v /\ v < b)

Row(P, h) ==
  [polls |-> {t \in P : HourOf[t] = h},
   gap   |-> {t \in Times : HourOf[t] = h /\ InGap(t, P)}]

\* What a refresh of the whole history leaves.
Full(P) == [h \in Hours |-> Row(P, h)]

\* Faulty variant: the last poll before the first hour is not read.
ReadFromHour(P, from) == {t \in P : HourOf[t] >= from}

\* The polls an incremental refresh reads: from the first hour on, and the
\* last one before it.
PollsRead(P, from) ==
  LET older == {t \in P : HourOf[t] < from}
  IN (P \ older) \cup {t \in older : \A u \in older : u <= t}

\* The first time recomputed for a mark: the last poll before it, so a gap
\* that ends after the mark is split over all its hours again.
IsStart(u, P, mark) ==
  LET older == {t \in P : t < mark}
  IN IF older = {} THEN u = mark ELSE u \in older /\ \A t \in older : t <= u

-----------------------------------------------------------------------------
(* Ingest.                                                                 *)

\* ingest_merge: the rows that were inserted, not those that conflicted, move
\* the mark back.
Ingest(s, T) ==
  /\ ingests < MaxIngests
  /\ T \ polls[s] # {}
  /\ ingests' = ingests + 1
  /\ polls' = [polls EXCEPT ![s] = @ \cup T]
  /\ \E first \in T \ polls[s] :
       /\ \A t \in T \ polls[s] : first <= t
       /\ dirty' = [dirty EXCEPT ![s] = Least(@, first)]
  /\ UNCHANGED <<hourly, summary, carry, pc, queue, job, kills, untold, before>>

-----------------------------------------------------------------------------
(* The refresher.                                                          *)

Carried == {s \in Sensors : carry[s] # NoMark}

\* _restore_marks, first thing in a round: the mark leaves _carry once it is
\* written - an answer that is lost leaves it there.
Restore(s, answered) ==
  /\ pc = "idle"
  /\ s \in Carried
  /\ dirty' = [dirty EXCEPT ![s] = Least(@, carry[s])]
  /\ carry' = IF answered THEN [carry EXCEPT ![s] = NoMark] ELSE carry
  /\ UNCHANGED <<polls, hourly, summary, pc, queue, job, ingests, kills, untold, before>>

\* Faulty variant: the round starts without writing the carried marks back.
RoundBeginUnrestored ==
  /\ pc = "idle"
  /\ queue' = {s \in Sensors : dirty[s] # NoMark}
  /\ pc' = "round"
  /\ before' = polls
  /\ UNCHANGED <<dbVars, carry, job, ingests, kills, untold>>

RoundBegin ==
  /\ pc = "idle"
  /\ Carried = {}
  /\ queue' = {s \in Sensors : dirty[s] # NoMark}
  /\ pc' = "round"
  /\ before' = polls
  /\ UNCHANGED <<dbVars, carry, job, ingests, kills, untold>>

\* The sensors come in the order of their ids.
InTurn(s) == pc = "round" /\ s \in queue /\ \A r \in queue : s <= r

\* Takes the mark and clears it, in one statement that commits at once.
Take(s) ==
  /\ InTurn(s)
  /\ queue' = queue \ {s}
  /\ job' = [sensor |-> s, mark |-> dirty[s], from |-> 0, seen |-> {}]
  /\ dirty' = [dirty EXCEPT ![s] = NoMark]
  /\ pc' = "taken"
  /\ UNCHANGED <<polls, hourly, summary, carry, ingests, kills, untold, before>>

\* The statement stands outside the try: when it has committed and its answer
\* is lost, the round is over and the mark is nowhere.
TakeUntold(s) ==
  /\ InTurn(s)
  /\ untold < MaxUntold
  /\ untold' = untold + 1
  /\ dirty' = [dirty EXCEPT ![s] = NoMark]
  /\ pc' = "idle" /\ queue' = {} /\ before' = NoPolls
  /\ UNCHANGED <<polls, hourly, summary, carry, job, ingests, kills>>

\* refresh_rollups chooses its first hour; a sensor never refreshed gets its
\* whole history.
Start ==
  /\ pc = "taken"
  /\ \E u \in Times :
       /\ IsStart(u, polls[job.sensor], job.mark)
       /\ job' = [job EXCEPT !.from = IF job.sensor \in summary THEN HourOf[u] ELSE 0]
  /\ pc' = "started"
  /\ UNCHANGED <<dbVars, carry, queue, ingests, kills, untold, before>>

\* The statement that computes the rows sees what is committed when it starts.
Read ==
  /\ pc = "started"
  /\ job' = [job EXCEPT !.seen = polls[job.sensor]]
  /\ pc' = "read"
  /\ UNCHANGED <<dbVars, carry, queue, ingests, kills, untold, before>>

\* The refresh's transaction replaces the hours from the first one on.
Recompute ==
  /\ pc = "read"
  /\ hourly' = [hourly EXCEPT ![job.sensor] =
                  [h \in Hours |-> IF h < job.from THEN @[h]
                                   ELSE Row(PollsRead(job.seen, job.from), h)]]
  /\ summary' = summary \cup {job.sensor}

Commit ==
  /\ Recompute
  /\ job' = NoJob
  /\ pc' = "round"
  /\ UNCHANGED <<polls, dirty, carry, queue, ingests, kills, untold, before>>

\* Faulty variant: a failed refresh does not put its mark back.
FailForgets(alive) ==
  /\ pc \in {"taken", "started", "read"}
  /\ UNCHANGED <<hourly, summary, dirty, carry>>
  /\ job' = NoJob /\ queue' = {} /\ pc' = "idle"
  /\ before' = NoPolls
  /\ UNCHANGED <<polls, ingests, kills, untold>>

\* The refresh raises: rolled back, or committed with the answer lost.  The
\* mark is kept in memory and, while the connection lives, written back - which
\* may fail in turn, before or after it is stored; the round is over, the
\* sensors after this one included.
Fail(alive) ==
  /\ pc \in {"taken", "started", "read"}
  /\ \/ UNCHANGED <<hourly, summary>>
     \/ ~alive /\ Recompute
  /\ LET s == job.sensor
         m == Least(carry[s], job.mark)
         inMemory == [carry EXCEPT ![s] = m]
     IN \/ /\ alive
           /\ dirty' = [dirty EXCEPT ![s] = Least(@, m)]
           /\ carry' \in {inMemory, [carry EXCEPT ![s] = NoMark]}
        \/ dirty' = dirty /\ carry' = inMemory
  /\ job' = NoJob /\ queue' = {} /\ pc' = "idle"
  /\ before' = NoPolls
  /\ UNCHANGED <<polls, ingests, kills, untold>>

\* The steps after the sensors (contact periods, baselines) end the round.
RoundEnd ==
  /\ pc = "round"
  /\ queue = {}
  /\ pc' = "idle"
  /\ before' = NoPolls
  /\ UNCHANGED <<dbVars, carry, queue, job, ingests, kills, untold>>

\* A statement between two refreshes fails without having changed a mark.
RoundError ==
  /\ pc = "round"
  /\ queue # {}
  /\ pc' = "idle" /\ queue' = {}
  /\ before' = NoPolls
  /\ UNCHANGED <<dbVars, carry, job, ingests, kills, untold>>

\* The container is stopped with a refresh under way (main looks at _stop only
\* between rounds) or dies: its memory is gone.
Kill ==
  /\ kills < MaxKills
  /\ kills' = kills + 1
  /\ carry' = [s \in Sensors |-> NoMark]
  /\ job' = NoJob /\ queue' = {} /\ pc' = "idle"
  /\ before' = NoPolls
  /\ UNCHANGED <<dbVars, ingests, untold>>

-----------------------------------------------------------------------------
Init ==
  /\ polls = NoPolls
  /\ hourly = [s \in Sensors |-> Full({})]
  /\ summary = {}
  /\ dirty = [s \in Sensors |-> NoMark] /\ carry = [s \in Sensors |-> NoMark]
  /\ pc = "idle" /\ queue = {} /\ job = NoJob
  /\ ingests = 0 /\ kills = 0 /\ untold = 0
  /\ before = NoPolls

Next ==
  \/ \E s \in Sensors, T \in SUBSET Times : Ingest(s, T)
  \/ \E s \in Sensors, answered \in BOOLEAN : Restore(s, answered)
  \/ RoundBegin
  \/ \E s \in Sensors : Take(s) \/ TakeUntold(s)
  \/ Start
  \/ Read
  \/ Commit
  \/ \E alive \in BOOLEAN : Fail(alive)
  \/ RoundEnd
  \/ RoundError
  \/ Kill

Spec == Init /\ [][Next]_vars

\* main's loop goes on for ever; a statement that is tried again and again
\* does not fail every time, for any sensor.
Fairness ==
  /\ WF_vars(RoundBegin) /\ WF_vars(RoundEnd)
  /\ \A s \in Sensors :
       /\ WF_vars(Restore(s, TRUE)) /\ SF_vars(Take(s))
       /\ SF_vars(Start /\ job.sensor = s) /\ SF_vars(Read /\ job.sensor = s)
       /\ SF_vars(Commit /\ job.sensor = s)

FairSpec == Spec /\ Fairness

-----------------------------------------------------------------------------
(* Properties.                                                             *)

Rows == [polls : SUBSET Times, gap : SUBSET Times]
Jobs == [sensor : Sensors \cup {0}, mark : Marks, from : Nat, seen : SUBSET Times]

TypeOK ==
  /\ polls \in [Sensors -> SUBSET Times]
  /\ hourly \in [Sensors -> [Hours -> Rows]]
  /\ summary \subseteq Sensors /\ queue \subseteq Sensors
  /\ dirty \in [Sensors -> Marks] /\ carry \in [Sensors -> Marks]
  /\ pc \in {"idle", "round", "taken", "started", "read"}
  /\ job \in Jobs
  /\ pc \in {"taken", "started", "read"} => job.sensor \in Sensors
  /\ {ingests, kills, untold} \subseteq Nat
  /\ before \in [Sensors -> SUBSET Times]

Busy(s) == pc \in {"taken", "started", "read"} /\ job.sensor = s

\* The earliest mark of a sensor, wherever it is kept.
Pending(s) == Least(Least(dirty[s], carry[s]), IF Busy(s) THEN job.mark ELSE NoMark)

\* Would an incremental refresh from this mark recompute the hour?
Near(P, mark, h) ==
  mark # NoMark /\ \A u \in Times : IsStart(u, P, mark) => HourOf[u] <= h

\* Would the sensor's next refresh?  Its first one recomputes every hour.
Reaches(s, mark, h) ==
  mark # NoMark /\ (s \in summary => Near(polls[s], mark, h))

\* The sensors with an hour whose row is not what a refresh of the whole
\* history would leave and that no mark - stored, carried or being refreshed -
\* reaches: nothing will ever recompute it.
Lost ==
  {s \in Sensors : \E h \in Hours : /\ hourly[s][h] # Row(polls[s], h)
                                    /\ ~Reaches(s, Pending(s), h)}

\* What costs a window: each taken mark that was in nobody's memory any more.
Mishaps == kills + untold

\* No window is lost, so an incremental run leaves the same rows as a full one
\* (schema.sql:2131) and "a crash never loses the window it was refreshing"
\* (refresher.py:13).
StaleIsMarked == Lost = {}

\* Failed refreshes and failed writes of a mark lose nothing, wherever they
\* fail; a kill or the lost answer of a take costs at most the window in hand.
OneWindowPerMishap == Cardinality(Lost) <= Mishaps

\* The charts lag by at most one refresh (live-upload.md 6.4): when a round is
\* through its sensors, every poll stored at its start is in the rollups - of
\* all sensors but those a kill or a lost answer has made stale.
LagOneRound ==
  pc = "round" /\ queue = {} =>
    Cardinality({s \in Sensors : \E t \in before[s] : t \notin hourly[s][HourOf[t]].polls}) <= Mishaps

\* Once the ingest is quiet every rollup is right, whatever refreshes failed,
\* of all sensors but those a kill or a lost answer has made stale.
EventuallyFresh ==
  <>[](Cardinality({s \in Sensors : hourly[s] # Full(polls[s])}) <= Mishaps)
=============================================================================
