-------------------------- MODULE RefresherProofs ---------------------------
(***************************************************************************)
(* Proofs about Refresher for every set of sensors, every length of an     *)
(* hour and of a gap: an incremental refresh leaves what a full one        *)
(* leaves, no failed refresh loses a window - a kill of the process or the  *)
(* lost answer of a take costs one at most -, and the charts lag by one    *)
(* round at most.                                                          *)
(***************************************************************************)
EXTENDS Refresher, FiniteSetTheorems, WellFoundedInduction, TLAPS

(* The first time recomputed for a mark.                                   *)

LEMMA MaxExists ==
  ASSUME NEW S \in SUBSET Times, S # {}
  PROVE  \E u \in S : \A t \in S : t <= u
<1> DEFINE less == {d \in Nat \X Nat : d[1] < d[2]}
           dist == {MaxTime - t : t \in S}
<1>1. IsWellFoundedOn(less, Nat)
  BY NatLessThanWellFounded DEF OpToRel
<1>2. dist \subseteq Nat /\ dist # {}
  <2> HIDE DEF less
  <2>1. \A t \in S : MaxTime - t \in Nat
    BY TimeAssumption DEF Times
  <2>2. PICK t \in S : TRUE
    OBVIOUS
  <2>3. MaxTime - t \in dist
    OBVIOUS
  <2>4. QED
    BY <2>1, <2>3
<1> HIDE DEF dist
<1>3. PICK d \in dist : \A e \in dist : ~(<<e, d>> \in less)
  <2> HIDE DEF less
  <2>1. QED
    BY <1>1, <1>2, WFMin
<1>4. \A e \in dist : e \in Nat /\ ~(e < d)
  BY <1>2, <1>3
<1> USE DEF dist
<1>5. PICK u \in S : d = MaxTime - u
  BY <1>3
<1>6. ASSUME NEW t \in S PROVE t <= u
  <2>1. ~(MaxTime - t < MaxTime - u)
    BY <1>4, <1>5
  <2>2. QED
    BY <2>1, TimeAssumption DEF Times
<1>7. QED
  BY <1>6

LEMMA StartExists ==
  ASSUME NEW P \in SUBSET Times, NEW m \in Times
  PROVE  \E u \in Times : IsStart(u, P, m)
<1> DEFINE older == {t \in P : t < m}
<1>1. CASE older = {}
  BY <1>1 DEF IsStart
<1>2. CASE older # {}
  <2>1. PICK u \in older : \A t \in older : t <= u
    <3>1. older \in SUBSET Times
      OBVIOUS
    <3>2. QED
      BY <1>2, <3>1, MaxExists
  <2>2. QED
    BY <1>2, <2>1 DEF IsStart
<1>3. QED
  BY <1>1, <1>2

\* An earlier mark reaches further back.
LEMMA NearEarlier ==
  ASSUME NEW P \in SUBSET Times, NEW m \in Marks, NEW k \in Marks, k <= m,
         NEW h, h \in Nat, Near(P, m, h)
  PROVE  Near(P, k, h)
<1> USE TimeAssumption DEF Marks, NoMark, Times
<1>1. m \in Times /\ k \in Times
  BY DEF Near
<1>2. PICK u \in Times : IsStart(u, P, m)
  BY <1>1, StartExists
<1>3. ASSUME NEW v \in Times, IsStart(v, P, k) PROVE v <= u
  BY <1>1, <1>2, <1>3 DEF IsStart
<1>4. HourOf[u] <= h
  BY <1>2 DEF Near
<1>5. QED
  BY <1>1, <1>3, <1>4 DEF Near

-----------------------------------------------------------------------------
(* What an incremental refresh reads is enough: from the first hour on it  *)
(* sees the same polls and the same gaps as a refresh of the whole history.*)

LEMMA ReadSuffices ==
  ASSUME NEW P \in SUBSET Times, NEW from \in Nat, NEW h \in Hours, from <= h
  PROVE  Row(PollsRead(P, from), h) = Row(P, h)
<1> USE TimeAssumption DEF Times, Hours
<1> DEFINE Q == PollsRead(P, from)
           older == {t \in P : HourOf[t] < from}
<1>1. Q \subseteq P /\ \A t \in P : HourOf[t] >= from => t \in Q
  BY DEF PollsRead
<1>2. \A t \in P : HourOf[t] < from /\ (\A v \in older : v <= t) => t \in Q
  BY DEF PollsRead
<1>3. \A t \in Q : HourOf[t] < from => \A v \in older : v <= t
  BY DEF PollsRead
<1> HIDE DEF Q
<1>4. {t \in Q : HourOf[t] = h} = {t \in P : HourOf[t] = h}
  BY <1>1
<1>5. ASSUME NEW t \in Times, HourOf[t] = h, InGap(t, P) PROVE InGap(t, Q)
  <2>1. PICK a \in P, b \in P : /\ a <= t /\ t < b /\ b - a > GapLen
                                /\ \A v \in P : ~(a < v /\ v < b)
    BY <1>5 DEF InGap
  <2>2. b \in Q
    BY <1>1, <1>5, <2>1
  <2>3. a \in Q
    <3>1. ASSUME HourOf[a] < from, NEW v \in older PROVE v <= a
      BY <1>5, <2>1, <3>1
    <3>2. QED
      BY <1>1, <1>2, <2>1, <3>1
  <2>4. QED
    BY <1>1, <2>1, <2>2, <2>3 DEF InGap
<1>6. ASSUME NEW t \in Times, HourOf[t] = h, InGap(t, Q) PROVE InGap(t, P)
  <2>1. PICK a \in Q, b \in Q : /\ a <= t /\ t < b /\ b - a > GapLen
                                /\ \A v \in Q : ~(a < v /\ v < b)
    BY <1>6 DEF InGap
  <2>2. ASSUME NEW v \in P, a < v, v < b PROVE FALSE
    <3>1. a \in P /\ b \in P /\ HourOf[v] < from
      BY <1>1, <2>1, <2>2
    <3>2. HourOf[a] < from
      BY <2>2, <3>1
    <3>3. v <= a
      BY <1>3, <2>1, <3>1, <3>2
    <3>4. QED
      BY <2>2, <3>1, <3>3
  <2>3. QED
    BY <1>1, <2>1, <2>2 DEF InGap
<1>7. QED
  BY <1>4, <1>5, <1>6 DEF Row, Q

-----------------------------------------------------------------------------
(* A batch changes no hour before the reach of its first insertion.        *)

LEMMA IngestChanges ==
  ASSUME NEW P \in SUBSET Times, NEW T \in SUBSET Times, NEW f \in T \ P,
         \A t \in T \ P : f <= t, NEW h \in Hours, Row(P \cup T, h) # Row(P, h)
  PROVE  Near(P \cup T, f, h)
<1> USE TimeAssumption DEF Times, Hours, NoMark
<1> DEFINE N == P \cup T
<1>0. f \in Times /\ f # MaxTime + 1 /\ h \in Nat /\ \A t \in Times : HourOf[t] \in Nat
  OBVIOUS
<1>1. SUFFICES ASSUME NEW u \in Times, IsStart(u, N, f), h < HourOf[u]
               PROVE  Row(N, h) = Row(P, h)
  <2>1. ASSUME ~Near(N, f, h)
        PROVE  \E u \in Times : IsStart(u, N, f) /\ h < HourOf[u]
    <3>1. PICK u \in Times : IsStart(u, N, f) /\ ~(HourOf[u] <= h)
      BY <1>0, <2>1 DEF Near
    <3>2. QED
      BY <1>0, <3>1
  <2>2. QED
    BY <2>1
<1>2. u <= f /\ \A t \in Times : HourOf[t] = h => t < u
  BY <1>1 DEF IsStart
<1>3. {t \in N : HourOf[t] = h} = {t \in P : HourOf[t] = h}
  <2>1. ASSUME NEW t \in T, HourOf[t] = h PROVE t \in P
    BY <1>0, <1>2, <2>1
  <2>2. QED
    BY <2>1
<1>4. \A t \in N : t < f => t \in P /\ u \in P
  <2>1. ASSUME NEW t \in N, t < f PROVE t \in P
    BY <1>0, <2>1
  <2>2. ASSUME NEW t \in N, t < f PROVE u \in P
    BY <1>0, <1>1, <2>2 DEF IsStart
  <2>3. QED
    BY <2>1, <2>2
<1>5. ASSUME NEW t \in Times, HourOf[t] = h, InGap(t, N) PROVE InGap(t, P)
  <2>1. PICK a \in N, b \in N : /\ a <= t /\ t < b /\ b - a > GapLen
                                /\ \A v \in N : ~(a < v /\ v < b)
    BY <1>5 DEF InGap
  <2>2. a < u /\ a \in P /\ u \in P
    BY <1>2, <1>4, <1>5, <2>1
  <2>3. b <= u
    BY <2>1, <2>2
  <2>4. b \in P
    <3>1. b = u \/ b < f
      BY <1>0, <1>2, <2>3
    <3>2. QED
      BY <1>4, <2>1, <2>2, <3>1
  <2>5. QED
    BY <2>1, <2>2, <2>4 DEF InGap
<1>6. ASSUME NEW t \in Times, HourOf[t] = h, InGap(t, P) PROVE InGap(t, N)
  <2>1. PICK a \in P, b \in P : /\ a <= t /\ t < b /\ b - a > GapLen
                                /\ \A v \in P : ~(a < v /\ v < b)
    BY <1>6 DEF InGap
  <2>2. a < u /\ u \in P
    BY <1>2, <1>4, <1>6, <2>1
  <2>3. b <= u
    BY <2>1, <2>2
  <2>4. \A v \in N : a < v /\ v < b => v \in P
    BY <1>2, <1>4, <2>3
  <2>5. QED
    BY <2>1, <2>4 DEF InGap
<1>7. QED
  BY <1>3, <1>5, <1>6 DEF Row

\* And a mark moved back to it reaches every hour it reached.
LEMMA IngestReaches ==
  ASSUME NEW P \in SUBSET Times, NEW T \in SUBSET Times, NEW f \in T \ P,
         \A t \in T \ P : f <= t, NEW m \in Marks, NEW h \in Hours, Near(P, m, h)
  PROVE  Near(P \cup T, Least(m, f), h)
<1> USE TimeAssumption DEF Times, Hours, Marks, NoMark
<1> DEFINE N == P \cup T
<1>1. m \in Times
  BY DEF Near
<1>2. CASE m <= f
  <2>1. \A u \in Times : IsStart(u, N, m) => IsStart(u, P, m)
    BY <1>2 DEF IsStart
  <2>2. QED
    BY <1>2, <2>1 DEF Near, Least
<1>3. CASE f < m
  <2>1. PICK u \in Times : IsStart(u, P, m)
    BY <1>1, StartExists
  <2>2. ASSUME NEW v \in Times, IsStart(v, N, f) PROVE v <= u
    <3>1. \A t \in N : t < f => t \in P
      OBVIOUS
    <3>2. (v = f /\ (\A t \in N : ~(t < f))) \/ (v \in P /\ v < f)
      BY <2>2, <3>1 DEF IsStart
    <3>3. (u = m /\ (\A t \in P : ~(t < m))) \/ (u \in P /\ (\A t \in P : t < m => t <= u))
      BY <2>1 DEF IsStart
    <3>4. QED
      BY <1>1, <1>3, <3>2, <3>3
  <2>3. HourOf[u] <= h
    BY <2>1 DEF Near
  <2>4. QED
    <3>1. ~(m <= f) /\ Least(m, f) = f /\ f \in Times
      BY <1>1, <1>3 DEF Least
    <3>2. ASSUME NEW v \in Times, IsStart(v, N, f) PROVE HourOf[v] <= h
      BY <2>2, <2>3, <3>2
    <3>3. f # MaxTime + 1
      BY <3>1
    <3>4. QED
      BY <3>1, <3>2, <3>3 DEF Near
<1>4. QED
  BY <1>1, <1>2, <1>3

-----------------------------------------------------------------------------
(* Types.                                                                  *)

LEMMA LeastMark ==
  \A a, b \in Marks : Least(a, b) \in Marks
BY DEF Least

LEMMA RowType ==
  \A h : \A P \in SUBSET Times : Row(P, h) \in Rows
BY DEF Row, Rows

LEMMA NoMarkIsMark ==
  NoMark \in Marks /\ Times \subseteq Marks /\ NoMark \notin Times
BY TimeAssumption DEF Marks, NoMark, Times

LEMMA InitType == Init => TypeOK
<1> SUFFICES ASSUME Init PROVE TypeOK
  OBVIOUS
<1>1. Full({}) \in [Hours -> Rows]
  BY RowType DEF Full
<1>2. QED
  BY <1>1, NoMarkIsMark DEF Init, TypeOK, NoPolls, NoJob, Jobs

LEMMA RecomputeType ==
  TypeOK /\ Recompute => /\ hourly' \in [Sensors -> [Hours -> Rows]]
                         /\ summary' \subseteq Sensors
<1> SUFFICES ASSUME TypeOK, Recompute
             PROVE  hourly' \in [Sensors -> [Hours -> Rows]] /\ summary' \subseteq Sensors
  OBVIOUS
<1> DEFINE new == [h \in Hours |-> IF h < job.from THEN hourly[job.sensor][h]
                                   ELSE Row(PollsRead(job.seen, job.from), h)]
<1>1. job.sensor \in Sensors /\ job.seen \in SUBSET Times
  BY DEF TypeOK, Jobs, Recompute
<1>2. PollsRead(job.seen, job.from) \in SUBSET Times
  BY <1>1 DEF PollsRead
<1>3. \A h \in Hours : hourly[job.sensor][h] \in Rows
  BY <1>1 DEF TypeOK
<1>4. new \in [Hours -> Rows]
  BY <1>2, <1>3, RowType
<1>5. hourly' = [hourly EXCEPT ![job.sensor] = new]
  BY DEF Recompute
<1> HIDE DEF new
<1>6. hourly' \in [Sensors -> [Hours -> Rows]]
  BY <1>1, <1>4, <1>5 DEF TypeOK
<1>7. QED
  BY <1>1, <1>6 DEF TypeOK, Recompute

LEMMA NextType == TypeOK /\ [Next]_vars => TypeOK'
<1> SUFFICES ASSUME TypeOK, [Next]_vars PROVE TypeOK'
  OBVIOUS
<1> USE LeastMark, NoMarkIsMark DEF TypeOK
<1>1. NoJob \in Jobs /\ NoPolls \in [Sensors -> SUBSET Times]
  BY DEF NoJob, Jobs, NoPolls
<1>2. ASSUME NEW s \in Sensors, NEW T \in SUBSET Times, Ingest(s, T) PROVE TypeOK'
  BY <1>2 DEF Ingest
<1>3. ASSUME NEW s \in Sensors, NEW answered \in BOOLEAN, Restore(s, answered) PROVE TypeOK'
  <2>1. carry' \in [Sensors -> Marks] /\ dirty' \in [Sensors -> Marks]
    BY <1>3 DEF Restore
  <2>2. QED
    BY <1>3, <2>1 DEF Restore
<1>4. CASE RoundBegin
  BY <1>4 DEF RoundBegin, dbVars
<1>15. ASSUME NEW s \in Sensors, TakeUntold(s) PROVE TypeOK'
  BY <1>1, <1>15, RefresherBounds DEF TakeUntold, InTurn
<1>5. ASSUME NEW s \in Sensors, Take(s) PROVE TypeOK'
  <2>1. job' \in Jobs /\ job'.sensor = s
    BY <1>5 DEF Take, InTurn, Jobs
  <2>2. dirty' \in [Sensors -> Marks]
    BY <1>5 DEF Take
  <2>3. QED
    BY <1>5, <2>1, <2>2 DEF Take, InTurn
<1>6. CASE Start
  <2>1. PICK u \in Times : job' = [job EXCEPT !.from = IF job.sensor \in summary THEN HourOf[u] ELSE 0]
    BY <1>6 DEF Start
  <2>2. HourOf[u] \in Nat
    BY TimeAssumption
  <2>3. job' \in Jobs /\ job'.sensor = job.sensor
    BY <2>1, <2>2 DEF Jobs
  <2>4. QED
    BY <1>6, <2>3 DEF Start, dbVars
<1>7. CASE Read
  <2>1. job' \in Jobs /\ job'.sensor = job.sensor
    BY <1>7 DEF Read, Jobs
  <2>2. QED
    BY <1>7, <2>1 DEF Read, dbVars
<1>8. CASE Commit
  BY <1>1, <1>8, RecomputeType DEF Commit
<1>9. ASSUME NEW alive \in BOOLEAN, Fail(alive) PROVE TypeOK'
  <2>1. hourly' \in [Sensors -> [Hours -> Rows]] /\ summary' \subseteq Sensors
    BY <1>9, RecomputeType DEF Fail
  <2>2. job.sensor \in Sensors /\ job.mark \in Marks
    BY <1>9 DEF Fail, Jobs
  <2>3. dirty' \in [Sensors -> Marks] /\ carry' \in [Sensors -> Marks]
    <3> DEFINE r == job.sensor
               m == Least(carry[r], job.mark)
    <3>1. m \in Marks /\ Least(dirty[r], m) \in Marks
      BY <2>2
    <3>2. /\ dirty' \in {dirty, [dirty EXCEPT ![r] = Least(@, m)]}
          /\ carry' \in {[carry EXCEPT ![r] = m], [carry EXCEPT ![r] = NoMark]}
      BY <1>9 DEF Fail
    <3> HIDE DEF m
    <3>3. QED
      BY <2>2, <3>1, <3>2
  <2>4. QED
    BY <1>1, <1>9, <2>1, <2>3 DEF Fail
<1>10. CASE RoundEnd
  BY <1>1, <1>10 DEF RoundEnd, dbVars
<1>11. CASE RoundError
  BY <1>1, <1>11 DEF RoundError, dbVars
<1>12. CASE Kill
  BY <1>1, <1>12, RefresherBounds DEF Kill, dbVars
<1>13. CASE UNCHANGED vars
  BY <1>13 DEF vars, dbVars
<1>14. QED
  BY <1>2, <1>3, <1>4, <1>5, <1>6, <1>7, <1>8, <1>9, <1>10, <1>11, <1>12, <1>13, <1>15 DEF Next

\* The tables, the marks and the refresh under way keep their types.
THEOREM RefresherTypeCorrect == Spec => []TypeOK
BY InitType, NextType, PTL DEF Spec

-----------------------------------------------------------------------------
(* The invariant.                                                          *)

\* At most one window is in the process's memory.
HandInv ==
  /\ pc # "idle" => \A s \in Sensors : carry[s] = NoMark
  /\ \A r, s \in Sensors : carry[r] # NoMark /\ carry[s] # NoMark => r = s

\* The earliest mark of a sensor outside the refresh under way.
Kept(s) == Least(dirty[s], carry[s])

StaleReached(s) ==
  \A h \in Hours : hourly[s][h] # Row(polls[s], h) => Reaches(s, Pending(s), h)

\* The hours a refresh will not touch that are stale belong to a later one.
HeadKept(s) ==
  Busy(s) /\ pc \in {"started", "read"} =>
    /\ s \notin summary => job.from = 0
    /\ \A h \in Hours : h < job.from /\ hourly[s][h] # Row(polls[s], h)
                          => Near(polls[s], Kept(s), h)

\* And so do those it will write from polls that are out of date by now.
TailKept(s) ==
  Busy(s) /\ pc = "read" =>
    \A h \in Hours : job.from <= h /\ Row(PollsRead(job.seen, job.from), h) # Row(polls[s], h)
                       => Near(polls[s], Kept(s), h)

Safe(s) == StaleReached(s) /\ HeadKept(s) /\ TailKept(s)

Unsafe == {s \in Sensors : ~Safe(s)}

LossInv == IsFiniteSet(Unsafe) /\ Cardinality(Unsafe) <= Mishaps

LEMMA InitSafe == Init => HandInv /\ LossInv
<1> SUFFICES ASSUME Init PROVE HandInv /\ LossInv
  OBVIOUS
<1>1. HandInv
  BY DEF Init, HandInv
<1>2. ASSUME NEW s \in Sensors PROVE Safe(s)
  <2>1. \A h \in Hours : hourly[s][h] = Row(polls[s], h)
    BY DEF Init, Full, NoPolls
  <2>2. ~Busy(s)
    BY DEF Init, Busy
  <2>3. QED
    BY <2>1, <2>2 DEF Safe, StaleReached, HeadKept, TailKept
<1>3. Unsafe = {}
  BY <1>2 DEF Unsafe
<1>4. IsFiniteSet(Unsafe) /\ Cardinality(Unsafe) = 0
  BY <1>3, FS_EmptySet
<1>5. QED
  BY <1>1, <1>4 DEF LossInv, Mishaps, Init

LEMMA NextHand == TypeOK /\ HandInv /\ [Next]_vars => HandInv'
<1> SUFFICES ASSUME TypeOK, HandInv, [Next]_vars PROVE HandInv'
  OBVIOUS
<1> USE DEF TypeOK, HandInv
<1>1. ASSUME NEW s \in Sensors, NEW T \in SUBSET Times, Ingest(s, T) PROVE HandInv'
  BY <1>1 DEF Ingest
<1>2. ASSUME NEW s \in Sensors, NEW answered \in BOOLEAN, Restore(s, answered) PROVE HandInv'
  BY <1>2 DEF Restore
<1>3. CASE RoundBegin
  BY <1>3 DEF RoundBegin, Carried, dbVars
<1>4. ASSUME NEW s \in Sensors, Take(s) \/ TakeUntold(s) PROVE HandInv'
  BY <1>4 DEF Take, TakeUntold, InTurn
<1>5. CASE Start
  BY <1>5 DEF Start, dbVars
<1>6. CASE Read
  BY <1>6 DEF Read, dbVars
<1>7. CASE Commit
  BY <1>7 DEF Commit, Recompute
<1>8. ASSUME NEW alive \in BOOLEAN, Fail(alive) PROVE HandInv'
  BY <1>8 DEF Fail
<1>9. CASE RoundEnd
  BY <1>9 DEF RoundEnd, dbVars
<1>10. CASE RoundError
  BY <1>10 DEF RoundError, dbVars
<1>11. CASE Kill
  BY <1>11 DEF Kill, dbVars
<1>12. CASE UNCHANGED vars
  BY <1>12 DEF vars, dbVars
<1>13. QED
  BY <1>1, <1>2, <1>3, <1>4, <1>5, <1>6, <1>7, <1>8, <1>9, <1>10, <1>11, <1>12 DEF Next

(* Arithmetic of marks.                                                    *)

LEMMA LeastLaws ==
  ASSUME NEW a \in Marks, NEW b \in Marks
  PROVE  /\ Least(a, b) <= a /\ Least(a, b) <= b /\ Least(a, b) = Least(b, a)
         /\ Least(a, b) \in {a, b} /\ Least(a, NoMark) = a /\ Least(NoMark, a) = a
         /\ Least(a, a) = a
BY TimeAssumption DEF Least, Marks, NoMark

LEMMA LeastAssociates ==
  ASSUME NEW a \in Marks, NEW b \in Marks, NEW c \in Marks
  PROVE  Least(Least(a, b), c) = Least(a, Least(b, c))
BY TimeAssumption DEF Least, Marks, NoMark

\* A step that changes neither the sensor's tables nor its marks keeps it safe.
LEMMA SafeFrame ==
  ASSUME NEW s \in Sensors, Safe(s),
         polls'[s] = polls[s], hourly'[s] = hourly[s],
         s \in summary' <=> s \in summary, Pending(s)' = Pending(s),
         \/ ~Busy(s)' \/ pc' = "taken"
         \/ pc' = pc /\ job' = job /\ Kept(s)' = Kept(s)
  PROVE  Safe(s)'
<1>1. StaleReached(s)'
  BY DEF Safe, StaleReached, Reaches
<1>2. HeadKept(s)' /\ TailKept(s)'
  <2>1. CASE ~Busy(s)' \/ pc' = "taken"
    BY <2>1 DEF HeadKept, TailKept
  <2>2. CASE pc' = pc /\ job' = job /\ Kept(s)' = Kept(s)
    BY <2>2 DEF Safe, HeadKept, TailKept, Busy
  <2>3. QED
    BY <2>1, <2>2
<1>3. QED
  BY <1>1, <1>2 DEF Safe

\* Whatever row is stored, if the old polls it misses were reached by a mark,
\* the new ones are reached by the mark moved back.
LEMMA IngestKeeps ==
  ASSUME NEW P \in SUBSET Times, NEW T \in SUBSET Times, NEW f \in T \ P,
         \A t \in T \ P : f <= t, NEW m \in Marks, NEW h \in Hours, NEW row,
         row # Row(P, h) => Near(P, m, h), row # Row(P \cup T, h)
  PROVE  Near(P \cup T, Least(m, f), h)
<1> DEFINE N == P \cup T
<1>1. f \in Marks /\ N \in SUBSET Times /\ h \in Nat
  BY NoMarkIsMark, TimeAssumption DEF Hours
<1>2. CASE Row(N, h) = Row(P, h)
  BY <1>2, IngestReaches
<1>3. CASE Row(N, h) # Row(P, h)
  <2>1. Near(N, f, h)
    BY <1>3, IngestChanges
  <2>2. Least(m, f) \in Marks /\ Least(m, f) <= f
    BY <1>1, LeastMark, LeastLaws
  <2>3. QED
    BY <1>1, <2>1, <2>2, NearEarlier
<1>4. QED
  BY <1>2, <1>3

LEMMA IngestSafe ==
  ASSUME TypeOK, NEW s \in Sensors, NEW T \in SUBSET Times, Ingest(s, T), Safe(s)
  PROVE  Safe(s)'
<1> USE DEF TypeOK
<1>1. PICK f \in T \ polls[s] : /\ \A t \in T \ polls[s] : f <= t
                                /\ dirty' = [dirty EXCEPT ![s] = Least(@, f)]
  BY DEF Ingest
<1> DEFINE P == polls[s]
           N == P \cup T
<1>2. /\ polls'[s] = N /\ dirty'[s] = Least(dirty[s], f)
      /\ hourly' = hourly /\ summary' = summary /\ carry' = carry
      /\ pc' = pc /\ job' = job
  BY <1>1 DEF Ingest
<1>3. P \in SUBSET Times /\ f \in Marks /\ f # NoMark
  BY <1>1, NoMarkIsMark
<1>4. dirty[s] \in Marks /\ carry[s] \in Marks /\ job.mark \in Marks
  BY DEF Jobs
<1>5. Kept(s) \in Marks /\ Pending(s) \in Marks
  BY <1>4, LeastMark, NoMarkIsMark DEF Kept, Pending
<1>6. Kept(s)' = Least(Kept(s), f)
  BY <1>2, <1>3, <1>4, LeastLaws, LeastAssociates DEF Kept
<1>7. Pending(s)' = Least(Pending(s), f)
  <2> DEFINE k == IF Busy(s) THEN job.mark ELSE NoMark
  <2>1. Busy(s)' = Busy(s)
    BY <1>2 DEF Busy
  <2>2. k \in Marks
    BY <1>4, NoMarkIsMark
  <2>3. Pending(s) = Least(Kept(s), k) /\ Pending(s)' = Least(Kept(s)', k)
    BY <1>2, <2>1 DEF Pending, Kept
  <2> HIDE DEF k
  <2>4. QED
    BY <1>3, <1>5, <1>6, <2>2, <2>3, LeastLaws, LeastAssociates
<1>8. StaleReached(s)'
  <2> SUFFICES ASSUME NEW h \in Hours, hourly[s][h] # Row(N, h)
               PROVE  Reaches(s, Pending(s), h)'
    BY <1>2 DEF StaleReached
  <2>1. Least(Pending(s), f) # NoMark
    BY <1>3, <1>5, TimeAssumption DEF Least, Marks, NoMark
  <2>2. ASSUME s \in summary PROVE Near(N, Least(Pending(s), f), h)
    <3>1. hourly[s][h] # Row(P, h) => Near(P, Pending(s), h)
      BY <2>2 DEF Safe, StaleReached, Reaches
    <3>2. QED
      BY <1>1, <1>3, <1>5, <3>1, IngestKeeps
  <2>3. QED
    BY <1>2, <1>7, <2>1, <2>2 DEF Reaches
<1>9. HeadKept(s)'
  <2> SUFFICES ASSUME Busy(s), pc \in {"started", "read"}
               PROVE  /\ s \notin summary => job.from = 0
                      /\ \A h \in Hours : h < job.from /\ hourly[s][h] # Row(N, h)
                                             => Near(N, Least(Kept(s), f), h)
    BY <1>2, <1>6 DEF HeadKept, Busy
  <2>1. /\ s \notin summary => job.from = 0
        /\ \A h \in Hours : h < job.from /\ hourly[s][h] # Row(P, h) => Near(P, Kept(s), h)
    BY DEF Safe, HeadKept
  <2>2. ASSUME NEW h \in Hours, h < job.from, hourly[s][h] # Row(N, h)
        PROVE  Near(N, Least(Kept(s), f), h)
    <3>1. hourly[s][h] # Row(P, h) => Near(P, Kept(s), h)
      BY <2>1, <2>2
    <3>2. QED
      BY <1>1, <1>3, <1>5, <2>2, <3>1, IngestKeeps
  <2>3. QED
    BY <2>1, <2>2
<1>10. TailKept(s)'
  <2> DEFINE new(h) == Row(PollsRead(job.seen, job.from), h)
  <2> SUFFICES ASSUME Busy(s), pc = "read", NEW h \in Hours, job.from <= h, new(h) # Row(N, h)
               PROVE  Near(N, Least(Kept(s), f), h)
    BY <1>2, <1>6 DEF TailKept, Busy
  <2>1. new(h) # Row(P, h) => Near(P, Kept(s), h)
    BY DEF Safe, TailKept
  <2> HIDE DEF new
  <2>2. QED
    BY <1>1, <1>3, <1>5, <2>1, IngestKeeps
<1>11. QED
  BY <1>8, <1>9, <1>10 DEF Safe

LEMMA StartSafe ==
  ASSUME TypeOK, HandInv, Start, NEW s \in Sensors, Safe(s)
  PROVE  Safe(s)'
<1> USE DEF TypeOK
<1>1. PICK u \in Times : /\ IsStart(u, polls[job.sensor], job.mark)
                         /\ job' = [job EXCEPT !.from = IF job.sensor \in summary THEN HourOf[u] ELSE 0]
  BY DEF Start
<1> DEFINE first == IF job.sensor \in summary THEN HourOf[u] ELSE 0
<1>2. first \in Nat
  BY TimeAssumption
<1>3. /\ job'.sensor = job.sensor /\ job'.mark = job.mark /\ job'.from = first
  BY <1>1, <1>2 DEF Jobs
<1>4. /\ polls' = polls /\ hourly' = hourly /\ summary' = summary /\ dirty' = dirty
      /\ carry' = carry /\ pc = "taken" /\ pc' = "started"
  BY DEF Start, dbVars
<1>5. Pending(s)' = Pending(s) /\ Kept(s)' = Kept(s) /\ (Busy(s)' <=> Busy(s))
  BY <1>3, <1>4 DEF Pending, Kept, Busy
<1>6. CASE ~Busy(s)
  BY <1>4, <1>5, <1>6, SafeFrame
<1>7. CASE Busy(s)
  <2>1. job.sensor = s
    BY <1>7 DEF Busy
  <2>2. StaleReached(s)'
    BY <1>4, <1>5 DEF Safe, StaleReached, Reaches
  <2>3. ASSUME NEW h \in Hours, h < first, hourly[s][h] # Row(polls[s], h)
        PROVE  Near(polls[s], Kept(s), h)
    <3>1. h \in Nat
      BY TimeAssumption DEF Hours
    <3>2. s \in summary /\ first = HourOf[u]
      BY <2>1, <2>3, <3>1
    <3>3. Near(polls[s], Pending(s), h)
      BY <2>3, <3>2 DEF Safe, StaleReached, Reaches
    <3>4. ~Near(polls[s], job.mark, h)
      <4>1. HourOf[u] \in Nat /\ ~(HourOf[u] <= h)
        BY <2>3, <3>1, <3>2, TimeAssumption
      <4>2. IsStart(u, polls[s], job.mark)
        BY <1>1, <2>1
      <4>3. QED
        BY <4>1, <4>2 DEF Near
    <3>5. Pending(s) \in {Kept(s), job.mark}
      <4>1. dirty[s] \in Marks /\ carry[s] \in Marks /\ job.mark \in Marks
        BY DEF Jobs
      <4>2. Pending(s) = Least(Kept(s), job.mark)
        BY <1>7 DEF Pending, Kept
      <4>3. QED
        BY <4>1, <4>2, LeastMark, LeastLaws DEF Kept
    <3>6. QED
      BY <3>3, <3>4, <3>5
  <2>4. s \notin summary => first = 0
    BY <2>1
  <2>5. HeadKept(s)'
    <3> HIDE DEF first
    <3>1. QED
      BY <1>3, <1>4, <1>5, <2>3, <2>4 DEF HeadKept
  <2>6. TailKept(s)'
    BY <1>4 DEF TailKept
  <2>7. QED
    BY <2>2, <2>5, <2>6 DEF Safe
<1>8. QED
  BY <1>6, <1>7

LEMMA ReadSafe ==
  ASSUME TypeOK, Read, NEW s \in Sensors, Safe(s)
  PROVE  Safe(s)'
<1> USE DEF TypeOK
<1>1. job' = [job EXCEPT !.seen = polls[job.sensor]]
  BY DEF Read
<1>2. job'.sensor = job.sensor /\ job'.mark = job.mark /\ job'.from = job.from
      /\ job'.seen = polls[job.sensor] /\ job.from \in Nat
  BY <1>1 DEF Jobs
<1>3. /\ polls' = polls /\ hourly' = hourly /\ summary' = summary /\ dirty' = dirty
      /\ carry' = carry /\ pc = "started" /\ pc' = "read"
  BY DEF Read, dbVars
<1>4. Pending(s)' = Pending(s) /\ Kept(s)' = Kept(s) /\ (Busy(s)' <=> Busy(s))
  BY <1>2, <1>3 DEF Pending, Kept, Busy
<1>5. StaleReached(s)' /\ HeadKept(s)'
  BY <1>2, <1>3, <1>4 DEF Safe, StaleReached, Reaches, HeadKept
<1>6. TailKept(s)'
  <2> SUFFICES ASSUME Busy(s), NEW h \in Hours, job.from <= h
               PROVE  Row(PollsRead(polls[s], job.from), h) = Row(polls[s], h)
    BY <1>2, <1>3, <1>4 DEF TailKept, Busy
  <2>1. QED
    BY <1>2, ReadSuffices
<1>7. QED
  BY <1>5, <1>6 DEF Safe

\* What a refresh of the sensor stores: its stale hours are those a later mark
\* reaches.
LEMMA RecomputeLeaves ==
  ASSUME TypeOK, Recompute, NEW s \in Sensors, job.sensor = s, Safe(s), UNCHANGED polls,
         NEW h \in Hours, hourly'[s][h] # Row(polls[s], h)
  PROVE  Near(polls[s], Kept(s), h)
<1> USE DEF TypeOK
<1>1. Busy(s) /\ pc = "read"
  BY DEF Recompute, Busy
<1>2. hourly'[s][h] = IF h < job.from THEN hourly[s][h] ELSE Row(PollsRead(job.seen, job.from), h)
  BY DEF Recompute
<1>3. h \in Nat /\ job.from \in Nat
  BY TimeAssumption DEF Hours, Jobs
<1>4. CASE h < job.from
  BY <1>1, <1>2, <1>4 DEF Safe, HeadKept
<1>5. CASE job.from <= h
  <2>1. hourly'[s][h] = Row(PollsRead(job.seen, job.from), h)
    BY <1>2, <1>3, <1>5
  <2>2. QED
    BY <1>1, <1>5, <2>1 DEF Safe, TailKept
<1>6. QED
  BY <1>3, <1>4, <1>5

LEMMA CommitSafe ==
  ASSUME TypeOK, HandInv, Commit, NEW s \in Sensors, Safe(s)
  PROVE  Safe(s)'
<1> USE DEF TypeOK
<1>1. /\ Recompute /\ polls' = polls /\ dirty' = dirty /\ carry' = carry /\ pc' = "round"
      /\ pc = "read" /\ summary' = summary \cup {job.sensor} /\ job.sensor \in Sensors
  BY DEF Commit, Recompute
<1>2. ~Busy(s)' /\ Kept(s)' = Kept(s)
  BY <1>1 DEF Busy, Kept
<1>3. Kept(s) \in Marks
  BY LeastMark DEF Kept
<1>4. Pending(s)' = Kept(s)
  BY <1>2, <1>3, LeastLaws DEF Pending, Kept
<1>5. CASE job.sensor # s
  <2>1. hourly'[s] = hourly[s] /\ (s \in summary' <=> s \in summary)
    BY <1>1, <1>5 DEF Recompute
  <2>2. Pending(s) = Kept(s)
    BY <1>3, <1>5, LeastLaws DEF Pending, Kept, Busy
  <2>3. QED
    BY <1>1, <1>2, <1>4, <2>1, <2>2, SafeFrame
<1>6. CASE job.sensor = s
  <2>1. ASSUME NEW h \in Hours, hourly'[s][h] # Row(polls[s], h)
        PROVE  Near(polls[s], Kept(s), h)
    BY <1>1, <1>6, <2>1, RecomputeLeaves
  <2>2. StaleReached(s)'
    BY <1>1, <1>4, <2>1 DEF StaleReached, Reaches, Near
  <2>3. QED
    BY <1>2, <2>2 DEF Safe, HeadKept, TailKept
<1>7. QED
  BY <1>5, <1>6

LEMMA FailSafe ==
  ASSUME TypeOK, HandInv, NEW alive \in BOOLEAN, Fail(alive), NEW s \in Sensors, Safe(s)
  PROVE  Safe(s)'
<1> USE DEF TypeOK
<1>1. /\ polls' = polls /\ pc' = "idle" /\ pc \in {"taken", "started", "read"}
      /\ job.sensor \in Sensors
      /\ (hourly' = hourly /\ summary' = summary) \/ (~alive /\ Recompute)
  BY DEF Fail
<1>2. dirty[s] \in Marks /\ carry[s] \in Marks /\ job.mark \in Marks
  BY DEF Jobs
<1>3. Kept(s) \in Marks /\ Pending(s) \in Marks
  BY <1>2, LeastMark, NoMarkIsMark DEF Kept, Pending
<1>4. ~Busy(s)'
  BY <1>1 DEF Busy
<1>5. CASE job.sensor # s
  <2>1. hourly'[s] = hourly[s] /\ (s \in summary' <=> s \in summary)
    BY <1>1, <1>5 DEF Recompute
  <2>2. dirty'[s] = dirty[s] /\ carry'[s] = carry[s]
    BY <1>5 DEF Fail
  <2>3. Pending(s)' = Pending(s)
    BY <1>1, <1>4, <1>5, <2>2 DEF Pending, Busy
  <2>4. QED
    BY <1>1, <1>4, <2>1, <2>3, SafeFrame
<1>6. CASE job.sensor = s
  <2>1. Busy(s) /\ Pending(s) = Least(Kept(s), job.mark)
    BY <1>1, <1>6 DEF Busy, Pending, Kept
  <2>2. Pending(s)' = Pending(s)
    <3> DEFINE m == Least(carry[s], job.mark)
    <3>1. m \in Marks /\ Pending(s) = Least(dirty[s], m)
      BY <1>2, <2>1, LeastMark, LeastAssociates DEF Kept
    <3>2. Pending(s)' = Least(Least(dirty'[s], carry'[s]), NoMark)
      BY <1>4 DEF Pending
    <3>3. \/ dirty'[s] = Least(dirty[s], m) /\ carry'[s] \in {m, NoMark}
          \/ dirty'[s] = dirty[s] /\ carry'[s] = m
      BY <1>6 DEF Fail
    <3> HIDE DEF m
    <3>4. Least(Least(dirty[s], m), m) = Least(dirty[s], m)
      BY <1>2, <3>1, LeastLaws, LeastAssociates
    <3>5. QED
      BY <1>2, <1>3, <3>1, <3>2, <3>3, <3>4, LeastLaws, NoMarkIsMark
  <2>3. CASE hourly' = hourly /\ summary' = summary
    BY <1>1, <1>4, <2>2, <2>3, SafeFrame
  <2>4. CASE Recompute
    <3>1. ASSUME NEW h \in Hours, hourly'[s][h] # Row(polls[s], h)
          PROVE  Near(polls[s], Pending(s), h)
      <4>1. Near(polls[s], Kept(s), h)
        BY <1>1, <1>6, <2>4, <3>1, RecomputeLeaves
      <4>2. Pending(s) <= Kept(s) /\ h \in Nat /\ polls[s] \in SUBSET Times
        BY <1>2, <1>3, <2>1, LeastLaws, TimeAssumption DEF Hours
      <4>3. QED
        BY <1>3, <4>1, <4>2, NearEarlier
    <3>2. StaleReached(s)'
      BY <1>1, <2>2, <3>1 DEF StaleReached, Reaches, Near
    <3>3. QED
      BY <1>4, <3>2 DEF Safe, HeadKept, TailKept
  <2>5. QED
    BY <1>1, <2>3, <2>4
<1>7. QED
  BY <1>5, <1>6

\* The two steps that cost a window.
Mishap == Kill \/ \E r \in Sensors : TakeUntold(r)

LEMMA MishapCounted ==
  ASSUME TypeOK, [Next]_vars
  PROVE  Mishaps \in Nat /\ Mishaps' = Mishaps + (IF Mishap THEN 1 ELSE 0)
<1> USE DEF TypeOK, Mishaps
<1>1. CASE Mishap
  <2>1. Mishaps' = Mishaps + 1
    <3>1. CASE Kill
      BY <3>1 DEF Kill
    <3>2. ASSUME NEW r \in Sensors, TakeUntold(r) PROVE Mishaps' = Mishaps + 1
      BY <3>2 DEF TakeUntold
    <3>3. QED
      BY <1>1, <3>1, <3>2 DEF Mishap
  <2>2. QED
    BY <1>1, <2>1
<1>2. CASE ~Mishap
  BY <1>2 DEF Mishap, Next, Ingest, Restore, RoundBegin, Take, Start, Read, Commit, Fail, RoundEnd,
              RoundError, vars
<1>3. QED
  BY <1>1, <1>2

LEMMA StepSafe ==
  ASSUME TypeOK, HandInv, [Next]_vars, ~Mishap, NEW s \in Sensors, Safe(s)
  PROVE  Safe(s)'
<1> USE DEF TypeOK
<1>1. /\ dirty[s] \in Marks /\ carry[s] \in Marks /\ job.mark \in Marks
      /\ Kept(s) \in Marks /\ Pending(s) \in Marks
  BY LeastMark, NoMarkIsMark DEF Jobs, Kept, Pending
<1>2. ASSUME NEW r \in Sensors, NEW T \in SUBSET Times, Ingest(r, T) PROVE Safe(s)'
  <2>1. CASE r = s
    BY <1>2, <2>1, IngestSafe
  <2>2. CASE r # s
    <3>1. /\ polls'[s] = polls[s] /\ dirty'[s] = dirty[s] /\ hourly' = hourly
          /\ summary' = summary /\ carry' = carry /\ pc' = pc /\ job' = job
      BY <1>2, <2>2 DEF Ingest
    <3>2. Pending(s)' = Pending(s) /\ Kept(s)' = Kept(s)
      BY <3>1 DEF Pending, Kept, Busy
    <3>3. QED
      BY <3>1, <3>2, SafeFrame
  <2>3. QED
    BY <2>1, <2>2
<1>3. ASSUME NEW r \in Sensors, NEW answered \in BOOLEAN, Restore(r, answered) PROVE Safe(s)'
  <2>1. /\ polls' = polls /\ hourly' = hourly /\ summary' = summary /\ pc' = "idle" /\ pc = "idle"
    BY <1>3 DEF Restore
  <2>2. ~Busy(s)' /\ ~Busy(s)
    BY <2>1 DEF Busy
  <2>3. \/ dirty'[s] = dirty[s] /\ carry'[s] = carry[s]
        \/ dirty'[s] = Least(dirty[s], carry[s]) /\ carry'[s] \in {carry[s], NoMark}
    BY <1>3 DEF Restore
  <2>4. Least(dirty'[s], carry'[s]) = Least(dirty[s], carry[s])
    BY <1>1, <2>3, LeastLaws, LeastAssociates, NoMarkIsMark DEF Kept
  <2>5. Pending(s)' = Pending(s)
    BY <2>2, <2>4 DEF Pending
  <2>6. QED
    BY <2>1, <2>2, <2>5, SafeFrame
<1>4. CASE RoundBegin \/ RoundEnd \/ RoundError
  <2>1. /\ polls' = polls /\ hourly' = hourly /\ summary' = summary /\ dirty' = dirty
        /\ carry' = carry /\ pc' \in {"idle", "round"} /\ pc \in {"idle", "round"}
    BY <1>4 DEF RoundBegin, RoundEnd, RoundError, dbVars
  <2>2. ~Busy(s)' /\ ~Busy(s)
    BY <2>1 DEF Busy
  <2>3. Pending(s)' = Pending(s)
    BY <2>1, <2>2 DEF Pending
  <2>4. QED
    BY <2>1, <2>2, <2>3, SafeFrame
<1>5. ASSUME NEW r \in Sensors, Take(r) PROVE Safe(s)'
  <2>1. /\ polls' = polls /\ hourly' = hourly /\ summary' = summary /\ carry' = carry
        /\ pc' = "taken" /\ pc = "round" /\ job'.sensor = r /\ job'.mark = dirty[r]
        /\ carry[s] = NoMark
    BY <1>5 DEF Take, InTurn, HandInv
  <2>2. ~Busy(s) /\ (Busy(s)' <=> r = s)
    BY <2>1 DEF Busy
  <2>3. dirty'[s] = IF r = s THEN NoMark ELSE dirty[s]
    BY <1>5 DEF Take
  <2>4. Pending(s) = dirty[s]
    BY <1>1, <2>1, <2>2, LeastLaws DEF Pending
  <2>5. Pending(s)' = dirty[s]
    <3>1. CASE r = s
      <4>1. Pending(s)' = Least(Least(NoMark, NoMark), dirty[s])
        BY <2>1, <2>2, <2>3, <3>1 DEF Pending
      <4>2. QED
        BY <1>1, <4>1, LeastLaws, NoMarkIsMark
    <3>2. CASE r # s
      <4>1. Pending(s)' = Least(Least(dirty[s], NoMark), NoMark)
        BY <2>1, <2>2, <2>3, <3>2 DEF Pending
      <4>2. QED
        BY <1>1, <4>1, LeastLaws
    <3>3. QED
      BY <3>1, <3>2
  <2>6. QED
    BY <2>1, <2>4, <2>5, SafeFrame
<1>6. CASE Start
  BY <1>6, StartSafe
<1>7. CASE Read
  BY <1>7, ReadSafe
<1>8. CASE Commit
  BY <1>8, CommitSafe
<1>9. ASSUME NEW alive \in BOOLEAN, Fail(alive) PROVE Safe(s)'
  BY <1>9, FailSafe
<1>10. CASE UNCHANGED vars
  <2>1. Pending(s)' = Pending(s) /\ Kept(s)' = Kept(s)
    BY <1>10 DEF vars, dbVars, Pending, Kept, Busy
  <2>2. QED
    BY <1>10, <2>1, SafeFrame DEF vars, dbVars
<1>11. QED
  BY <1>2, <1>3, <1>4, <1>5, <1>6, <1>7, <1>8, <1>9, <1>10 DEF Next, Mishap

\* A kill costs the one window in hand.
LEMMA KillSafe ==
  ASSUME TypeOK, HandInv, Kill
  PROVE  \E x : \A s \in Sensors : s # x /\ Safe(s) => Safe(s)'
<1> USE DEF TypeOK
<1>1. /\ polls' = polls /\ hourly' = hourly /\ summary' = summary /\ dirty' = dirty
      /\ pc' = "idle" /\ \A s \in Sensors : carry'[s] = NoMark
  BY DEF Kill, dbVars
<1> DEFINE InHand(s) == carry[s] # NoMark \/ Busy(s)
<1>2. \A r, s \in Sensors : InHand(r) /\ InHand(s) => r = s
  BY DEF HandInv, Busy
<1>3. ASSUME NEW s \in Sensors, ~InHand(s), Safe(s) PROVE Safe(s)'
  <2>1. ~Busy(s)'
    BY <1>1 DEF Busy
  <2>2. Pending(s)' = Pending(s)
    BY <1>1, <1>3, <2>1 DEF Pending
  <2>3. QED
    BY <1>1, <1>3, <2>1, <2>2, SafeFrame
<1>4. CASE \E x \in Sensors : InHand(x)
  <2>1. PICK x \in Sensors : InHand(x)
    BY <1>4
  <2> HIDE DEF InHand
  <2>2. QED
    BY <1>2, <1>3, <2>1
<1>5. CASE ~\E x \in Sensors : InHand(x)
  <2> HIDE DEF InHand
  <2>1. QED
    BY <1>3, <1>5
<1>6. QED
  BY <1>4, <1>5

\* The lost answer of a take costs the window taken.
LEMMA UntoldSafe ==
  ASSUME TypeOK, HandInv, NEW r \in Sensors, TakeUntold(r)
  PROVE  \A s \in Sensors : s # r /\ Safe(s) => Safe(s)'
<1> USE DEF TypeOK
<1> SUFFICES ASSUME NEW s \in Sensors, s # r, Safe(s) PROVE Safe(s)'
  OBVIOUS
<1>1. /\ polls' = polls /\ hourly' = hourly /\ summary' = summary /\ carry' = carry
      /\ dirty'[s] = dirty[s] /\ pc = "round" /\ pc' = "idle"
  BY DEF TakeUntold, InTurn
<1>2. ~Busy(s) /\ ~Busy(s)'
  BY <1>1 DEF Busy
<1>3. Pending(s)' = Pending(s)
  BY <1>1, <1>2 DEF Pending
<1>4. QED
  BY <1>1, <1>2, <1>3, SafeFrame

LEMMA MishapSafe ==
  ASSUME TypeOK, HandInv, Mishap
  PROVE  \E x : \A s \in Sensors : s # x /\ Safe(s) => Safe(s)'
<1>1. CASE Kill
  BY <1>1, KillSafe
<1>2. CASE \E r \in Sensors : TakeUntold(r)
  BY <1>2, UntoldSafe
<1>3. QED
  BY <1>1, <1>2 DEF Mishap

LEMMA NextLoss == TypeOK /\ HandInv /\ LossInv /\ [Next]_vars => LossInv'
<1> SUFFICES ASSUME TypeOK, HandInv, LossInv, [Next]_vars PROVE LossInv'
  OBVIOUS
<1>1. IsFiniteSet(Unsafe) /\ Cardinality(Unsafe) <= Mishaps /\ Mishaps \in Nat
  BY MishapCounted DEF LossInv
<1>2. CASE ~Mishap
  <2>1. Mishaps' = Mishaps
    BY <1>1, <1>2, MishapCounted
  <2>2. Unsafe' \subseteq Unsafe
    BY <1>2, StepSafe DEF Unsafe
  <2>3. IsFiniteSet(Unsafe') /\ Cardinality(Unsafe') <= Cardinality(Unsafe)
        /\ Cardinality(Unsafe') \in Nat /\ Cardinality(Unsafe) \in Nat
    BY <1>1, <2>2, FS_Subset, FS_CardinalityType
  <2>4. QED
    BY <1>1, <2>1, <2>3 DEF LossInv
<1>3. CASE Mishap
  <2>1. PICK x : \A s \in Sensors : s # x /\ Safe(s) => Safe(s)'
    BY <1>3, MishapSafe
  <2>2. Unsafe' \subseteq Unsafe \cup {x}
    BY <2>1 DEF Unsafe
  <2>3. IsFiniteSet(Unsafe \cup {x}) /\ Cardinality(Unsafe \cup {x}) <= Cardinality(Unsafe) + 1
    <3>1. /\ IsFiniteSet(Unsafe \cup {x})
          /\ Cardinality(Unsafe \cup {x}) = IF x \in Unsafe THEN Cardinality(Unsafe)
                                            ELSE Cardinality(Unsafe) + 1
      BY <1>1, FS_AddElement
    <3>2. Cardinality(Unsafe) \in Nat
      BY <1>1, FS_CardinalityType
    <3>3. QED
      BY <3>1, <3>2
  <2>4. IsFiniteSet(Unsafe') /\ Cardinality(Unsafe') <= Cardinality(Unsafe \cup {x})
    BY <2>2, <2>3, FS_Subset
  <2>5. Mishaps' = Mishaps + 1
    BY <1>3, MishapCounted
  <2>6. /\ Cardinality(Unsafe) \in Nat /\ Cardinality(Unsafe \cup {x}) \in Nat
        /\ Cardinality(Unsafe') \in Nat
    BY <1>1, <2>3, <2>4, FS_CardinalityType
  <2>7. QED
    BY <1>1, <2>3, <2>4, <2>5, <2>6 DEF LossInv
<1>4. QED
  BY <1>2, <1>3

LEMMA LossBounded == TypeOK /\ LossInv => OneWindowPerMishap
<1> SUFFICES ASSUME TypeOK, LossInv PROVE OneWindowPerMishap
  OBVIOUS
<1>1. Lost \subseteq Unsafe
  BY DEF Lost, Unsafe, Safe, StaleReached
<1>2. Cardinality(Lost) <= Cardinality(Unsafe) /\ IsFiniteSet(Lost)
  BY <1>1, FS_Subset DEF LossInv
<1>3. Cardinality(Lost) \in Nat /\ Cardinality(Unsafe) \in Nat
  BY <1>2, FS_CardinalityType DEF LossInv
<1>4. QED
  BY <1>2, <1>3 DEF LossInv, OneWindowPerMishap, Mishaps, TypeOK

\* For any sensors, batches, hours and gaps: an hour whose row is not what a
\* refresh of the whole history would leave is within the reach of a mark,
\* through every interleaving of the ingest and every failed refresh; each kill
\* of the process and each lost answer of a take costs at most one sensor's
\* window.
THEOREM NoWindowLost == Spec => []OneWindowPerMishap
<1>1. Init => TypeOK /\ HandInv /\ LossInv
  BY InitType, InitSafe
<1>2. TypeOK /\ HandInv /\ LossInv /\ [Next]_vars => (TypeOK /\ HandInv /\ LossInv)'
  BY NextType, NextHand, NextLoss
<1>3. QED
  BY <1>1, <1>2, LossBounded, PTL DEF Spec

-----------------------------------------------------------------------------
(* The charts lag by one round at most.  A poll that a rollup misses lies   *)
(* at or after a mark of its sensor, or in the part of the history that the *)
(* refresh under way is going to write; the marks that are there when a     *)
(* round begins are all taken in it.                                        *)

Missing(s) == {t \in polls[s] : t \notin hourly[s][HourOf[t]].polls}

\* A mark that outlives the refresh under way reaches the poll.
Marked(s, t) == dirty[s] <= t \/ carry[s] <= t

\* A missing poll is marked or in hand; what the refresh in hand will not
\* write, or writes from polls that are out of date, is marked.
PollKept(s) ==
  /\ \A t \in Missing(s) : Marked(s, t) \/ (Busy(s) /\ job.mark <= t)
  /\ Busy(s) /\ pc \in {"started", "read"} =>
       \A t \in Missing(s) : HourOf[t] < job.from => Marked(s, t)
  /\ Busy(s) /\ pc = "read" =>
       \A t \in polls[s] : job.from <= HourOf[t] /\ t \notin job.seen => Marked(s, t)

\* The round under way is going to store the poll.
Pledged(s, t) ==
  \/ ~Busy(s) /\ s \in queue /\ dirty[s] <= t
  \/ Busy(s) /\ pc = "taken" /\ job.mark <= t
  \/ Busy(s) /\ pc \in {"started", "read"} /\ job.from <= HourOf[t]

RoundKept(s) ==
  pc # "idle" =>
    /\ before[s] \subseteq polls[s]
    /\ Busy(s) /\ pc = "read" => before[s] \subseteq job.seen
    /\ \A t \in before[s] : t \in Missing(s) => Pledged(s, t)

OnTime(s) == PollKept(s) /\ RoundKept(s)

Behind == {s \in Sensors : ~OnTime(s)}

LagInv == IsFiniteSet(Behind) /\ Cardinality(Behind) <= Mishaps

LEMMA LeastReaches ==
  ASSUME NEW a \in Marks, NEW b \in Marks, NEW t \in Times
  PROVE  /\ Least(a, b) <= t <=> a <= t \/ b <= t
         /\ ~(NoMark <= t)
BY TimeAssumption DEF Least, Marks, NoMark, Times

LEMMA LagInit == Init => LagInv
<1> SUFFICES ASSUME Init PROVE LagInv
  OBVIOUS
<1>1. \A s \in Sensors : polls[s] = {} /\ pc = "idle"
  BY DEF Init, NoPolls
<1>2. \A s \in Sensors : OnTime(s)
  BY <1>1 DEF OnTime, PollKept, RoundKept, Missing, Busy
<1>3. Behind = {}
  BY <1>2 DEF Behind
<1>4. QED
  BY <1>3, FS_EmptySet DEF LagInv, Mishaps, Init

-----------------------------------------------------------------------------
(* The steps.                                                               *)

\* Steps that leave the sensor's polls and rollups, and move its mark at most.
LEMMA KeptFrame ==
  ASSUME NEW s \in Sensors, PollKept(s),
         polls'[s] = polls[s], hourly'[s] = hourly[s],
         \A t \in polls[s] : Marked(s, t) => Marked(s, t)',
         \A t \in polls[s] : Busy(s) /\ job.mark <= t
                               => Marked(s, t)' \/ (Busy(s)' /\ job'.mark <= t),
         ~Busy(s)' \/ pc' = "taken" \/ (pc' = pc /\ job' = job)
  PROVE  PollKept(s)'
<1>1. Missing(s)' = Missing(s)
  BY DEF Missing
<1>2. \A t \in Missing(s) : t \in polls[s]
  BY DEF Missing
<1>3. \A t \in Missing(s)' : Marked(s, t)' \/ (Busy(s)' /\ job'.mark <= t)
  BY <1>1, <1>2 DEF PollKept
<1>4. CASE ~Busy(s)' \/ pc' = "taken"
  BY <1>3, <1>4 DEF PollKept
<1>5. CASE pc' = pc /\ job' = job
  BY <1>1, <1>2, <1>3, <1>5 DEF PollKept, Busy
<1>6. QED
  BY <1>4, <1>5

LEMMA RoundFrame ==
  ASSUME NEW s \in Sensors, RoundKept(s), pc # "idle",
         polls[s] \subseteq polls'[s], hourly'[s] = hourly[s], before' = before,
         ~(Busy(s)' /\ pc' = "read") \/ (pc' = pc /\ job' = job),
         \A t \in before[s] : Pledged(s, t) => Pledged(s, t)'
  PROVE  RoundKept(s)'
<1>1. before[s] \subseteq polls[s]
  BY DEF RoundKept
<1>2. \A t \in before[s] : t \in Missing(s)' => t \in Missing(s)
  BY <1>1 DEF Missing
<1>3. QED
  BY <1>1, <1>2 DEF RoundKept, Busy

LEMMA IngestOnTime ==
  ASSUME TypeOK, NEW r \in Sensors, NEW T \in SUBSET Times, Ingest(r, T),
         NEW s \in Sensors, OnTime(s)
  PROVE  OnTime(s)'
<1> USE DEF TypeOK
<1>1. PICK f \in T \ polls[r] : /\ \A t \in T \ polls[r] : f <= t
                                /\ dirty' = [dirty EXCEPT ![r] = Least(@, f)]
  BY DEF Ingest
<1>2. /\ polls' = [polls EXCEPT ![r] = @ \cup T] /\ hourly' = hourly /\ carry' = carry
      /\ pc' = pc /\ job' = job /\ queue' = queue /\ before' = before /\ (Busy(s)' <=> Busy(s))
  BY DEF Ingest, Busy
<1>3. dirty[s] \in Marks /\ dirty[r] \in Marks /\ f \in Marks /\ f \in Times
  BY <1>1, NoMarkIsMark
<1>4. \A t \in Times : dirty[s] <= t => dirty'[s] <= t
  BY <1>1, <1>3, LeastReaches
<1>5. \A t \in Times : r = s /\ f <= t => dirty'[s] <= t
  BY <1>1, <1>3, LeastReaches
<1>6. \A t \in polls'[s] : t \in Times /\ (t \in polls[s] \/ (r = s /\ f <= t))
  BY <1>1, <1>2
<1>7. \A t \in Times : Marked(s, t) => Marked(s, t)'
  BY <1>2, <1>4 DEF Marked
<1>8. \A t \in polls'[s] : t \in polls[s] \/ Marked(s, t)'
  BY <1>5, <1>6 DEF Marked
<1>9. \A t \in Missing(s)' : t \in Times /\ (t \in Missing(s) \/ Marked(s, t)')
  BY <1>2, <1>6, <1>8 DEF Missing
<1>10. PollKept(s)'
  BY <1>2, <1>6, <1>7, <1>8, <1>9 DEF PollKept, OnTime
<1>11. CASE pc = "idle"
  BY <1>2, <1>10, <1>11 DEF OnTime, RoundKept
<1>12. CASE pc # "idle"
  <2>1. before[s] \subseteq Times
    OBVIOUS
  <2>2. \A t \in before[s] : Pledged(s, t) => Pledged(s, t)'
    BY <1>2, <1>4, <2>1 DEF Pledged
  <2>3. polls[s] \subseteq polls'[s]
    BY <1>2
  <2>4. RoundKept(s)'
    BY <1>2, <1>12, <2>2, <2>3, RoundFrame DEF OnTime
  <2>5. QED
    BY <1>10, <2>4 DEF OnTime
<1>13. QED
  BY <1>11, <1>12

\* A round begins with every mark written back: what is missing is dirty.
LEMMA BeginOnTime ==
  ASSUME TypeOK, RoundBegin, NEW s \in Sensors, OnTime(s)
  PROVE  OnTime(s)'
<1> USE DEF TypeOK
<1>1. /\ polls' = polls /\ hourly' = hourly /\ dirty' = dirty /\ carry' = carry /\ job' = job
      /\ pc = "idle" /\ pc' = "round" /\ before' = polls
      /\ queue' = {r \in Sensors : dirty[r] # NoMark} /\ carry[s] = NoMark
  BY DEF RoundBegin, dbVars, Carried
<1>2. ~Busy(s) /\ ~Busy(s)'
  BY <1>1 DEF Busy
<1>3. \A t \in polls[s] : Marked(s, t) => Marked(s, t)'
  BY <1>1 DEF Marked
<1>4. PollKept(s)'
  BY <1>1, <1>2, <1>3, KeptFrame DEF OnTime
<1>5. ASSUME NEW t \in Missing(s)' PROVE Pledged(s, t)'
  <2>1. t \in Missing(s) /\ t \in Times
    BY <1>1, <1>5 DEF Missing
  <2>2. dirty[s] <= t \/ carry[s] <= t
    BY <1>2, <2>1 DEF OnTime, PollKept, Marked
  <2>3. dirty[s] <= t /\ dirty[s] # NoMark
    BY <1>1, <2>1, <2>2, LeastReaches, NoMarkIsMark
  <2>4. QED
    BY <1>1, <1>2, <2>3 DEF Pledged
<1>6. RoundKept(s)'
  BY <1>1, <1>2, <1>5 DEF RoundKept
<1>7. QED
  BY <1>4, <1>6 DEF OnTime

LEMMA TakeOnTime ==
  ASSUME TypeOK, HandInv, NEW r \in Sensors, Take(r), NEW s \in Sensors, OnTime(s)
  PROVE  OnTime(s)'
<1> USE DEF TypeOK
<1>1. /\ polls' = polls /\ hourly' = hourly /\ carry' = carry /\ before' = before
      /\ pc = "round" /\ pc' = "taken" /\ queue' = queue \ {r} /\ carry[s] = NoMark
      /\ job'.sensor = r /\ job'.mark = dirty[r]
  BY DEF Take, InTurn, HandInv
<1>2. dirty'[s] = IF r = s THEN NoMark ELSE dirty[s]
  BY DEF Take
<1>3. ~Busy(s) /\ (Busy(s)' <=> r = s)
  BY <1>1 DEF Busy
<1>4. \A t \in Missing(s) : dirty[s] <= t
  <2>1. \A t \in Missing(s) : t \in Times
    BY DEF Missing
  <2>2. QED
    BY <1>1, <1>3, <2>1, LeastReaches, NoMarkIsMark DEF OnTime, PollKept, Marked
<1>5. Missing(s)' = Missing(s)
  BY <1>1 DEF Missing
<1>6. PollKept(s)'
  BY <1>1, <1>2, <1>3, <1>4, <1>5 DEF PollKept, Marked
<1>7. \A t \in before[s] : Pledged(s, t) => Pledged(s, t)'
  BY <1>1, <1>2, <1>3 DEF Pledged
<1>8. RoundKept(s)'
  BY <1>1, <1>7, RoundFrame DEF OnTime
<1>9. QED
  BY <1>6, <1>8 DEF OnTime

\* The first hour lies at or before the mark's.
LEMMA StartOnTime ==
  ASSUME TypeOK, Start, NEW s \in Sensors, OnTime(s)
  PROVE  OnTime(s)'
<1> USE DEF TypeOK
<1>1. PICK u \in Times : /\ IsStart(u, polls[job.sensor], job.mark)
                         /\ job' = [job EXCEPT !.from = IF job.sensor \in summary THEN HourOf[u] ELSE 0]
  BY DEF Start
<1>2. HourOf[u] \in Nat /\ u \in Nat /\ job.mark \in Nat
  BY TimeAssumption DEF Jobs, Marks, Times, NoMark
<1>3. /\ job'.sensor = job.sensor /\ job'.mark = job.mark
      /\ job'.from \in Nat /\ job'.from <= HourOf[u]
  BY <1>1, <1>2 DEF Jobs
<1>4. /\ polls' = polls /\ hourly' = hourly /\ dirty' = dirty /\ carry' = carry
      /\ queue' = queue /\ before' = before /\ pc = "taken" /\ pc' = "started"
      /\ (Busy(s)' <=> Busy(s))
  BY <1>3 DEF Start, dbVars, Busy
<1>5. u <= job.mark
  BY <1>1, <1>2 DEF IsStart, Times
<1>6. \A t \in Times : job.mark <= t => job'.from <= HourOf[t] /\ ~(HourOf[t] < job'.from)
  <2> SUFFICES ASSUME NEW t \in Times, job.mark <= t
               PROVE  job'.from <= HourOf[t] /\ ~(HourOf[t] < job'.from)
    OBVIOUS
  <2>1. u <= t
    BY <1>2, <1>5 DEF Times
  <2>2. HourOf[u] <= HourOf[t] /\ HourOf[t] \in Nat
    BY <2>1, TimeAssumption
  <2>3. QED
    BY <1>2, <1>3, <2>2
<1>7. Missing(s)' = Missing(s) /\ Missing(s) \subseteq Times
  BY <1>4 DEF Missing
<1>8. \A t \in Times : Marked(s, t)' <=> Marked(s, t)
  BY <1>4 DEF Marked
<1>9. \A t \in Missing(s) : Marked(s, t) \/ (Busy(s) /\ job.mark <= t)
  BY DEF OnTime, PollKept
<1>10. PollKept(s)'
  BY <1>3, <1>4, <1>6, <1>7, <1>8, <1>9 DEF PollKept
<1>11. \A t \in before[s] : Pledged(s, t) => Pledged(s, t)'
  <2>1. before[s] \subseteq Times
    OBVIOUS
  <2>2. QED
    BY <1>4, <1>6, <2>1 DEF Pledged
<1>12. RoundKept(s)'
  BY <1>4, <1>11, RoundFrame DEF OnTime
<1>13. QED
  BY <1>10, <1>12 DEF OnTime

LEMMA ReadOnTime ==
  ASSUME TypeOK, Read, NEW s \in Sensors, OnTime(s)
  PROVE  OnTime(s)'
<1> USE DEF TypeOK
<1>1. job' = [job EXCEPT !.seen = polls[job.sensor]]
  BY DEF Read
<1>2. job'.sensor = job.sensor /\ job'.mark = job.mark /\ job'.from = job.from
      /\ job'.seen = polls[job.sensor]
  BY <1>1 DEF Jobs
<1>3. /\ polls' = polls /\ hourly' = hourly /\ dirty' = dirty /\ carry' = carry
      /\ queue' = queue /\ before' = before /\ pc = "started" /\ pc' = "read"
      /\ (Busy(s)' <=> Busy(s)) /\ (Busy(s) => job.sensor = s)
  BY <1>2 DEF Read, dbVars, Busy
<1>4. Missing(s)' = Missing(s) /\ \A t : Marked(s, t)' <=> Marked(s, t)
  BY <1>3 DEF Missing, Marked
<1>5. PollKept(s)'
  BY <1>2, <1>3, <1>4 DEF PollKept, OnTime
<1>6. RoundKept(s)'
  BY <1>2, <1>3, <1>4 DEF RoundKept, OnTime, Pledged
<1>7. QED
  BY <1>5, <1>6 DEF OnTime

\* What a refresh stores misses only what is marked.
LEMMA RecomputeMisses ==
  ASSUME TypeOK, Recompute, NEW s \in Sensors, job.sensor = s, OnTime(s), UNCHANGED polls
  PROVE  /\ \A t \in polls[s] : t \notin hourly'[s][HourOf[t]].polls => Marked(s, t)
         /\ \A t \in before[s] : t \in hourly'[s][HourOf[t]].polls
<1> USE DEF TypeOK
<1>1. Busy(s) /\ pc = "read" /\ job.from \in Nat /\ job.seen \in SUBSET Times
  BY DEF Recompute, Busy, Jobs
<1>2. \A t \in Times : HourOf[t] \in Hours /\ HourOf[t] \in Nat
  BY TimeAssumption DEF Hours
<1>3. \A h \in Hours : hourly'[s][h] = IF h < job.from THEN hourly[s][h]
                                        ELSE Row(PollsRead(job.seen, job.from), h)
  BY DEF Recompute
<1>4. ASSUME NEW t \in Times, ~(HourOf[t] < job.from), t \in job.seen
      PROVE  t \in hourly'[s][HourOf[t]].polls
  <2>1. t \in PollsRead(job.seen, job.from)
    BY <1>4 DEF PollsRead
  <2>2. t \in Row(PollsRead(job.seen, job.from), HourOf[t]).polls
    BY <2>1 DEF Row
  <2>3. QED
    BY <1>2, <1>3, <1>4, <2>2
<1>5. ASSUME NEW t \in Times, HourOf[t] < job.from, t \in hourly[s][HourOf[t]].polls
      PROVE  t \in hourly'[s][HourOf[t]].polls
  BY <1>2, <1>3, <1>5
<1>6. ASSUME NEW t \in polls[s], t \notin hourly'[s][HourOf[t]].polls PROVE Marked(s, t)
  <2>1. t \in Times /\ HourOf[t] \in Nat
    BY <1>2
  <2>2. CASE HourOf[t] < job.from
    <3>1. t \in Missing(s)
      BY <1>5, <1>6, <2>1, <2>2 DEF Missing
    <3>2. QED
      BY <1>1, <2>2, <3>1 DEF OnTime, PollKept
  <2>3. CASE ~(HourOf[t] < job.from)
    <3>1. t \notin job.seen /\ job.from <= HourOf[t]
      BY <1>1, <1>4, <1>6, <2>1, <2>3
    <3>2. QED
      BY <1>1, <3>1 DEF OnTime, PollKept
  <2>4. QED
    BY <2>2, <2>3
<1>7. ASSUME NEW t \in before[s] PROVE t \in hourly'[s][HourOf[t]].polls
  <2>1. t \in Times /\ HourOf[t] \in Nat /\ t \in polls[s] /\ t \in job.seen
    BY <1>1, <1>2 DEF OnTime, RoundKept
  <2>2. CASE HourOf[t] < job.from
    <3>1. t \notin Missing(s)
      <4>1. ~(job.from <= HourOf[t])
        BY <1>1, <2>1, <2>2
      <4>2. QED
        BY <1>1, <4>1 DEF OnTime, RoundKept, Pledged
    <3>2. QED
      BY <1>5, <2>1, <2>2, <3>1 DEF Missing
  <2>3. CASE ~(HourOf[t] < job.from)
    BY <1>4, <2>1, <2>3
  <2>4. QED
    BY <2>2, <2>3
<1>8. QED
  BY <1>6, <1>7

LEMMA CommitOnTime ==
  ASSUME TypeOK, Commit, NEW s \in Sensors, OnTime(s)
  PROVE  OnTime(s)'
<1> USE DEF TypeOK
<1>1. /\ Recompute /\ polls' = polls /\ dirty' = dirty /\ carry' = carry /\ queue' = queue
      /\ before' = before /\ pc = "read" /\ pc' = "round"
  BY DEF Commit, Recompute
<1>2. ~Busy(s)' /\ \A t : Marked(s, t)' <=> Marked(s, t)
  BY <1>1 DEF Busy, Marked
<1>3. CASE job.sensor # s
  <2>1. hourly'[s] = hourly[s] /\ ~Busy(s)
    BY <1>1, <1>3 DEF Recompute, Busy
  <2>2. PollKept(s)'
    BY <1>1, <1>2, <2>1, KeptFrame DEF OnTime
  <2>3. \A t \in before[s] : Pledged(s, t) => Pledged(s, t)'
    BY <1>1, <1>2, <2>1 DEF Pledged
  <2>4. RoundKept(s)'
    BY <1>1, <1>2, <2>1, <2>3, RoundFrame DEF OnTime
  <2>5. QED
    BY <2>2, <2>4 DEF OnTime
<1>4. CASE job.sensor = s
  <2>1. /\ \A t \in polls[s] : t \notin hourly'[s][HourOf[t]].polls => Marked(s, t)
        /\ \A t \in before[s] : t \in hourly'[s][HourOf[t]].polls
    BY <1>1, <1>4, RecomputeMisses
  <2>2. \A t \in Missing(s)' : t \in polls[s] /\ t \notin hourly'[s][HourOf[t]].polls
    BY <1>1 DEF Missing
  <2>3. PollKept(s)'
    BY <1>2, <2>1, <2>2 DEF PollKept
  <2>4. RoundKept(s)'
    BY <1>1, <1>2, <2>1, <2>2 DEF RoundKept, OnTime
  <2>5. QED
    BY <2>3, <2>4 DEF OnTime
<1>5. QED
  BY <1>3, <1>4

LEMMA FailOnTime ==
  ASSUME TypeOK, NEW alive \in BOOLEAN, Fail(alive), NEW s \in Sensors, OnTime(s)
  PROVE  OnTime(s)'
<1> USE DEF TypeOK
<1>1. /\ polls' = polls /\ pc' = "idle" /\ pc \in {"taken", "started", "read"}
      /\ (hourly' = hourly \/ (~alive /\ Recompute))
  BY DEF Fail
<1>2. ~Busy(s)' /\ RoundKept(s)'
  BY <1>1 DEF Busy, RoundKept
<1>3. CASE job.sensor # s
  <2>1. hourly'[s] = hourly[s] /\ ~Busy(s) /\ dirty'[s] = dirty[s] /\ carry'[s] = carry[s]
    BY <1>1, <1>3 DEF Recompute, Busy, Fail
  <2>2. \A t : Marked(s, t)' <=> Marked(s, t)
    BY <2>1 DEF Marked
  <2>3. PollKept(s)'
    BY <1>1, <1>2, <2>1, <2>2, KeptFrame DEF OnTime
  <2>4. QED
    BY <1>2, <2>3 DEF OnTime
<1>4. CASE job.sensor = s
  <2>1. Busy(s) /\ dirty[s] \in Marks /\ carry[s] \in Marks /\ job.mark \in Marks
    BY <1>1, <1>4 DEF Busy, Jobs
  <2> DEFINE m == Least(carry[s], job.mark)
  <2>2. m \in Marks /\ \A t \in Times : m <= t <=> carry[s] <= t \/ job.mark <= t
    BY <2>1, LeastMark, LeastReaches
  <2>3. \/ dirty'[s] = Least(dirty[s], m)
        \/ dirty'[s] = dirty[s] /\ carry'[s] = m
    BY <1>4, <2>1 DEF Fail
  <2> HIDE DEF m
  <2>4. \A t \in Times : Marked(s, t) \/ job.mark <= t => Marked(s, t)'
    BY <2>1, <2>2, <2>3, LeastReaches DEF Marked
  <2>5. \A t \in polls[s] : t \notin hourly'[s][HourOf[t]].polls => Marked(s, t)'
    <3> SUFFICES ASSUME NEW t \in polls[s], t \notin hourly'[s][HourOf[t]].polls
                 PROVE  Marked(s, t)'
      OBVIOUS
    <3>1. t \in Times
      OBVIOUS
    <3>2. CASE hourly' = hourly
      <4>1. t \in Missing(s)
        BY <3>2 DEF Missing
      <4>2. QED
        BY <2>4, <3>1, <4>1 DEF OnTime, PollKept
    <3>3. CASE Recompute
      BY <1>1, <1>4, <2>4, <3>1, <3>3, RecomputeMisses
    <3>4. QED
      BY <1>1, <3>2, <3>3
  <2>6. \A t \in Missing(s)' : t \in polls[s] /\ t \notin hourly'[s][HourOf[t]].polls
    BY <1>1 DEF Missing
  <2>7. PollKept(s)'
    BY <1>2, <2>5, <2>6 DEF PollKept
  <2>8. QED
    BY <1>2, <2>7 DEF OnTime
<1>5. QED
  BY <1>3, <1>4

LEMMA LagStep ==
  ASSUME TypeOK, HandInv, [Next]_vars, ~Mishap, NEW s \in Sensors, OnTime(s)
  PROVE  OnTime(s)'
<1> USE DEF TypeOK
<1>1. ASSUME NEW r \in Sensors, NEW answered \in BOOLEAN, Restore(r, answered) PROVE OnTime(s)'
  <2>1. /\ polls' = polls /\ hourly' = hourly /\ pc' = "idle" /\ pc = "idle"
    BY <1>1 DEF Restore
  <2>2. ~Busy(s)' /\ ~Busy(s) /\ RoundKept(s)'
    BY <2>1 DEF Busy, RoundKept
  <2>3. dirty[s] \in Marks /\ carry[s] \in Marks
    OBVIOUS
  <2>4. \/ dirty'[s] = dirty[s] /\ carry'[s] = carry[s]
        \/ dirty'[s] = Least(dirty[s], carry[s])
    BY <1>1 DEF Restore
  <2>5. \A t \in Times : Marked(s, t) => Marked(s, t)'
    BY <2>3, <2>4, LeastReaches DEF Marked
  <2>6. \A t \in polls[s] : t \in Times
    OBVIOUS
  <2>7. PollKept(s)'
    BY <2>1, <2>2, <2>5, <2>6, KeptFrame DEF OnTime
  <2>8. QED
    BY <2>2, <2>7 DEF OnTime
<1>2. CASE RoundEnd \/ RoundError
  <2>1. /\ polls' = polls /\ hourly' = hourly /\ dirty' = dirty /\ carry' = carry
        /\ pc' = "idle" /\ pc = "round"
    BY <1>2 DEF RoundEnd, RoundError, dbVars
  <2>2. ~Busy(s)' /\ ~Busy(s) /\ RoundKept(s)' /\ \A t : Marked(s, t)' <=> Marked(s, t)
    BY <2>1 DEF Busy, RoundKept, Marked
  <2>3. PollKept(s)'
    BY <2>1, <2>2, KeptFrame DEF OnTime
  <2>4. QED
    BY <2>2, <2>3 DEF OnTime
<1>3. CASE UNCHANGED vars
  BY <1>3 DEF vars, dbVars, OnTime, PollKept, RoundKept, Missing, Marked, Pledged, Busy
<1>4. QED
  BY <1>1, <1>2, <1>3, IngestOnTime, BeginOnTime, TakeOnTime, StartOnTime, ReadOnTime,
     CommitOnTime, FailOnTime DEF Next, Mishap

\* A kill costs the sensor whose mark is in the process's memory.
LEMMA LagKill ==
  ASSUME TypeOK, HandInv, Kill
  PROVE  \E x : \A s \in Sensors : s # x /\ OnTime(s) => OnTime(s)'
<1> USE DEF TypeOK
<1>1. /\ polls' = polls /\ hourly' = hourly /\ dirty' = dirty /\ pc' = "idle"
      /\ \A s \in Sensors : carry'[s] = NoMark
  BY DEF Kill, dbVars
<1> DEFINE InHand(s) == carry[s] # NoMark \/ Busy(s)
<1>2. \A r, s \in Sensors : InHand(r) /\ InHand(s) => r = s
  BY DEF HandInv, Busy
<1>3. ASSUME NEW s \in Sensors, ~InHand(s), OnTime(s) PROVE OnTime(s)'
  <2>1. ~Busy(s)' /\ ~Busy(s) /\ RoundKept(s)' /\ carry'[s] = carry[s]
    BY <1>1, <1>3 DEF Busy, RoundKept
  <2>2. \A t : Marked(s, t)' <=> Marked(s, t)
    BY <1>1, <2>1 DEF Marked
  <2>3. PollKept(s)'
    BY <1>1, <1>3, <2>1, <2>2, KeptFrame DEF OnTime
  <2>4. QED
    BY <2>1, <2>3 DEF OnTime
<1> HIDE DEF InHand
<1>4. CASE \E x \in Sensors : InHand(x)
  BY <1>2, <1>3, <1>4
<1>5. CASE ~\E x \in Sensors : InHand(x)
  BY <1>3, <1>5
<1>6. QED
  BY <1>4, <1>5

\* The lost answer of a take costs the sensor it was for.
LEMMA LagUntold ==
  ASSUME TypeOK, NEW r \in Sensors, TakeUntold(r)
  PROVE  \A s \in Sensors : s # r /\ OnTime(s) => OnTime(s)'
<1> USE DEF TypeOK
<1> SUFFICES ASSUME NEW s \in Sensors, s # r, OnTime(s) PROVE OnTime(s)'
  OBVIOUS
<1>1. /\ polls' = polls /\ hourly' = hourly /\ carry' = carry /\ dirty'[s] = dirty[s]
      /\ pc = "round" /\ pc' = "idle"
  BY DEF TakeUntold, InTurn
<1>2. ~Busy(s)' /\ ~Busy(s) /\ RoundKept(s)' /\ \A t : Marked(s, t)' <=> Marked(s, t)
  BY <1>1 DEF Busy, RoundKept, Marked
<1>3. PollKept(s)'
  BY <1>1, <1>2, KeptFrame DEF OnTime
<1>4. QED
  BY <1>2, <1>3 DEF OnTime

LEMMA LagMishap ==
  ASSUME TypeOK, HandInv, Mishap
  PROVE  \E x : \A s \in Sensors : s # x /\ OnTime(s) => OnTime(s)'
<1>1. CASE Kill
  BY <1>1, LagKill
<1>2. CASE \E r \in Sensors : TakeUntold(r)
  BY <1>2, LagUntold
<1>3. QED
  BY <1>1, <1>2 DEF Mishap

LEMMA LagNext ==
  ASSUME TypeOK, HandInv, LagInv, [Next]_vars
  PROVE  LagInv'
<1>1. /\ IsFiniteSet(Behind) /\ Cardinality(Behind) <= Mishaps /\ Mishaps \in Nat
      /\ Cardinality(Behind) \in Nat
  BY FS_CardinalityType, MishapCounted DEF LagInv
<1>2. CASE ~Mishap
  <2>1. Mishaps' = Mishaps
    BY <1>1, <1>2, MishapCounted
  <2>2. Behind' \subseteq Behind
    BY <1>2, LagStep DEF Behind
  <2>3. IsFiniteSet(Behind') /\ Cardinality(Behind') <= Cardinality(Behind)
        /\ Cardinality(Behind') \in Nat
    BY <1>1, <2>2, FS_Subset, FS_CardinalityType
  <2>4. QED
    BY <1>1, <2>1, <2>3 DEF LagInv
<1>3. CASE Mishap
  <2>1. PICK x : \A s \in Sensors : s # x /\ OnTime(s) => OnTime(s)'
    BY <1>3, LagMishap
  <2>2. Behind' \subseteq Behind \cup {x}
    BY <2>1 DEF Behind
  <2>3. IsFiniteSet(Behind \cup {x}) /\ Cardinality(Behind \cup {x}) \in Nat
        /\ Cardinality(Behind \cup {x}) <= Cardinality(Behind) + 1
    <3>1. /\ IsFiniteSet(Behind \cup {x})
          /\ Cardinality(Behind \cup {x}) = IF x \in Behind THEN Cardinality(Behind)
                                            ELSE Cardinality(Behind) + 1
      BY <1>1, FS_AddElement
    <3>2. QED
      BY <1>1, <3>1
  <2>4. IsFiniteSet(Behind') /\ Cardinality(Behind') <= Cardinality(Behind \cup {x})
        /\ Cardinality(Behind') \in Nat
    BY <2>2, <2>3, FS_Subset, FS_CardinalityType
  <2>5. Mishaps' = Mishaps + 1
    BY <1>3, MishapCounted
  <2>6. QED
    BY <1>1, <2>3, <2>4, <2>5 DEF LagInv
<1>4. QED
  BY <1>2, <1>3

(* For any sensors, hours, batches, failures and kills: at the end of a      *)
(* round every poll stored at its start is in the rollups, of all sensors    *)
(* but one for each kill of the process and each lost answer of a take.      *)
THEOREM ChartsLagOneRound == Spec => []LagOneRound
<1>1. Init => TypeOK /\ HandInv /\ LagInv
  BY InitType, InitSafe, LagInit
<1>2. TypeOK /\ HandInv /\ LagInv /\ [Next]_vars => (TypeOK /\ HandInv /\ LagInv)'
  BY NextType, NextHand, LagNext
<1>3. TypeOK /\ LagInv => LagOneRound
  <2> SUFFICES ASSUME TypeOK, LagInv, pc = "round", queue = {}
               PROVE  Cardinality({s \in Sensors : \E t \in before[s] :
                                     t \notin hourly[s][HourOf[t]].polls}) <= Mishaps
    BY DEF LagOneRound
  <2> DEFINE Late == {s \in Sensors : \E t \in before[s] : t \notin hourly[s][HourOf[t]].polls}
  <2>1. ASSUME NEW s \in Late PROVE s \in Behind
    <3>1. PICK t \in before[s] : t \notin hourly[s][HourOf[t]].polls
      OBVIOUS
    <3>2. ~Busy(s) /\ ~Pledged(s, t)
      BY DEF Busy, Pledged
    <3>3. before[s] \subseteq polls[s] => t \in Missing(s)
      BY <3>1 DEF Missing
    <3>4. QED
      BY <3>1, <3>2, <3>3 DEF Behind, OnTime, RoundKept
  <2>2. Late \subseteq Behind
    BY <2>1
  <2> HIDE DEF Late
  <2>3. IsFiniteSet(Behind) /\ IsFiniteSet(Late) /\ Cardinality(Late) <= Cardinality(Behind)
    BY <2>2, FS_Subset DEF LagInv
  <2>4. Cardinality(Late) \in Nat /\ Cardinality(Behind) \in Nat /\ Mishaps \in Nat
    BY <2>3, FS_CardinalityType DEF TypeOK, Mishaps
  <2>5. Cardinality(Late) <= Mishaps
    BY <2>3, <2>4 DEF LagInv
  <2>6. QED
    BY <2>5 DEF Late
<1>4. QED
  BY <1>1, <1>2, <1>3, PTL DEF Spec

=============================================================================
