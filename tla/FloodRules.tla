----------------------------- MODULE FloodRules -----------------------------
(***************************************************************************)
(* The pure rules of the deauth_flood detector: which polls are burst      *)
(* events, how events are merged into episodes, how many fall into a       *)
(* sliding window, the threshold of a Poisson background, the grade.       *)
(* evil_twin has its own copies of the merge and of the window count, with *)
(* the same text; both modules are mapped here.                            *)
(*                                                                         *)
(* Source: server/detection/deauth_flood.py.  Times are integers; an event *)
(* is a record with at least a field ts.                                   *)
(***************************************************************************)
EXTENDS Integers, Sequences, FiniteSets, FiniteSetsExt, SequencesExt

Ascending(T) ==
  [i \in 1..Cardinality(T) |-> CHOOSE t \in T : Cardinality({u \in T : u <= t}) = i]
Times(E) == {e.ts : e \in E}
FirstTs(E) == Min(Times(E))
LastTs(E)  == Max(Times(E))
SortedTs(E) ==
  [i \in 1..Cardinality(E) |->
     Min({t \in Times(E) : Cardinality({e \in E : e.ts <= t}) >= i})]

-----------------------------------------------------------------------------
(* A poll is [ts, last, cur]: the second of the last deauth frame (none     *)
(* before buffer v3) and the size of the current burst.                     *)
NoValue == -1

Previous(polls, p) ==
  LET before == {q \in polls : q.ts < p.ts}
  IN  IF before = {} THEN {} ELSE {q \in before : q.ts = Max(Times(before))}

(* The frame second moved past the previous poll.                           *)
BurstByFrame(polls, p, scanFrom) ==
  /\ p.last # NoValue
  /\ \A q \in Previous(polls, p) : q.last # p.last /\ p.last > q.ts
  /\ Previous(polls, p) = {} => p.last > scanFrom

(* The burst size changed to a non-zero value since a poll close enough.    *)
BurstByCounter(polls, p, maxGap) ==
  /\ p.last = NoValue
  /\ p.cur # NoValue /\ p.cur > 0
  /\ \E q \in Previous(polls, p) :
       q.cur # NoValue /\ q.cur # p.cur /\ p.ts - q.ts <= maxGap

InRange(E, from, to) == {e \in E : from <= e.ts /\ e.ts < to}

Bursts(allPolls, scanFrom, scanTo, maxGap) ==
  LET polls == InRange(allPolls, scanFrom, scanTo)
  IN  {[ts |-> p.last, poll |-> p.ts] :
         p \in {q \in polls : BurstByFrame(polls, q, scanFrom)}}
      \cup {[ts |-> p.ts, poll |-> p.ts] :
         p \in {q \in polls : BurstByCounter(polls, q, maxGap)}}

-----------------------------------------------------------------------------
(* Events in time order; a silence longer than gap closes an episode.       *)
AddToEpisodes(eps, t, gap) ==
  IF eps = <<>> \/ t - Max(eps[Len(eps)]) > gap
  THEN Append(eps, {t})
  ELSE [eps EXCEPT ![Len(eps)] = @ \cup {t}]

BuildEpisodes(E, gap) ==
  LET runs == FoldLeft(LAMBDA eps, t : AddToEpisodes(eps, t, gap), <<>>, Ascending(Times(E)))
  IN  [i \in DOMAIN runs |-> {e \in E : e.ts \in runs[i]}]

(* One step of the two-pointer count: acc is the window's left end and the  *)
(* best count so far, i the right end.                                      *)
SlideTo(times, i, acc, w) ==
  LET j == Min({k \in acc.left..i : times[i] - times[k] <= w})
  IN  [left |-> j, best |-> Max({acc.best, i - j + 1})]

MaxInWindow(times, w) ==
  FoldLeftDomain(LAMBDA acc, i : SlideTo(times, i, acc, w), [left |-> 1, best |-> 0], times).best

(* cdf[x + 1] is P(N <= x) of the background, in the unit One; the loop     *)
(* stops at the first x whose cdf exceeds One - alpha.                      *)
PoissonThreshold(cdf, one, alpha, floor) ==
  IF cdf = <<>> THEN floor
  ELSE LET above == {x \in 0..Len(cdf) - 1 : cdf[x + 1] > one - alpha}
           stop  == IF above = {} THEN Len(cdf) - 1 ELSE Min(above)
       IN  Max({floor, stop + 1})

Levels == <<"info", "low", "medium", "high", "critical">>
LevelOf(s) == CHOOSE i \in DOMAIN Levels : Levels[i] = s
Raised(s)  == Levels[Min({LevelOf(s) + 1, Len(Levels)})]

Grade(ruleA, ruleB, span, sustain, attackLike, trusted) ==
  LET level == IF ruleA /\ ruleB THEN "high"
               ELSE IF ~ruleA THEN "medium"
               ELSE IF span >= sustain THEN "high"
               ELSE IF span >= 2 THEN "medium" ELSE "low"
  IN  IF attackLike /\ trusted THEN Raised(level) ELSE level
=============================================================================
