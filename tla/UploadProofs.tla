---------------------------- MODULE UploadProofs ----------------------------
(***************************************************************************)
(* The proof that the times of a sensor without a clock are placed truly.  *)
(* All polls of a boot agree on when it began, and those it made before    *)
(* chrony's step also on the error of its clock; either anchor names the   *)
(* same beginning.  So the difference of the two epochs is that error, and *)
(* what timeline.py adds to a stale time makes it true.                    *)
(* And the proof that the server takes what the collector stores: a coercion *)
(* makes of every value of its column one that the server takes, nothing    *)
(* where nothing will do, or an integer that SQLite cannot hold.            *)
(* And that the server hears from the sensor again in time, or the oldest    *)
(* poll alone is too large: no wait outlives the deadline, and tries at once *)
(* get fewer with each.                                                      *)
(***************************************************************************)
EXTENDS Upload, FiniteSetTheorems, SequenceTheorems, WellFoundedInduction, TLAPS

\* A set of numbers has a least one.
LEMMA LeastIs ==
  ASSUME NEW S, S \subseteq Nat, S # {}
  PROVE  Line!Min(S) \in S /\ \A t \in S : Line!Min(S) <= t
<1> DEFINE less == {d \in Nat \X Nat : d[1] < d[2]}
<1>1. IsWellFoundedOn(less, Nat)
  BY NatLessThanWellFounded DEF OpToRel
<1> HIDE DEF less
<1>2. PICK u \in S : \A t \in S : ~(<<t, u>> \in less)
  BY <1>1, WFMin
<1>3. ASSUME NEW t \in S PROVE u <= t
  <2>1. t \in Nat /\ u \in Nat /\ ~(<<t, u>> \in less)
    BY <1>2
  <2>2. ~(t < u)
    BY <2>1 DEF less
  <2>3. QED
    BY <2>1, <2>2
<1>4. QED
  BY <1>3 DEF Line!Min

\* The lesser and the greater of two numbers.
LEMMA OfTwo ==
  ASSUME NEW a \in Int, NEW b \in Int
  PROVE  /\ Line!Min({a, b}) = IF a <= b THEN a ELSE b
         /\ Line!Max({a, b}) = IF a <= b THEN b ELSE a
<1>1. PICK m \in {a, b} : m <= a /\ m <= b /\ (m = IF a <= b THEN a ELSE b)
  OBVIOUS
<1>2. PICK n \in {a, b} : n >= a /\ n >= b /\ (n = IF a <= b THEN b ELSE a)
  OBVIOUS
<1>3. \A x \in {a, b} : (\A y \in {a, b} : x <= y) <=> x = m
  BY <1>1
<1>4. \A x \in {a, b} : (\A y \in {a, b} : x >= y) <=> x = n
  BY <1>2
<1>5. Line!Min({a, b}) = m
  BY <1>3 DEF Line!Min
<1>6. Line!Max({a, b}) = n
  BY <1>4 DEF Line!Max
<1>7. QED
  BY <1>1, <1>2, <1>5, <1>6

-----------------------------------------------------------------------------
(* What the buffer says of its boots.                                       *)

LineRows == [boot : LineBoots, mono : Int, ts : Int, synced : BOOLEAN, at : Int,
             heard : BOOLEAN, last : Int, lastAt : Int]

\* Two polls of a boot agree on when it began and, while its clock is not
\* synchronised, on how far it is off.
Agree(p, q) ==
  /\ p.at - p.mono = q.at - q.mono
  /\ ~p.synced /\ ~q.synced => p.ts - p.at = q.ts - q.at
  /\ p.synced /\ ~q.synced => q.at < p.at

PollsOK(P) ==
  /\ P \in Seq(LineRows)
  /\ \A i, j \in DOMAIN P : i < j => P[i].at < P[j].at
  /\ \A i \in DOMAIN P : (P[i].synced => P[i].ts = P[i].at) /\ (P[i].heard => P[i].lastAt <= P[i].at)
  /\ \A i, j \in DOMAIN P : P[i].boot = P[j].boot => Agree(P[i], P[j])

\* A frame that was not stamped truly was stamped before the clock was stepped.
Stale(p, q) ==
  /\ ~q.synced => p.last - p.lastAt = q.ts - q.at
  /\ q.synced => p.lastAt < q.at

ReadingsOK(P) ==
  /\ \A i \in DOMAIN P : P[i].heard /\ ~P[i].synced => P[i].last - P[i].lastAt = P[i].ts - P[i].at
  /\ \A i, j \in DOMAIN P :
       P[i].heard /\ P[i].last # P[i].lastAt /\ P[i].boot = P[j].boot => Stale(P[i], P[j])

\* The polls of the running boot.
Running(p) ==
  /\ p.at - p.mono = booted
  /\ ~p.synced => p.ts - p.at = skew
  /\ p.synced => stepped # None /\ stepped <= p.at
  /\ p.heard /\ p.last # p.lastAt => p.last - p.lastAt = skew

RunningOK(P) ==
  \A i \in DOMAIN P : P[i].at <= time /\ P[i].boot <= lineBoot /\ (P[i].boot = lineBoot => Running(P[i]))

\* An anchor names the time at which its boot began, as its polls do.
Names(a, P, b) ==
  /\ a.wall \in Int /\ a.mono \in Int
  /\ \A i \in DOMAIN P : P[i].boot = b => a.wall - a.mono = P[i].at - P[i].mono

AnchorsOK(P, A, S) ==
  /\ A = [b \in LineBoots |-> A[b]] /\ S = [b \in LineBoots |-> S[b]]
  /\ \A b \in LineBoots :
       /\ A[b] # None => Names(A[b], P, b)
                         /\ \E i \in DOMAIN P : P[i].boot = b /\ P[i].synced /\ A[b].wall = P[i].at
       /\ S[b] # None => Names(S[b], P, b) /\ \E i \in DOMAIN P : P[i].boot = b /\ ~P[i].synced
  /\ \A i \in DOMAIN P : P[i].synced => A[P[i].boot] # None

\* The exceptions of PlacedTruly, by the polls.
Off(P, A, r) ==
  \/ \A j \in DOMAIN P : P[j].boot = r.boot => P[j].synced /\ r.at <= P[j].at
  \/ \E j \in DOMAIN P :
       /\ P[j].boot = r.boot /\ ~P[j].synced
       /\ \/ P[j].at - P[j].ts < MinShift /\ r.ts = r.at + P[j].ts - P[j].at
          \/ /\ A[r.boot] # None /\ r.ts = r.at + P[j].at - P[j].ts
             /\ P[j].at - P[j].ts <= A[r.boot].wall - r.at

TakenOK(P, A, S, r) ==
  /\ r.boot \in LineBoots /\ r.ts \in Int /\ r.at \in Int
  /\ \E i \in DOMAIN P : P[i].boot = r.boot /\ (P[i].synced \/ A[r.boot] # None \/ S[r.boot] # None)
  /\ r.ts = r.at \/ (r.kind = "kismet" /\ Off(P, A, r))

ClockOK ==
  /\ time \in Int /\ lineBoot \in LineBoots /\ booted \in Int /\ skew \in Int
  /\ stepped \in Int \cup {None} /\ (stepped # None => stepped <= time)
  /\ lineCursor \in Nat

LineInv ==
  /\ ClockOK
  /\ PollsOK(linePolls) /\ ReadingsOK(linePolls) /\ RunningOK(linePolls)
  /\ AnchorsOK(linePolls, lineAnchors, serverAnchors)
  /\ \A r \in stored : TakenOK(linePolls, lineAnchors, serverAnchors, r)

LEMMA LineInit ==
  ASSUME Line!Init
  PROVE  LineInv
<1>1. linePolls \in Seq(LineRows) /\ DOMAIN linePolls = {}
  BY DEF Line!Init
<1>2. ClockOK
  BY LineAssumption DEF Line!Init, ClockOK
<1>3. QED
  BY <1>1, <1>2 DEF Line!Init, LineInv, PollsOK, ReadingsOK, RunningOK, AnchorsOK

(* The clock goes on, is stepped, or starts again.                          *)
LEMMA ClockStep ==
  ASSUME LineInv, Line!Tick \/ Line!Step \/ Line!Reboot
  PROVE  LineInv'
<1>1. UNCHANGED <<linePolls, lineAnchors, serverAnchors, stored, lineCursor>>
  <2>1. CASE Line!Tick
    BY <2>1 DEF Line!Tick
  <2>2. CASE Line!Step
    BY <2>2 DEF Line!Step
  <2>3. CASE Line!Reboot
    BY <2>3 DEF Line!Reboot
  <2>4. QED
    BY <2>1, <2>2, <2>3
<1>2. ClockOK'
  <2>1. CASE Line!Tick
    BY <2>1, LineAssumption DEF LineInv, ClockOK, Line!Tick
  <2>2. CASE Line!Step
    BY <2>2, LineAssumption DEF LineInv, ClockOK, Line!Step
  <2>3. CASE Line!Reboot
    BY <2>3, LineAssumption DEF LineInv, ClockOK, Line!Reboot
  <2>4. QED
    BY <2>1, <2>2, <2>3
<1>3. \A i \in DOMAIN linePolls : linePolls[i].at \in Int /\ linePolls[i].boot \in Nat
  <2>1. \A i \in DOMAIN linePolls : linePolls[i] \in LineRows
    BY ElementOfSeq, LenProperties DEF LineInv, PollsOK
  <2>2. QED
    BY <2>1, LineAssumption DEF LineRows
<1>4. RunningOK(linePolls)'
  <2>1. CASE Line!Tick
    BY <1>1, <1>3, <2>1 DEF LineInv, ClockOK, Line!Tick, RunningOK, Running
  <2>2. CASE Line!Step
    BY <1>1, <1>3, <2>2 DEF LineInv, ClockOK, Line!Step, RunningOK, Running
  <2>3. CASE Line!Reboot
    BY <1>1, <1>3, <2>3, LineAssumption DEF LineInv, ClockOK, Line!Reboot, RunningOK, Running
  <2>4. QED
    BY <2>1, <2>2, <2>3
<1>5. QED
  BY <1>1, <1>2, <1>4 DEF LineInv

-----------------------------------------------------------------------------
(* A poll.                                                                  *)

\* What a poll records of the running boot and its clock.
LEMMA NewPoll ==
  ASSUME LineInv, NEW f, f = None \/ f \in Int, Line!Poll(f)
  PROVE  \E p \in LineRows :
           /\ linePolls' = Append(linePolls, p)
           /\ lineAnchors' = IF p.synced /\ lineAnchors[lineBoot] = None
                             THEN [lineAnchors EXCEPT ![lineBoot] = [wall |-> p.ts, mono |-> p.mono]]
                             ELSE lineAnchors
           /\ p.boot = lineBoot /\ p.at = time /\ Running(p)
           /\ p.synced => p.ts = p.at
           /\ \A i \in DOMAIN linePolls : linePolls[i].at < time /\ (p.heard => linePolls[i].at < p.lastAt)
           /\ p.heard => p.lastAt <= time
           /\ p.heard /\ ~p.synced => p.last - p.lastAt = p.ts - p.at
           /\ p.heard /\ p.last # p.lastAt /\ stepped # None => p.lastAt < stepped
           /\ ~p.synced <=> stepped = None
<1>1. PICK p : p = [boot |-> lineBoot, mono |-> time - booted, ts |-> Line!Wall(time), synced |-> stepped # None,
                    at |-> time, heard |-> f # None, last |-> IF f = None THEN 0 ELSE Line!Wall(f),
                    lastAt |-> IF f = None THEN 0 ELSE f]
  OBVIOUS
<1>2. /\ Line!LastPollAt < time /\ (f # None => f \in Line!Max({booted, Line!LastPollAt + 1}) .. time)
      /\ linePolls' = Append(linePolls, p)
      /\ lineAnchors' = IF p.synced /\ lineAnchors[lineBoot] = None
                        THEN [lineAnchors EXCEPT ![lineBoot] = [wall |-> p.ts, mono |-> p.mono]]
                        ELSE lineAnchors
  BY <1>1 DEF Line!Poll
<1>3. ClockOK /\ PollsOK(linePolls)
  BY DEF LineInv
<1>4. \A t \in Int : Line!Wall(t) \in Int /\ Line!Wall(t) = IF stepped = None \/ t < stepped THEN t + skew ELSE t
  BY <1>3 DEF Line!Wall, ClockOK
<1>5. p \in LineRows
  BY <1>1, <1>3, <1>4 DEF LineRows, ClockOK
<1>6. \A i \in DOMAIN linePolls : linePolls[i].at \in Int /\ linePolls[i].at <= Line!LastPollAt /\ Line!LastPollAt \in Int
  <2>1. SUFFICES ASSUME NEW i \in DOMAIN linePolls
                 PROVE  linePolls[i].at \in Int /\ linePolls[i].at <= Line!LastPollAt /\ Line!LastPollAt \in Int
    OBVIOUS
  <2>2. DOMAIN linePolls = 1 .. Len(linePolls) /\ Len(linePolls) \in Nat
    BY <1>3, LenProperties DEF PollsOK
  <2>3. Len(linePolls) \in DOMAIN linePolls /\ linePolls # <<>> /\ i \in Nat /\ i <= Len(linePolls)
    BY <2>2
  <2>4. Line!LastPollAt = linePolls[Len(linePolls)].at
    <3>1. Line!LastPollAt = Line!Last(linePolls).at
      BY <2>3 DEF Line!LastPollAt
    <3>2. QED
      BY <3>1 DEF Line!Last
  <2>5. linePolls[i].at \in Int /\ linePolls[Len(linePolls)].at \in Int
    <3>1. linePolls[i] \in LineRows /\ linePolls[Len(linePolls)] \in LineRows
      BY <1>3, <2>2, <2>3, ElementOfSeq DEF PollsOK
    <3>2. QED
      BY <3>1 DEF LineRows
  <2>6. i = Len(linePolls) \/ i < Len(linePolls)
    BY <2>2, <2>3
  <2>7. QED
    BY <1>3, <2>3, <2>4, <2>5, <2>6 DEF PollsOK
<1>7. Line!LastPollAt \in Int
  <2>1. CASE linePolls = <<>>
    BY <2>1, LineAssumption DEF Line!LastPollAt
  <2>2. CASE linePolls # <<>>
    <3>1. Len(linePolls) \in DOMAIN linePolls
      BY <1>3, <2>2, LenProperties DEF PollsOK
    <3>2. QED
      BY <1>6, <3>1
  <2>3. QED
    BY <2>1, <2>2
<1>8. f # None => f \in Int /\ f <= time /\ Line!LastPollAt < f
  <2>1. SUFFICES ASSUME f # None PROVE f \in Int /\ f <= time /\ Line!LastPollAt < f
    OBVIOUS
  <2>2. Line!Max({booted, Line!LastPollAt + 1}) \in Int /\ Line!LastPollAt + 1 <= Line!Max({booted, Line!LastPollAt + 1})
    <3>1. PICK a \in Int, b \in Int : a = booted /\ b = Line!LastPollAt + 1
      BY <1>3, <1>7 DEF ClockOK
    <3>2. Line!Max({a, b}) = IF a <= b THEN b ELSE a
      BY OfTwo
    <3>3. (IF a <= b THEN b ELSE a) \in Int /\ b <= IF a <= b THEN b ELSE a
      OBVIOUS
    <3>4. QED
      BY <3>1, <3>2, <3>3
  <2>3. PICK m \in Int : m = Line!Max({booted, Line!LastPollAt + 1})
    BY <2>2
  <2>4. PICK l \in Int : l = Line!LastPollAt
    BY <1>7
  <2>5. f \in m .. time /\ l + 1 <= m /\ time \in Int
    BY <1>2, <1>3, <2>1, <2>2, <2>3, <2>4 DEF ClockOK
  <2>6. f \in Int /\ f <= time /\ l < f
    BY <2>5
  <2>7. QED
    BY <2>4, <2>6
<1>9. /\ p.boot = lineBoot /\ p.at = time /\ p.mono = time - booted /\ (p.synced <=> stepped # None)
      /\ p.ts = IF stepped = None THEN time + skew ELSE time
      /\ p.heard <=> f # None
      /\ f # None => p.lastAt = f /\ p.last = IF stepped = None \/ f < stepped THEN f + skew ELSE f
  <2>1. time \in Int /\ (stepped # None => stepped \in Int /\ stepped <= time)
    BY <1>3 DEF ClockOK
  <2>2. Line!Wall(time) = IF stepped = None THEN time + skew ELSE time
    BY <1>4, <2>1
  <2>3. f # None => Line!Wall(f) = IF stepped = None \/ f < stepped THEN f + skew ELSE f
    BY <1>4, <1>8
  <2>4. QED
    BY <1>1, <2>2, <2>3
<1>10. Running(p)
  BY <1>3, <1>8, <1>9 DEF Running, ClockOK
<1>11. \A i \in DOMAIN linePolls : linePolls[i].at < time /\ (p.heard => linePolls[i].at < p.lastAt)
  BY <1>2, <1>3, <1>6, <1>8, <1>9 DEF ClockOK
<1>12. /\ p.synced => p.ts = p.at
       /\ p.heard => p.lastAt <= time
       /\ p.heard /\ ~p.synced => p.last - p.lastAt = p.ts - p.at
       /\ p.heard /\ p.last # p.lastAt /\ stepped # None => p.lastAt < stepped
       /\ ~p.synced <=> stepped = None
  BY <1>3, <1>8, <1>9 DEF ClockOK
<1>13. QED
  BY <1>2, <1>5, <1>9, <1>10, <1>11, <1>12

\* A poll agrees with those of its boot.
LEMMA PollStep ==
  ASSUME LineInv, NEW f, f = None \/ f \in Int, Line!Poll(f)
  PROVE  LineInv'
<1>1. PICK p \in LineRows :
           /\ linePolls' = Append(linePolls, p)
           /\ lineAnchors' = IF p.synced /\ lineAnchors[lineBoot] = None
                             THEN [lineAnchors EXCEPT ![lineBoot] = [wall |-> p.ts, mono |-> p.mono]]
                             ELSE lineAnchors
           /\ p.boot = lineBoot /\ p.at = time /\ Running(p)
           /\ p.synced => p.ts = p.at
           /\ \A i \in DOMAIN linePolls : linePolls[i].at < time /\ (p.heard => linePolls[i].at < p.lastAt)
           /\ p.heard => p.lastAt <= time
           /\ p.heard /\ ~p.synced => p.last - p.lastAt = p.ts - p.at
           /\ p.heard /\ p.last # p.lastAt /\ stepped # None => p.lastAt < stepped
           /\ ~p.synced <=> stepped = None
  BY NewPoll
<1>2. UNCHANGED <<time, lineBoot, booted, skew, stepped, serverAnchors, lineCursor, stored>>
  BY DEF Line!Poll
<1>3. PICK P, Q, n : P = linePolls /\ Q = linePolls' /\ n = Len(linePolls) + 1
  OBVIOUS
<1>4. /\ P \in Seq(LineRows) /\ Q \in Seq(LineRows) /\ n \in Nat /\ Q[n] = p
      /\ \A i : i \in DOMAIN Q <=> i \in DOMAIN P \/ i = n
      /\ \A i \in DOMAIN P : Q[i] = P[i] /\ i \in Nat /\ i < n /\ ~(n < i) /\ i # n
  <2>1. P \in Seq(LineRows) /\ Q = Append(P, p)
    BY <1>1, <1>3 DEF LineInv, PollsOK
  <2>2. /\ Len(P) \in Nat /\ DOMAIN P = 1 .. Len(P) /\ Q \in Seq(LineRows) /\ DOMAIN Q = 1 .. Len(P) + 1
        /\ Q[Len(P) + 1] = p /\ \A i \in 1 .. Len(P) : Q[i] = P[i]
    BY <2>1, LenProperties, AppendProperties
  <2>3. QED
    BY <1>3, <2>1, <2>2
<1>5. PollsOK(P) /\ ReadingsOK(P) /\ RunningOK(P) /\ AnchorsOK(P, lineAnchors, serverAnchors) /\ ClockOK
  BY <1>3 DEF LineInv
<1>6. \A i \in DOMAIN P : P[i] \in LineRows
  BY <1>4, ElementOfSeq, LenProperties
<1>7. \A i \in DOMAIN P : P[i].at < time /\ (p.heard => P[i].at < p.lastAt)
  BY <1>1, <1>3
<1>8. \A i \in DOMAIN P : P[i].boot = lineBoot => Running(P[i])
  BY <1>5 DEF RunningOK
<1>9. ASSUME NEW i \in DOMAIN P, P[i].boot = lineBoot PROVE Agree(P[i], p) /\ Agree(p, P[i])
  <2>1. Running(P[i]) /\ P[i] \in LineRows /\ P[i].at < p.at
    BY <1>1, <1>6, <1>7, <1>8, <1>9
  <2>2. P[i].synced => p.synced
    BY <1>1, <2>1 DEF Running
  <2>3. QED
    BY <1>1, <2>1, <2>2 DEF Running, Agree, LineRows
<1>10. Agree(p, p)
  BY <1>1 DEF Agree, LineRows
<1>11. PollsOK(Q)
  <2>1. \A i, j \in DOMAIN Q : i < j => Q[i].at < Q[j].at
    BY <1>1, <1>4, <1>5, <1>7 DEF PollsOK
  <2>2. \A i \in DOMAIN Q : (Q[i].synced => Q[i].ts = Q[i].at) /\ (Q[i].heard => Q[i].lastAt <= Q[i].at)
    BY <1>1, <1>4, <1>5 DEF PollsOK
  <2>3. \A i, j \in DOMAIN Q : Q[i].boot = Q[j].boot => Agree(Q[i], Q[j])
    BY <1>1, <1>4, <1>5, <1>9, <1>10 DEF PollsOK
  <2>4. QED
    BY <1>4, <2>1, <2>2, <2>3 DEF PollsOK
<1>12. ASSUME NEW i \in DOMAIN P, P[i].boot = lineBoot
       PROVE  /\ P[i].heard /\ P[i].last # P[i].lastAt => Stale(P[i], p)
              /\ p.heard /\ p.last # p.lastAt => Stale(p, P[i])
  <2>1. Running(P[i]) /\ P[i] \in LineRows /\ P[i].at < p.at /\ (P[i].heard => P[i].lastAt <= P[i].at)
    BY <1>1, <1>5, <1>6, <1>7, <1>8, <1>12 DEF PollsOK
  <2>2. P[i].heard /\ P[i].last # P[i].lastAt => Stale(P[i], p)
    BY <1>1, <2>1 DEF Running, Stale, LineRows
  <2>3. p.heard /\ p.last # p.lastAt => Stale(p, P[i])
    <3>1. SUFFICES ASSUME p.heard, p.last # p.lastAt PROVE Stale(p, P[i])
      OBVIOUS
    <3>2. p.last - p.lastAt = skew /\ P[i].at < p.lastAt
      BY <1>1, <1>7, <3>1 DEF Running
    <3>3. ~P[i].synced
      <4>1. SUFFICES ASSUME P[i].synced PROVE FALSE
        OBVIOUS
      <4>2. stepped # None /\ stepped <= P[i].at /\ p.lastAt < stepped
        BY <1>1, <2>1, <3>1, <4>1 DEF Running
      <4>3. stepped \in Int /\ P[i].at \in Int /\ p.lastAt \in Int
        BY <1>5, <2>1, <4>2 DEF LineRows, ClockOK
      <4>4. QED
        BY <3>2, <4>2, <4>3
    <3>4. QED
      BY <2>1, <3>2, <3>3 DEF Running, Stale
  <2>4. QED
    BY <2>2, <2>3
<1>13. p.heard /\ p.last # p.lastAt => Stale(p, p)
  <2>1. SUFFICES ASSUME p.heard, p.last # p.lastAt PROVE Stale(p, p)
    OBVIOUS
  <2>2. p.synced => p.lastAt < stepped /\ stepped <= p.at /\ stepped \in Int /\ p.at \in Int /\ p.lastAt \in Int
    BY <1>1, <1>5, <2>1 DEF Running, ClockOK, LineRows
  <2>3. QED
    BY <1>1, <2>1, <2>2 DEF Stale
<1>14. ReadingsOK(Q)
  <2>1. \A i \in DOMAIN Q : Q[i].heard /\ ~Q[i].synced => Q[i].last - Q[i].lastAt = Q[i].ts - Q[i].at
    BY <1>1, <1>4, <1>5 DEF ReadingsOK
  <2>2. \A i, j \in DOMAIN Q :
          Q[i].heard /\ Q[i].last # Q[i].lastAt /\ Q[i].boot = Q[j].boot => Stale(Q[i], Q[j])
    BY <1>1, <1>4, <1>5, <1>12, <1>13 DEF ReadingsOK
  <2>3. QED
    BY <2>1, <2>2 DEF ReadingsOK
<1>15. RunningOK(linePolls)'
  <2>1. \A i \in DOMAIN Q : Q[i].at <= time /\ Q[i].boot <= lineBoot /\ (Q[i].boot = lineBoot => Running(Q[i]))
    BY <1>1, <1>4, <1>5, LineAssumption DEF RunningOK, ClockOK
  <2>2. QED
    BY <1>2, <1>3, <2>1 DEF RunningOK, Running
<1>16. PICK A, B, S : A = lineAnchors /\ B = lineAnchors' /\ S = serverAnchors
  OBVIOUS
<1>17. B = [b \in LineBoots |-> IF b = lineBoot /\ p.synced /\ A[b] = None
                               THEN [wall |-> p.ts, mono |-> p.mono] ELSE A[b]]
  BY <1>1, <1>5, <1>16 DEF AnchorsOK
<1>18. \A b \in LineBoots : A[b] # None => B[b] = A[b]
  BY <1>17
<1>19. ASSUME NEW b \in LineBoots, B[b] # None
       PROVE  Names(B[b], Q, b) /\ \E i \in DOMAIN Q : Q[i].boot = b /\ Q[i].synced /\ B[b].wall = Q[i].at
  <2>1. CASE A[b] # None
    <3>1. /\ B[b] = A[b] /\ Names(A[b], P, b)
      BY <1>5, <1>16, <1>18, <2>1 DEF AnchorsOK
    <3>2. PICK i \in DOMAIN P : P[i].boot = b /\ P[i].synced /\ A[b].wall = P[i].at
      BY <1>5, <1>16, <2>1 DEF AnchorsOK
    <3>3. b = lineBoot => A[b].wall - A[b].mono = p.at - p.mono
      <4>1. SUFFICES ASSUME b = lineBoot PROVE A[b].wall - A[b].mono = p.at - p.mono
        OBVIOUS
      <4>2. P[i].at - P[i].mono = p.at - p.mono
        BY <1>9, <3>2, <4>1 DEF Agree
      <4>3. QED
        BY <3>1, <3>2, <4>2 DEF Names
    <3>4. Names(A[b], Q, b)
      BY <1>1, <1>4, <3>1, <3>3 DEF Names
    <3>5. QED
      BY <1>4, <3>1, <3>2, <3>4
  <2>2. CASE A[b] = None
    <3>1. b = lineBoot /\ p.synced /\ B[b] = [wall |-> p.ts, mono |-> p.mono] /\ p.ts = p.at
      BY <1>1, <1>17, <1>19, <2>2
    <3>2. /\ B[b].wall = p.at /\ B[b].mono = p.mono /\ p.at \in Int /\ p.mono \in Int
      BY <3>1 DEF LineRows
    <3>3. \A i \in DOMAIN Q : Q[i].boot = b => p.at - p.mono = Q[i].at - Q[i].mono
      BY <1>4, <1>9, <3>1 DEF Agree
    <3>4. Names(B[b], Q, b)
      BY <3>2, <3>3 DEF Names
    <3>5. QED
      BY <1>1, <1>4, <3>1, <3>2, <3>4
  <2>3. QED
    BY <2>1, <2>2
<1>20. ASSUME NEW b \in LineBoots, S[b] # None
       PROVE  Names(S[b], Q, b) /\ \E i \in DOMAIN Q : Q[i].boot = b /\ ~Q[i].synced
  <2>1. Names(S[b], P, b)
    BY <1>5, <1>16, <1>20 DEF AnchorsOK
  <2>2. PICK i \in DOMAIN P : P[i].boot = b /\ ~P[i].synced
    BY <1>5, <1>16, <1>20 DEF AnchorsOK
  <2>3. b = lineBoot => S[b].wall - S[b].mono = p.at - p.mono
    <3>1. SUFFICES ASSUME b = lineBoot PROVE S[b].wall - S[b].mono = p.at - p.mono
      OBVIOUS
    <3>2. P[i].at - P[i].mono = p.at - p.mono
      BY <1>9, <2>2, <3>1 DEF Agree
    <3>3. QED
      BY <2>1, <2>2, <3>2 DEF Names
  <2>4. Names(S[b], Q, b)
    BY <1>1, <1>4, <2>1, <2>3 DEF Names
  <2>5. QED
    BY <1>4, <2>2, <2>4
<1>21. \A i \in DOMAIN Q : Q[i].synced => B[Q[i].boot] # None
  <2>1. ASSUME NEW i \in DOMAIN P, P[i].synced PROVE B[P[i].boot] # None
    BY <1>5, <1>6, <1>16, <1>18, <2>1 DEF AnchorsOK, LineRows
  <2>2. p.synced => B[lineBoot] # None
    <3>1. [wall |-> p.ts, mono |-> p.mono] # None
      BY LineAssumption DEF LineRows
    <3>2. QED
      BY <1>5, <1>17, <3>1 DEF ClockOK
  <2>3. QED
    BY <1>1, <1>4, <2>1, <2>2
<1>22. AnchorsOK(Q, B, S)
  <2>1. B = [b \in LineBoots |-> B[b]] /\ S = [b \in LineBoots |-> S[b]]
    BY <1>5, <1>16, <1>17 DEF AnchorsOK
  <2>2. QED
    BY <1>19, <1>20, <1>21, <2>1 DEF AnchorsOK
<1>23. ASSUME NEW r \in stored PROVE TakenOK(Q, B, S, r)
  <2>1. TakenOK(P, A, S, r)
    BY <1>3, <1>16 DEF LineInv
  <2>2. PICK i \in DOMAIN P : P[i].boot = r.boot /\ (P[i].synced \/ A[r.boot] # None \/ S[r.boot] # None)
    BY <2>1 DEF TakenOK
  <2>3. r.boot \in LineBoots /\ (A[r.boot] # None => B[r.boot] = A[r.boot])
    BY <1>18, <2>1 DEF TakenOK
  <2>4. Off(P, A, r) => Off(Q, B, r)
    <3>1. CASE \A j \in DOMAIN P : P[j].boot = r.boot => P[j].synced /\ r.at <= P[j].at
      <4>1. P[i].synced /\ r.at <= P[i].at /\ r.at \in Int /\ P[i] \in LineRows
        BY <1>6, <2>1, <2>2, <3>1 DEF TakenOK
      <4>2. r.boot = lineBoot => p.synced
        BY <1>1, <1>8, <2>2, <4>1 DEF Running
      <4>3. r.at <= p.at
        BY <1>1, <1>7, <4>1 DEF LineRows
      <4>4. QED
        BY <1>1, <1>4, <3>1, <4>2, <4>3 DEF Off
    <3>2. ASSUME NEW j \in DOMAIN P, P[j].boot = r.boot, ~P[j].synced,
                 \/ P[j].at - P[j].ts < MinShift /\ r.ts = r.at + P[j].ts - P[j].at
                 \/ /\ A[r.boot] # None /\ r.ts = r.at + P[j].at - P[j].ts
                    /\ P[j].at - P[j].ts <= A[r.boot].wall - r.at
          PROVE  Off(Q, B, r)
      <4>1. j \in DOMAIN Q /\ Q[j] = P[j]
        BY <1>4
      <4>2. QED
        BY <2>3, <3>2, <4>1 DEF Off
    <3>3. QED
      BY <3>1, <3>2 DEF Off
  <2>5. QED
    BY <1>4, <2>1, <2>2, <2>3, <2>4 DEF TakenOK
<1>24. ClockOK'
  BY <1>2, <1>5 DEF ClockOK
<1>25. QED
  BY <1>2, <1>3, <1>11, <1>14, <1>15, <1>16, <1>22, <1>23, <1>24 DEF LineInv

-----------------------------------------------------------------------------
(* An anchor of the server's time.                                          *)

LEMMA ServerAnchorStep ==
  ASSUME LineInv, Line!ServerAnchor
  PROVE  LineInv'
<1>1. /\ UNCHANGED <<time, lineBoot, booted, skew, stepped, linePolls, lineAnchors, lineCursor, stored>>
      /\ serverAnchors[lineBoot] = None /\ Line!HasStale(lineBoot)
      /\ serverAnchors' = [serverAnchors EXCEPT ![lineBoot] = [wall |-> time, mono |-> time - booted]]
  BY DEF Line!ServerAnchor
<1>2. PICK P, A, S, T, a : /\ P = linePolls /\ A = lineAnchors /\ S = serverAnchors /\ T = serverAnchors'
                           /\ a = [wall |-> time, mono |-> time - booted]
  OBVIOUS
<1>3. PICK i \in DOMAIN P : P[i].boot = lineBoot /\ ~P[i].synced
  BY <1>1, <1>2 DEF Line!HasStale, Line!Unsynced
<1>4. ClockOK /\ RunningOK(P) /\ AnchorsOK(P, A, S)
  BY <1>2 DEF LineInv
<1>5. T = [b \in LineBoots |-> IF b = lineBoot THEN a ELSE S[b]]
  BY <1>1, <1>2, <1>4 DEF AnchorsOK
<1>6. \A b \in LineBoots : S[b] # None => T[b] = S[b]
  BY <1>1, <1>2, <1>5
<1>7. Names(a, P, lineBoot)
  <2>1. a.wall = time /\ a.mono = time - booted /\ time \in Int /\ booted \in Int
    BY <1>2, <1>4 DEF ClockOK
  <2>2. \A k \in DOMAIN P : P[k].boot = lineBoot => P[k].at - P[k].mono = booted
    BY <1>4 DEF RunningOK, Running
  <2>3. a.wall - a.mono = booted
    BY <2>1
  <2>4. QED
    BY <2>1, <2>2, <2>3 DEF Names
<1>8. AnchorsOK(P, A, T)
  <2>1. \A b \in LineBoots : T[b] # None => Names(T[b], P, b) /\ \E k \in DOMAIN P : P[k].boot = b /\ ~P[k].synced
    BY <1>3, <1>4, <1>5, <1>7 DEF AnchorsOK
  <2>2. T = [b \in LineBoots |-> T[b]]
    BY <1>5
  <2>3. QED
    BY <1>4, <2>1, <2>2 DEF AnchorsOK
<1>9. ASSUME NEW r \in stored PROVE TakenOK(P, A, T, r)
  <2>1. TakenOK(P, A, S, r)
    BY <1>2 DEF LineInv
  <2>2. S[r.boot] # None => T[r.boot] # None
    BY <1>6, <2>1 DEF TakenOK
  <2>3. QED
    BY <2>1, <2>2 DEF TakenOK
<1>10. ClockOK' /\ RunningOK(P)'
  BY <1>1, <1>2, <1>4 DEF ClockOK, RunningOK, Running
<1>11. QED
  BY <1>1, <1>2, <1>8, <1>9, <1>10 DEF LineInv

-----------------------------------------------------------------------------
(* How timeline.py places what it sends.                                    *)

\* Either anchor of a boot names when the boot began.
LEMMA AnchorNames ==
  ASSUME LineInv, NEW b \in LineBoots, Line!Anchored(b)
  PROVE  Names(Line!Anchor(b), linePolls, b)
<1>1. AnchorsOK(linePolls, lineAnchors, serverAnchors)
  BY DEF LineInv
<1>2. CASE lineAnchors[b] # None
  BY <1>1, <1>2 DEF AnchorsOK, Line!Anchor
<1>3. CASE lineAnchors[b] = None
  <2>1. Line!Anchor(b) = serverAnchors[b] /\ serverAnchors[b] # None
    BY <1>3 DEF Line!Anchor, Line!Anchored
  <2>2. QED
    BY <1>1, <2>1 DEF AnchorsOK
<1>4. QED
  BY <1>2, <1>3

\* The error of the boot's clock is what any of its unsynchronised polls shows.
LEMMA DeltaIs ==
  ASSUME LineInv, NEW b \in LineBoots, Line!Anchored(b),
         NEW j \in DOMAIN linePolls, linePolls[j].boot = b, ~linePolls[j].synced
  PROVE  /\ Line!HasStale(b)
         /\ Line!Delta(b) = linePolls[j].at - linePolls[j].ts
         /\ lineAnchors[b] # None =>
              Line!EpochStale(b) + Line!StepMono(b) = lineAnchors[b].wall + linePolls[j].ts - linePolls[j].at
<1>1. PICK U : U = Line!Unsynced(b)
  OBVIOUS
<1>2. U = {i \in DOMAIN linePolls : linePolls[i].boot = b /\ ~linePolls[i].synced} /\ j \in U
  BY <1>1 DEF Line!Unsynced
<1>3. PollsOK(linePolls) /\ U \subseteq Nat
  BY <1>2, LenProperties DEF LineInv, PollsOK
<1>4. PICK m : m = Line!Min(U)
  OBVIOUS
<1>5. m \in U
  BY <1>2, <1>3, <1>4, LeastIs
<1>6. PICK p, q : p = linePolls[m] /\ q = linePolls[j]
  OBVIOUS
<1>7. p \in LineRows /\ q \in LineRows /\ Agree(p, q) /\ ~p.synced /\ ~q.synced /\ p.boot = b /\ q.boot = b
  <2>1. m \in DOMAIN linePolls /\ linePolls[m].boot = b /\ ~linePolls[m].synced
    BY <1>2, <1>5
  <2>2. p \in LineRows /\ q \in LineRows
    BY <1>3, <1>6, <2>1, ElementOfSeq, LenProperties DEF PollsOK
  <2>3. Agree(p, q)
    BY <1>3, <1>6, <2>1 DEF PollsOK
  <2>4. QED
    BY <1>6, <2>1, <2>2, <2>3
<1>8. Line!EpochStale(b) = p.ts - p.mono
  BY <1>1, <1>4, <1>6 DEF Line!EpochStale
<1>9. PICK a : a = Line!Anchor(b)
  OBVIOUS
<1>10. a.wall \in Int /\ a.mono \in Int /\ a.wall - a.mono = q.at - q.mono
  BY <1>6, <1>7, <1>9, AnchorNames DEF Names
<1>11. Line!EpochTrue(b) = a.wall - a.mono
  BY <1>9 DEF Line!EpochTrue
<1>12. p.at - p.mono = q.at - q.mono /\ p.ts - p.at = q.ts - q.at
  BY <1>7 DEF Agree
<1>13. Line!Delta(b) = (a.wall - a.mono) - (p.ts - p.mono)
  BY <1>8, <1>11 DEF Line!Delta
<1>14. /\ p.ts \in Int /\ p.mono \in Int /\ p.at \in Int
       /\ q.ts \in Int /\ q.mono \in Int /\ q.at \in Int
  BY <1>7 DEF LineRows
<1>15. (a.wall - a.mono) - (p.ts - p.mono) = q.at - q.ts
  BY <1>10, <1>12, <1>14
<1>16. lineAnchors[b] # None =>
         Line!EpochStale(b) + Line!StepMono(b) = lineAnchors[b].wall + linePolls[j].ts - linePolls[j].at
  <2>1. SUFFICES ASSUME lineAnchors[b] # None
                 PROVE  (p.ts - p.mono) + a.mono = a.wall + q.ts - q.at /\ a = lineAnchors[b]
    BY <1>6, <1>8 DEF Line!StepMono
  <2>2. a = lineAnchors[b]
    BY <1>9, <2>1 DEF Line!Anchor
  <2>3. (p.ts - p.mono) + a.mono = a.wall + q.ts - q.at
    BY <1>10, <1>12, <1>14
  <2>4. QED
    BY <2>2, <2>3
<1>17. QED
  BY <1>1, <1>2, <1>6, <1>13, <1>15, <1>16 DEF Line!HasStale

\* What is sent belongs to a boot with an anchor.
LEMMA SentIsAnchored ==
  ASSUME LineInv, NEW i \in DOMAIN linePolls, Line!Fate(linePolls[i]) = "send"
  PROVE  /\ linePolls[i] \in LineRows /\ linePolls[i].boot \in LineBoots
         /\ Line!Anchored(linePolls[i].boot)
         /\ lineAnchors[linePolls[i].boot] # None \/ serverAnchors[linePolls[i].boot] # None
<1>1. linePolls[i] \in LineRows
  BY ElementOfSeq, LenProperties DEF LineInv, PollsOK
<1>2. PICK p : p = linePolls[i]
  OBVIOUS
<1>3. p.synced \/ Line!Anchored(p.boot)
  BY <1>2 DEF Line!Fate
<1>4. p.synced => lineAnchors[p.boot] # None
  BY <1>2 DEF LineInv, AnchorsOK
<1>5. Line!Anchored(p.boot)
  BY <1>3, <1>4 DEF Line!Anchored, Line!Anchor
<1>6. lineAnchors[p.boot] # None \/ serverAnchors[p.boot] # None
  BY <1>5 DEF Line!Anchored, Line!Anchor
<1>7. QED
  BY <1>1, <1>2, <1>5, <1>6 DEF LineRows

\* A poll's time is moved to when it was made.
LEMMA PollPlaced ==
  ASSUME LineInv, NEW i \in DOMAIN linePolls, Line!Fate(linePolls[i]) = "send",
         NEW r, r = [ts |-> Line!PlacePoll(linePolls[i]), at |-> linePolls[i].at, boot |-> linePolls[i].boot,
                     kind |-> "poll"]
  PROVE  TakenOK(linePolls, lineAnchors, serverAnchors, r)
<1>1. PICK p : p = linePolls[i]
  OBVIOUS
<1>2. p \in LineRows /\ p.boot \in LineBoots /\ Line!Anchored(p.boot)
      /\ (lineAnchors[p.boot] # None \/ serverAnchors[p.boot] # None)
  BY <1>1, SentIsAnchored
<1>3. Line!PlacePoll(p) = p.at
  <2>1. CASE p.synced
    <3>1. p.ts = p.at
      BY <1>1, <2>1 DEF LineInv, PollsOK
    <3>2. QED
      BY <2>1, <3>1 DEF Line!PlacePoll
  <2>2. CASE ~p.synced
    <3>1. PICK a : a = Line!Anchor(p.boot)
      OBVIOUS
    <3>2. a.wall \in Int /\ a.mono \in Int /\ a.wall - a.mono = p.at - p.mono
      BY <1>1, <1>2, <3>1, AnchorNames DEF Names
    <3>3. Line!PlacePoll(p) = (a.wall - a.mono) + p.mono
      BY <2>2, <3>1 DEF Line!PlacePoll, Line!EpochTrue
    <3>4. p.at \in Int /\ p.mono \in Int
      BY <1>2 DEF LineRows
    <3>5. QED
      BY <3>2, <3>3, <3>4
  <2>3. QED
    BY <2>1, <2>2
<1>4. r.ts = p.at /\ r.at = p.at /\ r.boot = p.boot /\ p.at \in Int
  BY <1>1, <1>2, <1>3 DEF LineRows
<1>5. QED
  BY <1>1, <1>2, <1>4 DEF TakenOK

\* A frame's time is moved by the boot's error, or left as it was read.
LEMMA FramePlaced ==
  ASSUME LineInv, NEW i \in DOMAIN linePolls, Line!Fate(linePolls[i]) = "send", linePolls[i].heard,
         NEW r, r = [ts |-> Line!PlaceKismet(linePolls[i].last, linePolls[i].boot), at |-> linePolls[i].lastAt,
                     boot |-> linePolls[i].boot, kind |-> "kismet"]
  PROVE  TakenOK(linePolls, lineAnchors, serverAnchors, r)
<1>1. PICK p, b, P, A : p = linePolls[i] /\ b = p.boot /\ P = linePolls /\ A = lineAnchors
  OBVIOUS
<1>2. p \in LineRows /\ b \in LineBoots /\ Line!Anchored(b) /\ (A[b] # None \/ serverAnchors[b] # None)
  BY <1>1, SentIsAnchored
<1>3. p.last \in Int /\ p.lastAt \in Int /\ p.heard
  BY <1>1, <1>2 DEF LineRows
<1>4. r.at = p.lastAt /\ r.boot = b /\ r.kind = "kismet" /\ r.ts = Line!PlaceKismet(p.last, b)
  BY <1>1
<1>5. /\ \A k \in DOMAIN P : P[k] \in LineRows
      /\ \A k \in DOMAIN P : P[k].boot = b /\ p.last # p.lastAt => Stale(p, P[k])
      /\ ~p.synced => p.last - p.lastAt = p.ts - p.at
  BY <1>1, <1>3, ElementOfSeq, LenProperties DEF LineInv, PollsOK, ReadingsOK
<1>6. SUFFICES r.ts \in Int /\ (r.ts = r.at \/ Off(P, A, r))
  BY <1>1, <1>2, <1>3, <1>4 DEF TakenOK
<1>7. CASE ~Line!HasStale(b)
  <2>1. r.ts = p.last
    BY <1>4, <1>7 DEF Line!PlaceKismet
  <2>2. \A k \in DOMAIN P : P[k].boot = b => P[k].synced
    BY <1>1, <1>7 DEF Line!HasStale, Line!Unsynced
  <2>3. ASSUME p.last # p.lastAt PROVE Off(P, A, r)
    <3>1. ASSUME NEW k \in DOMAIN P, P[k].boot = b PROVE P[k].synced /\ r.at <= P[k].at
      <4>1. P[k].synced /\ p.lastAt < P[k].at /\ P[k].at \in Int
        BY <1>5, <2>2, <2>3, <3>1 DEF Stale, LineRows
      <4>2. QED
        BY <1>3, <1>4, <4>1
    <3>2. QED
      BY <1>4, <3>1 DEF Off
  <2>4. QED
    BY <1>3, <1>4, <2>1, <2>3
<1>8. CASE Line!HasStale(b)
  <2>1. PICK j \in DOMAIN P : P[j].boot = b /\ ~P[j].synced
    BY <1>1, <1>8 DEF Line!HasStale, Line!Unsynced
  <2>2. PICK d, q : q = P[j] /\ d = q.at - q.ts
    OBVIOUS
  <2>3. q \in LineRows /\ q.at \in Int /\ q.ts \in Int /\ d \in Int
    BY <1>5, <2>1, <2>2 DEF LineRows
  <2>4. Line!Delta(b) = d /\ (A[b] # None => Line!EpochStale(b) + Line!StepMono(b) = A[b].wall + q.ts - q.at)
    BY <1>1, <1>2, <2>1, <2>2, DeltaIs
  <2>5. p.last # p.lastAt => p.last = p.lastAt - d
    <3>1. p.last # p.lastAt => p.last - p.lastAt = q.ts - q.at
      BY <1>5, <2>1, <2>2 DEF Stale
    <3>2. QED
      BY <1>3, <2>2, <2>3, <3>1
  <2>6. A[b] # None => A[b].wall \in Int /\ \E k \in DOMAIN P : P[k].boot = b /\ P[k].synced /\ A[b].wall = P[k].at
    BY <1>1, <1>2 DEF LineInv, AnchorsOK, Names
  <2>7. CASE d < MinShift
    <3>1. r.ts = p.last
      BY <1>4, <2>3, <2>4, <2>7, LineAssumption DEF Line!PlaceKismet
    <3>2. ASSUME p.last # p.lastAt PROVE Off(P, A, r)
      <4>1. r.ts = r.at + q.ts - q.at
        BY <1>3, <1>4, <2>2, <2>3, <2>5, <3>1, <3>2
      <4>2. QED
        BY <1>4, <2>1, <2>2, <2>7, <4>1 DEF Off
    <3>3. QED
      BY <1>3, <1>4, <3>1, <3>2
  <2>8. CASE d >= MinShift /\ A[b] = None
    <3>1. r.ts = p.last + d
      BY <1>1, <1>2, <1>4, <1>8, <2>4, <2>8 DEF Line!PlaceKismet
    <3>2. ~p.synced
      BY <1>1, <2>8 DEF LineInv, AnchorsOK
    <3>3. p.last - p.lastAt = p.ts - p.at /\ p.at - p.ts = d
      <4>1. p.last - p.lastAt = p.ts - p.at
        BY <1>5, <3>2
      <4>2. Agree(p, q)
        BY <1>1, <2>1, <2>2 DEF LineInv, PollsOK
      <4>3. p.ts \in Int /\ p.at \in Int
        BY <1>2 DEF LineRows
      <4>4. QED
        BY <2>1, <2>2, <2>3, <3>2, <4>1, <4>2, <4>3 DEF Agree
    <3>4. p.ts \in Int /\ p.at \in Int
      BY <1>2 DEF LineRows
    <3>5. p.last + d = p.lastAt
      BY <1>3, <2>3, <3>3, <3>4
    <3>6. QED
      BY <1>3, <1>4, <3>1, <3>5
  <2>9. CASE d >= MinShift /\ A[b] # None
    <3>1. PICK w : w = A[b].wall
      OBVIOUS
    <3>2. w \in Int /\ Line!EpochStale(b) + Line!StepMono(b) = w + q.ts - q.at
      BY <2>4, <2>6, <2>9, <3>1
    <3>3. r.ts = IF p.last < w + q.ts - q.at THEN p.last + d ELSE p.last
      BY <1>1, <1>2, <1>4, <1>8, <2>4, <2>9, <3>2 DEF Line!PlaceKismet
    <3>4. CASE p.last = p.lastAt
      <4>1. CASE p.last < w + q.ts - q.at
        <5>1. r.ts = r.at + q.at - q.ts /\ q.at - q.ts <= w - r.at
          BY <1>3, <1>4, <2>2, <2>3, <3>2, <3>3, <3>4, <4>1
        <5>2. Off(P, A, r)
          BY <1>4, <2>1, <2>2, <2>9, <3>1, <5>1 DEF Off
        <5>3. QED
          BY <1>3, <1>4, <2>3, <5>1, <5>2
      <4>2. CASE ~(p.last < w + q.ts - q.at)
        BY <1>3, <1>4, <3>3, <3>4, <4>2
      <4>3. QED
        BY <4>1, <4>2
    <3>5. CASE p.last # p.lastAt
      <4>1. PICK k \in DOMAIN P : P[k].boot = b /\ P[k].synced /\ w = P[k].at
        BY <2>6, <2>9, <3>1
      <4>2. p.lastAt < w
        BY <1>5, <3>5, <4>1 DEF Stale
      <4>3. p.last = p.lastAt - d
        BY <2>5, <3>5
      <4>4. p.last < w + q.ts - q.at
        BY <1>3, <2>2, <2>3, <3>2, <4>2, <4>3
      <4>5. r.ts = p.lastAt
        BY <1>3, <2>3, <3>3, <4>3, <4>4
      <4>6. QED
        BY <1>3, <1>4, <4>5
    <3>6. QED
      BY <3>4, <3>5
  <2>10. QED
    BY <2>3, <2>7, <2>8, <2>9, LineAssumption
<1>9. QED
  BY <1>7, <1>8

\* A batch is made of the buffer's polls.
LEMMA TakenArePolls ==
  ASSUME LineInv
  PROVE  Len(Line!Taken) \in Nat /\ \A p \in Line!Sent : \E i \in DOMAIN linePolls : p = linePolls[i]
<1>1. PICK S : S = {linePolls[i] : i \in DOMAIN linePolls}
  OBVIOUS
<1>2. /\ Len(linePolls) \in Nat /\ DOMAIN linePolls = 1 .. Len(linePolls)
      /\ lineCursor \in Nat /\ CatchUp \in Nat
  BY LenProperties, LineAssumption DEF LineInv, PollsOK, ClockOK
<1>3. PICK n : n = Line!Min({lineCursor + CatchUp, Len(linePolls)})
  OBVIOUS
<1>4. n \in Int /\ n <= Len(linePolls)
  <2>1. PICK x \in Int, y \in Int : x = lineCursor + CatchUp /\ y = Len(linePolls)
    <3>1. lineCursor + CatchUp \in Int /\ Len(linePolls) \in Int
      BY <1>2
    <3>2. QED
      BY <3>1
  <2>2. n = IF x <= y THEN x ELSE y
    BY <1>3, <2>1, OfTwo
  <2>3. QED
    BY <2>1, <2>2
<1>5. PICK D : D = Line!Due
  OBVIOUS
<1>6. D = SubSeq(linePolls, lineCursor + 1, n)
  BY <1>3, <1>5 DEF Line!Due
<1>7. D \in Seq(S)
  <2>1. \A i \in (lineCursor + 1) .. n : linePolls[i] \in S
    BY <1>1, <1>2, <1>4
  <2>2. QED
    BY <1>2, <1>4, <1>6, <2>1, SubSeqProperties
<1>8. Line!Taken \in Seq(S)
  <2>1. PICK held : held = {i \in DOMAIN D : Line!Fate(D[i]) = "hold"}
    OBVIOUS
  <2>2. Line!Taken = IF held = {} THEN D ELSE SubSeq(D, 1, Line!Min(held) - 1)
    BY <1>5, <2>1 DEF Line!Taken
  <2>3. ASSUME held # {} PROVE SubSeq(D, 1, Line!Min(held) - 1) \in Seq(S)
    <3>1. Len(D) \in Nat /\ DOMAIN D = 1 .. Len(D) /\ held \subseteq Nat
      BY <1>7, <2>1, LenProperties
    <3>2. PICK m : m = Line!Min(held)
      OBVIOUS
    <3>3. m \in held
      BY <2>3, <3>1, <3>2, LeastIs
    <3>4. m \in 1 .. Len(D)
      BY <2>1, <3>1, <3>3
    <3>5. \A i \in 1 .. (m - 1) : D[i] \in S
      BY <1>7, <3>1, <3>4, ElementOfSeq
    <3>6. QED
      BY <3>1, <3>2, <3>4, <3>5, SubSeqProperties
  <2>4. QED
    BY <1>7, <2>2, <2>3
<1>9. \A p \in Line!Sent : p \in S
  <2>1. SUFFICES ASSUME NEW p \in Line!Sent PROVE p \in S
    OBVIOUS
  <2>2. PICK i \in DOMAIN Line!Taken : p = Line!Taken[i]
    BY <2>1 DEF Line!Sent, Line!ToSet
  <2>3. QED
    BY <1>8, <2>2, ElementOfSeq, LenProperties
<1>10. QED
  BY <1>1, <1>8, <1>9, LenProperties

\* An upload adds times that are placed.
LEMMA UploadStep ==
  ASSUME LineInv, Line!UploadDevice \/ Line!UploadPolls
  PROVE  LineInv'
<1>1. PICK times, newRow : Line!Answered(times, newRow)
  <2>1. CASE Line!UploadDevice
    BY <2>1 DEF Line!UploadDevice
  <2>2. CASE Line!UploadPolls
    BY <2>2 DEF Line!UploadPolls
  <2>3. QED
    BY <2>1, <2>2
<1>2. /\ UNCHANGED <<time, lineBoot, booted, skew, stepped, linePolls, lineAnchors, serverAnchors>>
      /\ \/ lineCursor' = lineCursor + Len(Line!Taken) /\ stored' = stored \cup Line!PollTimes \cup Line!FrameTimes
         \/ lineCursor' = lineCursor /\ stored' = stored
  BY <1>1 DEF Line!Answered
<1>3. ASSUME NEW r \in Line!PollTimes PROVE TakenOK(linePolls, lineAnchors, serverAnchors, r)
  <2>1. PICK p \in Line!Sent : r = [ts |-> Line!PlacePoll(p), at |-> p.at, boot |-> p.boot, kind |-> "poll"]
    BY <1>3 DEF Line!PollTimes
  <2>2. PICK i \in DOMAIN linePolls : p = linePolls[i]
    BY TakenArePolls
  <2>3. Line!Fate(linePolls[i]) = "send"
    BY <2>2 DEF Line!Sent
  <2>4. QED
    BY <2>1, <2>2, <2>3, PollPlaced
<1>4. ASSUME NEW r \in Line!FrameTimes PROVE TakenOK(linePolls, lineAnchors, serverAnchors, r)
  <2>1. PICK p \in Line!Sent :
          /\ p.heard
          /\ r = [ts |-> Line!PlaceKismet(p.last, p.boot), at |-> p.lastAt, boot |-> p.boot, kind |-> "kismet"]
    BY <1>4 DEF Line!FrameTimes
  <2>2. PICK i \in DOMAIN linePolls : p = linePolls[i]
    BY TakenArePolls
  <2>3. Line!Fate(linePolls[i]) = "send"
    BY <2>2 DEF Line!Sent
  <2>4. QED
    BY <2>1, <2>2, <2>3, FramePlaced
<1>5. \A r \in stored' : TakenOK(linePolls, lineAnchors, serverAnchors, r)
  BY <1>2, <1>3, <1>4 DEF LineInv
<1>6. ClockOK'
  <2>1. lineCursor' \in Nat
    BY <1>2, TakenArePolls DEF LineInv, ClockOK
  <2>2. QED
    BY <1>2, <2>1 DEF LineInv, ClockOK
<1>7. RunningOK(linePolls)'
  BY <1>2 DEF LineInv, RunningOK, Running
<1>8. QED
  BY <1>2, <1>5, <1>6, <1>7 DEF LineInv

-----------------------------------------------------------------------------
LEMMA LineStep ==
  ASSUME LineInv, Line!Next
  PROVE  LineInv'
<1>1. CASE Line!Tick \/ Line!Step \/ Line!Reboot
  BY <1>1, ClockStep
<1>2. CASE Line!ServerAnchor
  BY <1>2, ServerAnchorStep
<1>3. ASSUME NEW f \in {None} \cup Start .. End, Line!Poll(f)
      PROVE  LineInv'
  <2>1. f = None \/ f \in Int
    BY LineAssumption
  <2>2. QED
    BY <1>3, <2>1, PollStep
<1>4. CASE Line!UploadDevice \/ Line!UploadPolls
  BY <1>4, UploadStep
<1>5. QED
  BY <1>1, <1>2, <1>3, <1>4 DEF Line!Next

\* The exceptions that the polls show are those of PlacedTruly.
LEMMA OffIsAllowed ==
  ASSUME LineInv, NEW r, TakenOK(linePolls, lineAnchors, serverAnchors, r), Off(linePolls, lineAnchors, r)
  PROVE  Line!MayBeOff(r)
<1>1. PICK b, P, A : b = r.boot /\ P = linePolls /\ A = lineAnchors
  OBVIOUS
<1>2. PICK i \in DOMAIN P : P[i].boot = b /\ (P[i].synced \/ A[b] # None \/ serverAnchors[b] # None)
  BY <1>1 DEF TakenOK
<1>3. b \in LineBoots /\ Line!Anchored(b)
  <2>1. P[i].synced => A[b] # None
    BY <1>1, <1>2 DEF LineInv, AnchorsOK
  <2>2. QED
    BY <1>1, <1>2, <2>1 DEF TakenOK, Line!Anchored, Line!Anchor
<1>4. CASE \A j \in DOMAIN P : P[j].boot = b => P[j].synced /\ r.at <= P[j].at
  <2>1. ~Line!HasStale(b)
    BY <1>1, <1>4 DEF Line!HasStale, Line!Unsynced
  <2>2. PICK S, m : S = {j \in DOMAIN P : P[j].boot = b} /\ m = Line!Min(S)
    OBVIOUS
  <2>3. S \subseteq Nat /\ S # {}
    BY <1>1, <1>2, <2>2, LenProperties DEF LineInv, PollsOK
  <2>4. m \in S
    BY <2>2, <2>3, LeastIs
  <2>5. r.at <= P[m].at
    BY <1>4, <2>2, <2>4
  <2>6. Line!FirstPollOf(b) = P[m]
    BY <1>1, <2>2 DEF Line!FirstPollOf
  <2>7. QED
    BY <1>1, <2>1, <2>5, <2>6 DEF Line!MayBeOff
<1>5. ASSUME NEW j \in DOMAIN P, P[j].boot = b, ~P[j].synced,
             \/ P[j].at - P[j].ts < MinShift /\ r.ts = r.at + P[j].ts - P[j].at
             \/ /\ A[b] # None /\ r.ts = r.at + P[j].at - P[j].ts
                /\ P[j].at - P[j].ts <= A[b].wall - r.at
      PROVE  Line!MayBeOff(r)
  <2>1. Line!HasStale(b) /\ Line!Delta(b) = P[j].at - P[j].ts
    BY <1>1, <1>3, <1>5, DeltaIs
  <2>2. P[j].at \in Int /\ P[j].ts \in Int /\ r.at \in Int
    <3>1. P[j] \in LineRows
      BY <1>1, ElementOfSeq, LenProperties DEF LineInv, PollsOK
    <3>2. QED
      BY <3>1 DEF LineRows, TakenOK
  <2>3. PICK d \in Int : d = Line!Delta(b) /\ d = P[j].at - P[j].ts
    BY <2>1, <2>2
  <2>4. \/ d < MinShift /\ r.ts = r.at - d
        \/ A[b] # None /\ r.ts = r.at + d /\ d <= A[b].wall - r.at
    BY <1>5, <2>2, <2>3
  <2>5. QED
    BY <1>1, <2>1, <2>3, <2>4 DEF Line!MayBeOff
<1>6. QED
  BY <1>1, <1>4, <1>5 DEF Off

-----------------------------------------------------------------------------
(* Every time that the server takes from a sensor is the true time of what  *)
(* it stamps, but for the four exceptions of PlacedTruly: whatever the      *)
(* errors of the boots' clocks, whenever chrony steps them and the sensor   *)
(* polls, restarts or uploads, and whichever of the two anchors a boot has. *)
(* (collector/store.py, uploader/timeline.py, uploader/batch.py)            *)
THEOREM TimesAreTrue == UploadSpec => []TimesArePlaced
<1>1. UploadInit => LineInv
  BY LineInit DEF UploadInit
<1>2. LineInv /\ [UploadNext]_<<part, vars, lineVars, formatVars, sendVars>> => LineInv'
  <2>1. SUFFICES ASSUME LineInv, [UploadNext]_<<part, vars, lineVars, formatVars, sendVars>> PROVE LineInv'
    OBVIOUS
  <2>2. CASE Line!Next
    BY <2>1, <2>2, LineStep
  <2>3. CASE UNCHANGED lineVars
    BY <2>1, <2>3 DEF lineVars, LineInv, ClockOK, RunningOK, Running
  <2>4. QED
    BY <2>1, <2>2, <2>3 DEF UploadNext
<1>3. LineInv => TimesArePlaced
  <2>1. SUFFICES ASSUME LineInv, NEW r \in stored PROVE r.ts = r.at \/ (r.kind = "kismet" /\ Line!MayBeOff(r))
    BY DEF TimesArePlaced, Line!PlacedTruly
  <2>2. TakenOK(linePolls, lineAnchors, serverAnchors, r)
    BY <2>1 DEF LineInv
  <2>3. r.ts = r.at \/ (r.kind = "kismet" /\ Off(linePolls, lineAnchors, r))
    BY <2>2 DEF TakenOK
  <2>4. QED
    BY <2>1, <2>2, <2>3, OffIsAllowed
<1>4. QED
  BY <1>1, <1>2, <1>3, PTL DEF UploadSpec

-----------------------------------------------------------------------------
(* WireFormat: every value of every column.                                 *)

\* What comes of a value: nothing, where nothing will do, what the server takes,
\* or what SQLite cannot hold.
Passes(c, w) ==
  \/ Format!Overflows(w)
  \/ w = Format!Null /\ ~c.required
  \/ w # Format!Null /\ Format!Fits(c.kind, w)
  \/ c.name = "last_result" /\ w.n > Short

ColumnOK(c) == \A v \in DOMAIN c.shaped : Passes(c, c.shaped[v])

LEMMA DeviceOK ==
  ASSUME NEW c \in Format!DeviceColumns
  PROVE  ColumnOK(c)
<1> USE FormatAssumption DEF Format!Column, ColumnOK, Passes, Format!Overflows, Format!Null, Format!Fits, Format!Width, Format!IsNum,
      Format!Wholes, Format!Fracs, Format!Texts, Format!Whole, Format!Text, Format!Frac, Format!Missing
<1>1. CASE c = Format!Column("device_key", Format!Texts(1..Short), Format!Nonempty, "text", TRUE)
  BY <1>1 DEF Format!Nonempty
<1>2. CASE c = Format!Column("mac", {Format!Text(17, "mac")}, Format!Mac, "mac", TRUE)
  BY <1>2 DEF Format!Mac
<1>3. CASE c = Format!Column("type", Format!Names, Format!TypeOf, "text", TRUE)
  BY <1>3 DEF Format!Names, Format!TypeOf
<1>4. CASE c = Format!Column("manuf", Format!Names, Format!Nonempty, "text", FALSE)
  BY <1>4 DEF Format!Names, Format!Nonempty
<1>5. CASE c = Format!Column("first_seen", Format!Times, Format!Positive, "ts", TRUE)
  BY <1>5 DEF Format!Times, Format!Positive
<1>6. CASE c = Format!Column("last_seen", Format!Times, Format!Positive, "ts", TRUE)
  BY <1>6 DEF Format!Times, Format!Positive
<1>7. CASE c = Format!Column("ssid", Format!Names, Format!AsText, "text", FALSE)
  BY <1>7 DEF Format!Names, Format!AsText
<1>8. CASE c = Format!Column("cloaked", Format!Flags, Format!Flag, "flag", FALSE)
  BY <1>8 DEF Format!Flags, Format!Flag
<1>9. CASE c = Format!Column("crypt", Format!Names, Format!Nonempty, "text", FALSE)
  BY <1>9 DEF Format!Names, Format!Nonempty
<1>10. CASE c = Format!Column("crypt_bits", Format!Wide, Format!Counter, "bigint", FALSE)
  BY <1>10 DEF Format!Wide, Format!Counter
<1>11. CASE c = Format!Column("mfp_sup", Format!Flags, Format!Flag, "flag", FALSE)
  BY <1>11 DEF Format!Flags, Format!Flag
<1>12. CASE c = Format!Column("mfp_req", Format!Flags, Format!Flag, "flag", FALSE)
  BY <1>12 DEF Format!Flags, Format!Flag
<1>13. CASE c = Format!Column("adv_channel", Format!Names, Format!Nonempty, "text", FALSE)
  BY <1>13 DEF Format!Names, Format!Nonempty
<1>14. CASE c = Format!Column("ht_mode", Format!Names, Format!Nonempty, "text", FALSE)
  BY <1>14 DEF Format!Names, Format!Nonempty
<1>15. CASE c = Format!Column("beacon_rate", Format!Counts, Format!Positive, "int", FALSE)
  BY <1>15 DEF Format!Counts, Format!Positive
<1>16. CASE c = Format!Column("country", Format!Names, Format!Nonempty, "text", FALSE)
  BY <1>16 DEF Format!Names, Format!Nonempty
<1>17. CASE c = Format!Column("cur_n_clients", Format!Counts, Format!Counter, "int", FALSE)
  BY <1>17 DEF Format!Counts, Format!Counter
<1>18. CASE c = Format!Column("cur_qbss_stations", Format!Counts, Format!Counter, "int", FALSE)
  BY <1>18 DEF Format!Counts, Format!Counter
<1>19. CASE c = Format!Column("cur_util_pct", Format!Counts \cup Format!Fracs(0..Int4 - 1), Format!Num, "real", FALSE)
  BY <1>19 DEF Format!Counts, Format!Num
<1>20. QED
  BY <1>1, <1>2, <1>3, <1>4, <1>5, <1>6, <1>7, <1>8, <1>9, <1>10, <1>11, <1>12, <1>13, <1>14, <1>15, <1>16, <1>17, <1>18, <1>19 DEF Format!DeviceColumns

LEMMA ObservationOK ==
  ASSUME NEW c \in Format!ObservationColumns
  PROVE  ColumnOK(c)
<1> USE FormatAssumption DEF Format!Column, ColumnOK, Passes, Format!Overflows, Format!Null, Format!Fits, Format!Width, Format!IsNum,
      Format!Wholes, Format!Fracs, Format!Texts, Format!Whole, Format!Text, Format!Frac, Format!Missing
<1>1. CASE c = Format!Column("rssi", Format!Levels, Format!Dbm, "small", FALSE)
  BY <1>1 DEF Format!Levels, Format!Dbm, Format!Floors
<1>2. CASE c = Format!Column("rssi_floor", Format!Levels, Format!DbmFloor, "flag", FALSE)
  BY <1>2 DEF Format!Levels, Format!DbmFloor, Format!Floors
<1>3. CASE c = Format!Column("pk_total", Format!Wide \cup Format!Fracs(0..Int4 - 1), Format!Counter, "bigint", FALSE)
  BY <1>3 DEF Format!Wide, Format!Counter
<1>4. CASE c = Format!Column("disconnects", Format!Counts, Format!Counter, "int", FALSE)
  BY <1>4 DEF Format!Counts, Format!Counter
<1>5. CASE c = Format!Column("disconnects_last", {Format!Missing} \cup Format!Times, Format!UnixTs, "ts", FALSE)
  BY <1>5 DEF Format!Times, Format!UnixTs
<1>6. CASE c = Format!Column("bss_timestamp", Format!Wide, Format!Positive, "bigint", FALSE)
  BY <1>6 DEF Format!Wide, Format!Positive
<1>7. CASE c = Format!Column("packets", Format!Wide \cup Format!Fracs(0..Int4 - 1), Format!Counter, "bigint", TRUE)
  BY <1>7 DEF Format!Wide, Format!Counter
<1>8. QED
  BY <1>1, <1>2, <1>3, <1>4, <1>5, <1>6, <1>7 DEF Format!ObservationColumns

LEMMA AlertOK ==
  ASSUME NEW c \in Format!AlertColumns
  PROVE  ColumnOK(c)
<1> USE FormatAssumption DEF Format!Column, ColumnOK, Passes, Format!Overflows, Format!Null, Format!Fits, Format!Width, Format!IsNum,
      Format!Wholes, Format!Fracs, Format!Texts, Format!Whole, Format!Text, Format!Frac, Format!Missing
<1>1. CASE c = Format!Column("hash", Format!Counts \cup Format!Texts(0..Short), Format!HashOf, "text", TRUE)
  BY <1>1 DEF Format!Counts, Format!HashOf
<1>2. CASE c = Format!Column("alert_ts", Format!Times \cup Format!Fracs(MinTs..Clock), Format!Num, "tsf", FALSE)
  BY <1>2 DEF Format!Times, Format!Num
<1>3. CASE c = Format!Column("header", Format!Names, Format!OrUnknown, "text", TRUE)
  BY <1>3 DEF Format!Names, Format!OrUnknown, Format!Nonempty
<1>4. CASE c = Format!Column("severity", Format!Wholes(0..Int2 - 1), Format!Counter, "small", FALSE)
  BY <1>4 DEF Format!Counter
<1>5. CASE c = Format!Column("source_mac", Format!Macs, Format!Mac, "mac", FALSE)
  BY <1>5 DEF Format!Macs, Format!Mac
<1>6. CASE c = Format!Column("channel", Format!Counts \cup Format!Fracs({1}) \cup Format!Texts(0..Short), Format!ChannelText, "text", FALSE)
  BY <1>6 DEF Format!Counts, Format!ChannelText, Format!Nonempty
<1>7. CASE c = Format!Column("freq_khz", Format!Counts, Format!Positive, "int", FALSE)
  BY <1>7 DEF Format!Counts, Format!Positive
<1>8. CASE c = Format!Column("text", Format!Names, Format!AsText, "text", FALSE)
  BY <1>8 DEF Format!Names, Format!AsText
<1>9. QED
  BY <1>1, <1>2, <1>3, <1>4, <1>5, <1>6, <1>7, <1>8 DEF Format!AlertColumns

LEMMA HeartbeatOK ==
  ASSUME NEW c \in Format!HeartbeatColumns
  PROVE  ColumnOK(c)
<1> USE FormatAssumption DEF Format!Column, ColumnOK, Passes, Format!Overflows, Format!Null, Format!Fits, Format!Width, Format!IsNum,
      Format!Wholes, Format!Fracs, Format!Texts, Format!Whole, Format!Text, Format!Frac, Format!Missing
<1>1. CASE c = Format!Column("sensor_ts", Format!Wholes({Clock}) \cup Format!Fracs({Clock}), Format!Same, "num", TRUE)
  BY <1>1 DEF Format!Same
<1>2. CASE c = Format!Column("boot_id", {Format!Text(36, "uuid")}, Format!Same, "uuid", FALSE)
  BY <1>2 DEF Format!Same
<1>3. CASE c = Format!Column("uptime_s", {Format!Null} \cup Format!Fracs(0..Clock), Format!Same, "num", FALSE)
  BY <1>3 DEF Format!Same
<1>4. CASE c = Format!Column("rtt_ms", {Format!Null} \cup Format!Counts, Format!Same, "integer", FALSE)
  BY <1>4 DEF Format!Counts, Format!Same
<1>5. CASE c = Format!Column("last_poll_ok", {Format!Null} \cup Format!Flags, Format!PollOk, "bool", FALSE)
  BY <1>5 DEF Format!Flags, Format!PollOk, Format!Bool
<1>6. CASE c = Format!Column("buffer_bytes", Format!Counts, Format!Positive, "integer", FALSE)
  BY <1>6 DEF Format!Counts, Format!Positive
<1>7. CASE c = Format!Column("last_result", Format!Texts(0..Long), Format!Same, "text", FALSE)
  BY <1>7 DEF Format!Same
<1>8. CASE c = Format!Column("usb_id", {Format!Null, Format!Text(9, "usb")}, Format!Same, "usb", FALSE)
  BY <1>8 DEF Format!Same
<1>9. CASE c = Format!Column("adapter_mac", {Format!Null, Format!Text(17, "mac")}, Format!Same, "mac", FALSE)
  BY <1>9 DEF Format!Same
<1>10. QED
  BY <1>1, <1>2, <1>3, <1>4, <1>5, <1>6, <1>7, <1>8, <1>9 DEF Format!HeartbeatColumns

LEMMA ColumnsOK ==
  ASSUME NEW c \in Format!Columns
  PROVE  ColumnOK(c)
BY DeviceOK, ObservationOK, AlertOK, HeartbeatOK DEF Format!Columns

FormatInv ==
  /\ at \in {"kismet", "shaped", "stored", "collector ended", "accepted", "refused"}
  /\ at = "kismet" => column \in Format!Columns /\ value \in DOMAIN column.shaped
  /\ at = "shaped" => Passes(column, value)
  /\ at = "stored" => Passes(column, value) /\ ~Format!Overflows(value)
  /\ Format!ShapedIsAccepted

LEMMA FormatStep ==
  ASSUME FormatInv, Format!Next
  PROVE  FormatInv'
<1>1. CASE Format!Shape
  <2>1. Passes(column, column.shaped[value])
    BY <1>1, ColumnsOK DEF FormatInv, Format!Shape, ColumnOK
  <2>2. QED
    BY <1>1, <2>1 DEF FormatInv, Format!Shape, Format!ShapedIsAccepted
<1>2. CASE Format!Store
  BY <1>2 DEF FormatInv, Format!Store, Format!ShapedIsAccepted
<1>3. CASE Format!Validate
  BY <1>3 DEF FormatInv, Format!Validate, Format!ShapedIsAccepted, Format!Accepted, Passes
<1>4. QED
  BY <1>1, <1>2, <1>3 DEF Format!Next

(* Whatever value Kismet sends for a column, in the ranges of its types, the *)
(* server takes what the collector makes of it, or the collector never stored *)
(* it; of a heartbeat's fields it refuses a quoted answer that is too long   *)
(* and nothing else.  For any widths of the integers and lengths of text.    *)
(* (collector/shape.py, collector/store.py, ingest/validate.py)             *)
THEOREM ShapedPasses == UploadSpec => []ShapedIsAccepted
<1> DEFINE IInv == part = "format" => FormatInv
<1>1. UploadInit => IInv
  BY DEF UploadInit, Format!Init, FormatInv, Format!ShapedIsAccepted
<1>2. IInv /\ [UploadNext]_<<part, vars, lineVars, formatVars, sendVars>> => IInv'
  <2>1. SUFFICES ASSUME IInv, [UploadNext]_<<part, vars, lineVars, formatVars, sendVars>>, part' = "format" PROVE FormatInv'
    OBVIOUS
  <2>2. CASE part = "format" /\ Format!Next
    BY <2>1, <2>2, FormatStep
  <2>3. CASE part = "format" /\ UNCHANGED formatVars
    BY <2>1, <2>3 DEF formatVars, FormatInv, Format!ShapedIsAccepted
  <2>4. QED
    BY <2>1, <2>2, <2>3 DEF UploadNext
<1>3. IInv => ShapedIsAccepted
  BY DEF FormatInv, ShapedIsAccepted
<1>4. QED
  BY <1>1, <1>2, <1>3, PTL DEF UploadSpec

-----------------------------------------------------------------------------
(* SendLoop: how large batches are, and when they go.                       *)

\* A sum over one poll is what it weighs.
LEMMA SumOfOne ==
  ASSUME NEW what, NEW s, NEW v \in Int, DOMAIN s = {1}, s[1][what] = v
  PROVE  Loop!FoldLeft(LAMBDA sum, p : sum + p[what], 0, s) = v
<1> DEFINE D == DOMAIN s
           Entry(g, t) == IF t = {} THEN 0 ELSE LET x == Loop!Max(t) IN g[t \ {x}] + s[x][what]
           IsSum(g) == g = [t \in SUBSET D |-> Entry(g, t)]
           f == CHOOSE g : IsSum(g)
           h == [t \in SUBSET D |-> IF t = {} THEN 0 ELSE v]
<1>1. Loop!FoldLeft(LAMBDA sum, p : sum + p[what], 0, s) = f[D]
  <2>1. Loop!FoldLeft(LAMBDA sum, p : sum + p[what], 0, s) =
          Loop!MapThenFoldSet(LAMBDA x, y : y + x[what], 0, LAMBDA i : s[i], LAMBDA S : Loop!Max(S), D)
    BY DEF Loop!FoldLeft
  <2>2. Loop!MapThenFoldSet(LAMBDA x, y : y + x[what], 0, LAMBDA i : s[i], LAMBDA S : Loop!Max(S), D) = f[D]
    BY Zenon DEF Loop!MapThenFoldSet
  <2>3. QED
    BY <2>1, <2>2
<1>2. Loop!Max({1}) = 1
  BY DEF Loop!Max
<1>3. SUBSET D = {{}, {1}} /\ D = {1} /\ D # {}
  OBVIOUS
<1>4. IsSum(h)
  <2>1. h[{}] = 0 /\ h[{1}] = v /\ {1} \ {1} = {}
    BY <1>3
  <2>2. Entry(h, {}) = 0 /\ Entry(h, {1}) = v
    BY <1>2, <2>1
  <2>3. \A t \in SUBSET D : h[t] = Entry(h, t)
    <3> HIDE DEF h, Entry
    <3>1. QED
      BY <1>3, <2>1, <2>2
  <2>4. QED
    BY <2>3
<1>5. IsSum(f)
  <2> HIDE DEF IsSum, h
  <2>1. QED
    BY <1>4
<1>6. f[{}] = 0 /\ f[D] = f[{}] + v
  <2>1. \A t \in SUBSET D : f[t] = Entry(f, t)
    <3> HIDE DEF f, Entry
    <3>1. QED
      BY <1>5
  <2> HIDE DEF f
  <2>2. f[{}] = Entry(f, {}) /\ f[D] = Entry(f, {1}) /\ {1} \ {1} = {} /\ {1} # {}
    BY <1>3, <2>1
  <2>3. Entry(f, {}) = 0
    OBVIOUS
  <2>4. Entry(f, {1}) = f[{}] + s[1][what]
    BY <1>2, <2>2
  <2>5. QED
    BY <2>2, <2>3, <2>4
<1> HIDE DEF f
<1>7. f[D] = v
  BY <1>6
<1>8. QED
  BY <1>1, <1>7

\* What one poll weighs.
LEMMA WeightOfOne ==
  ASSUME NEW what, backlog \in Seq(Sizes), backlog # <<>>, Head(backlog)[what] \in Int
  PROVE  Loop!Weight(1, what) = Head(backlog)[what]
<1> DEFINE first == SubSeq(backlog, 1, 1)
<1>1. Len(backlog) \in Nat /\ Len(backlog) >= 1
  BY EmptySeq, LenProperties
<1>2. Loop!Min({1, Len(backlog)}) = 1
  BY <1>1 DEF Loop!Min
<1>3. DOMAIN first = {1} /\ first[1] = Head(backlog)
  <2>1. DOMAIN first = 1..1 /\ first[1] = backlog[1]
    BY <1>1, SubSeqProperties
  <2>2. QED
    BY <1>1, <2>1
<1>4. Loop!Weight(1, what) = Loop!FoldLeft(LAMBDA sum, p : sum + p[what], 0, first)
  BY <1>2 DEF Loop!Weight
<1> HIDE DEF first
<1>5. Loop!FoldLeft(LAMBDA sum, p : sum + p[what], 0, first) = Head(backlog)[what]
  BY <1>3, SumOfOne
<1>6. QED
  BY <1>4, <1>5

\* The loop's lesser and greater are those of the time line.
LEMMA LoopOfTwo ==
  ASSUME NEW a \in Int, NEW b \in Int
  PROVE  /\ Loop!Min({a, b}) = IF a <= b THEN a ELSE b
         /\ Loop!Max({a, b}) = IF a <= b THEN b ELSE a
<1>1. Loop!Min({a, b}) = Line!Min({a, b}) /\ Loop!Max({a, b}) = Line!Max({a, b})
  BY DEF Loop!Min, Line!Min, Loop!Max, Line!Max
<1>2. QED
  BY <1>1, OfTwo

LEMMA HalfIs ==
  ASSUME NEW n \in Nat \ {0}
  PROVE  Loop!Half(n) \in 1..n /\ (n > 1 => Loop!Half(n) < n)
<1>1. PICK h \in Int : h = n \div 2 /\ h <= n /\ (n > 1 => h < n)
  OBVIOUS
<1>2. Loop!Half(n) = IF 1 <= h THEN h ELSE 1
  <2>1. Loop!Max({1, h}) = IF 1 <= h THEN h ELSE 1
    BY LoopOfTwo
  <2>2. QED
    BY <1>1, <2>1 DEF Loop!Half
<1>3. QED
  BY <1>1, <1>2

\* How often a number can be halved until it is 1, or more.
Tries(n) == Cardinality(Loop!Halvings(n)) - 1

LEMMA HalvingsAre ==
  ASSUME NEW n \in Nat \ {0}
  PROVE  /\ Loop!Halvings(n) \subseteq 1..n /\ n \in Loop!Halvings(n) /\ 1 \in Loop!Halvings(n)
         /\ Loop!Closed(Loop!Halvings(n)) /\ IsFiniteSet(Loop!Halvings(n)) /\ Tries(n) \in Nat
         /\ \A m \in Loop!Halvings(n) : Loop!Halvings(m) \subseteq Loop!Halvings(n)
<1> DEFINE H(m) == Loop!Halvings(m)
<1>1. H(n) \subseteq 1..n /\ n \in H(n)
  BY DEF Loop!Halvings
<1>2. ASSUME NEW m \in H(n) PROVE Loop!Half(m) \in H(n)
  <2>1. m \in 1..n /\ Loop!Half(m) \in 1..n
    BY <1>1, HalfIs
  <2>2. SUFFICES ASSUME NEW S \in SUBSET (1..n), n \in S, Loop!Closed(S) PROVE Loop!Half(m) \in S
    BY <2>1 DEF Loop!Halvings
  <2>3. m \in S
    BY <2>2 DEF Loop!Halvings
  <2>4. QED
    BY <2>2, <2>3 DEF Loop!Closed
<1>3. ASSUME NEW S \in SUBSET (1..n), n \in S, Loop!Closed(S) PROVE 1 \in S
  <2>1. Line!Min(S) \in S /\ \A t \in S : Line!Min(S) <= t
    <3>1. S \subseteq Nat /\ S # {}
      BY <1>3
    <3>2. QED
      BY <3>1, LeastIs
  <2>2. PICK u \in S : \A t \in S : u <= t
    BY <2>1
  <2>3. Loop!Half(u) \in S /\ u \in Nat \ {0}
    BY <1>3 DEF Loop!Closed
  <2>4. u = 1
    BY <2>2, <2>3, HalfIs
  <2>5. QED
    BY <2>4
<1>4. 1 \in H(n)
  BY <1>3 DEF Loop!Halvings
<1>5. IsFiniteSet(H(n)) /\ Tries(n) \in Nat
  <2>1. PICK a \in Int, b \in Int : a = 1 /\ b = n
    OBVIOUS
  <2>2. IsFiniteSet(a..b)
    BY FS_Interval
  <2>3. IsFiniteSet(H(n))
    BY <1>1, <2>1, <2>2, FS_Subset
  <2>4. Cardinality(H(n)) \in Nat /\ Cardinality(H(n)) # 0
    BY <1>4, <2>3, FS_CardinalityType, FS_EmptySet
  <2>5. QED
    BY <2>3, <2>4 DEF Tries
<1>6. ASSUME NEW m \in H(n), NEW k \in H(m) PROVE k \in H(n)
  <2>1. m \in 1..n /\ H(m) \subseteq 1..m
    BY <1>1 DEF Loop!Halvings
  <2>2. k \in 1..n
    BY <1>6, <2>1
  <2>3. SUFFICES ASSUME NEW S \in SUBSET (1..n), n \in S, Loop!Closed(S) PROVE k \in S
    BY <2>2 DEF Loop!Halvings
  <2>4. m \in S
    BY <2>3 DEF Loop!Halvings
  <2> DEFINE T == S \cap 1..m
  <2>5. T \in SUBSET (1..m) /\ m \in T
    BY <2>1, <2>4
  <2>6. Loop!Closed(T)
    <3>1. SUFFICES ASSUME NEW u \in T PROVE Loop!Half(u) \in T
      BY DEF Loop!Closed
    <3>2. Loop!Half(u) \in S /\ Loop!Half(u) \in 1..u
      BY <2>1, <2>3, HalfIs DEF Loop!Closed
    <3>3. QED
      BY <2>1, <3>2
  <2>7. k \in T
    <3> HIDE DEF T
    <3>1. QED
      BY <1>6, <2>5, <2>6 DEF Loop!Halvings
  <2>8. QED
    BY <2>7
<1>7. Loop!Closed(H(n))
  BY <1>2 DEF Loop!Closed
<1>8. QED
  BY <1>1, <1>4, <1>5, <1>6, <1>7

\* What a number leads to cannot be halved more often; its half, less often.
LEMMA TriesFall ==
  ASSUME NEW n \in Nat \ {0}
  PROVE  /\ \A m \in Loop!Halvings(n) : m \in Nat \ {0} /\ Tries(m) \in Nat /\ Tries(m) <= Tries(n)
         /\ n > 1 => Tries(Loop!Half(n)) < Tries(n)
<1>1. ASSUME NEW m \in Loop!Halvings(n) PROVE m \in Nat \ {0} /\ Tries(m) \in Nat /\ Tries(m) <= Tries(n)
  <2>1. m \in Nat \ {0}
    BY HalvingsAre
  <2>2. Loop!Halvings(m) \subseteq Loop!Halvings(n) /\ IsFiniteSet(Loop!Halvings(n)) /\ Tries(m) \in Nat
    BY <2>1, HalvingsAre
  <2>3. Cardinality(Loop!Halvings(m)) <= Cardinality(Loop!Halvings(n))
    BY <2>2, FS_Subset
  <2>4. Cardinality(Loop!Halvings(m)) \in Nat /\ Cardinality(Loop!Halvings(n)) \in Nat
    BY <2>1, HalvingsAre, FS_CardinalityType
  <2>5. QED
    BY <2>1, <2>2, <2>3, <2>4 DEF Tries
<1>2. ASSUME n > 1 PROVE Tries(Loop!Half(n)) < Tries(n)
  <2>1. PICK m \in Nat \ {0} : m = Loop!Half(n) /\ m < n
    BY <1>2, HalfIs
  <2>2. m \in Loop!Halvings(n) /\ n \in Loop!Halvings(n) /\ IsFiniteSet(Loop!Halvings(n))
    BY <2>1, HalvingsAre DEF Loop!Closed
  <2>3. Loop!Halvings(m) \subseteq Loop!Halvings(n) \ {n}
    <3>1. Loop!Halvings(m) \subseteq Loop!Halvings(n)
      BY <2>2, HalvingsAre
    <3>2. n \notin Loop!Halvings(m)
      <4>1. Loop!Halvings(m) \subseteq 1..m
        BY HalvingsAre
      <4>2. QED
        BY <2>1, <4>1
    <3>3. QED
      BY <3>1, <3>2
  <2>4. /\ IsFiniteSet(Loop!Halvings(n) \ {n})
        /\ Cardinality(Loop!Halvings(n) \ {n}) = Cardinality(Loop!Halvings(n)) - 1
    BY <2>2, FS_RemoveElement
  <2>5. Cardinality(Loop!Halvings(m)) <= Cardinality(Loop!Halvings(n) \ {n})
    BY <2>3, <2>4, FS_Subset
  <2>6. Cardinality(Loop!Halvings(m)) \in Nat /\ Cardinality(Loop!Halvings(n)) \in Nat
    BY HalvingsAre, FS_CardinalityType
  <2>7. Tries(m) < Tries(n)
    BY <2>4, <2>5, <2>6 DEF Tries
  <2>8. QED
    BY <2>1, <2>7
<1>3. QED
  BY <1>1, <1>2

LEMMA ShrunkIs ==
  ASSUME NEW n \in Nat \ {0}
  PROVE  Loop!Shrunk(n) \in Loop!Halvings(n)
<1>1. PICK S : S = {m \in Loop!Halvings(n) : Loop!Weight(m, "bytes") <= MaxBatchBytes} \cup {1}
  OBVIOUS
<1>2. S \subseteq Loop!Halvings(n) /\ S \subseteq 1..n /\ 1 \in S
  BY <1>1, HalvingsAre
<1> DEFINE U == {u \in Nat : \A t \in S : t <= u}
<1>3. PICK u \in U : \A t \in U : u <= t
  <2>1. U \subseteq Nat /\ n \in U
    BY <1>2
  <2> HIDE DEF U
  <2>2. Line!Min(U) \in U /\ \A t \in U : Line!Min(U) <= t
    BY <2>1, LeastIs
  <2>3. QED
    BY <2>2
<1>4. u \in S
  <2>1. SUFFICES ASSUME u \notin S PROVE FALSE
    OBVIOUS
  <2>2. u - 1 \in U
    BY <1>2, <2>1
  <2>3. QED
    BY <1>3, <2>2
<1>5. Loop!Max(S) \in S
  BY <1>2, <1>3, <1>4 DEF Loop!Max
<1>6. QED
  BY <1>1, <1>2, <1>5 DEF Loop!Shrunk

\* The oldest poll, if there is one, can be taken.
HeadFits(P) == P # <<>> => Loop!OneFits(Head(P))

\* A wait that goes on, and a time without contact, leave time for a round more;
\* when neither is left, a heartbeat is due after the tries that are left.
SendInv ==
  /\ backlog \in Seq(Sizes) /\ batchPolls \in Loop!Halvings(CatchUpPolls)
  /\ hbWait \in Nat /\ hbNominal \in Nat /\ silent \in Int /\ silent <= HeartbeatS /\ left \in Int
  /\ hbWait > 0 => left >= hbWait + Loop!Round
  /\ silent < HeartbeatS => left >= HeartbeatS - silent + Loop!Round
  /\ silent = HeartbeatS /\ hbWait = 0 /\ HeadFits(backlog) =>
       left >= IF phase = "batches" THEN 2 * Tries(batchPolls) + 1 ELSE 0

LEMMA ExtremesAre ==
  /\ \A a, b \in Int : Loop!Min({a, b}) = IF a <= b THEN a ELSE b
  /\ \A a, b \in Int : Loop!Max({a, b}) = IF a <= b THEN b ELSE a
BY LoopOfTwo

LEMMA LoopBounds ==
  /\ HeartbeatS \in Nat /\ Fault \in Nat /\ Base \in Nat /\ Watch \in Nat /\ Watch >= 1
  /\ CatchUpPolls \in Nat \ {0} /\ CatchUpPolls \in Loop!Halvings(CatchUpPolls)
BY LoopAssumption, HalvingsAre

LEMMA RoundIs ==
  /\ Tries(CatchUpPolls) \in Nat /\ Loop!Round \in Nat
  /\ Loop!Round = 2 * Tries(CatchUpPolls) + Watch
<1>1. \A S : Loop!Cardinality(S) = Cardinality(S)
  BY DEF Loop!Cardinality, Cardinality
<1>2. Tries(CatchUpPolls) \in Nat
  BY LoopBounds, HalvingsAre
<1>3. Loop!Round = 2 * Tries(CatchUpPolls) + Watch
  BY <1>1 DEF Loop!Round, Tries
<1>4. QED
  BY <1>2, <1>3, LoopBounds

\* Halving goes on from where it was.
LEMMA ShrinksOn ==
  ASSUME batchPolls \in Loop!Halvings(CatchUpPolls)
  PROVE  /\ batchPolls \in Nat \ {0} /\ Loop!Shrunk(batchPolls) \in Nat \ {0}
         /\ Loop!Shrunk(batchPolls) \in Loop!Halvings(CatchUpPolls)
         /\ Loop!Half(Loop!Shrunk(batchPolls)) \in Loop!Halvings(CatchUpPolls)
         /\ Tries(batchPolls) \in Nat /\ Tries(batchPolls) <= Tries(CatchUpPolls)
         /\ Tries(Loop!Shrunk(batchPolls)) \in Nat /\ Tries(Loop!Shrunk(batchPolls)) <= Tries(batchPolls)
         /\ Tries(Loop!Half(Loop!Shrunk(batchPolls))) \in Nat
         /\ Tries(Loop!Half(Loop!Shrunk(batchPolls))) <= Tries(batchPolls)
         /\ Loop!Shrunk(batchPolls) > 1 => Tries(Loop!Half(Loop!Shrunk(batchPolls))) < Tries(batchPolls)
<1>1. PICK c \in Nat \ {0} : c = CatchUpPolls
  BY LoopBounds
<1>2. PICK b \in Nat \ {0} : b = batchPolls /\ b \in Loop!Halvings(c) /\ Tries(b) \in Nat /\ Tries(b) <= Tries(c)
  BY <1>1, TriesFall
<1>3. PICK n \in Nat \ {0} : n = Loop!Shrunk(b) /\ n \in Loop!Halvings(b) /\ Tries(n) \in Nat /\ Tries(n) <= Tries(b)
  BY <1>2, ShrunkIs, TriesFall
<1>4. n \in Loop!Halvings(c)
  BY <1>2, <1>3, HalvingsAre
<1>5. Loop!Half(n) \in Loop!Halvings(c) /\ Loop!Half(n) \in Loop!Halvings(n)
  BY <1>3, <1>4, HalvingsAre DEF Loop!Closed
<1>6. Tries(Loop!Half(n)) \in Nat /\ Tries(Loop!Half(n)) <= Tries(n) /\ (n > 1 => Tries(Loop!Half(n)) < Tries(n))
  BY <1>3, <1>5, TriesFall
<1>7. QED
  BY <1>1, <1>2, <1>3, <1>4, <1>5, <1>6

\* Polls arrive behind the oldest one.
LEMMA ArriveKeeps ==
  ASSUME SendInv, Loop!Arrive
  PROVE  backlog' \in Seq(Sizes) /\ (HeadFits(backlog)' => HeadFits(backlog))
<1>1. CASE backlog' = backlog
  BY <1>1 DEF SendInv, HeadFits
<1>2. CASE \E p \in Sizes : backlog' = Append(backlog, p)
  <2>1. PICK p \in Sizes : backlog' = Append(backlog, p)
    BY <1>2
  <2>2. backlog \in Seq(Sizes) /\ Len(backlog) \in Nat
    BY LenProperties DEF SendInv
  <2>3. backlog' \in Seq(Sizes)
    BY <2>1, <2>2, AppendProperties
  <2>4. ASSUME backlog # <<>> PROVE backlog' # <<>> /\ Head(backlog') = Head(backlog)
    <3>1. Len(backlog) >= 1
      BY <2>2, <2>4, EmptySeq
    <3>2. QED
      BY <2>1, <2>2, <3>1, AppendProperties
  <2>5. QED
    BY <2>3, <2>4 DEF HeadFits
<1>3. QED
  BY <1>1, <1>2 DEF Loop!Arrive

\* A poll that fits is not too large by itself.
LEMMA OneIsNotTooLarge ==
  ASSUME backlog \in Seq(Sizes), backlog # <<>>, HeadFits(backlog)
  PROVE  ~Loop!TooLarge(1)
<1>1. PICK p \in Sizes : p = Head(backlog)
  BY HeadTailProperties
<1>2. p.bytes \in Nat /\ p.json \in Nat /\ Sizes \subseteq [bytes : Nat, json : Nat, rows : Nat]
  BY LoopAssumption
<1>3. p.bytes = p["bytes"] /\ p.json = p["json"]
  OBVIOUS
<1>4. Loop!Weight(1, "bytes") = p.bytes /\ Loop!Weight(1, "json") = p.json
  BY <1>1, <1>2, <1>3, WeightOfOne
<1>5. MaxBody \in Nat /\ MaxBatchBytes \in Nat
  BY LoopAssumption
<1>6. p.bytes <= MaxBody /\ p.json <= MaxJson
  BY <1>1, <1>2, <1>5, ExtremesAre DEF HeadFits, Loop!OneFits
<1>7. MaxJson \in Nat
  BY LoopAssumption
<1>8. QED
  BY <1>2, <1>4, <1>5, <1>6, <1>7 DEF Loop!TooLarge

\* What is left of a wait.
LEMMA LaterIs ==
  ASSUME NEW t \in Int, NEW by \in Int
  PROVE  Loop!Later(t, by) = IF t <= by THEN 0 ELSE t - by
<1>1. PICK x \in Int : x = t - by
  OBVIOUS
<1>2. Loop!Later(t, by) = Loop!Max({0, x})
  BY <1>1 DEF Loop!Later
<1>3. Loop!Max({0, x}) = IF 0 <= x THEN x ELSE 0
  BY LoopOfTwo
<1>4. QED
  BY <1>1, <1>2, <1>3

\* The numbers the invariant is about: R for the round, b for the tries that are left.
Numbers(H, R, W, F, c, b, D, S, L) ==
  /\ H = HeartbeatS /\ R = Loop!Round /\ W = Watch /\ F = Fault /\ W >= 1
  /\ c = Tries(CatchUpPolls) /\ R = 2 * c + W /\ b = Tries(batchPolls) /\ b <= c
  /\ D = hbWait /\ S = silent /\ L = left /\ S <= H
  /\ D > 0 => L >= D + R
  /\ S < H => L >= H - S + R
  /\ S = H /\ D = 0 /\ HeadFits(backlog) => L >= IF phase = "batches" THEN 2 * b + 1 ELSE 0

LEMMA SendNumbers ==
  ASSUME SendInv
  PROVE  \E H, R, W, F, c, b, D \in Nat, S, L \in Int : Numbers(H, R, W, F, c, b, D, S, L)
<1>1. PICK H, R, W, F, c \in Nat :
        /\ H = HeartbeatS /\ R = Loop!Round /\ W = Watch /\ F = Fault /\ W >= 1
        /\ c = Tries(CatchUpPolls) /\ R = 2 * c + W
  BY LoopBounds, RoundIs
<1>2. PICK b \in Nat : b = Tries(batchPolls) /\ b <= c
  BY <1>1, ShrinksOn DEF SendInv
<1>3. PICK D \in Nat : D = hbWait
  BY DEF SendInv
<1>4. PICK S, L \in Int : S = silent /\ L = left
  BY DEF SendInv
<1>5. S <= H /\ (D > 0 => L >= D + R) /\ (S < H => L >= H - S + R)
  BY <1>1, <1>3, <1>4 DEF SendInv
<1>6. S = H /\ D = 0 /\ HeadFits(backlog) => L >= IF phase = "batches" THEN 2 * b + 1 ELSE 0
  BY <1>1, <1>2, <1>3, <1>4 DEF SendInv
<1>7. Numbers(H, R, W, F, c, b, D, S, L)
  BY <1>1, <1>2, <1>3, <1>4, <1>5, <1>6 DEF Numbers
<1>8. QED
  BY <1>7

\* What the invariant says of the times after a step.
LEMMA SendAfter ==
  ASSUME backlog' \in Seq(Sizes), batchPolls' \in Loop!Halvings(CatchUpPolls), hbNominal' \in Nat,
         hbWait' \in Nat, silent' \in Int, silent' <= HeartbeatS, left' \in Int,
         hbWait' > 0 => left' >= hbWait' + Loop!Round,
         silent' < HeartbeatS => left' >= HeartbeatS - silent' + Loop!Round,
         silent' = HeartbeatS /\ hbWait' = 0 /\ HeadFits(backlog)' =>
           left' >= IF phase' = "batches" THEN 2 * Tries(batchPolls)' + 1 ELSE 0
  PROVE  SendInv'
<1>1. (Loop!Halvings(CatchUpPolls))' = Loop!Halvings(CatchUpPolls) /\ (Loop!Round)' = Loop!Round
  BY DEF Loop!Round, Loop!Halvings, Loop!Closed, Loop!Half
<1>2. QED
  BY <1>1 DEF SendInv

\* A batch that was taken is contact.
LEMMA SentStep ==
  ASSUME SendInv, NEW n \in Nat \ {0}, backlog' = SubSeq(backlog, n + 1, Len(backlog)), batchPolls' = CatchUpPolls,
         hbWait' = Loop!Later(hbWait, 2), Loop!Contact(2), hbNominal' = hbNominal
  PROVE  SendInv'
<1>1. backlog' \in Seq(Sizes)
  <2>1. Len(backlog) \in Nat /\ backlog \in Seq(Sizes)
    BY LenProperties DEF SendInv
  <2>2. QED
    BY <2>1, SubSeqProperties
<1>2. PICK H, R, W, F, c, b, D \in Nat, S, L \in Int : Numbers(H, R, W, F, c, b, D, S, L)
  BY SendNumbers
<1>3. PICK D2 \in Nat : D2 = hbWait' /\ D2 = IF D <= 2 THEN 0 ELSE D - 2
  <2>1. hbWait' = Loop!Later(D, 2)
    BY <1>2 DEF Numbers
  <2>2. QED
    BY <2>1, LaterIs
<1>4. PICK S2 \in Int : S2 = silent' /\ S2 = IF H <= 1 THEN H ELSE 1
  <2>1. silent' = Loop!Min({H, 1})
    BY <1>2 DEF Numbers, Loop!Contact
  <2>2. QED
    BY <2>1, ExtremesAre
<1>5. PICK L2 \in Int : L2 = left' /\ L2 = IF L - 2 <= H + R THEN H + R ELSE L - 2
  <2>1. PICK x, y \in Int : x = L - 2 /\ y = H + R
    OBVIOUS
  <2>2. left' = Loop!Max({x, y})
    BY <1>2, <2>1 DEF Numbers, Loop!Contact
  <2>3. QED
    BY <2>1, <2>2, ExtremesAre
<1>6. batchPolls' \in Loop!Halvings(CatchUpPolls) /\ Tries(batchPolls)' = c /\ hbNominal' \in Nat
  BY <1>2, LoopBounds DEF Tries, Numbers, SendInv
<1>7. R = 2 * c + W /\ W >= 1 /\ (D > 0 => L >= D + R)
  BY <1>2 DEF Numbers
<1>8. S2 <= H /\ (D2 > 0 => L2 >= D2 + R) /\ L2 >= H - S2 + R /\ L2 >= 2 * c + 1 /\ L2 >= 0
  BY <1>3, <1>4, <1>5, <1>7
<1>9. H = HeartbeatS /\ R = Loop!Round
  BY <1>2 DEF Numbers
<1>10. left' >= IF phase' = "batches" THEN 2 * Tries(batchPolls)' + 1 ELSE 0
  BY <1>5, <1>6, <1>8
<1>11. QED
  BY <1>1, <1>3, <1>4, <1>5, <1>6, <1>8, <1>9, <1>10, SendAfter

\* Time that passes without an answer.
LEMMA PassStep ==
  ASSUME SendInv, NEW by \in Nat, NEW t \in Nat, NEW T \in Nat,
         backlog' \in Seq(Sizes), batchPolls' \in Loop!Halvings(CatchUpPolls), hbNominal' \in Nat,
         HeadFits(backlog)' => HeadFits(backlog),
         hbWait' = Loop!Later(hbWait, by), silent' = Loop!Min({HeartbeatS, silent + by}),
         left' = Loop!Max({-1, left - by}),
         t = Tries(batchPolls)', T = IF phase' = "batches" THEN 2 * t + 1 ELSE 0,
         HeadFits(backlog) => T + by <= Loop!Round + 1,
         HeadFits(backlog) /\ silent = HeartbeatS /\ hbWait = 0 => left >= T + by
  PROVE  SendInv'
<1>1. PICK H, R, W, F, c, b, D \in Nat, S, L \in Int : Numbers(H, R, W, F, c, b, D, S, L)
  BY SendNumbers
<1>2. H = HeartbeatS /\ R = Loop!Round /\ D = hbWait /\ S = silent /\ L = left
  BY <1>1 DEF Numbers
<1>3. S <= H /\ (D > 0 => L >= D + R) /\ (S < H => L >= H - S + R)
  BY <1>1 DEF Numbers
<1>4. PICK D2 \in Nat : D2 = hbWait' /\ D2 = IF D <= by THEN 0 ELSE D - by
  <2>1. PICK x \in Int : x = D - by
    OBVIOUS
  <2>2. hbWait' = Loop!Max({0, x})
    BY <1>2, <2>1 DEF Loop!Later
  <2>3. Loop!Max({0, x}) = IF 0 <= x THEN x ELSE 0
    BY ExtremesAre
  <2>4. QED
    BY <2>1, <2>2, <2>3
<1>5. PICK S2 \in Int : S2 = silent' /\ S2 = IF H <= S + by THEN H ELSE S + by
  <2>1. PICK x \in Int : x = S + by
    OBVIOUS
  <2>2. silent' = Loop!Min({H, x})
    BY <1>2, <2>1
  <2>3. QED
    BY <2>1, <2>2, ExtremesAre
<1>6. PICK L2 \in Int : L2 = left' /\ L2 >= L - by
  <2>1. PICK x \in Int : x = L - by
    OBVIOUS
  <2>2. left' = Loop!Max({-1, x})
    BY <1>2, <2>1
  <2>3. QED
    BY <2>1, <2>2, ExtremesAre
<1>7. S2 <= H /\ (D2 > 0 => L2 >= D2 + R) /\ (S2 < H => L2 >= H - S2 + R)
  BY <1>3, <1>4, <1>5, <1>6
<1>8. ASSUME S2 = H, D2 = 0, HeadFits(backlog)' PROVE L2 >= T
  <2>1. T + by <= R + 1 /\ (S = H /\ D = 0 => L >= T + by)
    BY <1>2, <1>8
  <2>2. CASE S = H /\ D = 0
    BY <1>6, <2>1, <2>2
  <2>3. CASE D > 0 \/ S < H
    BY <1>3, <1>4, <1>5, <1>6, <1>8, <2>1, <2>3
  <2>4. QED
    BY <1>3, <2>2, <2>3
<1>9. /\ hbWait' > 0 => left' >= hbWait' + Loop!Round
      /\ silent' < HeartbeatS => left' >= HeartbeatS - silent' + Loop!Round
  BY <1>2, <1>4, <1>5, <1>6, <1>7
<1>10. silent' = HeartbeatS /\ hbWait' = 0 /\ HeadFits(backlog)' =>
         left' >= IF phase' = "batches" THEN 2 * Tries(batchPolls)' + 1 ELSE 0
  BY <1>2, <1>4, <1>5, <1>6, <1>8
<1>11. hbWait' \in Nat /\ silent' \in Int /\ silent' <= HeartbeatS /\ left' \in Int
  BY <1>2, <1>4, <1>5, <1>6, <1>7
<1>12. QED
  BY <1>9, <1>10, <1>11, SendAfter

\* 413: the tries that are left get fewer, or the oldest poll does not fit.
LEMMA HalvedStep ==
  ASSUME SendInv, phase = "batches", backlog # <<>>, Loop!TooLarge(Loop!Shrunk(batchPolls)),
         batchPolls' = Loop!Half(Loop!Shrunk(batchPolls)), Loop!Pass(2), backlog' = backlog, phase' = phase,
         hbNominal' = hbNominal
  PROVE  SendInv'
<1>1. PICK H, R, W, F, c, b, D \in Nat, S, L \in Int : Numbers(H, R, W, F, c, b, D, S, L)
  BY SendNumbers
<1>2. PICK n \in Nat \ {0} : n = Loop!Shrunk(batchPolls)
  BY ShrinksOn DEF SendInv
<1>3. PICK t \in Nat : t = Tries(Loop!Half(n)) /\ (n > 1 => t < b)
  BY <1>1, <1>2, ShrinksOn DEF SendInv, Numbers
<1>4. Tries(batchPolls)' = t
  BY <1>2, <1>3 DEF Tries, Loop!Halvings, Loop!Closed, Loop!Half
<1>5. HeadFits(backlog) => n > 1
  <2>1. n = 1 => ~HeadFits(backlog)
    BY <1>2, OneIsNotTooLarge DEF SendInv
  <2>2. QED
    BY <2>1
<1>6. PICK T \in Nat : T = 2 * t + 1
  OBVIOUS
<1>7. b <= c /\ R = 2 * c + W /\ W >= 1 /\ R = Loop!Round
  BY <1>1 DEF Numbers
<1>8. HeadFits(backlog) => T + 2 <= R + 1
  BY <1>3, <1>5, <1>6, <1>7
<1>9. HeadFits(backlog) /\ silent = HeartbeatS /\ hbWait = 0 => left >= T + 2
  <2>1. ASSUME HeadFits(backlog), silent = HeartbeatS, hbWait = 0 PROVE L >= 2 * b + 1 /\ left = L
    BY <1>1, <2>1 DEF Numbers
  <2>2. QED
    BY <1>3, <1>5, <1>6, <2>1
<1>10. backlog' \in Seq(Sizes) /\ batchPolls' \in Loop!Halvings(CatchUpPolls) /\ hbNominal' \in Nat
  BY ShrinksOn DEF SendInv
<1>11. HeadFits(backlog)' => HeadFits(backlog)
  BY DEF HeadFits
<1>12. /\ hbWait' = Loop!Later(hbWait, 2) /\ silent' = Loop!Min({HeartbeatS, silent + 2})
       /\ left' = Loop!Max({-1, left - 2})
  BY DEF Loop!Pass
<1>13. T = (IF phase' = "batches" THEN 2 * t + 1 ELSE 0) /\ t = Tries(batchPolls)'
  BY <1>4, <1>6
<1>14. QED
  BY <1>7, <1>8, <1>9, <1>10, <1>11, <1>12, <1>13, PassStep

\* A batch that failed: the heartbeat is next.
LEMMA FailedStep ==
  ASSUME SendInv, phase = "batches", batchPolls' = Loop!Shrunk(batchPolls), hbWait' = Loop!Later(hbWait, 1),
         silent' = Loop!Min({HeartbeatS, silent + 1}), left' = Loop!Max({-1, left - 1}), phase' = "beat",
         backlog' = backlog, hbNominal' = hbNominal
  PROVE  SendInv'
<1>1. PICK H, R, W, F, c, b, D \in Nat, S, L \in Int : Numbers(H, R, W, F, c, b, D, S, L)
  BY SendNumbers
<1>2. batchPolls' \in Loop!Halvings(CatchUpPolls) /\ Tries(Loop!Shrunk(batchPolls)) \in Nat
  BY ShrinksOn DEF SendInv
<1>3. PICK t \in Nat : t = Tries(batchPolls)'
  <2>1. Tries(batchPolls)' = Tries(Loop!Shrunk(batchPolls))
    BY DEF Tries, Loop!Halvings, Loop!Closed, Loop!Half
  <2>2. QED
    BY <1>2, <2>1
<1>4. 0 + 1 <= Loop!Round + 1
  BY RoundIs
<1>5. HeadFits(backlog) /\ silent = HeartbeatS /\ hbWait = 0 => left >= 0 + 1
  <2>1. ASSUME HeadFits(backlog), silent = HeartbeatS, hbWait = 0 PROVE L >= 2 * b + 1 /\ left = L
    BY <1>1, <2>1 DEF Numbers
  <2>2. QED
    BY <2>1
<1>6. backlog' \in Seq(Sizes) /\ hbNominal' \in Nat
  BY DEF SendInv
<1>7. HeadFits(backlog)' => HeadFits(backlog)
  BY DEF HeadFits
<1>8. 0 = IF phase' = "batches" THEN 2 * t + 1 ELSE 0
  OBVIOUS
<1>9. QED
  BY <1>2, <1>3, <1>4, <1>5, <1>6, <1>7, <1>8, PassStep

\* A round without a heartbeat: none was due.
LEMMA NoBeatStep ==
  ASSUME SendInv, Loop!NoBeat
  PROVE  SendInv'
<1>1. PICK H, R, W, F, c, b, D \in Nat, S, L \in Int : Numbers(H, R, W, F, c, b, D, S, L)
  BY SendNumbers
<1>2. backlog' \in Seq(Sizes) /\ (HeadFits(backlog)' => HeadFits(backlog))
  BY ArriveKeeps DEF Loop!NoBeat
<1>3. batchPolls' = batchPolls /\ batchPolls' \in Loop!Halvings(CatchUpPolls) /\ hbNominal' \in Nat
  BY DEF SendInv, Loop!NoBeat
<1>4. Tries(batchPolls)' = b
  BY <1>1, <1>3 DEF Numbers, Tries, Loop!Halvings, Loop!Closed, Loop!Half
<1>5. W = Watch /\ b <= c /\ R = 2 * c + W /\ R = Loop!Round
  BY <1>1 DEF Numbers
<1>6. PICK T \in Nat : T = (IF phase' = "batches" THEN 2 * b + 1 ELSE 0) /\ T <= 2 * b + 1
  OBVIOUS
<1>7. T + W <= R + 1
  BY <1>5, <1>6
<1>8. ~(silent = HeartbeatS /\ hbWait = 0)
  <2>1. SUFFICES ASSUME silent = HeartbeatS, hbWait = 0 PROVE FALSE
    OBVIOUS
  <2>2. silent >= HeartbeatS
    BY <2>1, LoopBounds
  <2>3. QED
    BY <2>1, <2>2 DEF Loop!NoBeat, Loop!Due
<1>9. /\ hbWait' = Loop!Later(hbWait, W) /\ silent' = Loop!Min({HeartbeatS, silent + W})
      /\ left' = Loop!Max({-1, left - W})
  BY <1>5 DEF Loop!NoBeat, Loop!Pass
<1>10. QED
  BY <1>2, <1>3, <1>4, <1>5, <1>6, <1>7, <1>8, <1>9, PassStep

\* A heartbeat that was taken is contact.
LEMMA BeatStep ==
  ASSUME SendInv, Loop!Beat
  PROVE  SendInv'
<1>1. PICK H, R, W, F, c, b, D \in Nat, S, L \in Int : Numbers(H, R, W, F, c, b, D, S, L)
  BY SendNumbers
<1>2. H = HeartbeatS /\ R = Loop!Round /\ W = Watch /\ W >= 1 /\ b <= c /\ R = 2 * c + W /\ L = left
  BY <1>1 DEF Numbers
<1>3. PICK took \in Nat : took >= 1 /\ Loop!Contact(took)
  BY <1>2 DEF Loop!Beat
<1>4. backlog' \in Seq(Sizes)
  BY ArriveKeeps DEF Loop!Beat
<1>5. batchPolls' = batchPolls /\ batchPolls' \in Loop!Halvings(CatchUpPolls) /\ hbNominal' \in Nat /\ hbWait' = 0
  BY DEF SendInv, Loop!Beat
<1>6. Tries(batchPolls)' = b
  BY <1>1, <1>5 DEF Numbers, Tries, Loop!Halvings, Loop!Closed, Loop!Half
<1>7. PICK S2 \in Int : S2 = silent' /\ S2 >= 0 /\ S2 <= H
  <2>1. PICK x \in Int : x = took - 1 /\ x >= 0
    BY <1>3
  <2>2. silent' = Loop!Min({H, x})
    BY <1>2, <1>3, <2>1 DEF Loop!Contact
  <2>3. QED
    BY <2>1, <2>2, ExtremesAre
<1>8. PICK L2 \in Int : L2 = left' /\ L2 >= H + R
  <2>1. PICK x, y \in Int : x = L - took /\ y = H + R
    OBVIOUS
  <2>2. left' = Loop!Max({x, y})
    BY <1>2, <1>3, <2>1 DEF Loop!Contact
  <2>3. QED
    BY <2>1, <2>2, ExtremesAre
<1>9. R >= 2 * b + 1
  BY <1>2
<1>10. L2 >= H - S2 + R /\ L2 >= 2 * b + 1 /\ L2 >= 0
  <2>1. S2 >= 0
    BY <1>7
  <2>2. L2 >= H + R
    BY <1>8
  <2>3. L2 >= H - S2 + R
    BY <2>1, <2>2
  <2>4. L2 >= R
    BY <2>2
  <2>5. QED
    BY <1>9, <2>3, <2>4
<1>11. silent' < HeartbeatS => left' >= HeartbeatS - silent' + Loop!Round
  BY <1>2, <1>7, <1>8, <1>10
<1>12. left' >= IF phase' = "batches" THEN 2 * Tries(batchPolls)' + 1 ELSE 0
  BY <1>6, <1>8, <1>10
<1>13. hbWait' \in Nat /\ silent' \in Int /\ silent' <= HeartbeatS /\ left' \in Int
  BY <1>2, <1>5, <1>7, <1>8
<1>14. hbWait' > 0 => left' >= hbWait' + Loop!Round
  BY <1>5
<1>15. QED
  BY <1>4, <1>5, <1>11, <1>12, <1>13, <1>14, SendAfter

\* A heartbeat that failed: the wait is at most six fifths of HEARTBEAT_S.
LEMMA BeatFailsStep ==
  ASSUME SendInv, Loop!BeatFails
  PROVE  SendInv'
<1>1. PICK H, R, W, F, c, b, D \in Nat, S, L \in Int : Numbers(H, R, W, F, c, b, D, S, L)
  BY SendNumbers
<1>2. /\ H = HeartbeatS /\ R = Loop!Round /\ W = Watch /\ W >= 1 /\ b <= c /\ R = 2 * c + W
      /\ L = left /\ S = silent /\ S <= H
  BY <1>1 DEF Numbers
<1>3. S < H => L >= H - S + R
  BY <1>1 DEF Numbers
<1>4. backlog' \in Seq(Sizes)
  BY ArriveKeeps DEF Loop!BeatFails
<1>5. batchPolls' = batchPolls /\ batchPolls' \in Loop!Halvings(CatchUpPolls)
  BY DEF SendInv, Loop!BeatFails
<1>6. Tries(batchPolls)' = b
  BY <1>1, <1>5 DEF Numbers, Tries, Loop!Halvings, Loop!Closed, Loop!Half
<1>7. PICK m \in Nat : m = hbNominal' /\ m <= H
  <2>1. PICK k \in Nat : k = IF hbNominal = 0 THEN Base ELSE 2 * hbNominal
    BY LoopBounds DEF SendInv
  <2>2. hbNominal' = Loop!Min({H, k})
    BY <1>2, <2>1 DEF Loop!BeatFails, Loop!Longer
  <2>3. Loop!Min({H, k}) = IF H <= k THEN H ELSE k
    BY ExtremesAre
  <2>4. QED
    BY <2>2, <2>3
<1>8. PICK delay \in ((4 * m + 4) \div 5)..((6 * m + 4) \div 5) : hbWait' = Loop!Later(delay, W)
  BY <1>2, <1>7 DEF Loop!BeatFails, Loop!Delays
<1>9. PICK q \in Nat : q = (6 * H) \div 5 /\ 6 * H <= 5 * q + 4
  OBVIOUS
<1>10. delay \in Nat /\ delay <= q + 1
  <2>1. PICK p \in Nat : p = (6 * m + 4) \div 5 /\ 5 * p <= 6 * m + 4
    OBVIOUS
  <2>2. p <= q + 1
    BY <1>7, <1>9, <2>1
  <2>3. PICK o \in Nat : o = (4 * m + 4) \div 5
    OBVIOUS
  <2>4. QED
    BY <1>8, <2>1, <2>2, <2>3
<1>11. PICK D2 \in Nat : D2 = hbWait' /\ D2 <= q
  <2>1. hbWait' = IF delay <= W THEN 0 ELSE delay - W
    BY <1>8, <1>10, LaterIs
  <2>2. W >= 1 /\ delay \in Nat /\ delay <= q + 1
    BY <1>2, <1>10
  <2>3. QED
    BY <2>1, <2>2
<1>12. PICK S2 \in Int : S2 = silent' /\ S2 = IF H <= S + 1 + W THEN H ELSE S + 1 + W
  <2>1. PICK x \in Int : x = S + 1 + W
    OBVIOUS
  <2>2. silent' = Loop!Min({H, x})
    BY <1>2, <2>1 DEF Loop!BeatFails
  <2>3. QED
    BY <2>1, <2>2, ExtremesAre
<1>13. PICK L2 \in Int : L2 = left' /\ L2 >= q + R /\ L2 >= L - 1 - W
  <2>1. PICK x, y \in Int : x = L - 1 - W /\ y = q + R
    OBVIOUS
  <2>2. left' = Loop!Max({x, y})
    BY <1>2, <1>9, <2>1 DEF Loop!BeatFails
  <2>3. QED
    BY <2>1, <2>2, ExtremesAre
<1>14. R >= 2 * b + 1
  BY <1>2
<1>15. L2 >= D2 + R /\ L2 >= 2 * b + 1 /\ L2 >= 0
  <2>1. D2 <= q /\ q \in Nat
    BY <1>9, <1>11
  <2>2. L2 >= q + R
    BY <1>13
  <2>3. L2 >= D2 + R
    BY <2>1, <2>2
  <2>4. L2 >= R
    BY <2>1, <2>2
  <2>5. QED
    BY <1>14, <2>3, <2>4
<1>16. S2 <= H /\ (S2 < H => L2 >= H - S2 + R)
  <2>1. S < H => L >= H - S + R
    BY <1>3
  <2>2. QED
    BY <1>12, <1>13, <2>1
<1>17. /\ hbWait' > 0 => left' >= hbWait' + Loop!Round
       /\ silent' < HeartbeatS => left' >= HeartbeatS - silent' + Loop!Round
  BY <1>2, <1>11, <1>12, <1>13, <1>15, <1>16
<1>18. left' >= IF phase' = "batches" THEN 2 * Tries(batchPolls)' + 1 ELSE 0
  BY <1>6, <1>13, <1>15
<1>19. hbWait' \in Nat /\ silent' \in Int /\ silent' <= HeartbeatS /\ left' \in Int /\ hbNominal' \in Nat
  BY <1>2, <1>7, <1>11, <1>12, <1>13, <1>16
<1>20. QED
  BY <1>4, <1>5, <1>17, <1>18, <1>19, SendAfter

\* A round that raises sleeps, and the next one starts from the top.
LEMMA RaiseStep ==
  ASSUME SendInv, Loop!Raise
  PROVE  SendInv'
<1>1. PICK H, R, W, F, c, b, D \in Nat, S, L \in Int : Numbers(H, R, W, F, c, b, D, S, L)
  BY SendNumbers
<1>2. /\ H = HeartbeatS /\ R = Loop!Round /\ W = Watch /\ F = Fault /\ W >= 1 /\ b <= c /\ R = 2 * c + W
      /\ L = left /\ S = silent /\ S <= H /\ D = hbWait
  BY <1>1 DEF Numbers
<1>3. (S < H => L >= H - S + R) /\ (D > 0 => L >= D + R)
  BY <1>1 DEF Numbers
<1>4. backlog' \in Seq(Sizes)
  BY ArriveKeeps DEF Loop!Raise
<1>5. batchPolls' = batchPolls /\ batchPolls' \in Loop!Halvings(CatchUpPolls) /\ hbNominal' \in Nat
  BY DEF SendInv, Loop!Raise
<1>6. Tries(batchPolls)' = b
  BY <1>1, <1>5 DEF Numbers, Tries, Loop!Halvings, Loop!Closed, Loop!Half
<1>7. PICK by \in Nat : by = F + W
  OBVIOUS
<1>8. PICK D2 \in Nat : D2 = hbWait' /\ D2 = IF D <= by THEN 0 ELSE D - by
  <2>1. hbWait' = Loop!Later(D, by)
    BY <1>2, <1>7 DEF Loop!Raise
  <2>2. QED
    BY <2>1, LaterIs
<1>9. PICK S2 \in Int : S2 = silent' /\ S2 = IF H <= S + F + W THEN H ELSE S + F + W
  <2>1. PICK x \in Int : x = S + F + W
    OBVIOUS
  <2>2. silent' = Loop!Min({H, x})
    BY <1>2, <2>1 DEF Loop!Raise
  <2>3. QED
    BY <2>1, <2>2, ExtremesAre
<1>10. PICK L2 \in Int : L2 = left' /\ L2 >= L /\ L2 >= R
  <2>1. left' = Loop!Max({L, R})
    BY <1>2 DEF Loop!Raise
  <2>2. QED
    BY <2>1, ExtremesAre
<1>11. R = 2 * c + W /\ W >= 1 /\ b <= c /\ W \in Nat
  BY <1>2
<1>12. L2 >= 2 * b + 1 /\ L2 >= 0
  BY <1>10, <1>11
<1>13. S2 <= H /\ (D2 > 0 => L2 >= D2 + R) /\ (S2 < H => L2 >= H - S2 + R)
  BY <1>2, <1>3, <1>8, <1>9, <1>10
<1>14. /\ hbWait' > 0 => left' >= hbWait' + Loop!Round
       /\ silent' < HeartbeatS => left' >= HeartbeatS - silent' + Loop!Round
  BY <1>2, <1>8, <1>9, <1>10, <1>13
<1>15. left' >= IF phase' = "batches" THEN 2 * Tries(batchPolls)' + 1 ELSE 0
  BY <1>6, <1>10, <1>12
<1>16. hbWait' \in Nat /\ silent' \in Int /\ silent' <= HeartbeatS /\ left' \in Int
  BY <1>2, <1>8, <1>9, <1>10, <1>13
<1>17. QED
  BY <1>4, <1>5, <1>14, <1>15, <1>16, SendAfter

\* A process that starts again sends a heartbeat within a round.
LEMMA RestartStep ==
  ASSUME SendInv, Loop!Restart
  PROVE  SendInv'
<1>1. PICK H, R, W, F, c, b, D \in Nat, S, L \in Int : Numbers(H, R, W, F, c, b, D, S, L)
  BY SendNumbers
<1>2. H = HeartbeatS /\ R = Loop!Round /\ W >= 1 /\ c = Tries(CatchUpPolls) /\ R = 2 * c + W /\ L = left
  BY <1>1 DEF Numbers
<1>3. backlog' \in Seq(Sizes) /\ batchPolls' = CatchUpPolls /\ batchPolls' \in Loop!Halvings(CatchUpPolls)
  BY LoopBounds DEF SendInv, Loop!Restart
<1>4. Tries(batchPolls)' = c
  BY <1>2, <1>3 DEF Tries, Loop!Halvings, Loop!Closed, Loop!Half
<1>5. PICK L2 \in Int : L2 = left' /\ L2 >= R
  <2>1. left' = Loop!Max({L, R})
    BY <1>2 DEF Loop!Restart
  <2>2. QED
    BY <2>1, ExtremesAre
<1>6. L2 >= 2 * c + 1 /\ L2 >= 0
  BY <1>2, <1>5
<1>7. hbWait' = 0 /\ hbNominal' = 0 /\ silent' = H
  BY <1>2 DEF Loop!Restart
<1>8. left' >= IF phase' = "batches" THEN 2 * Tries(batchPolls)' + 1 ELSE 0
  BY <1>4, <1>5, <1>6
<1>9. /\ hbWait' \in Nat /\ hbNominal' \in Nat /\ silent' \in Int /\ silent' <= HeartbeatS /\ left' \in Int
      /\ ~(hbWait' > 0) /\ ~(silent' < HeartbeatS)
  BY <1>2, <1>5, <1>7
<1>10. QED
  BY <1>3, <1>8, <1>9, SendAfter

\* Nothing to send.
LEMMA NoBatchStep ==
  ASSUME SendInv, Loop!NoBatch
  PROVE  SendInv'
<1>1. PICK H, R, W, F, c, b, D \in Nat, S, L \in Int : Numbers(H, R, W, F, c, b, D, S, L)
  BY SendNumbers
<1>2. /\ H = HeartbeatS /\ R = Loop!Round /\ D = hbWait /\ S = silent /\ L = left /\ S <= H
      /\ (D > 0 => L >= D + R) /\ (S < H => L >= H - S + R)
  BY <1>1 DEF Numbers
<1>3. S = H /\ D = 0 /\ HeadFits(backlog) => L >= 0
  <2>1. S = H /\ D = 0 /\ HeadFits(backlog) => L >= 2 * b + 1
    BY <1>1 DEF Numbers, Loop!NoBatch
  <2>2. QED
    BY <2>1
<1>4. /\ backlog' \in Seq(Sizes) /\ batchPolls' = batchPolls /\ batchPolls' \in Loop!Halvings(CatchUpPolls)
      /\ hbNominal' \in Nat /\ phase' = "beat" /\ backlog' = backlog
      /\ D = hbWait' /\ S = silent' /\ L = left'
  BY <1>2 DEF SendInv, Loop!NoBatch
<1>5. Tries(batchPolls)' = b
  BY <1>1, <1>4 DEF Numbers, Tries, Loop!Halvings, Loop!Closed, Loop!Half
<1>6. HeadFits(backlog)' => HeadFits(backlog)
  BY <1>4 DEF HeadFits
<1>7. silent' = HeartbeatS /\ hbWait' = 0 /\ HeadFits(backlog)' =>
         left' >= IF phase' = "batches" THEN 2 * Tries(batchPolls)' + 1 ELSE 0
  BY <1>2, <1>3, <1>4, <1>6
<1>8. /\ hbWait' \in Nat /\ silent' \in Int /\ silent' <= HeartbeatS /\ left' \in Int
      /\ hbWait' > 0 => left' >= hbWait' + Loop!Round
      /\ silent' < HeartbeatS => left' >= HeartbeatS - silent' + Loop!Round
  BY <1>2, <1>4
<1>9. QED
  BY <1>4, <1>7, <1>8, SendAfter

LEMMA SendInit ==
  ASSUME Loop!Init
  PROVE  SendInv
<1>1. PICK R, c, H \in Nat : R = Loop!Round /\ c = Tries(CatchUpPolls) /\ R = 2 * c + Watch /\ H = HeartbeatS
  BY RoundIs, LoopBounds
<1>2. backlog \in Seq(Sizes)
  <2>1. backlog \in Loop!BoundedSeq(Sizes, Backlog)
    BY DEF Loop!Init
  <2>2. PICK n \in 0..Backlog : backlog \in [1..n -> Sizes]
    BY <2>1 DEF Loop!BoundedSeq, Loop!SeqOf
  <2>3. QED
    BY <2>2
<1>3. /\ batchPolls = CatchUpPolls /\ hbWait = 0 /\ hbNominal = 0 /\ silent = H /\ left = R
  BY <1>1 DEF Loop!Init
<1>4. batchPolls \in Loop!Halvings(CatchUpPolls) /\ Watch >= 1 /\ Watch \in Nat
  BY <1>3, LoopBounds
<1>5. R >= 2 * c + 1 /\ R >= 0 /\ ~(H < H) /\ H <= H
  BY <1>1, <1>4
<1>6. silent \in Int /\ left \in Int /\ ~(hbWait > 0) /\ ~(silent < HeartbeatS) /\ silent <= HeartbeatS
  BY <1>1, <1>3
<1>7. left >= IF phase = "batches" THEN 2 * Tries(batchPolls) + 1 ELSE 0
  BY <1>1, <1>3, <1>5
<1>8. QED
  BY <1>2, <1>3, <1>4, <1>6, <1>7 DEF SendInv

LEMMA SilenceFromInv ==
  ASSUME SendInv
  PROVE  Loop!SilenceIsShort
<1>1. PICK H, R, W, F, c, b, D \in Nat, S, L \in Int : Numbers(H, R, W, F, c, b, D, S, L)
  BY SendNumbers
<1>2. L = left /\ S <= H /\ (D > 0 => L >= D + R) /\ (S < H => L >= H - S + R)
  BY <1>1 DEF Numbers
<1>3. S = H /\ D = 0 /\ HeadFits(backlog) => L >= 0
  <2>1. S = H /\ D = 0 /\ HeadFits(backlog) => L >= IF phase = "batches" THEN 2 * b + 1 ELSE 0
    BY <1>1 DEF Numbers
  <2>2. QED
    BY <2>1
<1>4. HeadFits(backlog) => L >= 0
  BY <1>2, <1>3
<1>5. ~HeadFits(backlog) => backlog # <<>> /\ ~Loop!OneFits(Head(backlog))
  BY DEF HeadFits
<1>6. QED
  BY <1>2, <1>4, <1>5 DEF Loop!SilenceIsShort

LEMMA LoopStep ==
  ASSUME SendInv, Loop!Next
  PROVE  SendInv'
<1>1. CASE Loop!Batch
  <2>1. PICK n \in Nat \ {0} : n = Loop!Shrunk(batchPolls)
    BY ShrinksOn DEF SendInv
  <2>2. CASE Loop!Verdict(n) = "200"
    BY <1>1, <2>1, <2>2, SentStep DEF Loop!Batch
  <2>3. CASE Loop!Verdict(n) = "413"
    <3>1. Loop!TooLarge(n)
      BY <2>3 DEF Loop!Verdict
    <3>2. QED
      BY <1>1, <2>1, <2>3, <3>1, HalvedStep DEF Loop!Batch
  <2>4. CASE Loop!Verdict(n) = "422"
    BY <1>1, <2>1, <2>4, FailedStep DEF Loop!Batch
  <2>5. QED
    BY <2>2, <2>3, <2>4 DEF Loop!Verdict
<1>2. CASE Loop!BatchFails
  BY <1>2, FailedStep DEF Loop!BatchFails
<1>3. QED
  BY <1>1, <1>2, NoBatchStep, BeatStep, BeatFailsStep, NoBeatStep, RaiseStep, RestartStep DEF Loop!Next

LEMMA LoopRests ==
  ASSUME SendInv, UNCHANGED sendVars
  PROVE  SendInv'
<1>1. /\ backlog' = backlog /\ batchPolls' = batchPolls /\ hbWait' = hbWait /\ hbNominal' = hbNominal
      /\ silent' = silent /\ left' = left /\ phase' = phase
  BY DEF sendVars
<1>2. /\ (Loop!Halvings(CatchUpPolls))' = Loop!Halvings(CatchUpPolls) /\ (Loop!Round)' = Loop!Round
      /\ Tries(batchPolls)' = Tries(batchPolls) /\ HeadFits(backlog)' = HeadFits(backlog)
  BY <1>1 DEF Loop!Round, Loop!Halvings, Loop!Closed, Loop!Half, Tries, HeadFits
<1>3. QED
  BY <1>1, <1>2 DEF SendInv

SendIInv == part = "send loop" => SendInv

(* uploader.py: tick(), send_batch(), send_heartbeat(), Backoff: whatever the
   answers, the server hears from the sensor again in time, or the oldest poll
   alone is too large.  While the wait of the heartbeats goes on, the deadline is
   that wait and a round away or more; while HEARTBEAT_S runs, what is left of it
   and a round; and once a heartbeat is due, every try at once halves the batch,
   until one poll is left or a poll that fits is taken. *)
THEOREM ServerHearsSoon == UploadSpec => []SilenceIsShort
<1>1. UploadInit => SendIInv
  BY SendInit DEF UploadInit, SendIInv
<1>2. SendIInv /\ [UploadNext]_<<part, vars, lineVars, formatVars, sendVars>> => SendIInv'
  <2>1. SUFFICES ASSUME SendIInv, [UploadNext]_<<part, vars, lineVars, formatVars, sendVars>>
                 PROVE  SendIInv'
    OBVIOUS
  <2>2. CASE part = "send loop" /\ Loop!Next /\ part' = part
    BY <2>1, <2>2, LoopStep DEF SendIInv
  <2>3. CASE UNCHANGED <<part, sendVars>>
    BY <2>1, <2>3, LoopRests DEF SendIInv
  <2>4. QED
    BY <2>1, <2>2, <2>3 DEF UploadNext
<1>3. SendIInv => SilenceIsShort
  BY SilenceFromInv DEF SendIInv, SilenceIsShort
<1>4. QED
  BY <1>1, <1>2, <1>3, PTL DEF UploadSpec

=============================================================================
