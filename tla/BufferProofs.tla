---------------------------- MODULE BufferProofs ----------------------------
(***************************************************************************)
(* Proofs about the collector's buffer, for any beacons, drifts of the     *)
(* clock, polls, boots, kills and losses: the file opens with every column *)
(* whatever interrupted its migrations; a poll after which the access      *)
(* point was heard writes an observation, with the exceptions that the     *)
(* property names; every configuration value of an observation reaches the *)
(* server; every observation counts once in the load of its hour, and the  *)
(* hours reach the server.                                                 *)
(*                                                                         *)
(* The times are compared with Told, what the boot's clock showed at the   *)
(* newest poll: the resume point and the newest frame stored for the boot  *)
(* that runs lie at or before it, a frame heard since lies after it.  What *)
(* a step back of the clock or the migration to per-boot newness puts      *)
(* beyond it lies at or before `ahead' (Passed).                           *)
(***************************************************************************)
EXTENDS Buffer, FiniteSetTheorems, WellFoundedInduction, TLAPS

LEMMA MaxOfTwo ==
  \A a, b : a \in Int /\ b \in Int => Max({a, b}) \in {a, b} /\ Max({a, b}) >= a /\ Max({a, b}) >= b
<1> SUFFICES ASSUME NEW a, NEW b, a \in Int, b \in Int
             PROVE  Max({a, b}) \in {a, b} /\ Max({a, b}) >= a /\ Max({a, b}) >= b
  OBVIOUS
<1>1. \E m \in {a, b} : \A y \in {a, b} : m >= y
  OBVIOUS
<1>2. QED
  BY <1>1 DEF Max

LEMMA MaxOfThree ==
  \A a, b, c : a \in Nat /\ b \in Int /\ c \in Int =>
    Max({a, b, c}) \in Nat /\ Max({a, b, c}) >= a /\ Max({a, b, c}) >= b /\ Max({a, b, c}) >= c
<1> SUFFICES ASSUME NEW a \in Nat, NEW b \in Int, NEW c \in Int
             PROVE  Max({a, b, c}) \in Nat /\ Max({a, b, c}) >= a /\ Max({a, b, c}) >= b /\ Max({a, b, c}) >= c
  OBVIOUS
<1>1. \E m \in {a, b, c} : \A y \in {a, b, c} : m >= y
  OBVIOUS
<1>2. Max({a, b, c}) \in {a, b, c} /\ \A y \in {a, b, c} : Max({a, b, c}) >= y
  BY <1>1 DEF Max
<1>3. QED
  BY <1>2

-----------------------------------------------------------------------------
(* The file.                                                                *)

FileOK ==
  /\ version \in 0 .. SchemaVersion
  /\ collector \in {"down", "opening", "up"}
  /\ columns \subseteq HasColumns
  /\ \A k \in HasColumns : k <= version => k \in columns
  /\ collector = "up" => version = SchemaVersion

LEMMA FileInit == Init => FileOK
BY BoundsAssumption DEF Init, FileOK, HasColumns, Migrations, SchemaVersion

LEMMA FileStep ==
  ASSUME FileOK, [Next]_vars
  PROVE  FileOK'
<1>1. CASE UNCHANGED fileVars
  BY <1>1 DEF fileVars, FileOK
<1>2. CASE Open \/ Kill \/ (\E v \in RollBacks : RollBack(v)) \/ \E d \in Drifts : Reboot(d)
  <2>1. columns' = columns /\ collector' \in {"opening", "down"}
    BY <1>2 DEF Open, Kill, RollBack, Reboot
  <2>2. version' \in 0 .. SchemaVersion /\ version' <= version
    BY <1>2, BoundsAssumption DEF Open, Kill, RollBack, Reboot, FileOK, SchemaVersion
  <2>3. \A k \in HasColumns : k \in Int
    BY DEF HasColumns, Migrations, SchemaVersion
  <2>4. QED
    BY <2>1, <2>2, <2>3 DEF FileOK, SchemaVersion
<1>3. CASE Upgrade
  BY <1>3 DEF Upgrade, Migrate, FileOK, HasColumns, Migrations, SchemaVersion
<1>4. CASE Started
  BY <1>4 DEF Started, FileOK, HasColumns, Migrations, SchemaVersion
<1>5. QED
  BY <1>1, <1>2, <1>3, <1>4 DEF Next, vars, Hear, Sync, Poll, NewPoll, PollFails, TakeAnchor, Send, Answered,
    AnswerLost, GivenUp, Arrives

(* Whatever migration a kill or a roll back by hand came between, the buffer *)
(* opens again, and what opened it has every column.                        *)
THEOREM TheFileOpens == Spec => []OpensComplete
<1>1. FileOK => OpensComplete
  <2>1. \A k \in HasColumns : k <= SchemaVersion
    BY DEF HasColumns, Migrations, SchemaVersion
  <2>2. QED
    BY <2>1 DEF FileOK, OpensComplete
<1>2. QED
  BY <1>1, FileInit, FileStep, PTL DEF Spec

-----------------------------------------------------------------------------
(* Hearing.                                                                 *)

\* What the clock showed at the newest poll.
Told == IF synced THEN TrueTime(now) ELSE TrueTime(now) - drift

TimesOK ==
  /\ boot \in Nat \ {0} /\ lastBoot \in Nat /\ now \in Nat /\ since \in Int
  /\ drift \in Int /\ drift <= Epoch /\ frame.last \in Int /\ ahead \in Nat
  /\ device.boot \in Nat /\ device.lastSeen \in Int /\ device.bootLast \in Int

BootsOK ==
  /\ lastBoot <= boot /\ device.boot <= boot
  /\ collector = "up" => lastBoot = boot

\* Where a time stored for this boot may lie before a hearing at the time t.
Passed(stored, t) == stored <= t \/ stored <= ahead

ClocksOK ==
  /\ lastBoot = boot => Passed(since, Told)
  /\ device.boot = boot => Passed(device.bootLast, Told)
  /\ Passed(frame.last, Told + 1)

FreshOK ==
  fresh =>
    /\ frame.known /\ frame.last >= 0
    /\ lastBoot = boot => Passed(since, frame.last)
    /\ device.boot = boot => Passed(device.bootLast, frame.last - 1)

HearInv == FileOK /\ TimesOK /\ BootsOK /\ ClocksOK /\ FreshOK /\ EveryHearingObserved

LEMMA ToldIs ==
  ASSUME now \in Nat, drift \in Int, drift <= Epoch
  PROVE  Told \in Nat /\ Clock(TrueTime(now)) = Told /\ Clock(TrueTime(now + 1) - 1) = Told + 1
BY DEF Told, Clock, TrueTime, Epoch

LEMMA HearInit == Init => HearInv
<1> SUFFICES ASSUME Init PROVE HearInv
  OBVIOUS
<1>1. drift \in Int /\ drift <= Epoch /\ version \in 0 .. SchemaVersion
  <2>1. drift \in Drifts /\ version \in OldVersions
    BY DEF Init
  <2>2. QED
    BY <2>1, BoundsAssumption, DriftsAssumption
<1>2. /\ boot = 1 /\ now = 0 /\ synced = FALSE /\ fresh = FALSE /\ missed = FALSE /\ collector = "down"
      /\ ahead = 0
  BY DEF Init
<1>3. PICK b \in Beacons, by \in {0, 1}, clock \in Drifts \cup {0} :
        /\ by = 1 => clock = drift
        /\ LET seen == TrueTime(0) - clock
           IN /\ frame = IF version > 0 /\ by = 1
                         THEN [known |-> TRUE, last |-> seen, beacon |-> b] ELSE NoFrame
              /\ device = IF version = 0 THEN NoDevice
                          ELSE [known |-> TRUE, conf |-> b.conf, lastSeen |-> seen,
                                boot |-> IF version >= 8 THEN by ELSE 0,
                                bootLast |-> IF version >= 8 THEN seen ELSE 0]
              /\ since = IF version = 0 THEN 0 ELSE seen
              /\ lastBoot = IF version >= 8 THEN by ELSE 0
  BY DEF Init
<1>4. PICK seen \in Int : seen = Epoch - clock
  BY DriftsAssumption DEF Epoch
<1>5. TrueTime(0) = Epoch
  BY DEF TrueTime, Epoch
<1>6. Told = Epoch - drift /\ Told \in Nat
  BY <1>1, <1>2, <1>5, ToldIs DEF Told
<1>7. /\ since \in {0, seen} /\ lastBoot \in {0, by} /\ device.boot \in {0, by}
      /\ device.lastSeen \in {0, seen} /\ device.bootLast \in {0, seen}
      /\ frame.last \in {0, seen} /\ (by = 0 => frame.last = 0)
  BY <1>3, <1>4, <1>5 DEF NoDevice, NoFrame
<1>8. by = 1 => seen = Told
  BY <1>3, <1>4, <1>6
<1>9. TimesOK
  BY <1>1, <1>2, <1>7 DEF TimesOK
<1>10. BootsOK
  BY <1>2, <1>7 DEF BootsOK
<1>11. ClocksOK
  BY <1>2, <1>6, <1>7, <1>8 DEF ClocksOK, Passed
<1>12. QED
  BY <1>2, <1>9, <1>10, <1>11, FileInit DEF HearInv, FreshOK, EveryHearingObserved

\* The steps of the file's opening.
LEMMA OpeningStep ==
  ASSUME HearInv, FileOK', Open \/ Upgrade \/ Started \/ Kill \/ \E v \in RollBacks : RollBack(v)
  PROVE  HearInv'
<1>1. UNCHANGED <<boot, drift, synced, frame, now, fresh, missed>> /\ Told' = Told
  BY DEF Open, Upgrade, Started, Kill, RollBack, bufferVars, clockVars, heardVars, Told
<1>2. CASE Open \/ Kill \/ \E v \in RollBacks : RollBack(v)
  <2>1. UNCHANGED <<device, since, lastBoot, ahead>> /\ collector' # "up"
    BY <1>2 DEF Open, Kill, RollBack, bufferVars, heardVars
  <2>2. QED
    BY <1>1, <2>1 DEF HearInv, TimesOK, BootsOK, ClocksOK, FreshOK, EveryHearingObserved, Passed
<1>3. CASE Started
  <2>1. /\ lastBoot' = boot /\ device' = device /\ ahead' = ahead
        /\ since' = IF lastBoot = boot THEN since ELSE 0
    BY <1>3 DEF Started, heardVars
  <2>2. TimesOK' /\ BootsOK'
    BY <1>1, <2>1 DEF HearInv, TimesOK, BootsOK
  <2>3. since' = 0 \/ (since' = since /\ lastBoot = boot)
    BY <2>1
  <2>4. Passed(since, Told)' /\ (fresh' => Passed(since, frame.last)')
    BY <1>1, <2>1, <2>3 DEF HearInv, TimesOK, ClocksOK, FreshOK, Passed
  <2>5. QED
    BY <1>1, <2>1, <2>2, <2>4 DEF HearInv, ClocksOK, FreshOK, EveryHearingObserved, Passed
<1>4. CASE Upgrade
  <2>1. PICK k \in Migrations : Migrate(k) /\ Adopt(k)
    BY <1>4 DEF Upgrade
  <2>2. since' = since /\ collector' = "opening"
    BY <1>4, <2>1 DEF Upgrade, Migrate
  <2>3. CASE k # 8
    <3>1. UNCHANGED <<device, lastBoot, ahead>>
      BY <2>1, <2>3 DEF Adopt
    <3>2. QED
      BY <1>1, <2>2, <3>1 DEF HearInv, TimesOK, BootsOK, ClocksOK, FreshOK, EveryHearingObserved, Passed
  <2>4. CASE k = 8
    <3>1. /\ lastBoot' = boot /\ ahead' = Max({ahead, device.lastSeen, since})
          /\ device' = IF device.known
                       THEN [known |-> TRUE, conf |-> device.conf, boot |-> boot,
                             lastSeen |-> device.lastSeen, bootLast |-> device.lastSeen]
                       ELSE device
      BY <2>1, <2>4 DEF Adopt
    <3>2. ahead' \in Nat /\ ahead' >= ahead /\ ahead' >= device.lastSeen /\ ahead' >= since
      BY <3>1, MaxOfThree DEF HearInv, TimesOK
    <3>3. device'.lastSeen = device.lastSeen /\ (device' = device \/ (device'.boot = boot /\ device'.bootLast = device.lastSeen))
      BY <3>1
    <3>4. TimesOK' /\ BootsOK'
      BY <1>1, <2>2, <3>1, <3>2, <3>3 DEF HearInv, TimesOK, BootsOK
    <3>5. PICK t \in Int : t = Told
      BY ToldIs DEF HearInv, TimesOK
    <3>6. \A u \in Int, x \in Int : x <= u \/ x <= ahead => x <= u \/ x <= ahead'
      BY <3>2 DEF HearInv, TimesOK
    <3>7. /\ since' <= ahead'
          /\ device'.boot = boot => device'.bootLast <= ahead' \/ (device' = device /\ device.boot = boot)
      BY <2>2, <3>2, <3>3
    <3>8. ClocksOK'
      <4>1. frame.last \in Int /\ device.bootLast \in Int
        BY DEF HearInv, TimesOK
      <4>2. frame.last <= t + 1 \/ frame.last <= ahead'
        BY <3>5, <3>6, <4>1 DEF HearInv, ClocksOK, Passed
      <4>3. device.boot = boot => device.bootLast <= t \/ device.bootLast <= ahead'
        BY <3>5, <3>6, <4>1 DEF HearInv, ClocksOK, Passed
      <4>4. QED
        BY <1>1, <3>5, <3>7, <4>2, <4>3 DEF ClocksOK, Passed
    <3>9. FreshOK'
      <4>1. SUFFICES ASSUME fresh PROVE FreshOK'
        BY <1>1 DEF FreshOK
      <4>2. frame.last \in Int /\ device.bootLast \in Int /\ frame.last - 1 \in Int
        BY DEF HearInv, TimesOK
      <4>3. device.boot = boot => device.bootLast <= frame.last - 1 \/ device.bootLast <= ahead'
        BY <3>6, <4>1, <4>2 DEF HearInv, FreshOK, Passed
      <4>4. frame.known /\ frame.last >= 0
        BY <4>1 DEF HearInv, FreshOK
      <4>5. QED
        BY <1>1, <3>7, <4>3, <4>4 DEF FreshOK, Passed
    <3>10. QED
      BY <1>1, <3>4, <3>8, <3>9 DEF HearInv, EveryHearingObserved
  <2>5. QED
    BY <2>3, <2>4
<1>5. QED
  BY <1>2, <1>3, <1>4

\* The steps of the clock and of the air.
LEMMA OutsideStep ==
  ASSUME HearInv, FileOK', Sync \/ (\E b \in Beacons : Hear(b)) \/ (\E d \in Drifts : Reboot(d))
  PROVE  HearInv'
<1>1. UNCHANGED <<now, since, lastBoot, device, missed>>
  BY DEF Sync, Hear, Reboot, bufferVars, heardVars
<1>2. Told \in Nat
  BY ToldIs DEF HearInv, TimesOK
<1>3. CASE Sync
  <2>1. /\ UNCHANGED <<collector, boot, drift, frame, fresh>>
        /\ ahead' = IF drift < 0 THEN Max({ahead, Told + 1}) ELSE ahead
    BY <1>3, ToldIs DEF Sync, fileVars, HearInv, TimesOK
  <2>2. Told' = TrueTime(now) /\ Told = TrueTime(now) - drift
    BY <1>1, <1>3 DEF Sync, Told
  <2>3. TrueTime(now) \in Nat
    BY DEF HearInv, TimesOK, TrueTime, Epoch
  <2>4. CASE drift < 0
    <3>1. ahead' \in Nat /\ ahead' >= ahead /\ ahead' >= Told + 1
      <4>1. Max({ahead, Told + 1}) \in {ahead, Told + 1} /\ Max({ahead, Told + 1}) >= ahead
            /\ Max({ahead, Told + 1}) >= Told + 1
        <5>1. ahead \in Int /\ Told + 1 \in Int
          BY <1>2 DEF HearInv, TimesOK
        <5>2. QED
          BY <5>1, MaxOfTwo
      <4>2. QED
        BY <1>2, <2>1, <2>4, <4>1 DEF HearInv, TimesOK
    <3>2. \A x \in Int : Passed(x, Told + 1) \/ Passed(x, Told) => x <= ahead'
      BY <1>2, <3>1 DEF HearInv, TimesOK, Passed
    <3>3. \A x \in Int, t \in Int : Passed(x, t) => x <= t \/ x <= ahead'
      BY <3>1 DEF HearInv, TimesOK, Passed
    <3>4. QED
      BY <1>1, <2>1, <3>1, <3>2, <3>3 DEF HearInv, TimesOK, BootsOK, ClocksOK, FreshOK, EveryHearingObserved, Passed
  <2>5. CASE ~(drift < 0)
    <3>1. ahead' = ahead /\ Told' \in Nat /\ Told <= Told'
      BY <2>1, <2>2, <2>3, <2>5 DEF HearInv, TimesOK
    <3>2. \A x \in Int : /\ Passed(x, Told) => x <= Told' \/ x <= ahead'
                         /\ Passed(x, Told + 1) => x <= Told' + 1 \/ x <= ahead'
      <4>1. PICK t \in Nat, u \in Nat : t = Told /\ u = Told' /\ t <= u
        BY <1>2, <3>1
      <4>2. t <= u /\ t + 1 <= u + 1 /\ t + 1 \in Int /\ u + 1 \in Int
        <5>1. t <= u
          BY <4>1
        <5>2. QED
          BY <5>1
      <4>3. \A x, v, w \in Int : v <= w /\ x <= v => x <= w
        OBVIOUS
      <4>4. ASSUME NEW x \in Int
            PROVE  (x <= t => x <= u) /\ (x <= t + 1 => x <= u + 1)
        <5>1. t \in Int /\ u \in Int
          OBVIOUS
        <5>2. QED
          BY <4>2, <4>3, <5>1
      <4>5. QED
        BY <3>1, <4>1, <4>4 DEF Passed
    <3>3. QED
      BY <1>1, <2>1, <3>1, <3>2 DEF HearInv, TimesOK, BootsOK, ClocksOK, FreshOK, EveryHearingObserved, Passed
  <2>6. QED
    BY <2>4, <2>5
<1>4. CASE \E b \in Beacons : Hear(b)
  <2>1. /\ UNCHANGED <<collector, boot, drift, synced, ahead>> /\ fresh' = TRUE /\ frame'.known = TRUE
        /\ frame'.last = Told + 1 /\ Told' = Told
    <3>1. /\ UNCHANGED <<collector, boot, drift, synced, ahead>> /\ fresh' = TRUE /\ frame'.known = TRUE
          /\ frame'.last = Clock(TrueTime(now + 1) - 1)
      BY <1>4 DEF Hear, fileVars, clockVars
    <3>2. Told' = Told
      BY <1>1, <3>1 DEF Told
    <3>3. QED
      BY <3>1, <3>2, ToldIs DEF HearInv, TimesOK
  <2>2. PICK t \in Nat : t = Told
    BY <1>2
  <2>3. TimesOK' /\ BootsOK'
    BY <1>1, <2>1, <2>2 DEF HearInv, TimesOK, BootsOK
  <2>4. ClocksOK'
    BY <1>1, <2>1, <2>2 DEF HearInv, TimesOK, ClocksOK, Passed
  <2>5. FreshOK'
    <3>1. frame'.last = t + 1 /\ frame'.last \in Int
      BY <2>1, <2>2
    <3>2. \A x \in Int : Passed(x, Told) => (x <= frame'.last \/ x <= ahead') /\ (x <= frame'.last - 1 \/ x <= ahead')
      BY <2>1, <2>2, <3>1 DEF Passed
    <3>3. QED
      BY <1>1, <2>1, <3>1, <3>2 DEF HearInv, TimesOK, ClocksOK, FreshOK, Passed
  <2>6. QED
    BY <1>1, <2>3, <2>4, <2>5 DEF HearInv, EveryHearingObserved
<1>5. CASE \E d \in Drifts : Reboot(d)
  <2>1. /\ boot' = boot + 1 /\ drift' \in Int /\ drift' <= Epoch /\ fresh' = FALSE
        /\ frame'.last = 0 /\ collector' = "down" /\ ahead' = 0
    BY <1>5, DriftsAssumption DEF Reboot, NoFrame
  <2>2. lastBoot' < boot' /\ device'.boot < boot' /\ boot' \in Nat \ {0}
    BY <1>1, <2>1 DEF HearInv, TimesOK, BootsOK
  <2>3. TimesOK' /\ BootsOK'
    BY <1>1, <2>1, <2>2 DEF HearInv, TimesOK, BootsOK
  <2>4. ClocksOK'
    BY <1>1, <2>1, <2>2 DEF HearInv, TimesOK, ClocksOK, Passed
  <2>5. QED
    BY <1>1, <2>1, <2>3, <2>4 DEF HearInv, FreshOK, EveryHearingObserved
<1>6. QED
  BY <1>3, <1>4, <1>5

\* A frame heard since the last poll, past what the boot's clock must pass, is
\* returned by Kismet and is new.
LEMMA FreshIsNew ==
  ASSUME HearInv, fresh, frame.last > ahead, collector = "up"
  PROVE  Returned /\ IsNew
<1>1. lastBoot = boot /\ since \in Int /\ ahead \in Nat /\ frame.last \in Int /\ device.bootLast \in Int
  BY DEF HearInv, TimesOK, BootsOK
<1>2. since <= frame.last
  BY <1>1 DEF HearInv, FreshOK, Passed
<1>3. device.boot = boot => frame.last > device.bootLast
  BY <1>1 DEF HearInv, FreshOK, Passed
<1>4. PICK b \in Int : b = since - Overlap /\ b <= since
  BY <1>1, BoundsAssumption
<1>5. Max({0, b}) \in {0, b}
  <2>1. 0 \in Int
    OBVIOUS
  <2>2. QED
    BY <1>4, <2>1, MaxOfTwo
<1>6. frame.known /\ frame.last >= 0 /\ frame.last >= b
  BY <1>1, <1>2, <1>4 DEF HearInv, FreshOK
<1>7. frame.last >= Max({0, since - Overlap})
  BY <1>4, <1>5, <1>6
<1>8. QED
  BY <1>3, <1>6, <1>7 DEF Returned, IsNew

LEMMA PollStep ==
  ASSUME HearInv, FileOK', Poll \/ PollFails
  PROVE  HearInv'
<1>1. UNCHANGED <<collector, boot, drift, synced, frame, lastBoot, ahead>> /\ now' = now + 1 /\ collector = "up"
  BY DEF Poll, PollFails, NewPoll, fileVars, clockVars, heardVars
<1>2. PICK t \in Nat : t = Told
  BY ToldIs DEF HearInv, TimesOK
<1>3. Told' = t + 2 /\ lastBoot = boot
  BY <1>1, <1>2 DEF Told, TrueTime, HearInv, TimesOK, BootsOK, Epoch
<1>4. \A x \in Int : /\ Passed(x, Told) => Passed(x, Told)'
                     /\ Passed(x, Told + 1) => Passed(x, Told)' /\ Passed(x, Told + 1)'
  BY <1>1, <1>2, <1>3 DEF Passed
<1>5. CASE PollFails
  <2>1. UNCHANGED <<device, since, fresh, missed>>
    BY <1>5 DEF PollFails, heardVars
  <2>2. TimesOK' /\ BootsOK'
    BY <1>1, <2>1 DEF HearInv, TimesOK, BootsOK
  <2>3. ClocksOK'
    BY <1>1, <1>4, <2>1 DEF HearInv, TimesOK, ClocksOK
  <2>4. QED
    BY <1>1, <2>1, <2>2, <2>3 DEF HearInv, FreshOK, EveryHearingObserved, Passed
<1>6. CASE Poll
  <2>1. /\ fresh' = FALSE /\ since' = Told'
        /\ missed' = (missed \/ (fresh /\ frame.last > ahead /\ ~(Returned /\ IsNew)))
    BY <1>1, <1>6 DEF Poll, Clock, Told
  <2>2. ~missed'
    BY <1>1, <2>1, FreshIsNew DEF HearInv, EveryHearingObserved
  <2>3. /\ device'.boot \in Nat /\ device'.boot <= boot
        /\ device'.lastSeen \in Int /\ device'.bootLast \in Int
        /\ device'.boot = boot => Passed(device.bootLast, Told)'
    <3>1. CASE Returned
      <4>1. /\ device'.boot = boot /\ device'.lastSeen = Max({device.lastSeen, frame.last})
            /\ device'.bootLast = IF device.boot = boot THEN Max({device.bootLast, frame.last}) ELSE frame.last
        BY <1>6, <3>1 DEF Poll, WriteDevice
      <4>2. device'.lastSeen \in {device.lastSeen, frame.last}
            /\ device'.bootLast \in {frame.last} \cup (IF device.boot = boot THEN {device.bootLast} ELSE {})
        <5>1. \A a, b : a \in Int /\ b \in Int => Max({a, b}) \in {a, b}
          BY MaxOfTwo
        <5>2. device.lastSeen \in Int /\ device.bootLast \in Int /\ frame.last \in Int
          BY DEF HearInv, TimesOK
        <5>3. /\ Max({device.lastSeen, frame.last}) \in {device.lastSeen, frame.last}
              /\ Max({device.bootLast, frame.last}) \in {device.bootLast, frame.last}
          BY <5>1, <5>2
        <5>4. QED
          BY <4>1, <5>3
      <4>3. Passed(frame.last, Told)' /\ (device.boot = boot => (device.bootLast <= Told' \/ device.bootLast <= ahead'))
        BY <1>1, <1>4 DEF HearInv, TimesOK, ClocksOK, Passed
      <4>4. QED
        BY <1>1, <4>1, <4>2, <4>3 DEF HearInv, TimesOK, Passed
    <3>2. CASE ~Returned
      <4>1. device' = device
        BY <1>6, <3>2 DEF Poll, NoRecord
      <4>2. QED
        BY <1>1, <1>4, <4>1 DEF HearInv, TimesOK, BootsOK, ClocksOK
    <3>3. QED
      BY <3>1, <3>2
  <2>4. TimesOK' /\ BootsOK'
    BY <1>1, <1>3, <2>1, <2>3 DEF HearInv, TimesOK, BootsOK
  <2>5. ClocksOK'
    <3>1. Passed(frame.last, Told + 1)'
      BY <1>1, <1>4 DEF HearInv, TimesOK, ClocksOK, Passed
    <3>2. since' <= Told'
      BY <1>3, <2>1
    <3>3. QED
      BY <1>1, <2>3, <3>1, <3>2 DEF ClocksOK, Passed
  <2>6. QED
    BY <2>1, <2>2, <2>4, <2>5 DEF HearInv, FreshOK, EveryHearingObserved
<1>7. QED
  BY <1>5, <1>6

LEMMA HearStep ==
  ASSUME HearInv, [Next]_vars
  PROVE  HearInv'
<1>1. FileOK'
  BY FileStep DEF HearInv
<1>2. CASE UNCHANGED <<fileVars, clockVars, frame, bufferVars, heardVars>>
  BY <1>2 DEF fileVars, clockVars, bufferVars, heardVars, HearInv, FileOK, TimesOK, BootsOK, ClocksOK, FreshOK,
    EveryHearingObserved, Told, Passed
<1>3. TakeAnchor \/ Send \/ Answered \/ AnswerLost \/ GivenUp \/ Arrives \/ UNCHANGED vars
      => UNCHANGED <<fileVars, clockVars, frame, bufferVars, heardVars>>
  BY DEF TakeAnchor, Send, Answered, AnswerLost, GivenUp, Arrives, vars
<1>4. QED
  BY <1>1, <1>2, <1>3, OpeningStep, OutsideStep, PollStep DEF Next

(* A poll after which the access point was heard writes an observation of it, *)
(* for any clocks, behind or ahead, however often the Pi and its collector   *)
(* restart, whichever version wrote the file and in whichever boot it is     *)
(* upgraded - but while the boot's clock has not passed what it showed       *)
(* before it was stepped back, or what the upgrade took for this boot's.     *)
THEOREM HearingsAreObserved == Spec => []EveryHearingObserved
<1>1. HearInv => EveryHearingObserved
  BY DEF HearInv
<1>2. QED
  BY <1>1, HearInit, HearStep, PTL DEF Spec

-----------------------------------------------------------------------------
(* The configuration.                                                       *)

LEMMA LeastOfSet ==
  ASSUME NEW S \in SUBSET Nat, S # {}
  PROVE  \E u \in S : \A t \in S : u <= t
<1> DEFINE less == {d \in Nat \X Nat : d[1] < d[2]}
<1>1. IsWellFoundedOn(less, Nat)
  BY NatLessThanWellFounded DEF OpToRel
<1> HIDE DEF less
<1>2. PICK u \in S : \A t \in S : ~(<<t, u>> \in less)
  BY <1>1, WFMin
<1>3. ASSUME NEW t \in S PROVE u <= t
  <2>1. t \in Nat /\ u \in Nat /\ ~(<<t, u>> \in less)
    BY <1>2
  <2>2. ~(t < u)
    BY <2>1 DEF less
  <2>3. QED
    BY <2>1, <2>2
<1>4. QED
  BY <1>3

LEMMA MaxIs ==
  ASSUME NEW S, NEW b \in Nat, S \subseteq 1 .. b, S # {}
  PROVE  Max(S) \in S /\ \A t \in S : Max(S) >= t
<1> DEFINE U == {b - t : t \in S}
<1>1. PICK u \in U : \A w \in U : u <= w
  <2>1. \A t \in S : b - t \in Nat
    OBVIOUS
  <2>2. U \in SUBSET Nat /\ U # {}
    BY <2>1
  <2>3. QED
    BY <2>2, LeastOfSet
<1>2. PICK m \in S : u = b - m
  BY <1>1
<1>3. \A t \in S : m >= t
  <2>1. ASSUME NEW t \in S PROVE m >= t
    <3>1. t \in 1 .. b /\ m \in 1 .. b /\ b - m <= b - t
      BY <1>1, <1>2
    <3>2. QED
      BY <3>1
  <2>2. QED
    BY <2>1
<1>4. QED
  BY <1>2, <1>3 DEF Max

\* A value that an observation announced is in the row or in the history.
ValuesKept(hist, obs, conf) ==
  \A o \in obs, f \in Fields :
    o.conf[f] # Null => conf[f] = o.conf[f] \/ \E h \in hist : h.conf[f] = o.conf[f]

\* What a batch, or the server, holds of the first n polls: their history, and
\* a row that has the other values once no later poll has an observation.  (It
\* need not be the newest row: a hearing without an observation changes the
\* device too, but then its history as well.)
Fits(rows, n, hist, obs) ==
  /\ rows.polls \subseteq 1 .. n /\ rows.last \in 0 .. n
  /\ \A h \in hist : h.poll \in rows.polls => h \in rows.history
  /\ \A o \in obs : o.row.poll \in rows.polls => o.row.poll <= rows.last
  /\ rows.last > 0 /\ (\A o \in obs : o.row.poll <= rows.last) => ValuesKept(hist, obs, rows.conf)

ConfTypes ==
  /\ device.conf \in [Fields -> Int] /\ frame.beacon.conf \in [Fields -> Int]
  /\ \A p \in polls : p.id \in 1 .. now
  /\ \A h \in history : h.poll \in 1 .. now
  /\ \A o \in observed : o.row.poll \in 1 .. now

ConfInv ==
  /\ ConfTypes /\ (~device.known => observed = {})
  /\ ValuesKept(history, observed, device.conf)
  /\ \A rows \in late \cup {open.rows, server} : Fits(rows, now, history, observed)

LEMMA ConfInit == Init => ConfInv
<1> SUFFICES ASSUME Init PROVE ConfInv
  OBVIOUS
<1>1. /\ observed = {} /\ history = {} /\ polls = {} /\ now = 0 /\ late = {}
      /\ open.rows = NoRows /\ server = NoRows
  BY DEF Init, NoBatch
<1>2. NoConf \in [Fields -> Int]
  BY DEF NoConf, Null
<1>3. \A b \in Beacons : b.conf \in [Fields -> Int]
  BY BeaconsAssumption
<1>4. device.conf \in [Fields -> Int] /\ frame.beacon.conf \in [Fields -> Int]
  <2>1. PICK b \in Beacons : (frame = NoFrame \/ frame.beacon = b) /\ (device = NoDevice \/ device.conf = b.conf)
    BY DEF Init
  <2>2. QED
    BY <1>2, <1>3, <2>1 DEF NoFrame, NoDevice
<1>5. QED
  BY <1>1, <1>4 DEF ConfInv, ConfTypes, ValuesKept, Fits, NoRows

\* Steps that neither poll nor upload.
LEMMA IdleConfStep ==
  ASSUME ConfInv, UNCHANGED <<now, polls, history, observed>>,
         device'.conf = device.conf, device.known => device'.known,
         frame'.beacon.conf \in [Fields -> Int],
         \A rows \in late' \cup {open'.rows, server'} :
           rows \in late \cup {open.rows, server} \/ Fits(rows, now, history, observed)
  PROVE  ConfInv'
<1>1. ConfTypes'
  BY DEF ConfInv, ConfTypes
<1>2. QED
  BY <1>1 DEF ConfInv

LEMMA BesideConfStep ==
  ASSUME HearInv, ConfInv,
         \/ Open \/ Upgrade \/ Started \/ Kill \/ (\E v \in RollBacks : RollBack(v)) \/ Sync \/ TakeAnchor
         \/ \E b \in Beacons : Hear(b)
         \/ \E d \in Drifts : Reboot(d)
         \/ UNCHANGED vars
  PROVE  ConfInv'
<1> frame.beacon.conf \in [Fields -> Int]
  BY DEF ConfInv, ConfTypes
<1>1. CASE Open \/ Started \/ Kill \/ (\E v \in RollBacks : RollBack(v)) \/ Sync \/ TakeAnchor \/ UNCHANGED vars
  <2>1. UNCHANGED <<now, polls, history, observed, device, frame, late, open, server>>
    BY <1>1 DEF Open, Started, Kill, RollBack, Sync, TakeAnchor, vars, bufferVars, uploadVars
  <2>2. QED
    BY <2>1, IdleConfStep
<1>2. CASE Upgrade
  <2>1. UNCHANGED <<now, polls, history, observed, frame, late, open, server>>
    BY <1>2 DEF Upgrade, uploadVars
  <2>2. PICK k \in Migrations : Adopt(k)
    BY <1>2 DEF Upgrade
  <2>3. device'.conf = device.conf /\ (device.known => device'.known)
    BY <2>2 DEF Adopt
  <2>4. QED
    BY <2>1, <2>3, IdleConfStep
<1>3. CASE \E b \in Beacons : Hear(b)
  <2>1. PICK b \in Beacons : Hear(b)
    BY <1>3
  <2>2. UNCHANGED <<now, polls, history, observed, device, late, open, server>> /\ frame'.beacon = b
    BY <2>1 DEF Hear, bufferVars, uploadVars
  <2>3. b.conf \in [Fields -> Int]
    BY BeaconsAssumption
  <2>4. QED
    BY <2>2, <2>3, IdleConfStep
<1>4. CASE \E d \in Drifts : Reboot(d)
  <2>1. UNCHANGED <<now, polls, history, observed, device, server>>
    BY <1>4 DEF Reboot, bufferVars
  <2>2. frame'.beacon.conf \in [Fields -> Int]
    BY <1>4 DEF Reboot, NoFrame, NoConf, Null
  <2>3. open' = NoBatch /\ late' \subseteq late \cup {open.rows}
    BY <1>4 DEF Reboot
  <2>4. Fits(NoRows, now, history, observed)
    <3>1. now \in Nat
      BY DEF HearInv, TimesOK
    <3>2. QED
      BY <3>1 DEF Fits, NoRows
  <2>5. QED
    BY <2>1, <2>2, <2>3, <2>4, IdleConfStep DEF NoBatch
<1>5. QED
  BY <1>1, <1>2, <1>3, <1>4

\* Two of them merged hold what both hold.
LEMMA MergeFits ==
  ASSUME NEW s, NEW rows, NEW n \in Nat, NEW hist, NEW obs,
         Fits(s, n, hist, obs), Fits(rows, n, hist, obs)
  PROVE  Fits(Merge(s, rows), n, hist, obs)
<1>1. PICK m : m = Merge(s, rows)
  OBVIOUS
<1>2. /\ m.polls = s.polls \cup rows.polls /\ m.history = s.history \cup rows.history
      /\ m.conf = IF rows.last > 0 /\ rows.last >= s.last THEN rows.conf ELSE s.conf
      /\ m.last = Max({s.last, rows.last})
  BY <1>1 DEF Merge
<1>3. s.last \in 0 .. n /\ rows.last \in 0 .. n
  BY DEF Fits
<1>4. PICK a \in 0 .. n, b \in 0 .. n : a = s.last /\ b = rows.last
  BY <1>3
<1>5. m.last \in {a, b} /\ m.last >= a /\ m.last >= b
  <2>1. m.last = Max({a, b})
    BY <1>2, <1>4
  <2>2. a \in Int /\ b \in Int
    OBVIOUS
  <2>3. QED
    BY <2>1, <2>2, MaxOfTwo
<1>6. m.polls \subseteq 1 .. n /\ m.last \in 0 .. n
  BY <1>2, <1>4, <1>5 DEF Fits
<1>7. \A h \in hist : h.poll \in m.polls => h \in m.history
  BY <1>2 DEF Fits
<1>8. ASSUME NEW o \in obs, o.row.poll \in m.polls PROVE o.row.poll <= m.last
  <2>1. o.row.poll \in 1 .. n /\ (o.row.poll <= a \/ o.row.poll <= b)
    BY <1>2, <1>4, <1>6, <1>8 DEF Fits
  <2>2. QED
    BY <1>5, <2>1
<1>9. ASSUME m.last > 0, \A o \in obs : o.row.poll <= m.last PROVE ValuesKept(hist, obs, m.conf)
  <2>1. CASE b > 0 /\ b >= a
    <3>1. m.last = b /\ m.conf = rows.conf
      BY <1>2, <1>4, <1>5, <2>1
    <3>2. QED
      BY <1>4, <1>9, <3>1 DEF Fits
  <2>2. CASE ~(b > 0 /\ b >= a)
    <3>1. m.last = a /\ m.conf = s.conf
      BY <1>2, <1>4, <1>5, <2>2
    <3>2. QED
      BY <1>4, <1>9, <3>1 DEF Fits
  <2>3. QED
    BY <2>1, <2>2
<1>10. QED
  BY <1>1, <1>6, <1>7, <1>8, <1>9 DEF Fits

LEMMA SendConfStep ==
  ASSUME HearInv, ConfInv, Send
  PROVE  ConfInv'
<1>1. PICK sent, heard :
        /\ sent \subseteq {p.id : p \in polls} /\ heard = {o.row.poll : o \in observed} \cap sent
        /\ open'.rows.polls = sent /\ open'.rows.history = {h \in history : h.poll \in sent}
        /\ open'.rows.conf = (IF heard = {} THEN NoConf ELSE device.conf)
        /\ open'.rows.last = (IF heard = {} THEN 0 ELSE Max(heard))
  <2> DEFINE due == {p \in polls : cursor.polls < p.id /\ p.id <= cursor.polls + BatchPolls}
             before == {p \in due : \A q \in due : Fate(q) = "hold" => p.id < q.id}
             sent0 == {p.id : p \in {q \in before : Fate(q) = "send"}}
             heard0 == {o.row.poll : o \in observed} \cap sent0
  <2>1. sent0 \subseteq {p.id : p \in polls}
    OBVIOUS
  <2>2. /\ open'.rows.polls = sent0 /\ open'.rows.history = {h \in history : h.poll \in sent0}
        /\ open'.rows.conf = (IF heard0 = {} THEN NoConf ELSE device.conf)
        /\ open'.rows.last = (IF heard0 = {} THEN 0 ELSE Max(heard0))
    BY DEF Send
  <2> HIDE DEF sent0
  <2>3. QED
    BY <2>1, <2>2
<1>2. UNCHANGED <<now, polls, history, observed, device, frame, late, server>>
  BY DEF Send, bufferVars
<1>3. PICK n \in Nat : n = now
  BY DEF HearInv, TimesOK
<1>4. sent \subseteq 1 .. n /\ heard \subseteq 1 .. n
  BY <1>1, <1>3 DEF ConfInv, ConfTypes
<1>5. heard # {} => Max(heard) \in heard /\ \A t \in heard : Max(heard) >= t
  BY <1>4, MaxIs
<1>6. PICK last \in 0 .. n : last = open'.rows.last
  <2>1. CASE heard = {}
    BY <1>1, <2>1
  <2>2. CASE heard # {}
    <3>1. PICK m : m = Max(heard)
      OBVIOUS
    <3>2. m \in 0 .. n
      <4>1. m \in heard /\ heard \subseteq 1 .. n
        BY <1>4, <1>5, <2>2, <3>1
      <4>2. QED
        BY <4>1
    <3>3. QED
      BY <1>1, <2>2, <3>1, <3>2
  <2>3. QED
    BY <2>1, <2>2
<1>7. \A t \in heard : t <= last
  <2>1. ASSUME NEW t \in heard PROVE t <= last
    <3>1. last = Max(heard) /\ Max(heard) >= t /\ t \in 1 .. n
      BY <1>1, <1>4, <1>5, <1>6, <2>1
    <3>2. QED
      BY <3>1
  <2>2. QED
    BY <2>1
<1>8. last > 0 => open'.rows.conf = device.conf
  BY <1>1, <1>6
<1>9. Fits(open'.rows, now, history, observed)
  BY <1>1, <1>3, <1>4, <1>6, <1>7, <1>8 DEF Fits, ConfInv
<1>10. QED
  BY <1>2, <1>9, IdleConfStep DEF ConfInv, ConfTypes

LEMMA AnswerConfStep ==
  ASSUME HearInv, ConfInv, Answered \/ AnswerLost \/ GivenUp \/ Arrives
  PROVE  ConfInv'
<1> frame.beacon.conf \in [Fields -> Int]
  BY DEF ConfInv, ConfTypes
<1>1. UNCHANGED <<now, polls, history, observed, device, frame>>
  BY DEF Answered, AnswerLost, GivenUp, Arrives, bufferVars
<1>2. now \in Nat
  BY DEF HearInv, TimesOK
<1>3. Fits(NoRows, now, history, observed)
  BY <1>2 DEF Fits, NoRows
<1>4. \A s, rows \in late \cup {open.rows, server} : Fits(Merge(s, rows), now, history, observed)
  BY <1>2, MergeFits DEF ConfInv
<1>5. CASE Answered \/ AnswerLost
  <2>1. server' = Merge(server, open.rows) /\ open'.rows = NoRows /\ late' = late
    BY <1>5 DEF Answered, AnswerLost, NoBatch
  <2>2. \A rows \in late' \cup {open'.rows, server'} :
          rows \in late \cup {open.rows, server} \/ Fits(rows, now, history, observed)
    BY <1>3, <1>4, <2>1
  <2>3. QED
    BY <1>1, <2>2, IdleConfStep
<1>6. CASE GivenUp
  BY <1>1, <1>3, <1>6, IdleConfStep DEF GivenUp, NoBatch
<1>7. CASE Arrives
  <2>1. PICK rows \in late : server' = Merge(server, rows) /\ late' = late \ {rows}
    BY <1>7 DEF Arrives
  <2>2. open' = open
    BY <1>7 DEF Arrives
  <2>3. QED
    BY <1>1, <1>4, <2>1, <2>2, IdleConfStep
<1>8. QED
  BY <1>5, <1>6, <1>7

\* A poll adds rows of its own.
LEMMA PollFits ==
  ASSUME NEW rows, NEW n \in Nat, NEW hist, NEW obs, Fits(rows, n, hist, obs), NEW hist2, NEW obs2,
         hist \subseteq hist2, \A h \in hist2 : h \in hist \/ h.poll = n + 1,
         obs \subseteq obs2, \A o \in obs2 : o \in obs \/ o.row.poll = n + 1
  PROVE  Fits(rows, n + 1, hist2, obs2)
<1>1. PICK last \in 0 .. n : last = rows.last
  BY DEF Fits
<1>2. rows.polls \subseteq 1 .. n /\ n + 1 \notin rows.polls /\ rows.polls \subseteq 1 .. n + 1 /\ last \in 0 .. n + 1
  BY DEF Fits
<1>3. \A o \in obs2 : o.row.poll <= last => o \in obs
  BY <1>1
<1>4. \A o \in obs2 : o.row.poll \in rows.polls => o \in obs
  BY <1>2
<1>5. \A h \in hist2 : h.poll \in rows.polls => h \in rows.history
  BY <1>2 DEF Fits
<1>6. ASSUME last > 0, \A o \in obs2 : o.row.poll <= last PROVE ValuesKept(hist2, obs2, rows.conf)
  <2>1. obs2 = obs
    BY <1>3, <1>6
  <2>2. ValuesKept(hist, obs, rows.conf)
    BY <1>1, <1>6, <2>1 DEF Fits
  <2>3. QED
    BY <2>1, <2>2 DEF ValuesKept
<1>7. QED
  BY <1>1, <1>2, <1>4, <1>5, <1>6 DEF Fits

LEMMA PollConfStep ==
  ASSUME HearInv, ConfInv, Poll \/ PollFails
  PROVE  ConfInv'
<1>1. PICK n \in Nat : n = now
  BY DEF HearInv, TimesOK
<1>2. /\ now' = n + 1 /\ frame' = frame /\ UNCHANGED <<late, open, server>> /\ collector = "up"
      /\ \A p \in polls' : p \in polls \/ p.id = n + 1
  BY <1>1 DEF Poll, PollFails, NewPoll, uploadVars
<1>3. 1 .. n \subseteq 1 .. n + 1 /\ n + 1 \in 1 .. n + 1
  OBVIOUS
<1>4. ASSUME history \subseteq history', \A h \in history' : h \in history \/ h.poll = n + 1,
             observed \subseteq observed', \A o \in observed' : o \in observed \/ o.row.poll = n + 1,
             device'.conf \in [Fields -> Int], ~device'.known => observed' = {},
             ValuesKept(history', observed', device'.conf)
      PROVE  ConfInv'
  <2>1. ConfTypes'
    BY <1>1, <1>2, <1>3, <1>4 DEF ConfInv, ConfTypes
  <2>2. \A rows \in late \cup {open.rows, server} : Fits(rows, n + 1, history', observed')
    <3>1. ASSUME NEW rows \in late \cup {open.rows, server}
          PROVE  Fits(rows, n + 1, history', observed')
      <4>1. Fits(rows, n, history, observed)
        BY <1>1, <3>1 DEF ConfInv
      <4>2. QED
        BY <1>4, <4>1, PollFits
    <3>2. QED
      BY <3>1
  <2>3. QED
    BY <1>2, <1>4, <2>1, <2>2 DEF ConfInv
<1>5. CASE PollFails \/ (Poll /\ ~Returned)
  <2>1. UNCHANGED <<device, history, observed>>
    BY <1>5 DEF PollFails, Poll, NoRecord
  <2>2. QED
    BY <1>4, <2>1 DEF ConfInv, ConfTypes
<1>6. CASE Poll /\ Returned
  <2>1. PICK b, old, merged :
          b = frame.beacon.conf /\ old = device.conf /\ merged = (IF device.known THEN MergeConfig(old, b) ELSE b)
    OBVIOUS
  <2>2. old \in [Fields -> Int] /\ b \in [Fields -> Int]
    BY <2>1 DEF ConfInv, ConfTypes
  <2>3. merged \in [Fields -> Int] /\ \A f \in Fields : b[f] # Null => merged[f] = b[f]
    BY <2>1, <2>2 DEF MergeConfig
  <2>4. /\ device'.conf = merged /\ device'.known = TRUE
        /\ history' = IF device.known /\ Changed(old, b) THEN history \cup {[poll |-> now + 1, conf |-> old]} ELSE history
    BY <1>6, <2>1 DEF Poll, WriteDevice
  <2>5. PICK new : /\ new.row.poll = n + 1 /\ new.conf = b
                   /\ observed' = IF IsNew THEN observed \cup {new} ELSE observed
    <3>1. PICK row : /\ row.poll = now + 1
                     /\ observed' = IF IsNew THEN observed \cup {[row |-> row, conf |-> frame.beacon.conf]} ELSE observed
      BY <1>6 DEF Poll, WriteDevice
    <3>2. QED
      BY <1>1, <2>1, <3>1
  <2>6. history \subseteq history' /\ \A h \in history' : h \in history \/ h.poll = n + 1
    BY <1>1, <2>4
  <2>7. ValuesKept(history', observed', merged)
    <3>1. ASSUME NEW o \in observed', NEW f \in Fields, o.conf[f] # Null
          PROVE  merged[f] = o.conf[f] \/ \E h \in history' : h.conf[f] = o.conf[f]
      <4>1. CASE o \notin observed
        BY <2>3, <2>5, <3>1, <4>1
      <4>2. CASE o \in observed
        <5>1. device.known /\ (old[f] = o.conf[f] \/ \E h \in history : h.conf[f] = o.conf[f])
          BY <2>1, <3>1, <4>2 DEF ConfInv, ValuesKept
        <5>2. CASE \E h \in history : h.conf[f] = o.conf[f]
          BY <2>4, <5>2
        <5>3. CASE old[f] = o.conf[f] /\ merged[f] # old[f]
          <6>1. b[f] # Null /\ b[f] # old[f] /\ old[f] # Null
            BY <2>1, <3>1, <5>1, <5>3 DEF MergeConfig
          <6>2. Changed(old, b)
            BY <6>1 DEF Changed
          <6>3. history' = history \cup {[poll |-> now + 1, conf |-> old]}
            BY <2>4, <5>1, <6>2
          <6>4. PICK h : h = [poll |-> now + 1, conf |-> old]
            OBVIOUS
          <6>5. h \in history' /\ h.conf = old
            BY <6>3, <6>4
          <6>6. QED
            BY <5>3, <6>5
        <5>4. QED
          BY <5>1, <5>2, <5>3
      <4>3. QED
        BY <4>1, <4>2
    <3>2. QED
      BY <3>1 DEF ValuesKept
  <2>8. QED
    BY <1>4, <2>3, <2>4, <2>5, <2>6, <2>7
<1>7. QED
  BY <1>5, <1>6

(* When every poll was sent, every configuration value that the access point *)
(* announced is at the server, for any beacons and any batches that are lost, *)
(* come late or come twice.                                                 *)
THEOREM ValuesReachTheServer == Spec => []ConfigReachesServer
<1>1. Init => HearInv /\ ConfInv
  BY HearInit, ConfInit
<1>2. HearInv /\ ConfInv /\ [Next]_vars => HearInv' /\ ConfInv'
  BY HearStep, BesideConfStep, SendConfStep, AnswerConfStep, PollConfStep DEF Next
<1>3. ASSUME HearInv, ConfInv PROVE ConfigReachesServer
  <2>1. SUFFICES ASSUME server.polls = 1 .. now, NEW o \in observed, NEW f \in Fields, o.conf[f] # Null
                 PROVE  \/ server.conf[f] = o.conf[f]
                        \/ \E h \in server.history : h.conf[f] = o.conf[f]
    BY DEF ConfigReachesServer
  <2>2. PICK n \in Nat : n = now
    BY <1>3 DEF HearInv, TimesOK
  <2>3. Fits(server, n, history, observed) /\ server.polls = 1 .. n
    BY <1>3, <2>1, <2>2 DEF ConfInv
  <2>4. \A h \in history : h \in server.history
    BY <1>3, <2>2, <2>3 DEF ConfInv, ConfTypes, Fits
  <2>5. PICK last \in 0 .. n : last = server.last
    BY <2>3 DEF Fits
  <2>6. \A u \in observed : u.row.poll \in 1 .. n /\ u.row.poll <= last
    BY <1>3, <2>2, <2>3, <2>5 DEF ConfInv, ConfTypes, Fits
  <2>7. last > 0
    BY <2>1, <2>6
  <2>8. ValuesKept(history, observed, server.conf)
    BY <2>3, <2>5, <2>6, <2>7 DEF Fits
  <2>9. QED
    BY <2>1, <2>4, <2>8 DEF ValuesKept
<1>4. QED
  BY <1>1, <1>2, <1>3, PTL DEF Spec

-----------------------------------------------------------------------------
(* Sums, maxima and folds over finite sets of rows.                         *)

\* A finite set of finite sets, unless empty, has one none of whose elements
\* can be taken out: what induction over a set starts from.
LEMMA SmallestSet ==
  ASSUME NEW S, IsFiniteSet(S), NEW X, \A T \in X : T \subseteq S, X # {}
  PROVE  \E T \in X : \A x \in T : T \ {x} \notin X
<1> DEFINE C == {Cardinality(T) : T \in X}
<1>1. \A T \in X : IsFiniteSet(T) /\ Cardinality(T) \in Nat
  BY FS_Subset, FS_CardinalityType
<1>2. PICK c \in C : \A d \in C : c <= d
  <2>1. C \in SUBSET Nat /\ C # {}
    BY <1>1
  <2>2. QED
    BY <2>1, LeastOfSet
<1>3. PICK T \in X : c = Cardinality(T)
  BY <1>2
<1>4. ASSUME NEW x \in T, T \ {x} \in X PROVE FALSE
  <2>1. Cardinality(T \ {x}) = Cardinality(T) - 1
    BY <1>1, <1>4, FS_RemoveElement
  <2>2. Cardinality(T) <= Cardinality(T \ {x})
    BY <1>2, <1>3, <1>4
  <2>3. QED
    BY <1>1, <2>1, <2>2
<1>5. QED
  BY <1>4

\* g gives every set of rows the sum of their values, whichever row is taken first.
SumsUp(g, S, v) ==
  /\ g \in [SUBSET S -> Nat] /\ g[{}] = 0
  /\ \A t \in SUBSET S : \A x \in t : g[t] = v[x] + g[t \ {x}]

LEMMA SumsExist ==
  ASSUME NEW S, IsFiniteSet(S), NEW v, \A x \in S : v[x] \in Nat
  PROVE  \E g : SumsUp(g, S, v)
<1> DEFINE X == {T \in SUBSET S : ~ \E g : SumsUp(g, T, v)}
<1> SUFFICES ASSUME X # {} PROVE FALSE
  OBVIOUS
<1>1. PICK T \in X : \A x \in T : T \ {x} \notin X
  BY SmallestSet
<1>2. T # {}
  <2>1. SumsUp([t \in SUBSET {} |-> 0], {}, v)
    BY DEF SumsUp
  <2>2. QED
    BY <1>1, <2>1
<1>3. PICK y \in T : TRUE
  BY <1>2
<1>4. PICK g : SumsUp(g, T \ {y}, v)
  BY <1>1, <1>3
<1> DEFINE h == [t \in SUBSET T |-> IF y \in t THEN v[y] + g[t \ {y}] ELSE g[t]]
<1>5. \A t \in SUBSET (T \ {y}) : g[t] \in Nat
  BY <1>4 DEF SumsUp
<1>6. v[y] \in Nat
  BY <1>1, <1>3
<1>7. h \in [SUBSET T -> Nat]
  <2>1. ASSUME NEW t \in SUBSET T PROVE (IF y \in t THEN v[y] + g[t \ {y}] ELSE g[t]) \in Nat
    <3>1. t \ {y} \in SUBSET (T \ {y}) /\ (y \notin t => t \in SUBSET (T \ {y}))
      OBVIOUS
    <3>2. QED
      BY <1>5, <1>6, <3>1
  <2>2. QED
    BY <2>1
<1>8. h[{}] = 0
  <2>1. h[{}] = g[{}]
    OBVIOUS
  <2>2. QED
    BY <1>4, <2>1 DEF SumsUp
<1>9. ASSUME NEW t \in SUBSET T, NEW x \in t PROVE h[t] = v[x] + h[t \ {x}]
  <2>1. CASE x = y
    BY <2>1
  <2>2. CASE x # y /\ y \in t
    <3>1. PICK a : a = g[t \ {y}]
      OBVIOUS
    <3>2. PICK b : b = g[(t \ {y}) \ {x}]
      OBVIOUS
    <3>3. (t \ {x}) \ {y} = (t \ {y}) \ {x} /\ y \in t \ {x} /\ t \ {x} \in SUBSET T
      BY <2>2
    <3>4. h[t] = v[y] + a /\ h[t \ {x}] = v[y] + b
      BY <2>2, <3>1, <3>2, <3>3
    <3>5. t \ {y} \in SUBSET (T \ {y}) /\ x \in t \ {y}
      BY <2>2
    <3>6. a = v[x] + b
      BY <1>4, <3>1, <3>2, <3>5 DEF SumsUp
    <3>7. v[x] \in Nat /\ b \in Nat
      <4>1. (t \ {y}) \ {x} \in SUBSET (T \ {y}) /\ x \in S
        BY <1>1
      <4>2. QED
        BY <1>5, <3>2, <4>1
    <3>8. QED
      BY <1>6, <3>4, <3>6, <3>7
  <2>3. CASE y \notin t
    <3>1. t \in SUBSET (T \ {y}) /\ t \ {x} \in SUBSET T /\ y \notin t \ {x}
      BY <2>3
    <3>2. h[t] = g[t] /\ h[t \ {x}] = g[t \ {x}]
      BY <2>3, <3>1
    <3>3. g[t] = v[x] + g[t \ {x}]
      BY <1>4, <3>1 DEF SumsUp
    <3>4. QED
      BY <3>2, <3>3
  <2>4. QED
    BY <2>1, <2>2, <2>3
<1>10. SumsUp(h, T, v)
  <2> HIDE DEF h
  <2>1. QED
    BY <1>7, <1>8, <1>9 DEF SumsUp
<1>11. QED
  BY <1>1, <1>10

\* The fold that sums up the clients is such a sum, whatever rows it chooses.
LEMMA TotalIs ==
  ASSUME NEW S, IsFiniteSet(S), NEW g, SumsUp(g, S, [x \in S |-> x.clients])
  PROVE  MapThenSumSet(LAMBDA o : o.clients, S) = g[S]
<1> DEFINE Entry(k, t) == IF t = {} THEN 0
                          ELSE (CHOOSE x \in t : TRUE).clients + k[t \ {CHOOSE x \in t : TRUE}]
           IsSum(k) == k = [t \in SUBSET S |-> Entry(k, t)]
           f == CHOOSE k : IsSum(k)
<1>1. MapThenSumSet(LAMBDA o : o.clients, S) = f[S]
  BY Zenon DEF MapThenSumSet, MapThenFoldSet
<1>2. IsSum(g)
  <2>1. \A t \in SUBSET S : g[t] = Entry(g, t)
    <3>1. ASSUME NEW t \in SUBSET S, t # {} PROVE g[t] = Entry(g, t)
      <4>1. PICK c : c = CHOOSE x \in t : TRUE
        OBVIOUS
      <4>2. c \in t
        BY <3>1, <4>1
      <4>3. g[t] = [x \in S |-> x.clients][c] + g[t \ {c}]
        BY <4>2 DEF SumsUp
      <4>4. QED
        BY <3>1, <4>1, <4>2, <4>3
    <3>2. g[{}] = Entry(g, {})
      BY DEF SumsUp
    <3>3. QED
      BY <3>1, <3>2
  <2> HIDE DEF Entry
  <2>2. QED
    BY <2>1 DEF SumsUp
<1>3. IsSum(f)
  <2> HIDE DEF IsSum
  <2>1. QED
    BY <1>2
<1>4. \A k : IsSum(k) => \A t \in SUBSET S : k[t] = Entry(k, t)
  <2> HIDE DEF Entry, f
  <2>1. QED
    OBVIOUS
<1> HIDE DEF f, IsSum
<1> DEFINE X == {T \in SUBSET S : f[T] # g[T]}
<1>5. X = {}
  <2> SUFFICES ASSUME X # {} PROVE FALSE
    OBVIOUS
  <2>1. PICK T \in X : \A x \in T : T \ {x} \notin X
    BY SmallestSet
  <2>2. f[T] = Entry(f, T) /\ g[T] = Entry(g, T)
    BY <1>2, <1>3, <1>4
  <2>3. T # {}
    BY <2>1, <2>2
  <2>4. PICK c : c = CHOOSE x \in T : TRUE
    OBVIOUS
  <2>5. c \in T
    BY <2>3, <2>4
  <2>6. f[T \ {c}] = g[T \ {c}]
    BY <2>1, <2>5
  <2>7. QED
    BY <2>1, <2>2, <2>3, <2>4, <2>6
<1>6. QED
  BY <1>1, <1>5

\* A sum over finitely many rows: nothing, or one row and the sum of the others.
LEMMA TotalAdds ==
  ASSUME NEW S, IsFiniteSet(S), NEW x, x \notin S, \A y \in S \cup {x} : y.clients \in Nat
  PROVE  /\ MapThenSumSet(LAMBDA o : o.clients, S) \in Nat
         /\ MapThenSumSet(LAMBDA o : o.clients, S \cup {x}) = x.clients + MapThenSumSet(LAMBDA o : o.clients, S)
         /\ S = {} => MapThenSumSet(LAMBDA o : o.clients, S) = 0
<1> DEFINE U == S \cup {x}
           v == [y \in U |-> y.clients]
<1>1. IsFiniteSet(U)
  BY FS_AddElement
<1>2. PICK g : SumsUp(g, U, v)
  <2>1. \A y \in U : v[y] \in Nat
    OBVIOUS
  <2> HIDE DEF v
  <2>2. QED
    BY <1>1, <2>1, SumsExist
<1> DEFINE h == [t \in SUBSET S |-> g[t]]
<1>3. SumsUp(h, S, [y \in S |-> y.clients])
  <2>1. SUBSET S \subseteq SUBSET U /\ {} \in SUBSET S
    OBVIOUS
  <2>2. h \in [SUBSET S -> Nat] /\ h[{}] = 0
    BY <1>2, <2>1 DEF SumsUp
  <2>3. ASSUME NEW t \in SUBSET S, NEW y \in t PROVE h[t] = [z \in S |-> z.clients][y] + h[t \ {y}]
    <3>1. t \in SUBSET U /\ t \ {y} \in SUBSET S /\ y \in U /\ y \in S
      OBVIOUS
    <3>2. g[t] = v[y] + g[t \ {y}]
      BY <1>2, <3>1 DEF SumsUp
    <3>3. h[t] = g[t] /\ h[t \ {y}] = g[t \ {y}] /\ v[y] = y.clients
      BY <3>1
    <3>4. QED
      BY <3>1, <3>2, <3>3
  <2> HIDE DEF h
  <2>4. QED
    BY <2>2, <2>3 DEF SumsUp
<1>4. MapThenSumSet(LAMBDA o : o.clients, S) = h[S]
  BY <1>3, TotalIs
<1>5. MapThenSumSet(LAMBDA o : o.clients, U) = g[U]
  BY <1>1, <1>2, TotalIs
<1>6. h[S] = g[S] /\ U \ {x} = S /\ U \in SUBSET U /\ x \in U /\ v[x] = x.clients /\ S \in SUBSET U
  OBVIOUS
<1> HIDE DEF h, v
<1>7. g[U] = x.clients + g[S] /\ g[S] \in Nat /\ (S = {} => g[S] = 0)
  BY <1>2, <1>6 DEF SumsUp
<1>8. QED
  BY <1>4, <1>5, <1>6, <1>7

LEMMA MaxOfFinite ==
  ASSUME NEW S, IsFiniteSet(S), S \subseteq Int, S # {}
  PROVE  Max(S) \in S /\ \A t \in S : Max(S) >= t
<1> DEFINE HasMax(T) == \E m \in T : \A t \in T : m >= t
           X == {T \in SUBSET S : T # {} /\ ~HasMax(T)}
<1>1. X = {}
  <2> SUFFICES ASSUME X # {} PROVE FALSE
    OBVIOUS
  <2>1. PICK T \in X : \A x \in T : T \ {x} \notin X
    BY SmallestSet
  <2>2. PICK y \in T : TRUE
    BY <2>1
  <2>3. CASE T \ {y} = {}
    <3>1. HasMax(T)
      BY <2>1, <2>2, <2>3
    <3>2. QED
      BY <2>1, <3>1
  <2>4. CASE T \ {y} # {}
    <3>1. HasMax(T \ {y})
      BY <2>1, <2>2, <2>4
    <3>2. PICK m \in T \ {y} : \A t \in T \ {y} : m >= t
      BY <3>1
    <3>3. HasMax(T)
      <4>1. m \in Int /\ y \in Int /\ \A t \in T : t \in Int
        BY <2>1
      <4>2. CASE m >= y
        BY <3>2, <4>1, <4>2
      <4>3. CASE y >= m
        <5>1. \A t \in T : y >= t
          BY <3>2, <4>1, <4>3
        <5>2. QED
          BY <5>1
      <4>4. QED
        BY <4>1, <4>2, <4>3
    <3>4. QED
      BY <2>1, <3>3
  <2>5. QED
    BY <2>3, <2>4
<1>2. PICK m \in S : \A t \in S : m >= t
  BY <1>1
<1>3. QED
  BY <1>2 DEF Max

LEMMA MaxAdds ==
  ASSUME NEW S, IsFiniteSet(S), S \subseteq Int, S # {}, NEW x \in Int
  PROVE  Max(S \cup {x}) = Max({Max(S), x})
<1>1. PICK m : m = Max(S)
  OBVIOUS
<1>2. m \in S /\ m \in Int /\ \A t \in S : m >= t
  BY <1>1, MaxOfFinite
<1>3. IsFiniteSet(S \cup {x}) /\ S \cup {x} \subseteq Int
  BY FS_AddElement
<1>4. PICK n : n = Max(S \cup {x})
  OBVIOUS
<1>5. n \in S \cup {x} /\ n \in Int /\ \A t \in S \cup {x} : n >= t
  BY <1>3, <1>4, MaxOfFinite
<1>6. PICK k : k = Max({m, x})
  OBVIOUS
<1>7. k \in {m, x} /\ k >= m /\ k >= x
  BY <1>2, <1>6, MaxOfTwo
<1>8. n = k
  <2>1. n >= k /\ k >= n
    BY <1>2, <1>5, <1>7
  <2>2. QED
    BY <1>2, <1>5, <1>7, <2>1
<1>9. QED
  BY <1>1, <1>4, <1>6, <1>8

\* The values of finitely many rows are finitely many.
LEMMA ValuesFinite ==
  ASSUME NEW S, IsFiniteSet(S), NEW f
  PROVE  IsFiniteSet({f[x] : x \in S})
<1> DEFINE T == {f[x] : x \in S}
           g == [x \in S |-> f[x]]
<1>1. g \in Surjection(S, T)
  BY DEF Surjection
<1>2. QED
  BY <1>1, FS_Surjection

LEMMA FieldsFinite ==
  ASSUME NEW S, IsFiniteSet(S)
  PROVE  IsFiniteSet({o.clients : o \in S}) /\ IsFiniteSet({o.poll : o \in S}) /\ IsFiniteSet({o.row : o \in S})
<1> DEFINE f == [q \in S |-> q.clients]
           g == [q \in S |-> q.poll]
           h == [q \in S |-> q.row]
<1>1. {o.clients : o \in S} = {f[o] : o \in S}
  OBVIOUS
<1>2. {o.poll : o \in S} = {g[o] : o \in S}
  OBVIOUS
<1>3. {o.row : o \in S} = {h[o] : o \in S}
  OBVIOUS
<1> HIDE DEF f, g, h
<1>4. IsFiniteSet({f[o] : o \in S})
  BY ValuesFinite
<1>5. IsFiniteSet({g[o] : o \in S})
  BY ValuesFinite
<1>6. IsFiniteSet({h[o] : o \in S})
  BY ValuesFinite
<1>7. QED
  BY <1>1, <1>2, <1>3, <1>4, <1>5, <1>6

\* A row of the hourly load, and the row with one more observation.
LoadRows == [poll : Nat, channel : Int, clients : Nat \cup {Null}]
OneMore(r, o) ==
  [r EXCEPT !.polls = @ + 1,
            !.clientsPolls = @ + IF o.clients = Null THEN 0 ELSE 1,
            !.clientsMax = KnownMax(@, o.clients),
            !.clientsSum = KnownSum(@, o.clients),
            !.last = Max({@, o.poll})]
EmptyHour(hour, channel) ==
  [hour |-> hour, channel |-> channel, polls |-> 0,
   clientsPolls |-> 0, clientsMax |-> Null, clientsSum |-> Null, last |-> 0]

LEMMA RowAdds ==
  ASSUME NEW A, IsFiniteSet(A), A \subseteq LoadRows, NEW o \in LoadRows, o \notin A, NEW h, NEW c
  PROVE  RowOf(A \cup {o}, h, c) = OneMore(IF A = {} THEN EmptyHour(h, c) ELSE RowOf(A, h, c), o)
<1> DEFINE known == {q \in A : q.clients # Null}
           more  == {q \in A \cup {o} : q.clients # Null}
           total(K) == MapThenSumSet(LAMBDA q : q.clients, K)
<1>1. IsFiniteSet(known) /\ o \notin known
  BY FS_Subset
<1>2. more = IF o.clients = Null THEN known ELSE known \cup {o}
  OBVIOUS
<1>3. \A q \in known : q.clients \in Nat
  BY DEF LoadRows
<1>4. o.poll \in Nat /\ (o.clients = Null \/ o.clients \in Nat)
  BY DEF LoadRows
<1>5. PICK n : n = Cardinality(A)
  OBVIOUS
<1>6. PICK k : k = Cardinality(known)
  OBVIOUS
<1>7. n \in Nat /\ k \in Nat /\ (A = {} => n = 0 /\ k = 0) /\ Cardinality(A \cup {o}) = n + 1
  BY <1>1, <1>5, <1>6, FS_CardinalityType, FS_AddElement, FS_EmptySet
<1>8. Cardinality(more) = k + IF o.clients = Null THEN 0 ELSE 1
  <2>1. Cardinality(known \cup {o}) = k + 1
    BY <1>1, <1>6, FS_AddElement
  <2>2. CASE o.clients = Null
    <3>1. more = known /\ k + 0 = k
      BY <1>2, <1>7, <2>2
    <3> HIDE DEF more, known
    <3>2. QED
      BY <1>6, <2>2, <3>1
  <2>3. CASE o.clients # Null
    BY <1>2, <2>1, <2>3
  <2>4. QED
    BY <2>2, <2>3
<1>9. PICK sum : sum = IF known = {} THEN Null ELSE total(known)
  OBVIOUS
<1>10. (IF more = {} THEN Null ELSE total(more)) = KnownSum(sum, o.clients)
  <2>1. CASE o.clients = Null
    BY <1>2, <1>9, <2>1 DEF KnownSum
  <2>2. CASE o.clients # Null
    <3>1. o.clients \in Nat
      BY <1>4, <2>2
    <3>2. \A y \in known \cup {o} : y.clients \in Nat
      BY <1>3, <3>1
    <3>3. total(known) \in Nat /\ total(known \cup {o}) = o.clients + total(known) /\ (known = {} => total(known) = 0)
      BY <1>1, <3>2, TotalAdds
    <3>4. more = known \cup {o} /\ more # {}
      BY <1>2, <2>2
    <3> HIDE DEF total, known, more
    <3>5. KnownSum(sum, o.clients) = o.clients + total(known)
      <4>1. KnownSum(sum, o.clients) = o.clients + IF sum = Null THEN 0 ELSE sum
        BY <2>2 DEF KnownSum
      <4>2. (IF sum = Null THEN 0 ELSE sum) = total(known)
        BY <1>9, <3>3 DEF Null
      <4>3. QED
        BY <4>1, <4>2
    <3>6. QED
      BY <3>3, <3>4, <3>5
  <2>3. QED
    BY <2>1, <2>2
<1>11. PICK max : max = IF known = {} THEN Null ELSE Max({q.clients : q \in known})
  OBVIOUS
<1>12. (IF more = {} THEN Null ELSE Max({q.clients : q \in more})) = KnownMax(max, o.clients)
  <2> DEFINE V == {q.clients : q \in known}
  <2>1. CASE o.clients = Null
    <3>1. more = known
      BY <1>2, <2>1
    <3>2. KnownMax(max, o.clients) = SqlMax(max, max)
      BY <2>1 DEF KnownMax, Coalesce
    <3>3. known # {} => max \in Nat
      <4>1. IsFiniteSet(V) /\ V \subseteq Int
        <5>1. IsFiniteSet(V)
          BY <1>1, FieldsFinite
        <5>2. QED
          BY <1>3, <5>1
      <4>2. known # {} => Max(V) \in V
        BY <4>1, MaxOfFinite
      <4>3. QED
        BY <1>3, <1>11, <4>2
    <3>4. SqlMax(max, max) = max
      <4>1. CASE max = Null
        BY <4>1 DEF SqlMax
      <4>2. CASE max # Null
        <5>1. max \in Int
          BY <1>11, <3>3, <4>2
        <5>2. Max({max, max}) = max
          BY <5>1, MaxOfTwo
        <5>3. QED
          BY <4>2, <5>2 DEF SqlMax
      <4>3. QED
        BY <4>1, <4>2
    <3>5. QED
      BY <1>11, <3>1, <3>2, <3>4
  <2>2. CASE o.clients # Null
    <3>1. more = known \cup {o} /\ o.clients \in Nat
      BY <1>2, <1>4, <2>2
    <3>2. PICK x : x = o.clients
      OBVIOUS
    <3>3. {q.clients : q \in more} = V \cup {x} /\ x # Null /\ x \in Nat
      BY <2>2, <3>1, <3>2
    <3>4. CASE known = {}
      <4>1. V = {} /\ max = Null
        BY <1>11, <3>4
      <4>2. KnownMax(max, x) = SqlMax(x, x)
        BY <3>3, <4>1 DEF KnownMax, Coalesce
      <4>3. SqlMax(x, x) = Max({x, x})
        BY <3>3 DEF SqlMax
      <4>4. QED
        BY <3>1, <3>2, <3>3, <4>1, <4>2, <4>3
    <3>5. CASE known # {}
      <4>1. IsFiniteSet(V) /\ V \subseteq Int /\ V # {}
        <5>1. IsFiniteSet(V)
          BY <1>1, FieldsFinite
        <5>2. QED
          BY <1>3, <3>5, <5>1
      <4>2. max = Max(V) /\ max \in Nat
        <5>1. Max(V) \in V
          BY <4>1, MaxOfFinite
        <5>2. QED
          BY <1>3, <1>11, <3>5, <5>1
      <4>3. Max(V \cup {x}) = Max({Max(V), x})
        BY <3>3, <4>1, MaxAdds
      <4>4. max # Null
        BY <4>2 DEF Null
      <4>5. KnownMax(max, x) = SqlMax(max, x)
        BY <3>3, <4>4 DEF KnownMax, Coalesce
      <4>6. SqlMax(max, x) = Max({max, x})
        BY <3>3, <4>4 DEF SqlMax
      <4>7. QED
        BY <3>1, <3>2, <3>3, <4>2, <4>3, <4>5, <4>6
    <3>6. QED
      BY <3>4, <3>5
  <2>3. QED
    BY <2>1, <2>2
<1>13. PICK last : last = IF A = {} THEN 0 ELSE Max({q.poll : q \in A})
  OBVIOUS
<1>14. Max({q.poll : q \in A \cup {o}}) = Max({last, o.poll})
  <2> DEFINE P == {q.poll : q \in A}
  <2>1. {q.poll : q \in A \cup {o}} = P \cup {o.poll}
    OBVIOUS
  <2>2. CASE A = {}
    <3>1. PICK p \in Nat : p = o.poll
      BY <1>4
    <3>2. P = {} /\ last = 0
      BY <1>13, <2>2
    <3>3. p \in Int /\ 0 \in Int
      OBVIOUS
    <3>4. Max({p, p}) = p /\ Max({0, p}) = p
      <4>1. Max({p, p}) \in {p, p}
        BY <3>3, MaxOfTwo
      <4>2. Max({0, p}) \in {0, p} /\ Max({0, p}) >= p
        BY <3>3, MaxOfTwo
      <4>3. QED
        BY <4>1, <4>2
    <3>5. Max({p}) = p
      BY <3>4
    <3>6. P \cup {p} = {p}
      BY <3>2
    <3> HIDE DEF P
    <3>7. QED
      BY <2>1, <3>1, <3>2, <3>4, <3>5, <3>6
  <2>3. CASE A # {}
    <3>1. IsFiniteSet(P) /\ P \subseteq Int /\ P # {}
      <4>1. \A q \in A : q.poll \in Int
        BY DEF LoadRows
      <4>2. IsFiniteSet(P)
        BY FieldsFinite
      <4>3. QED
        BY <2>3, <4>1, <4>2
    <3>2. Max(P \cup {o.poll}) = Max({Max(P), o.poll})
      BY <1>4, <3>1, MaxAdds
    <3>3. QED
      BY <1>13, <2>1, <2>3, <3>2
  <2>4. QED
    BY <2>2, <2>3
<1>15. PICK r : r = IF A = {} THEN EmptyHour(h, c) ELSE RowOf(A, h, c)
  OBVIOUS
<1>16. r = [hour |-> h, channel |-> c, polls |-> n, clientsPolls |-> k, clientsMax |-> max, clientsSum |-> sum, last |-> last]
  <2>1. CASE A = {}
    <3>1. known = {} /\ n = 0 /\ k = 0 /\ sum = Null /\ max = Null /\ last = 0
      BY <1>7, <1>9, <1>11, <1>13, <2>1
    <3>2. QED
      BY <1>15, <2>1, <3>1 DEF EmptyHour
  <2>2. CASE A # {}
    BY <1>5, <1>6, <1>9, <1>11, <1>13, <1>15, <2>2 DEF RowOf
  <2>3. QED
    BY <2>1, <2>2
<1>17. PICK d, max2, sum2, last2 :
         /\ d = (IF o.clients = Null THEN 0 ELSE 1) /\ max2 = KnownMax(max, o.clients)
         /\ sum2 = KnownSum(sum, o.clients) /\ last2 = Max({last, o.poll})
  OBVIOUS
<1>18. RowOf(A \cup {o}, h, c) =
         [hour |-> h, channel |-> c, polls |-> n + 1, clientsPolls |-> k + d,
          clientsMax |-> max2, clientsSum |-> sum2, last |-> last2]
  BY Zenon, <1>7, <1>8, <1>10, <1>12, <1>14, <1>17 DEF RowOf
<1> HIDE DEF known, more, total
<1>19. OneMore(r, o) =
         [r EXCEPT !.polls = n + 1, !.clientsPolls = k + d, !.clientsMax = max2, !.clientsSum = sum2, !.last = last2]
  <2>1. r.polls = n /\ r.clientsPolls = k /\ r.clientsMax = max /\ r.clientsSum = sum /\ r.last = last
    BY <1>16
  <2>2. OneMore(r, o) =
         [r EXCEPT !.polls = r.polls + 1, !.clientsPolls = r.clientsPolls + d,
                   !.clientsMax = KnownMax(r.clientsMax, o.clients),
                   !.clientsSum = KnownSum(r.clientsSum, o.clients), !.last = Max({r.last, o.poll})]
    BY <1>16, <1>17 DEF OneMore
  <2>3. QED
    BY <1>17, <2>1, <2>2
<1>20. OneMore(r, o) =
         [hour |-> h, channel |-> c, polls |-> n + 1, clientsPolls |-> k + d,
          clientsMax |-> max2, clientsSum |-> sum2, last |-> last2]
  BY <1>16, <1>19
<1>21. QED
  BY <1>15, <1>18, <1>20

-----------------------------------------------------------------------------
(* The hourly load.                                                         *)

\* The observations of an hour and a channel, their row, and all these rows.
At(D, hour, channel) == {o \in D : Hour(o.poll) = hour /\ o.channel = channel}
HourRow(D, hour, channel) == RowOf(At(D, hour, channel), hour, channel)
Hourly(D) == {HourRow(D, k[1], k[2]) : k \in {<<Hour(o.poll), o.channel>> : o \in D}}

LEMMA HourlyHas ==
  ASSUME NEW D
  PROVE  /\ \A o \in D : HourRow(D, Hour(o.poll), o.channel) \in Hourly(D)
         /\ \A r \in Hourly(D) : \E o \in D : r = HourRow(D, Hour(o.poll), o.channel)
<1>1. ASSUME NEW o \in D PROVE HourRow(D, Hour(o.poll), o.channel) \in Hourly(D)
  <2>1. PICK k : k = <<Hour(o.poll), o.channel>>
    OBVIOUS
  <2>2. k[1] = Hour(o.poll) /\ k[2] = o.channel /\ k \in {<<Hour(q.poll), q.channel>> : q \in D}
    BY <2>1
  <2>3. QED
    BY <2>2 DEF Hourly
<1>2. ASSUME NEW r \in Hourly(D) PROVE \E o \in D : r = HourRow(D, Hour(o.poll), o.channel)
  <2>1. PICK k \in {<<Hour(o.poll), o.channel>> : o \in D} : r = HourRow(D, k[1], k[2])
    BY DEF Hourly
  <2>2. PICK o \in D : k = <<Hour(o.poll), o.channel>>
    BY <2>1
  <2>3. k[1] = Hour(o.poll) /\ k[2] = o.channel
    BY <2>2
  <2>4. QED
    BY <2>1, <2>3
<1>3. QED
  BY <1>1, <1>2

LEMMA HourRowKey ==
  ASSUME NEW D, NEW h, NEW c
  PROVE  HourRow(D, h, c).hour = h /\ HourRow(D, h, c).channel = c
BY Zenon DEF HourRow, RowOf

LEMMA WriteIs ==
  ASSUME NEW D, IsFiniteSet(D), D \subseteq LoadRows, NEW o \in LoadRows, o \notin D
  PROVE  WriteLoad(Hourly(D), o) = Hourly(D \cup {o})
<1>1. PICK h, c : h = Hour(o.poll) /\ c = o.channel
  OBVIOUS
<1>2. PICK table, more : table = Hourly(D) /\ more = Hourly(D \cup {o})
  OBVIOUS
<1>3. PICK A : A = At(D, h, c)
  OBVIOUS
<1>4. PICK same : same = {r \in table : r.hour = h /\ r.channel = c}
  OBVIOUS
<1>5. PICK new : new = OneMore(IF same = {} THEN EmptyHour(h, c) ELSE CHOOSE q \in same : TRUE, o)
  OBVIOUS
<1>6. WriteLoad(table, o) = (table \ same) \cup {new}
  BY <1>1, <1>4, <1>5 DEF WriteLoad, OneMore, EmptyHour
<1>7. A # {} => same = {RowOf(A, h, c)}
  <2> SUFFICES ASSUME A # {} PROVE same = {RowOf(A, h, c)}
    OBVIOUS
  <2>1. PICK q \in D : Hour(q.poll) = h /\ q.channel = c
    BY <1>3 DEF At
  <2>2. RowOf(A, h, c) = HourRow(D, h, c)
    BY <1>3 DEF HourRow
  <2>3. HourRow(D, h, c) \in same
    BY <1>2, <1>4, <2>1, HourlyHas, HourRowKey
  <2>4. ASSUME NEW r \in same PROVE r = HourRow(D, h, c)
    <3>1. PICK p \in D : r = HourRow(D, Hour(p.poll), p.channel)
      BY <1>2, <1>4, HourlyHas
    <3>2. Hour(p.poll) = h /\ p.channel = c
      BY <1>4, <3>1, HourRowKey
    <3>3. QED
      BY <3>1, <3>2
  <2>5. QED
    BY <2>2, <2>3, <2>4
<1>8. A = {} => same = {}
  <2>1. ASSUME NEW r \in same PROVE A # {}
    <3>1. PICK p \in D : r = HourRow(D, Hour(p.poll), p.channel)
      BY <1>2, <1>4, HourlyHas
    <3>2. Hour(p.poll) = h /\ p.channel = c
      BY <1>4, <3>1, HourRowKey
    <3>3. p \in A
      BY <1>3, <3>2 DEF At
    <3>4. QED
      BY <3>3
  <2>2. QED
    BY <2>1
<1>9. new = RowOf(A \cup {o}, h, c)
  <2>1. IsFiniteSet(A) /\ A \subseteq LoadRows /\ o \notin A
    <3>1. A \subseteq D
      BY <1>3 DEF At
    <3>2. QED
      BY <3>1, FS_Subset
  <2>2. RowOf(A \cup {o}, h, c) = OneMore(IF A = {} THEN EmptyHour(h, c) ELSE RowOf(A, h, c), o)
    BY <2>1, RowAdds
  <2>3. (IF same = {} THEN EmptyHour(h, c) ELSE CHOOSE q \in same : TRUE)
          = IF A = {} THEN EmptyHour(h, c) ELSE RowOf(A, h, c)
    <3>1. CASE A = {}
      BY <1>8, <3>1
    <3>2. CASE A # {}
      <4>1. PICK s : s = RowOf(A, h, c)
        OBVIOUS
      <4>2. same = {s} /\ same # {}
        BY <1>7, <3>2, <4>1
      <4>3. (CHOOSE q \in same : TRUE) = s
        BY <4>2
      <4>4. QED
        BY <3>2, <4>1, <4>2, <4>3
    <3>3. QED
      BY <3>1, <3>2
  <2>4. QED
    BY <1>5, <2>2, <2>3
<1>10. HourRow(D \cup {o}, h, c) = new
  <2>1. At(D \cup {o}, h, c) = A \cup {o}
    BY <1>1, <1>3 DEF At
  <2>2. QED
    BY <1>9, <2>1 DEF HourRow
<1>11. \A g, d : ~(g = h /\ d = c) => HourRow(D \cup {o}, g, d) = HourRow(D, g, d)
  <2>1. SUFFICES ASSUME NEW g, NEW d, ~(g = h /\ d = c)
                 PROVE  HourRow(D \cup {o}, g, d) = HourRow(D, g, d)
    OBVIOUS
  <2>2. At(D \cup {o}, g, d) = At(D, g, d)
    BY <1>1, <2>1 DEF At
  <2>3. QED
    BY <2>2 DEF HourRow
<1>12. new \in more
  <2>1. o \in D \cup {o}
    OBVIOUS
  <2>2. QED
    BY <1>1, <1>2, <1>10, <2>1, HourlyHas
<1>13. ASSUME NEW r \in table, r \notin same PROVE r \in more
  <2>1. PICK p \in D : r = HourRow(D, Hour(p.poll), p.channel)
    BY <1>2, HourlyHas
  <2>2. r.hour = Hour(p.poll) /\ r.channel = p.channel
    BY <2>1, HourRowKey
  <2>3. ~(Hour(p.poll) = h /\ p.channel = c)
    BY <1>4, <1>13, <2>2
  <2>4. r = HourRow(D \cup {o}, Hour(p.poll), p.channel) /\ p \in D \cup {o}
    BY <1>11, <2>1, <2>3
  <2>5. QED
    BY <1>2, <2>4, HourlyHas
<1>14. ASSUME NEW r \in more PROVE r \in (table \ same) \cup {new}
  <2>1. PICK p \in D \cup {o} : r = HourRow(D \cup {o}, Hour(p.poll), p.channel)
    BY <1>2, HourlyHas
  <2>2. CASE Hour(p.poll) = h /\ p.channel = c
    BY <1>10, <2>1, <2>2
  <2>3. CASE ~(Hour(p.poll) = h /\ p.channel = c)
    <3>1. r = HourRow(D, Hour(p.poll), p.channel) /\ p \in D
      BY <1>1, <1>11, <2>1, <2>3
    <3>2. r.hour = Hour(p.poll) /\ r.channel = p.channel /\ r \in table
      BY <1>2, <3>1, HourRowKey, HourlyHas
    <3>3. QED
      BY <1>4, <2>3, <3>2
  <2>4. QED
    BY <2>2, <2>3
<1>15. QED
  BY <1>2, <1>6, <1>12, <1>13, <1>14

\* Writing the rows that waited, in any order, makes the table of all of them.
LEMMA FoldedIs ==
  ASSUME NEW D, IsFiniteSet(D), D \subseteq LoadRows,
         NEW W, IsFiniteSet(W), W \subseteq LoadRows, D \cap W = {}
  PROVE  Folded(Hourly(D), W) = Hourly(D \cup W)
<1>1. PICK base : base = Hourly(D)
  OBVIOUS
<1> DEFINE Entry(k, t) == IF t = {} THEN base
                          ELSE WriteLoad(k[t \ {CHOOSE x \in t : TRUE}], CHOOSE x \in t : TRUE)
           IsFold(k) == k = [t \in SUBSET W |-> Entry(k, t)]
           f == CHOOSE k : IsFold(k)
           g == [t \in SUBSET W |-> Hourly(D \cup t)]
<1>2. Folded(base, W) = f[W]
  BY Zenon DEF Folded, FoldSet, MapThenFoldSet
<1>3. \A t \in SUBSET W : g[t] = Entry(g, t)
  <2>1. ASSUME NEW t \in SUBSET W, t # {} PROVE g[t] = Entry(g, t)
    <3>1. PICK c : c = CHOOSE x \in t : TRUE
      OBVIOUS
    <3>2. c \in t
      BY <2>1, <3>1
    <3>3. PICK E : E = D \cup (t \ {c})
      OBVIOUS
    <3>4. IsFiniteSet(E) /\ E \subseteq LoadRows /\ c \notin E /\ c \in LoadRows
      <4>1. IsFiniteSet(t \ {c})
        BY FS_Subset
      <4>2. QED
        BY <3>2, <3>3, <4>1, FS_Union
    <3>5. WriteLoad(Hourly(E), c) = Hourly(E \cup {c})
      BY <3>4, WriteIs
    <3>6. E \cup {c} = D \cup t
      BY <3>2, <3>3
    <3>7. t \ {c} \in SUBSET W
      OBVIOUS
    <3>8. g[t] = Hourly(D \cup t) /\ g[t \ {c}] = Hourly(E)
      BY <3>3, <3>7
    <3>9. QED
      BY <2>1, <3>1, <3>5, <3>6, <3>8
  <2>2. g[{}] = Entry(g, {})
    <3>1. D \cup {} = D
      OBVIOUS
    <3>2. QED
      BY <1>1, <3>1
  <2>3. QED
    BY <2>1, <2>2
<1>4. IsFold(g)
  <2> HIDE DEF Entry
  <2>1. g = [t \in SUBSET W |-> g[t]]
    OBVIOUS
  <2> HIDE DEF g
  <2>2. QED
    BY <1>3, <2>1
<1>5. IsFold(f)
  <2> HIDE DEF IsFold
  <2>1. QED
    BY <1>4
<1>6. \A t \in SUBSET W : f[t] = Entry(f, t)
  <2> HIDE DEF Entry, f
  <2>1. QED
    BY <1>5
<1> HIDE DEF f, g, IsFold
<1> DEFINE X == {T \in SUBSET W : f[T] # g[T]}
<1>7. X = {}
  <2> SUFFICES ASSUME X # {} PROVE FALSE
    OBVIOUS
  <2>1. PICK T \in X : \A x \in T : T \ {x} \notin X
    BY SmallestSet
  <2>2. f[T] = Entry(f, T) /\ g[T] = Entry(g, T)
    BY <1>3, <1>6
  <2>3. T # {}
    BY <2>1, <2>2
  <2>4. PICK c : c = CHOOSE x \in T : TRUE
    OBVIOUS
  <2>5. c \in T
    BY <2>3, <2>4
  <2>6. f[T \ {c}] = g[T \ {c}]
    BY <2>1, <2>5
  <2>7. QED
    BY <2>1, <2>2, <2>3, <2>4, <2>6
<1>8. f[W] = g[W] /\ g[W] = Hourly(D \cup W)
  BY <1>7 DEF g
<1>9. QED
  BY <1>1, <1>2, <1>8

\* The observations' rows, and those whose time is certain.
Rows == {o.row : o \in observed}
Done == {o \in Rows : Settled(o)}
Exact == load = Hourly(Done) /\ pending = Rows \ Done

LoadTypes ==
  /\ IsFiniteSet(observed) /\ frame.beacon.clients \in Nat \cup {Null}
  /\ \A o \in observed : o.row \in LoadRows /\ \E p \in polls : p.id = o.row.poll
  /\ \A p \in polls : p.id \in 1 .. now /\ p.boot \in 1 .. boot
  /\ \A p, q \in polls : p.id = q.id => p = q
  /\ ntp \subseteq 1 .. boot /\ anchors \subseteq 1 .. boot
  /\ boot \in ntp => synced

\* An hour with polls that were placed by the server's time.
Anchored(hour) == \E p \in polls : p.boot \in anchors /\ ~p.synced /\ Hour(p.id) = hour

\* A cursor has passed the load of every poll it has passed, but for those
\* that can never be placed any more; of the running boot, only polls that the
\* server's time has placed.
CursorOK(c) ==
  /\ c.polls \in 0 .. now /\ c.load \in 0 .. now
  /\ \A p \in polls : p.id <= c.polls =>
       p.id <= c.load \/ (p.boot # boot /\ ~p.synced /\ p.boot \notin ntp)
  /\ \A p \in polls : p.id <= c.load /\ p.boot = boot /\ ~p.synced /\ boot \notin ntp => boot \in anchors

\* What the cursor has passed is among the rows; and rows hold nothing but
\* older states of the buffer's hours.
Reached(c, rows) == \A r \in load : r.last <= c.load => r \in rows \/ Anchored(r.hour)
Older(rows) ==
  \A q \in rows : q.polls \in Nat /\ \E r \in load : SameHour(q, r) /\ (q = r \/ q.polls < r.polls)

LoadInv ==
  /\ LoadTypes /\ Exact
  /\ CursorOK(cursor) /\ CursorOK(open.new)
  /\ Reached(cursor, server.load) /\ Reached(open.new, server.load \cup open.rows.load)
  /\ Older(server.load) /\ Older(open.rows.load) /\ \A rows \in late : Older(rows.load)

LEMMA ExactIs == Exact <=> LoadIsExact
BY Zenon DEF Exact, LoadIsExact, Hourly, HourRow, At, Rows, Done

LEMMA RowsFinite ==
  ASSUME LoadTypes
  PROVE  IsFiniteSet(Rows) /\ Rows \subseteq LoadRows /\ IsFiniteSet(Done) /\ Done \subseteq Rows
<1>1. IsFiniteSet(Rows)
  BY FieldsFinite DEF Rows, LoadTypes
<1>2. Done \subseteq Rows
  BY DEF Done
<1>3. QED
  BY <1>1, <1>2, FS_Subset DEF Rows, LoadTypes

LEMMA LoadTypesPoll ==
  ASSUME HearInv, ConfInv, LoadTypes, Poll \/ PollFails
  PROVE  LoadTypes'
<1>1. PICK n \in Nat, b \in Nat : n = now /\ b = boot /\ b >= 1
  BY DEF HearInv, TimesOK
<1>2. /\ now' = n + 1 /\ boot' = b /\ synced' = synced /\ frame' = frame /\ anchors' = anchors
      /\ polls' = polls \cup {[id |-> n + 1, boot |-> b, synced |-> synced]}
  BY <1>1 DEF Poll, PollFails, NewPoll, clockVars, uploadVars
<1>3. ntp' = ntp \/ (ntp' = ntp \cup {b} /\ synced)
  BY <1>1 DEF Poll, PollFails
<1>4. \/ observed' = observed
      \/ \E o : /\ observed' = observed \cup {o}
                /\ o.row \in LoadRows /\ o.row.poll = n + 1
  <2>1. CASE Poll /\ Returned /\ IsNew
    <3>1. PICK merged : merged = IF device.known THEN MergeConfig(device.conf, frame.beacon.conf) ELSE frame.beacon.conf
      OBVIOUS
    <3>2. merged \in [Fields -> Int]
      BY <3>1 DEF ConfInv, ConfTypes, MergeConfig
    <3>3. PICK new : new = [poll |-> n + 1, channel |-> merged["channel"], clients |-> frame.beacon.clients]
      OBVIOUS
    <3>4. new \in LoadRows /\ new.poll = n + 1
      BY <3>2, <3>3 DEF LoadRows, LoadTypes, Fields
    <3>5. observed' = observed \cup {[row |-> new, conf |-> frame.beacon.conf]}
      BY <1>1, <2>1, <3>1, <3>3 DEF Poll, WriteDevice
    <3>6. PICK o : o = [row |-> new, conf |-> frame.beacon.conf]
      OBVIOUS
    <3>7. o.row = new
      BY <3>6
    <3>8. QED
      BY <3>4, <3>5, <3>6, <3>7
  <2>2. CASE ~(Poll /\ Returned /\ IsNew)
    BY <2>2 DEF Poll, PollFails, WriteDevice, NoRecord
  <2>3. QED
    BY <2>1, <2>2
<1>5. \A p \in polls' : p \in polls \/ (p.id = n + 1 /\ p.boot = b)
  BY <1>2
<1>6. \A p \in polls : p.id \in 1 .. n /\ p.boot \in 1 .. b
  BY <1>1 DEF LoadTypes
<1>7. \A p \in polls' : p.id \in 1 .. n + 1 /\ p.boot \in 1 .. b
  BY <1>1, <1>5, <1>6
<1>8. \A p, q \in polls' : p.id = q.id => p = q
  <2>1. ASSUME NEW p \in polls', NEW q \in polls', p.id = q.id PROVE p = q
    <3>1. CASE p \in polls /\ q \in polls
      BY <2>1, <3>1 DEF LoadTypes
    <3>2. CASE p \notin polls /\ q \notin polls
      BY <1>2, <3>2
    <3>3. CASE (p \in polls) # (q \in polls)
      BY <1>5, <1>6, <2>1, <3>3
    <3>4. QED
      BY <3>1, <3>2, <3>3
  <2>2. QED
    BY <2>1
<1>9. \E p \in polls' : p.id = n + 1
  <2>1. PICK p : p = [id |-> n + 1, boot |-> b, synced |-> synced]
    OBVIOUS
  <2>2. p \in polls' /\ p.id = n + 1
    BY <1>2, <2>1
  <2>3. QED
    BY <2>2
<1>10. IsFiniteSet(observed') /\ \A o \in observed' : o.row \in LoadRows /\ \E p \in polls' : p.id = o.row.poll
  <2>1. polls \subseteq polls'
    BY <1>2
  <2>2. CASE observed' = observed
    BY <2>1, <2>2 DEF LoadTypes
  <2>3. CASE observed' # observed
    <3>1. PICK o : observed' = observed \cup {o} /\ o.row \in LoadRows /\ o.row.poll = n + 1
      BY <1>4, <2>3
    <3>2. IsFiniteSet(observed')
      BY <3>1, FS_AddElement DEF LoadTypes
    <3>3. QED
      BY <1>9, <2>1, <3>1, <3>2 DEF LoadTypes
  <2>4. QED
    BY <2>2, <2>3
<1>11. ntp' \subseteq 1 .. b /\ anchors' \subseteq 1 .. b /\ (b \in ntp' => synced)
  <2>1. b \in 1 .. b
    BY <1>1
  <2>2. QED
    BY <1>1, <1>2, <1>3, <2>1 DEF LoadTypes
<1>12. frame'.beacon.clients \in Nat \cup {Null}
  BY <1>2 DEF LoadTypes
<1>13. QED
  BY <1>2, <1>7, <1>8, <1>10, <1>11, <1>12 DEF LoadTypes

\* What a poll adds to the rows, and what becomes certain with it: its own row
\* when the clock is right, and what waited for the boot's anchor.
LEMMA PollExact ==
  ASSUME HearInv, ConfInv, LoadTypes, LoadTypes', Exact, Poll \/ PollFails
  PROVE  /\ Exact'
         /\ Done \subseteq Done'
         /\ \A o \in Done' : \/ o \in Done \/ o.poll = now + 1
                             \/ boot \notin ntp /\ \E p \in polls : p.id = o.poll /\ p.boot = boot /\ ~p.synced
<1>1. PICK n, b : n \in Nat /\ n = now /\ b = boot
  BY DEF HearInv, TimesOK
<1>2. PICK pn : pn = [id |-> n + 1, boot |-> b, synced |-> synced]
  OBVIOUS
<1>3. pn.id = n + 1 /\ pn.boot = b /\ pn.synced = synced /\ polls' = polls \cup {pn}
  BY <1>1, <1>2 DEF Poll, PollFails, NewPoll
<1>4. \A p \in polls : p.id \in 1 .. n
  BY <1>1 DEF LoadTypes
<1>5. PICK new :
        new = [poll |-> n + 1,
               channel |-> (IF device.known THEN MergeConfig(device.conf, frame.beacon.conf) ELSE frame.beacon.conf)["channel"],
               clients |-> frame.beacon.clients]
  OBVIOUS
<1>6. new.poll = n + 1
  BY <1>5
<1>7. PICK N : N = IF Poll /\ Returned /\ IsNew THEN {new} ELSE {}
  OBVIOUS
<1>8. Rows' = Rows \cup N
  <2>1. CASE Poll /\ Returned /\ IsNew
    <3>1. observed' = observed \cup {[row |-> new, conf |-> frame.beacon.conf]}
      BY <1>1, <1>5, <2>1 DEF Poll, WriteDevice
    <3>2. PICK o : o = [row |-> new, conf |-> frame.beacon.conf]
      OBVIOUS
    <3>3. o.row = new /\ observed' = observed \cup {o}
      BY <3>1, <3>2
    <3>4. QED
      BY <1>7, <2>1, <3>3 DEF Rows
  <2>2. CASE ~(Poll /\ Returned /\ IsNew)
    <3>1. observed' = observed
      BY <2>2 DEF Poll, PollFails, WriteDevice, NoRecord
    <3>2. QED
      BY <1>7, <2>2, <3>1 DEF Rows
  <2>3. QED
    BY <2>1, <2>2
<1>9. \A o \in Rows : o.poll \in 1 .. n /\ o.poll # n + 1 /\ \E p \in polls : p.id = o.poll
  <2>1. ASSUME NEW o \in Rows PROVE \E p \in polls : p.id = o.poll
    BY DEF Rows, LoadTypes
  <2>2. n + 1 \notin 1 .. n
    BY <1>1
  <2>3. QED
    BY <1>4, <2>1, <2>2
<1>10. PICK anchor \in BOOLEAN : anchor = (Poll /\ synced /\ boot \notin ntp)
  OBVIOUS
<1>11. ntp' = IF anchor THEN ntp \cup {b} ELSE ntp
  BY <1>1, <1>10 DEF Poll, PollFails
<1>12. PICK W : W = IF anchor THEN {o \in pending : o.poll \in PollsOf(boot)} ELSE {}
  OBVIOUS
<1>13. PICK S : S = IF synced THEN N ELSE {}
  OBVIOUS
<1>14. \A o \in N : (Settled(o))' <=> synced
  <2>1. SUFFICES ASSUME Poll, Returned, IsNew PROVE (Settled(new))' <=> synced
    BY <1>7
  <2>2. pn \in polls' /\ pn.id = new.poll
    BY <1>3, <1>6
  <2>3. \A p \in polls' : p.id = new.poll => p = pn
    BY <2>2 DEF LoadTypes
  <2>4. (Settled(new))' <=> (synced \/ b \in ntp')
    BY <1>3, <2>2, <2>3 DEF Settled
  <2>5. b \in ntp' => synced
    BY <1>1, <1>10, <1>11 DEF LoadTypes
  <2>6. QED
    BY <2>4, <2>5
<1>15. ASSUME NEW o \in Rows PROVE (Settled(o))' <=> Settled(o) \/ (anchor /\ o.poll \in PollsOf(boot))
  <2>1. PICK p \in polls : p.id = o.poll
    BY <1>9
  <2>2. \A q \in polls' : q.id = o.poll => q = p
    BY <1>3, <2>1 DEF LoadTypes
  <2>3. (Settled(o))' <=> (p.synced \/ p.boot \in ntp')
    BY <1>3, <2>1, <2>2 DEF Settled
  <2>4. Settled(o) <=> (p.synced \/ p.boot \in ntp)
    BY <1>3, <2>1, <2>2 DEF Settled
  <2>5. o.poll \in PollsOf(boot) <=> p.boot = b
    BY <1>1, <1>3, <2>1, <2>2 DEF PollsOf
  <2>6. QED
    BY <1>11, <2>3, <2>4, <2>5
<1>16. Done' = (Done \cup S) \cup W
  <2>1. \A o : o \in Done' <=> o \in Rows' /\ (Settled(o))'
    BY DEF Done
  <2>2. W \subseteq Rows /\ \A o \in Rows : o \in W <=> anchor /\ o \notin Done /\ o.poll \in PollsOf(boot)
    BY <1>12 DEF Exact
  <2>3. \A o \in Rows : o \in Done <=> Settled(o)
    BY DEF Done
  <2>4. \A o \in N : o \notin Rows
    BY <1>6, <1>7, <1>9
  <2>5. Done \subseteq Rows
    BY DEF Done
  <2>6. \A o \in Rows : o \in Done' <=> o \in (Done \cup S) \cup W
    BY <1>8, <1>13, <1>15, <2>1, <2>2, <2>3, <2>4
  <2>7. \A o \in N : o \in Done' <=> o \in (Done \cup S) \cup W
    BY <1>8, <1>13, <1>14, <2>1, <2>2, <2>4, <2>5
  <2>8. Done' \subseteq Rows \cup N /\ (Done \cup S) \cup W \subseteq Rows \cup N
    BY <1>8, <1>13, <2>1, <2>2, <2>5
  <2>9. QED
    BY <2>6, <2>7, <2>8
<1>17. PICK direct : direct = IF S = {} THEN load ELSE WriteLoad(load, new)
  OBVIOUS
<1>18. pending' = (pending \cup (N \ S)) \ W /\ load' = IF anchor THEN Folded(direct, W) ELSE direct
  <2>1. CASE ~Poll
    <3>1. N = {} /\ ~anchor /\ S = {} /\ W = {}
      BY <1>7, <1>10, <1>12, <1>13, <2>1
    <3>2. UNCHANGED <<load, pending>>
      BY <2>1 DEF PollFails
    <3>3. QED
      BY <1>17, <3>1, <3>2
  <2>2. CASE Poll /\ ~Returned
    <3>1. N = {} /\ S = {} /\ direct = load
      BY <1>7, <1>13, <1>17, <2>2
    <3>2. /\ load' = IF anchor THEN Folded(load, {o \in pending : o.poll \in PollsOf(boot)}) ELSE load
          /\ pending' = IF anchor THEN pending \ {o \in pending : o.poll \in PollsOf(boot)} ELSE pending
      BY <1>10, <2>2 DEF Poll, NoRecord
    <3>3. QED
      BY <1>12, <3>1, <3>2
  <2>3. CASE Poll /\ Returned
    <3>1. PICK kept : kept = IF IsNew /\ ~synced THEN pending \cup {new} ELSE pending
      OBVIOUS
    <3>2. PICK waits : waits = {o \in kept : o.poll \in PollsOf(boot)}
      OBVIOUS
    <3>3. direct = IF IsNew /\ synced THEN WriteLoad(load, new) ELSE load
      BY <1>7, <1>13, <1>17, <2>3
    <3>4. /\ load' = IF anchor THEN Folded(direct, waits) ELSE direct
          /\ pending' = IF anchor THEN kept \ waits ELSE kept
      BY <1>1, <1>5, <1>10, <2>3, <3>1, <3>2, <3>3 DEF Poll, WriteDevice
    <3>5. kept = pending \cup (N \ S)
      BY <1>7, <1>13, <2>3, <3>1
    <3>6. anchor => W = waits
      BY <1>10, <1>12, <3>1, <3>2
    <3>7. QED
      BY <1>12, <3>4, <3>5, <3>6
  <2>4. QED
    BY <2>1, <2>2, <2>3
<1>19. /\ IsFiniteSet(Done) /\ Done \subseteq LoadRows /\ IsFiniteSet(Rows') /\ Rows' \subseteq LoadRows
       /\ Done \subseteq Rows
  <2>1. IsFiniteSet(Rows') /\ Rows' \subseteq LoadRows
    BY FieldsFinite DEF Rows, LoadTypes
  <2>2. QED
    BY <2>1, RowsFinite
<1>20. W \subseteq Rows \ Done /\ W \subseteq Rows' /\ IsFiniteSet(W) /\ W \subseteq LoadRows
  <2>1. W \subseteq Rows \ Done /\ W \subseteq Rows'
    BY <1>8, <1>12 DEF Exact
  <2>2. QED
    BY <1>19, <2>1, FS_Subset
<1>21. direct = Hourly(Done \cup S) /\ IsFiniteSet(Done \cup S) /\ Done \cup S \subseteq LoadRows
  <2>1. CASE S = {}
    BY <1>17, <1>19, <2>1 DEF Exact
  <2>2. CASE S # {}
    <3>1. S = {new} /\ N = {new}
      BY <1>7, <1>13, <2>2
    <3>2. new \in LoadRows /\ new \notin Done
      BY <1>6, <1>8, <1>9, <1>19, <3>1
    <3>3. WriteLoad(Hourly(Done), new) = Hourly(Done \cup {new})
      BY <1>19, <3>2, WriteIs
    <3>4. IsFiniteSet(Done \cup {new})
      BY <1>19, FS_AddElement
    <3>5. QED
      BY <1>17, <1>19, <2>2, <3>1, <3>2, <3>3, <3>4 DEF Exact
  <2>3. QED
    BY <2>1, <2>2
<1>22. load' = Hourly(Done')
  <2>1. (Done \cup S) \cap W = {}
    BY <1>6, <1>7, <1>9, <1>13, <1>20
  <2>2. Folded(Hourly(Done \cup S), W) = Hourly((Done \cup S) \cup W)
    BY <1>20, <1>21, <2>1, FoldedIs
  <2>3. CASE anchor
    BY <1>16, <1>18, <1>21, <2>2, <2>3
  <2>4. CASE ~anchor
    <3>1. (Done \cup S) \cup W = Done \cup S
      BY <1>12, <2>4
    <3>2. QED
      BY <1>16, <1>18, <1>21, <2>4, <3>1
  <2>5. QED
    BY <2>3, <2>4
<1>23. pending' = Rows' \ Done'
  <2>1. pending = Rows \ Done /\ N \cap Rows = {} /\ S \subseteq N
    BY <1>6, <1>7, <1>9, <1>13 DEF Exact
  <2>2. QED
    BY <1>8, <1>16, <1>18, <1>19, <1>20, <2>1
<1>24. ASSUME NEW o \in Done'
       PROVE  \/ o \in Done \/ o.poll = now + 1
              \/ boot \notin ntp /\ \E p \in polls : p.id = o.poll /\ p.boot = boot /\ ~p.synced
  <2>1. CASE o \in S
    BY <1>1, <1>6, <1>7, <1>13, <2>1
  <2>2. CASE o \in W
    <3>1. o \in Rows /\ o \notin Done /\ boot \notin ntp /\ o.poll \in PollsOf(boot)
      BY <1>10, <1>12, <1>20, <2>2
    <3>2. PICK p \in polls : p.id = o.poll /\ p.boot = boot
      BY <3>1 DEF PollsOf
    <3>3. ~p.synced
      BY <3>1, <3>2 DEF Done, Settled
    <3>4. QED
      BY <3>1, <3>2, <3>3
  <2>3. QED
    BY <1>16, <2>1, <2>2
<1>25. QED
  BY <1>16, <1>22, <1>23, <1>24 DEF Exact

-----------------------------------------------------------------------------
(* What the server has of it.                                               *)

LEMMA HourlyNumbers ==
  ASSUME NEW D, IsFiniteSet(D), D \subseteq LoadRows
  PROVE  \A r \in Hourly(D) : r.polls \in Nat /\ \E o \in D : o.poll = r.last /\ Hour(o.poll) = r.hour
<1>1. ASSUME NEW r \in Hourly(D) PROVE r.polls \in Nat /\ \E o \in D : o.poll = r.last /\ Hour(o.poll) = r.hour
  <2>1. PICK o \in D : r = HourRow(D, Hour(o.poll), o.channel)
    BY HourlyHas
  <2>2. PICK A : A = At(D, Hour(o.poll), o.channel)
    OBVIOUS
  <2>3. r.polls = Cardinality(A) /\ r.last = Max({q.poll : q \in A}) /\ r.hour = Hour(o.poll)
    BY Zenon, <2>1, <2>2 DEF HourRow, RowOf
  <2>4. A \subseteq D /\ o \in A /\ \A q \in A : Hour(q.poll) = Hour(o.poll)
    BY <2>2 DEF At
  <2>5. IsFiniteSet(A) /\ A \subseteq LoadRows
    BY <2>4, FS_Subset
  <2>6. Max({q.poll : q \in A}) \in {q.poll : q \in A}
    <3>1. IsFiniteSet({q.poll : q \in A})
      BY <2>5, FieldsFinite
    <3>2. {q.poll : q \in A} \subseteq Int /\ {q.poll : q \in A} # {}
      BY <2>4, <2>5 DEF LoadRows
    <3>3. QED
      BY <3>1, <3>2, MaxOfFinite
  <2>7. QED
    BY <2>3, <2>4, <2>5, <2>6, FS_CardinalityType
<1>2. QED
  BY <1>1

\* One row per hour and channel, and its times are those of its observations.
LEMMA LoadFacts ==
  ASSUME LoadTypes, Exact
  PROVE  /\ \A r, q \in load : SameHour(r, q) => r = q
         /\ \A r \in load : r.polls \in Nat /\ \E o \in Done : o.poll = r.last /\ Hour(o.poll) = r.hour
<1>1. ASSUME NEW r \in load, NEW q \in load, SameHour(r, q) PROVE r = q
  <2>1. PICK o \in Done : r = HourRow(Done, Hour(o.poll), o.channel)
    BY HourlyHas DEF Exact
  <2>2. PICK p \in Done : q = HourRow(Done, Hour(p.poll), p.channel)
    BY HourlyHas DEF Exact
  <2>3. Hour(o.poll) = Hour(p.poll) /\ o.channel = p.channel
    BY <1>1, <2>1, <2>2, HourRowKey DEF SameHour
  <2>4. QED
    BY <2>1, <2>2, <2>3
<1>2. \A r \in load : r.polls \in Nat /\ \E o \in Done : o.poll = r.last /\ Hour(o.poll) = r.hour
  BY RowsFinite, HourlyNumbers DEF Exact
<1>3. QED
  BY <1>1, <1>2

\* A row stays or counts more polls; one that changed is later than what made
\* it change.
LEMMA LoadGrows ==
  ASSUME LoadTypes, Exact, LoadTypes', Exact', Done \subseteq Done'
  PROVE  /\ \A r \in load : \E q \in load' : SameHour(r, q) /\ (r = q \/ r.polls < q.polls)
         /\ \A q \in load' : q \in load \/ \E o \in Done' : o \notin Done /\ Hour(o.poll) = q.hour /\ o.poll <= q.last
<1>1. IsFiniteSet(Done) /\ IsFiniteSet(Done') /\ Done' \subseteq LoadRows
  <2>1. IsFiniteSet(Rows') /\ Rows' \subseteq LoadRows
    BY FieldsFinite DEF Rows, LoadTypes
  <2>2. Done' \subseteq Rows'
    BY DEF Done
  <2>3. QED
    BY <2>1, <2>2, RowsFinite, FS_Subset
<1>2. PICK D, E : D = Done /\ E = Done'
  OBVIOUS
<1>3. load = Hourly(D) /\ load' = Hourly(E)
  BY <1>2 DEF Exact
<1>4. \A h, c : HourRow(E, h, c) = HourRow(D, h, c) \/
                /\ Cardinality(At(D, h, c)) < Cardinality(At(E, h, c))
                /\ \E o \in E : o \notin D /\ Hour(o.poll) = h /\ o.poll <= HourRow(E, h, c).last
  <2>1. SUFFICES ASSUME NEW h, NEW c
                 PROVE  HourRow(E, h, c) = HourRow(D, h, c) \/
                        /\ Cardinality(At(D, h, c)) < Cardinality(At(E, h, c))
                        /\ \E o \in E : o \notin D /\ Hour(o.poll) = h /\ o.poll <= HourRow(E, h, c).last
    OBVIOUS
  <2>2. PICK A, B : A = At(D, h, c) /\ B = At(E, h, c)
    OBVIOUS
  <2>3. A \subseteq B /\ B \subseteq E /\ \A o \in B : o \in A \/ (o \notin D /\ Hour(o.poll) = h)
    BY <1>2, <2>2 DEF At
  <2>4. IsFiniteSet(B) /\ IsFiniteSet(A) /\ Cardinality(A) <= Cardinality(B) /\ (Cardinality(A) = Cardinality(B) => A = B)
    BY <1>1, <1>2, <2>3, FS_Subset
  <2>5. Cardinality(A) \in Nat /\ Cardinality(B) \in Nat
    BY <2>4, FS_CardinalityType
  <2>6. CASE A = B
    BY <2>2, <2>6 DEF HourRow
  <2>7. CASE A # B
    <3>1. Cardinality(A) < Cardinality(B)
      BY <2>4, <2>5, <2>7
    <3>2. PICK o \in B : o \notin A
      BY <2>3, <2>7
    <3>3. IsFiniteSet({q.poll : q \in B})
      BY <2>4, FieldsFinite
    <3>4. {q.poll : q \in B} \subseteq Int /\ o.poll \in {q.poll : q \in B}
      BY <1>1, <1>2, <2>3 DEF LoadRows
    <3>5. Max({q.poll : q \in B}) >= o.poll /\ Max({q.poll : q \in B}) \in Int
      BY <3>3, <3>4, MaxOfFinite
    <3>6. HourRow(E, h, c).last = Max({q.poll : q \in B})
      BY Zenon, <2>2 DEF HourRow, RowOf
    <3>7. o.poll <= HourRow(E, h, c).last
      BY <3>4, <3>5, <3>6
    <3>8. QED
      BY <2>2, <2>3, <3>1, <3>2, <3>7
  <2>8. QED
    BY <2>6, <2>7
<1>5. ASSUME NEW r \in load PROVE \E q \in load' : SameHour(r, q) /\ (r = q \/ r.polls < q.polls)
  <2>1. PICK o \in D : r = HourRow(D, Hour(o.poll), o.channel)
    BY <1>3, HourlyHas
  <2>2. PICK q : q = HourRow(E, Hour(o.poll), o.channel)
    OBVIOUS
  <2>3. q \in load'
    BY <1>2, <1>3, <2>1, <2>2, HourlyHas
  <2>4. SameHour(r, q)
    BY <2>1, <2>2, HourRowKey DEF SameHour
  <2>5. r.polls = Cardinality(At(D, Hour(o.poll), o.channel)) /\ q.polls = Cardinality(At(E, Hour(o.poll), o.channel))
    BY Zenon, <2>1, <2>2 DEF HourRow, RowOf
  <2>6. QED
    BY <1>4, <2>1, <2>2, <2>3, <2>4, <2>5
<1>6. ASSUME NEW q \in load'
      PROVE  q \in load \/ \E o \in Done' : o \notin Done /\ Hour(o.poll) = q.hour /\ o.poll <= q.last
  <2>1. PICK o \in E : q = HourRow(E, Hour(o.poll), o.channel)
    BY <1>3, HourlyHas
  <2>2. q.hour = Hour(o.poll)
    BY <2>1, HourRowKey
  <2>3. CASE HourRow(E, Hour(o.poll), o.channel) = HourRow(D, Hour(o.poll), o.channel)
    <3>1. CASE o \in D
      BY <1>3, <2>1, <2>3, <3>1, HourlyHas
    <3>2. CASE o \notin D
      <4>1. o \in At(E, Hour(o.poll), o.channel)
        BY DEF At
      <4>2. PICK B : B = At(E, Hour(o.poll), o.channel)
        OBVIOUS
      <4>3. B \subseteq E
        BY <4>2 DEF At
      <4>4. IsFiniteSet(B)
        BY <1>1, <1>2, <4>3, FS_Subset
      <4>5. IsFiniteSet({p.poll : p \in B})
        BY <4>4, FieldsFinite
      <4>6. {p.poll : p \in B} \subseteq Int /\ o.poll \in {p.poll : p \in B}
        BY <1>1, <1>2, <4>1, <4>2, <4>3 DEF LoadRows
      <4>7. Max({p.poll : p \in B}) >= o.poll /\ Max({p.poll : p \in B}) \in Int
        BY <4>5, <4>6, MaxOfFinite
      <4>8. q.last = Max({p.poll : p \in B})
        BY Zenon, <2>1, <4>2 DEF HourRow, RowOf
      <4>9. o.poll <= q.last
        BY <4>6, <4>7, <4>8
      <4>10. QED
        BY <1>2, <2>2, <3>2, <4>9
    <3>3. QED
      BY <3>1, <3>2
  <2>4. CASE HourRow(E, Hour(o.poll), o.channel) # HourRow(D, Hour(o.poll), o.channel)
    BY <1>2, <1>4, <2>1, <2>2, <2>4
  <2>5. QED
    BY <2>3, <2>4
<1>7. QED
  BY <1>5, <1>6

\* A row that is current stays current through a merge, and a merge takes in
\* nothing that is not of the buffer.
LEMMA MergeKeeps ==
  ASSUME LoadTypes, Exact, NEW old, NEW new, Older(old), Older(new)
  PROVE  /\ Older(MergeLoad(old, new))
         /\ \A r \in load : r \in old \cup new => r \in MergeLoad(old, new)
<1>1. MergeLoad(old, new) \subseteq old \cup new
  BY DEF MergeLoad
<1>2. ASSUME NEW r \in load, NEW q \in old \cup new, SameHour(r, q)
      PROVE  r.polls \in Nat /\ q.polls \in Nat /\ (q = r \/ q.polls < r.polls)
  <2>1. PICK t \in load : SameHour(q, t) /\ (q = t \/ q.polls < t.polls)
    BY DEF Older
  <2>2. SameHour(r, t)
    BY <1>2, <2>1 DEF SameHour
  <2>3. t = r
    BY <2>2, LoadFacts
  <2>4. QED
    BY <2>1, <2>3, LoadFacts DEF Older
<1>3. ASSUME NEW r \in load, r \in old \cup new PROVE r \in MergeLoad(old, new)
  <2>1. CASE r \in old
    <3>1. \A q \in new : SameHour(r, q) => q.polls <= r.polls
      BY <1>2
    <3>2. QED
      BY <2>1, <3>1 DEF MergeLoad
  <2>2. CASE r \notin old
    <3>1. \A q \in old : SameHour(r, q) => r.polls > q.polls
      BY <1>2, <2>2
    <3>2. QED
      BY <1>3, <2>2, <3>1 DEF MergeLoad
  <2>3. QED
    BY <2>1, <2>2
<1>4. QED
  BY <1>1, <1>3 DEF Older

LEMMA LoadInit == Init => LoadInv
<1> SUFFICES ASSUME Init PROVE LoadInv
  OBVIOUS
<1>1. /\ observed = {} /\ polls = {} /\ now = 0 /\ late = {} /\ ntp = {} /\ anchors = {} /\ load = {} /\ pending = {}
      /\ open = NoBatch /\ server = NoRows /\ cursor = [polls |-> 0, load |-> 0] /\ boot = 1 /\ synced = FALSE
  BY DEF Init
<1>2. /\ open.rows.load = {} /\ server.load = {} /\ open.new.polls = 0 /\ open.new.load = 0
      /\ cursor.polls = 0 /\ cursor.load = 0
  BY <1>1 DEF NoBatch, NoRows
<1>3. frame.beacon.clients \in Nat \cup {Null}
  <2>1. PICK b \in Beacons : frame = NoFrame \/ frame.beacon = b
    BY DEF Init
  <2>2. QED
    BY <2>1, BeaconsAssumption DEF NoFrame
<1>4. LoadTypes
  BY <1>1, <1>3, FS_EmptySet DEF LoadTypes
<1>5. Exact
  <2>1. Rows = {} /\ Done = {}
    BY <1>1 DEF Rows, Done
  <2>2. Hourly({}) = {}
    BY DEF Hourly
  <2>3. QED
    BY <1>1, <2>1, <2>2 DEF Exact
<1>6. CursorOK(cursor) /\ CursorOK(open.new)
  BY <1>1, <1>2 DEF CursorOK
<1>7. QED
  BY <1>1, <1>2, <1>4, <1>5, <1>6 DEF LoadInv, Reached, Older

\* Steps that leave the polls, the load and the server alone.
LEMMA IdleLoadStep ==
  ASSUME LoadInv, UNCHANGED <<now, polls, ntp, observed, load, pending, cursor, server>>,
         frame'.beacon.clients \in Nat \cup {Null},
         \/ UNCHANGED <<boot, open, late>> /\ (synced => synced')
         \/ boot' = boot + 1 /\ open' = NoBatch /\ late' \subseteq late \cup {open.rows} /\ UNCHANGED anchors,
         UNCHANGED anchors \/ anchors' = anchors \cup {boot},
         boot \in Nat, boot >= 1, now \in Nat
  PROVE  LoadInv'
<1>0. /\ 1 .. boot \subseteq 1 .. boot' /\ boot \in 1 .. boot' /\ anchors \subseteq anchors'
      /\ (boot' # boot => boot' \notin 1 .. boot /\ anchors' = anchors /\ open' = NoBatch)
  <2>1. boot' = boot \/ (boot' = boot + 1 /\ open' = NoBatch /\ anchors' = anchors)
    OBVIOUS
  <2>2. anchors \subseteq anchors'
    OBVIOUS
  <2>3. QED
    BY <2>1, <2>2
<1>t. /\ \A p \in polls : p.id \in 1 .. now /\ p.boot \in 1 .. boot
      /\ ntp \subseteq 1 .. boot /\ anchors \subseteq 1 .. boot /\ (boot \in ntp => synced)
  BY DEF LoadInv, LoadTypes
<1>1. LoadTypes'
  <2>1. \A p \in polls' : p.id \in 1 .. now' /\ p.boot \in 1 .. boot'
    BY <1>0, <1>t
  <2>2. ntp' \subseteq 1 .. boot' /\ anchors' \subseteq 1 .. boot'
    <3>1. anchors' \subseteq anchors \cup {boot} /\ ntp' = ntp
      OBVIOUS
    <3>2. QED
      BY <1>0, <1>t, <3>1
  <2>3. boot' \in ntp' => synced'
    BY <1>0, <1>t
  <2>4. QED
    BY <2>1, <2>2, <2>3 DEF LoadInv, LoadTypes
<1>2. Exact'
  <2>1. Rows' = Rows
    BY DEF Rows
  <2>2. Done' = Done
    BY <2>1 DEF Done, Settled
  <2>3. QED
    BY <2>1, <2>2 DEF LoadInv, Exact
<1>3. \A h : Anchored(h) => (Anchored(h))'
  <2>1. polls' = polls /\ anchors \subseteq anchors'
    BY <1>0
  <2>2. ASSUME NEW h, NEW p \in polls, p.boot \in anchors, ~p.synced, Hour(p.id) = h
        PROVE  (Anchored(h))'
    <3>1. p \in polls' /\ p.boot \in anchors'
      BY <2>1, <2>2
    <3>2. QED
      BY <2>2, <3>1 DEF Anchored
  <2>3. QED
    BY <2>2, Zenon DEF Anchored
<1>4. open'.rows.load = {} \/ open' = open
  BY DEF NoBatch, NoRows
<1>5. \A c : CursorOK(c) => (CursorOK(c))'
  <2>1. SUFFICES ASSUME NEW c, CursorOK(c) PROVE (CursorOK(c))'
    OBVIOUS
  <2>2. c.polls \in 0 .. now' /\ c.load \in 0 .. now'
    BY <2>1 DEF CursorOK
  <2>3. ASSUME NEW p \in polls, p.id <= c.polls
        PROVE  p.id <= c.load \/ (p.boot # boot' /\ ~p.synced /\ p.boot \notin ntp')
    <3>1. p.id <= c.load \/ (p.boot # boot /\ ~p.synced /\ p.boot \notin ntp)
      BY <2>1, <2>3 DEF CursorOK
    <3>2. p.boot # boot => p.boot # boot'
      BY <1>0, <1>t, <2>3
    <3>3. QED
      BY <3>1, <3>2
  <2>4. ASSUME NEW p \in polls, p.id <= c.load, p.boot = boot', ~p.synced, boot' \notin ntp'
        PROVE  boot' \in anchors'
    <3>1. boot' = boot /\ ntp' = ntp
      BY <1>0, <1>t, <2>4
    <3>2. boot \in anchors
      BY <2>1, <2>4, <3>1 DEF CursorOK
    <3>3. QED
      BY <1>0, <3>1, <3>2
  <2>5. QED
    BY <2>2, <2>3, <2>4 DEF CursorOK
<1>6. (CursorOK(cursor))' /\ (CursorOK(open.new))'
  <2>1. CursorOK(NoBatch.new)
    <3>0. NoBatch.new.polls = 0 /\ NoBatch.new.load = 0
      BY DEF NoBatch
    <3>1. NoBatch.new.polls = 0 /\ NoBatch.new.load = 0 /\ CursorOK(open.new)
      BY <3>0 DEF LoadInv
    <3>2. 0 \in 0 .. now
      OBVIOUS
    <3>3. \A p \in polls : ~(p.id <= 0)
      BY <1>t
    <3>4. QED
      BY <3>1, <3>2, <3>3 DEF CursorOK
  <2>2. QED
    BY <1>5, <2>1 DEF LoadInv
<1>7. (Reached(cursor, server.load))'
  BY <1>3 DEF LoadInv, Reached
<1>8. (Reached(open.new, server.load \cup open.rows.load))'
  <2>1. CASE open' = open
    BY <1>3, <2>1 DEF LoadInv, Reached
  <2>2. CASE open' = NoBatch
    <3>1. open'.new.load = 0
      BY <2>2 DEF NoBatch
    <3>2. \A r \in load : ~(r.last <= 0)
      <4>1. ASSUME NEW r \in load PROVE ~(r.last <= 0)
        <5>1. PICK o \in Done : o.poll = r.last
          BY LoadFacts DEF LoadInv
        <5>2. PICK p \in polls : p.id = o.poll
          BY <5>1 DEF Done, Rows, LoadInv, LoadTypes
        <5>3. QED
          BY <5>1, <5>2 DEF LoadInv, LoadTypes
      <4>2. QED
        BY <4>1
    <3>3. QED
      BY <3>1, <3>2 DEF Reached
  <2>3. QED
    BY <2>1, <2>2
<1>9. \A rows : Older(rows) => (Older(rows))'
  BY DEF Older
<1>10. (Older(server.load))' /\ (Older(open.rows.load))' /\ \A rows \in late' : (Older(rows.load))'
  <2>1. Older({})
    BY DEF Older
  <2>2. QED
    BY <1>4, <1>9, <2>1 DEF LoadInv
<1>11. QED
  BY <1>1, <1>2, <1>6, <1>7, <1>8, <1>10 DEF LoadInv

LEMMA BesideLoadStep ==
  ASSUME HearInv, LoadInv,
         \/ Open \/ Upgrade \/ Started \/ Kill \/ (\E v \in RollBacks : RollBack(v)) \/ Sync \/ TakeAnchor
         \/ \E b \in Beacons : Hear(b)
         \/ \E d \in Drifts : Reboot(d)
         \/ UNCHANGED vars
  PROVE  LoadInv'
<1>1. boot \in Nat /\ boot >= 1 /\ now \in Nat /\ frame.beacon.clients \in Nat \cup {Null}
  BY DEF HearInv, TimesOK, LoadInv, LoadTypes
<1>2. UNCHANGED <<now, polls, ntp, observed, load, pending, cursor, server>>
  BY DEF Open, Upgrade, Started, Kill, RollBack, Sync, TakeAnchor, Hear, Reboot, vars, bufferVars, uploadVars
<1>3. CASE Open \/ Upgrade \/ Started \/ Kill \/ (\E v \in RollBacks : RollBack(v)) \/ Sync \/ TakeAnchor \/ UNCHANGED vars
  <2>1. UNCHANGED <<boot, open, late, frame>> /\ (synced => synced')
    BY <1>3 DEF Open, Upgrade, Started, Kill, RollBack, Sync, TakeAnchor, vars, clockVars, uploadVars
  <2>2. UNCHANGED anchors \/ anchors' = anchors \cup {boot}
    BY <1>3 DEF Open, Upgrade, Started, Kill, RollBack, Sync, TakeAnchor, vars, uploadVars
  <2>3. QED
    BY <1>1, <1>2, <2>1, <2>2, IdleLoadStep
<1>4. CASE \E b \in Beacons : Hear(b)
  <2>1. PICK b \in Beacons : Hear(b)
    BY <1>4
  <2>2. UNCHANGED <<boot, open, late, synced, anchors>> /\ frame'.beacon = b
    BY <2>1 DEF Hear, clockVars, uploadVars
  <2>3. b.clients \in Nat \cup {Null}
    BY BeaconsAssumption
  <2>4. QED
    BY <1>1, <1>2, <2>2, <2>3, IdleLoadStep
<1>5. CASE \E d \in Drifts : Reboot(d)
  <2>1. boot' = boot + 1 /\ open' = NoBatch /\ late' \subseteq late \cup {open.rows} /\ UNCHANGED anchors
    BY <1>5 DEF Reboot
  <2>2. frame'.beacon.clients \in Nat \cup {Null}
    BY <1>5 DEF Reboot, NoFrame
  <2>3. QED
    BY <1>1, <1>2, <2>1, <2>2, IdleLoadStep
<1>6. QED
  BY <1>3, <1>4, <1>5

\* Steps of the uploader: what it knows of the buffer stays.
LEMMA UploadLoadStep ==
  ASSUME LoadInv, UNCHANGED <<boot, synced, now, frame, polls, ntp, observed, load, pending, anchors>>,
         CursorOK(cursor'), CursorOK(open'.new),
         Reached(cursor', server'.load), Reached(open'.new, server'.load \cup open'.rows.load),
         Older(server'.load), Older(open'.rows.load), \A rows \in late' : Older(rows.load)
  PROVE  LoadInv'
<1>1. LoadTypes'
  BY DEF LoadInv, LoadTypes
<1>2. Exact'
  <2>1. Rows' = Rows
    BY DEF Rows
  <2>2. Done' = Done
    BY <2>1 DEF Done, Settled
  <2>3. QED
    BY <2>1, <2>2 DEF LoadInv, Exact
<1>3. \A h : Anchored(h) => (Anchored(h))'
  BY Zenon DEF Anchored
<1>4. PICK c, d, s, n : c = cursor' /\ d = open'.new /\ s = server'.load /\ n = open'.rows.load
  OBVIOUS
<1>5. (CursorOK(c))' /\ (CursorOK(d))'
  BY <1>4 DEF CursorOK
<1>6. (Reached(c, s))' /\ (Reached(d, s \cup n))'
  BY <1>3, <1>4 DEF Reached
<1>7. \A rows : Older(rows) => (Older(rows))'
  BY DEF Older
<1>8. (Older(s))' /\ (Older(n))' /\ \A rows \in late' : (Older(rows.load))'
  BY <1>4, <1>7
<1>9. QED
  BY <1>1, <1>2, <1>4, <1>5, <1>6, <1>8 DEF LoadInv

LEMMA NoBatchOK ==
  ASSUME HearInv, LoadInv
  PROVE  /\ CursorOK(NoBatch.new) /\ Older(NoBatch.rows.load)
         /\ \A rows : Reached(NoBatch.new, rows)
<1>1. NoBatch.new.polls = 0 /\ NoBatch.new.load = 0 /\ NoBatch.rows.load = {}
  BY DEF NoBatch, NoRows
<1>2. \A p \in polls : p.id \in 1 .. now
  BY DEF LoadInv, LoadTypes
<1>3. CursorOK(NoBatch.new)
  <2>1. now \in Nat /\ \A p \in polls : ~(p.id <= 0)
    BY <1>2 DEF HearInv, TimesOK
  <2>2. QED
    BY <1>1, <2>1 DEF CursorOK
<1>4. ASSUME NEW r \in load PROVE ~(r.last <= 0)
  <2>1. PICK o \in Done : o.poll = r.last
    BY LoadFacts DEF LoadInv
  <2>2. PICK p \in polls : p.id = o.poll
    BY <2>1 DEF Done, Rows, LoadInv, LoadTypes
  <2>3. QED
    BY <1>2, <2>1, <2>2
<1>5. QED
  BY <1>1, <1>3, <1>4 DEF Reached, Older

LEMMA AnswerLoadStep ==
  ASSUME HearInv, LoadInv, Answered \/ AnswerLost \/ GivenUp \/ Arrives
  PROVE  LoadInv'
<1>1. UNCHANGED <<boot, synced, now, frame, polls, ntp, observed, load, pending, anchors>>
  BY DEF Answered, AnswerLost, GivenUp, Arrives, clockVars, bufferVars
<1>2. LoadTypes /\ Exact
  BY DEF LoadInv
<1>3. \A s, rows : Merge(s, rows).load = MergeLoad(s.load, rows.load)
  BY DEF Merge
<1>4. CASE Answered \/ AnswerLost
  <2>1. PICK old, new, got : old = server.load /\ new = open.rows.load /\ got = MergeLoad(old, new)
    OBVIOUS
  <2>2. server'.load = got /\ open' = NoBatch /\ late' = late /\ cursor' \in {cursor, open.new}
    BY <1>3, <1>4, <2>1 DEF Answered, AnswerLost
  <2>3. Older(got) /\ \A r \in load : r \in old \cup new => r \in got
    BY <1>2, <2>1, MergeKeeps DEF LoadInv
  <2>4. Reached(cursor, got) /\ Reached(open.new, got)
    BY <2>1, <2>3 DEF LoadInv, Reached
  <2>5. CursorOK(cursor') /\ Reached(cursor', got)
    BY <2>2, <2>4 DEF LoadInv
  <2>6. QED
    BY <1>1, <2>2, <2>3, <2>5, NoBatchOK, UploadLoadStep DEF LoadInv
<1>5. CASE GivenUp
  <2>1. open' = NoBatch /\ late' = late \cup {open.rows} /\ UNCHANGED <<cursor, server>>
    BY <1>5 DEF GivenUp
  <2>2. QED
    BY <1>1, <2>1, NoBatchOK, UploadLoadStep DEF LoadInv
<1>6. CASE Arrives
  <2>1. PICK rows \in late : server' = Merge(server, rows) /\ late' = late \ {rows}
    BY <1>6 DEF Arrives
  <2>2. UNCHANGED <<cursor, open>>
    BY <1>6 DEF Arrives
  <2>3. PICK old, new, got : old = server.load /\ new = rows.load /\ got = MergeLoad(old, new)
    OBVIOUS
  <2>4. Older(got) /\ \A r \in load : r \in old \cup new => r \in got
    BY <1>2, <2>1, <2>3, MergeKeeps DEF LoadInv
  <2>5. server'.load = got
    BY <1>3, <2>1, <2>3
  <2>6. Reached(cursor, got) /\ Reached(open.new, got \cup open.rows.load)
    BY <2>3, <2>4 DEF LoadInv, Reached
  <2>7. QED
    BY <1>1, <2>1, <2>2, <2>4, <2>5, <2>6, UploadLoadStep DEF LoadInv
<1>7. QED
  BY <1>4, <1>5, <1>6

LEMMA SendLoadStep ==
  ASSUME HearInv, LoadInv, Send
  PROVE  LoadInv'
<1> DEFINE due0    == {p \in polls : cursor.polls < p.id /\ p.id <= cursor.polls + BatchPolls}
           before0 == {p \in due0 : \A q \in due0 : Fate(q) = "hold" => p.id < q.id}
           sent0   == {p.id : p \in {q \in before0 : Fate(q) = "send"}}
           trueTo0 == Max(sent0 \cup {cursor.load})
<1>1. PICK due, before, sent, trueTo, top :
        due = due0 /\ before = before0 /\ sent = sent0 /\ trueTo = trueTo0 /\ top = Max({p.id : p \in before})
  OBVIOUS
<1>2. /\ before # {}
      /\ open'.new.polls = top /\ open'.new.load = trueTo
      /\ open'.rows.load = {r \in load : cursor.load < r.last /\ r.last <= trueTo}
  BY <1>1 DEF Send
<1>3. UNCHANGED <<boot, synced, now, frame, polls, ntp, observed, load, pending, anchors, cursor, server, late>>
  BY DEF Send, clockVars, bufferVars
<1>4. PICK n \in Nat : n = now
  BY DEF HearInv, TimesOK
<1>5. PICK a, b : a \in 0 .. n /\ b \in 0 .. n /\ a = cursor.polls /\ b = cursor.load
  BY <1>4 DEF LoadInv, CursorOK
<1>6. BatchPolls \in Nat
  BY BoundsAssumption
<1>7. \A p \in polls : p.id \in 1 .. n
  BY <1>4 DEF LoadInv, LoadTypes
<1>8. /\ \A p : p \in due <=> p \in polls /\ a < p.id /\ p.id <= a + BatchPolls
      /\ \A p : p \in before <=> p \in due /\ \A q \in due : Fate(q) = "hold" => p.id < q.id
      /\ \A t : t \in sent <=> \E p \in before : Fate(p) = "send" /\ t = p.id
      /\ trueTo = Max(sent \cup {b})
  BY <1>1, <1>5
<1> HIDE DEF due0, before0, sent0, trueTo0
<1>9. before \subseteq polls /\ sent \subseteq 1 .. n
  BY <1>7, <1>8
<1>10. top \in {p.id : p \in before} /\ \A p \in before : top >= p.id
  <2>1. {p.id : p \in before} \subseteq 1 .. n /\ {p.id : p \in before} # {}
    BY <1>2, <1>7, <1>9
  <2>2. QED
    BY <1>1, <2>1, MaxIs
<1>11. PICK z \in before : top = z.id
  BY <1>10
<1>12. trueTo \in sent \cup {b} /\ (\A t \in sent : trueTo >= t) /\ trueTo >= b
  <2>1. sent \cup {b} \subseteq 0 .. n
    <3>1. 1 .. n \subseteq 0 .. n
      OBVIOUS
    <3>2. QED
      BY <1>5, <1>9, <3>1
  <2>2. IsFiniteSet(0 .. n)
    BY FS_Interval
  <2>3. IsFiniteSet(sent \cup {b}) /\ sent \cup {b} \subseteq Int
    BY <2>1, <2>2, FS_Subset
  <2>4. QED
    BY <1>8, <2>3, MaxOfFinite
<1>13. trueTo \in 0 .. n /\ top \in 1 .. n
  BY <1>5, <1>7, <1>9, <1>10, <1>12
\* Up to the last poll of the batch, none is held back.
<1>14. ASSUME NEW p \in polls, NEW q \in before, a < p.id, p.id <= q.id
       PROVE  p \in before /\ Fate(p) # "hold"
  <2>1. p.id \in 1 .. n /\ q.id \in 1 .. n /\ \A x \in due : x.id \in 1 .. n
    BY <1>7, <1>8, <1>9
  <2>2. p \in due
    BY <1>5, <1>6, <1>8, <1>14, <2>1
  <2>3. \A x \in due : Fate(x) = "hold" => p.id < x.id
    BY <1>8, <1>14, <2>1
  <2>4. QED
    BY <1>8, <2>1, <2>2, <2>3
<1>15. \A p : Fate(p) \in {"send", "hold", "unverified"}
  BY DEF Fate
<1>16. ASSUME NEW p \in polls, p.id <= top
       PROVE  p.id <= trueTo \/ (p.boot # boot /\ ~p.synced /\ p.boot \notin ntp)
  <2>1. CASE p.id <= a
    <3>1. p.id <= b \/ (p.boot # boot /\ ~p.synced /\ p.boot \notin ntp)
      BY <1>5, <2>1 DEF LoadInv, CursorOK
    <3>2. p.id \in 1 .. n
      BY <1>7
    <3>3. QED
      BY <1>5, <1>12, <1>13, <3>1, <3>2
  <2>2. CASE ~(p.id <= a)
    <3>1. a < p.id
      BY <1>5, <1>7, <2>2
    <3>2. p \in before /\ Fate(p) # "hold"
      BY <1>11, <1>14, <1>16, <3>1
    <3>3. CASE Fate(p) = "send"
      BY <1>8, <1>12, <3>2, <3>3
    <3>4. CASE Fate(p) = "unverified"
      BY <3>4 DEF Fate
    <3>5. QED
      BY <1>15, <3>2, <3>3, <3>4
  <2>3. QED
    BY <2>1, <2>2
<1>17. ASSUME NEW p \in polls, p.id <= trueTo, p.boot = boot, ~p.synced, boot \notin ntp
       PROVE  boot \in anchors
  <2>1. CASE p.id <= b
    BY <1>5, <1>17, <2>1 DEF LoadInv, CursorOK
  <2>2. CASE p.id <= a
    <3>1. p.id <= b
      BY <1>5, <1>17, <2>2 DEF LoadInv, CursorOK
    <3>2. QED
      BY <2>1, <3>1
  <2>3. CASE ~(p.id <= b) /\ ~(p.id <= a)
    <3>1. trueTo \in sent
      BY <1>12, <1>17, <2>3
    <3>2. PICK q \in before : trueTo = q.id
      BY <1>8, <3>1
    <3>3. a < p.id
      BY <1>5, <1>7, <2>3
    <3>4. Fate(p) # "hold"
      BY <1>14, <1>17, <3>2, <3>3
    <3>5. QED
      BY <1>17, <3>4 DEF Fate
  <2>4. QED
    BY <2>1, <2>2, <2>3
<1>18. CursorOK(open'.new)
  <2>1. top \in 0 .. now /\ trueTo \in 0 .. now
    BY <1>4, <1>13
  <2>2. QED
    BY <1>2, <1>16, <1>17, <2>1 DEF CursorOK
<1>19. Reached(open'.new, server'.load \cup open'.rows.load)
  <2>1. ASSUME NEW r \in load, r.last <= trueTo PROVE r \in server.load \cup open'.rows.load \/ Anchored(r.hour)
    <3>1. r.last \in Int
      <4>1. PICK o \in Done : o.poll = r.last
        BY LoadFacts DEF LoadInv
      <4>2. PICK p \in polls : p.id = o.poll
        BY <4>1 DEF Done, Rows, LoadInv, LoadTypes
      <4>3. QED
        BY <1>7, <4>1, <4>2
    <3>2. CASE r.last <= b
      BY <1>5, <3>2 DEF LoadInv, Reached
    <3>3. CASE ~(r.last <= b)
      <4>1. b < r.last
        BY <1>5, <3>1, <3>3
      <4>2. QED
        BY <1>2, <1>5, <2>1, <4>1
    <3>4. QED
      BY <3>2, <3>3
  <2>2. QED
    BY <1>2, <1>3, <2>1 DEF Reached
<1>20. Older(open'.rows.load)
  <2>1. open'.rows.load \subseteq load
    BY <1>2
  <2>2. \A r \in load : r.polls \in Nat /\ SameHour(r, r)
    BY LoadFacts DEF LoadInv, SameHour
  <2>3. QED
    BY <2>1, <2>2 DEF Older
<1>21. CursorOK(cursor') /\ Reached(cursor', server'.load) /\ Older(server'.load) /\ \A rows \in late' : Older(rows.load)
  BY <1>3 DEF LoadInv
<1>22. QED
  BY <1>3, <1>18, <1>19, <1>20, <1>21, UploadLoadStep

LEMMA LaterLoadFacts ==
  ASSUME LoadTypes', Exact'
  PROVE  \A r \in load' : r.polls \in Nat /\ \E o \in Done' : o.poll = r.last
<1>1. IsFiniteSet(Done') /\ Done' \subseteq LoadRows
  <2>1. IsFiniteSet(Rows') /\ Rows' \subseteq LoadRows
    BY FieldsFinite DEF Rows, LoadTypes
  <2>2. Done' \subseteq Rows'
    BY DEF Done
  <2>3. QED
    BY <2>1, <2>2, FS_Subset
<1>2. PICK E : E = Done'
  OBVIOUS
<1>3. load' = Hourly(E)
  BY <1>2 DEF Exact
<1>4. QED
  BY <1>1, <1>2, <1>3, HourlyNumbers

\* A poll leaves behind the cursor only what waited for the anchor of its boot,
\* in hours that the server's time has placed.
LEMMA PollLoadStep ==
  ASSUME HearInv, ConfInv, LoadInv, Poll \/ PollFails
  PROVE  LoadInv'
<1>1. PICK n, b : n \in Nat /\ n = now /\ b = boot
  BY DEF HearInv, TimesOK
<1>2. LoadTypes' /\ LoadTypes /\ Exact
  BY LoadTypesPoll DEF LoadInv
<1>3. /\ Exact' /\ Done \subseteq Done'
      /\ \A o \in Done' : \/ o \in Done \/ o.poll = now + 1
                          \/ boot \notin ntp /\ \E p \in polls : p.id = o.poll /\ p.boot = boot /\ ~p.synced
  BY <1>2, PollExact
<1>4. /\ \A r \in load : \E q \in load' : SameHour(r, q) /\ (r = q \/ r.polls < q.polls)
      /\ \A q \in load' : q \in load \/ \E o \in Done' : o \notin Done /\ Hour(o.poll) = q.hour /\ o.poll <= q.last
  BY <1>2, <1>3, LoadGrows
<1>5. /\ now' = n + 1 /\ boot' = b /\ UNCHANGED <<anchors, cursor, open, late, server>>
      /\ polls' = polls \cup {[id |-> n + 1, boot |-> b, synced |-> synced]}
  BY <1>1 DEF Poll, PollFails, NewPoll, clockVars, uploadVars
<1>6. ntp \subseteq ntp' /\ ntp' \subseteq ntp \cup {b}
  BY <1>1 DEF Poll, PollFails
<1>7. polls \subseteq polls' /\ \A p \in polls' : p \in polls \/ p.id = n + 1
  BY <1>5
<1>8. \A h : Anchored(h) => (Anchored(h))'
  <2>1. ASSUME NEW h, NEW p \in polls, p.boot \in anchors, ~p.synced, Hour(p.id) = h
        PROVE  (Anchored(h))'
    <3>1. p \in polls' /\ p.boot \in anchors'
      BY <1>5, <1>7, <2>1
    <3>2. QED
      BY <2>1, <3>1 DEF Anchored
  <2>2. QED
    BY <2>1, Zenon DEF Anchored
<1>9. ASSUME NEW c, CursorOK(c) PROVE (CursorOK(c))'
  <2>1. c.polls \in 0 .. n /\ c.load \in 0 .. n
    BY <1>1, <1>9 DEF CursorOK
  <2>2. c.polls \in 0 .. n + 1 /\ c.load \in 0 .. n + 1 /\ ~(n + 1 <= c.polls) /\ ~(n + 1 <= c.load)
    BY <1>1, <2>1
  <2>3. ASSUME NEW p \in polls', p.id <= c.polls
        PROVE  p.id <= c.load \/ (p.boot # b /\ ~p.synced /\ p.boot \notin ntp')
    <3>1. p \in polls
      BY <1>7, <2>2, <2>3
    <3>2. QED
      BY <1>1, <1>6, <1>9, <2>3, <3>1 DEF CursorOK
  <2>4. ASSUME NEW p \in polls', p.id <= c.load, p.boot = b, ~p.synced, b \notin ntp' PROVE b \in anchors
    <3>1. p \in polls
      BY <1>7, <2>2, <2>4
    <3>2. QED
      BY <1>1, <1>6, <1>9, <2>4, <3>1 DEF CursorOK
  <2>5. QED
    BY <1>5, <2>2, <2>3, <2>4 DEF CursorOK
<1>10. ASSUME NEW c, CursorOK(c), NEW rows, Reached(c, rows) PROVE (Reached(c, rows))'
  <2>1. ASSUME NEW q \in load', q.last <= c.load PROVE q \in rows \/ (Anchored(q.hour))'
    <3>1. CASE q \in load
      BY <1>8, <1>10, <2>1, <3>1 DEF Reached
    <3>2. CASE q \notin load
      <4>1. PICK o \in Done' : o \notin Done /\ Hour(o.poll) = q.hour /\ o.poll <= q.last
        BY <1>4, <3>2
      <4>2. c.load \in 0 .. n
        BY <1>1, <1>10 DEF CursorOK
      <4>3. o.poll \in Nat /\ q.last \in Int
        <5>1. Done' \subseteq LoadRows
          BY <1>2 DEF Done, Rows, LoadTypes
        <5>2. \E u \in Done' : u.poll = q.last
          <6>1. \A r \in load' : \E u \in Done' : u.poll = r.last
            BY <1>2, <1>3, LaterLoadFacts
          <6>2. QED
            BY <6>1
        <5>3. QED
          BY <5>1, <5>2 DEF LoadRows
      <4>4. o.poll <= c.load /\ o.poll # n + 1
        BY <1>1, <2>1, <4>1, <4>2, <4>3
      <4>5. PICK p \in polls : p.id = o.poll /\ p.boot = boot /\ ~p.synced /\ boot \notin ntp
        BY <1>1, <1>3, <4>1, <4>4
      <4>6. boot \in anchors
        BY <1>10, <4>4, <4>5 DEF CursorOK
      <4>7. Anchored(q.hour)
        BY <4>1, <4>5, <4>6 DEF Anchored
      <4>8. QED
        BY <1>8, <4>7
    <3>3. QED
      BY <3>1, <3>2
  <2>2. QED
    BY <2>1 DEF Reached
<1>11. ASSUME NEW rows, Older(rows) PROVE (Older(rows))'
  <2>1. ASSUME NEW q \in rows PROVE q.polls \in Nat /\ \E r \in load' : SameHour(q, r) /\ (q = r \/ q.polls < r.polls)
    <3>1. PICK t \in load : SameHour(q, t) /\ (q = t \/ q.polls < t.polls)
      BY <1>11 DEF Older
    <3>2. PICK r \in load' : SameHour(t, r) /\ (t = r \/ t.polls < r.polls)
      BY <1>4
    <3>3. q.polls \in Nat /\ t.polls \in Nat /\ r.polls \in Nat
      BY <1>2, <1>3, <1>11, LoadFacts, LaterLoadFacts DEF Older
    <3>4. SameHour(q, r)
      BY <3>1, <3>2 DEF SameHour
    <3>5. q = r \/ q.polls < r.polls
      BY <3>1, <3>2, <3>3
    <3>6. QED
      BY <3>3, <3>4, <3>5
  <2>2. QED
    BY <2>1 DEF Older
<1>12. PICK c, d, s, m : c = cursor /\ d = open.new /\ s = server.load /\ m = open.rows.load
  OBVIOUS
<1>13. CursorOK(c) /\ CursorOK(d) /\ Reached(c, s) /\ Reached(d, s \cup m) /\ Older(s) /\ Older(m)
  BY <1>12 DEF LoadInv
<1>14. (CursorOK(c))' /\ (CursorOK(d))' /\ (Reached(c, s))' /\ (Reached(d, s \cup m))' /\ (Older(s))' /\ (Older(m))'
  BY <1>9, <1>10, <1>11, <1>13
<1>15. \A rows \in late : (Older(rows.load))'
  BY <1>11 DEF LoadInv
<1>16. cursor' = c /\ open'.new = d /\ server'.load = s /\ open'.rows.load = m /\ late' = late
  BY <1>5, <1>12
<1>17. QED
  BY <1>2, <1>3, <1>14, <1>15, <1>16 DEF LoadInv

(* Every observation is counted once, in its true hour, under any times at    *)
(* which the clock steps, the Pi restarts and batches are lost, repeated or   *)
(* late; and once the cursor has passed every poll the server holds every     *)
(* hour as the buffer does, except hours with polls that the server's time    *)
(* placed before NTP came (_write_load, _anchor, next_batch, the merge of     *)
(* ap_load_hourly).                                                           *)
THEOREM TheLoadReachesTheServer == Spec => []LoadReachesServer
<1>1. Init => HearInv /\ ConfInv /\ LoadInv
  BY HearInit, ConfInit, LoadInit
<1>2. HearInv /\ ConfInv /\ LoadInv /\ [Next]_vars => HearInv' /\ ConfInv' /\ LoadInv'
  <2>1. HearInv /\ ConfInv /\ [Next]_vars => HearInv' /\ ConfInv'
    BY HearStep, BesideConfStep, SendConfStep, AnswerConfStep, PollConfStep DEF Next
  <2>2. HearInv /\ ConfInv /\ LoadInv /\ [Next]_vars => LoadInv'
    BY BesideLoadStep, SendLoadStep, AnswerLoadStep, PollLoadStep DEF Next
  <2>3. QED
    BY <2>1, <2>2
<1>3. ASSUME HearInv, LoadInv PROVE LoadReachesServer
  <2>1. LoadIsExact /\ LoadTypes /\ Exact
    BY <1>3, ExactIs DEF LoadInv
  <2>2. ASSUME cursor.polls = now, NEW r \in load
        PROVE  r \in server.load \/ \E p \in polls : p.boot \in anchors /\ ~p.synced /\ Hour(p.id) = r.hour
    <3>1. PICK o \in Done : o.poll = r.last
      BY <2>1, LoadFacts
    <3>2. PICK p \in polls : p.id = o.poll /\ (p.synced \/ p.boot \in ntp)
      BY <3>1 DEF Done, Settled
    <3>3. p.id \in 1 .. now
      BY <2>1 DEF LoadTypes
    <3>4. p.id <= cursor.polls
      BY <2>2, <3>3
    <3>5. r.last <= cursor.load
      BY <1>3, <3>1, <3>2, <3>4 DEF LoadInv, CursorOK
    <3>6. r \in server.load \/ Anchored(r.hour)
      BY <1>3, <3>5 DEF LoadInv, Reached
    <3>7. QED
      BY <3>6 DEF Anchored
  <2>3. QED
    BY <2>1, <2>2 DEF LoadReachesServer
<1>4. QED
  BY <1>1, <1>2, <1>3, PTL DEF Spec

=============================================================================
