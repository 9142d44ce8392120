--------------------------- MODULE DeliveryProofs ---------------------------
(***************************************************************************)
(* Proofs about LiveUpload for every value of its constants: the type      *)
(* invariant, that no stale time reaches the server, and that a sensor in  *)
(* its first buffer skips no poll, however requests are lost, late or      *)
(* repeated, and even when the uploader's state file disappears.           *)
(*                                                                         *)
(* Then, as long as the state file and the buffer are kept, for any number *)
(* of polls, boots and late requests: no poll is both stored and counted   *)
(* as unverified, none is stored twice (unless NTP comes to a boot after   *)
(* the server's time), and the pipeline implements Delivery.  Every step   *)
(* of it is one step of the promise or none: a poll is made, polls become  *)
(* undeliverable when they are pruned or their boot ends, a merge stores,  *)
(* and the cursor releases.  Last, the observations of a stored poll come  *)
(* along with it.                                                          *)
(***************************************************************************)
EXTENDS LiveUpload, FiniteSetTheorems, TLAPS

(* The types of what a batch is built from.                                *)

\* When a boot began is told by one of its anchors.
LEMMA EpochIs ==
  ASSUME NEW table, NEW b, HasAnchor(table, b)
  PROVE  \E a \in table : a.boot = b /\ EpochTrue(table, b) = a.wall - a.mono
<1> DEFINE own == {d \in table : d.boot = b}
           a == CHOOSE c \in own : TRUE
<1>1. \E c \in own : TRUE
  BY DEF HasAnchor
<1>2. a \in own
  BY <1>1
<1>3. EpochTrue(table, b) = a.wall - a.mono
  BY DEF EpochTrue
<1>4. QED
  BY <1>2, <1>3

LEMMA EpochType ==
  ASSUME TypeOK, NEW b, NEW table \in {ntpAnchors, anchors}, HasAnchor(table, b)
  PROVE  EpochTrue(table, b) \in Int
<1>1. PICK a \in table : EpochTrue(table, b) = a.wall - a.mono
  BY EpochIs
<1>2. a \in Anchors
  BY DEF TypeOK
<1>3. a.wall \in Int /\ a.mono \in Int
  BY <1>2 DEF Anchors
<1>4. QED
  BY <1>1, <1>3

LEMMA PlacedType ==
  ASSUME TypeOK, NEW p \in polls, Fate(p) = "send"
  PROVE  Placed(p) \in Int
<1>1. CASE p.synced
  BY <1>1 DEF TypeOK, PollRows, Placed
<1>2. CASE ~p.synced /\ HasAnchor(ntpAnchors, p.boot)
  <2>1. EpochTrue(ntpAnchors, p.boot) \in Int /\ p.mono \in Int
    BY <1>2, EpochType DEF TypeOK, PollRows
  <2>2. QED
    BY <1>2, <2>1 DEF Placed
<1>3. CASE ~p.synced /\ ~HasAnchor(ntpAnchors, p.boot)
  <2>1. HasAnchor(anchors, p.boot)
    BY <1>3 DEF Fate, Anchored
  <2>2. EpochTrue(anchors, p.boot) \in Int /\ p.mono \in Int
    BY <2>1, EpochType DEF TypeOK, PollRows
  <2>3. QED
    BY <1>3, <2>2 DEF Placed
<1>4. QED
  BY <1>1, <1>2, <1>3

LEMMA UnverifiedGapsType ==
  ASSUME NEW ids \in SUBSET Nat
  PROVE  UnverifiedGaps(ids) \subseteq Gaps
<1> SUFFICES ASSUME NEW r \in ids \X ids
             PROVE  [from |-> r[1], to |-> r[2], why |-> "unverified"] \in Gaps
  BY DEF UnverifiedGaps
<1>1. r[1] \in Nat /\ r[2] \in Nat
  OBVIOUS
<1>2. QED
  BY <1>1 DEF Gaps

LEMMA BatchType ==
  ASSUME TypeOK, NEW taken \in SUBSET polls, NEW last \in Nat
  PROVE  Batch(taken, last) \in Batches
<1> DEFINE sent == {p \in taken : Fate(p) = "send"}
           obs  == ConsumedObs(last)
<1>1. {SentPoll(p) : p \in sent} \in SUBSET SentPolls
  <2>1. \A p \in sent : p \in PollRows /\ Placed(p) \in Int
    BY PlacedType DEF TypeOK
  <2>2. QED
    BY <2>1 DEF SentPoll, SentPolls, PollRows
<1>2. {[n |-> p.n, ts |-> Placed(p)] : p \in {q \in sent : \E o \in obs : o.poll = q.id}}
        \in SUBSET SentObs
  <2>1. \A p \in sent : p \in PollRows /\ Placed(p) \in Int
    BY PlacedType DEF TypeOK
  <2>2. QED
    BY <2>1 DEF SentObs, PollRows
<1>3. LostGaps \subseteq Gaps
  BY DEF LostGaps, Gaps, TypeOK, PollRows, Cursors
<1>4. UnverifiedGaps(Ids(taken \ sent)) \subseteq Gaps
  <2>1. Ids(taken \ sent) \subseteq Nat
    BY DEF Ids, TypeOK, PollRows
  <2>2. QED
    BY <2>1, UnverifiedGapsType
<1>5. cursor.buffer \in Nat
  BY DEF TypeOK, Cursors
<1>6. QED
  BY <1>1, <1>2, <1>3, <1>4, <1>5 DEF Batch, Batches

LEMMA MergeType ==
  ASSUME TypeOK, NEW b \in Batches, MergeRows(b)
  PROVE  /\ srvPolls' \subseteq SentPolls /\ srvObs' \subseteq SentObs
         /\ srvGaps' \subseteq
              [buffer : Nat, from : Nat, to : Nat, why : {"lost", "unverified"}]
BY DEF TypeOK, MergeRows, InsertByTs, InsertGaps, Batches, Gaps

LEMMA NothingType ==
  NoBatch \in Batches /\ NoCursor \in Cursors
BY DEF NoBatch, NoCursor, Batches, Cursors

-----------------------------------------------------------------------------
(* Type correctness.                                                       *)

LEMMA TypeInit == Init => TypeOK
BY BatchAssumption, EnvAssumption, NothingType DEF Init, TypeOK, NoRequest

LEMMA TypeStep == TypeOK /\ [Next]_vars => TypeOK'
<1> SUFFICES ASSUME TypeOK, [Next]_vars PROVE TypeOK'
  OBVIOUS
<1> USE BatchAssumption, EnvAssumption, NothingType
<1>1. ASSUME NEW kind \in Kinds, NEW synced \in BOOLEAN, Poll(kind, synced) PROVE TypeOK'
  <2>1. polls' \subseteq PollRows /\ observations' \subseteq ObsRows
    BY <1>1 DEF Poll, Mono, TypeOK, PollRows, ObsRows
  <2>2. /\ now' \in Nat /\ made' \subseteq [n : Nat, buffer : Nat, id : Nat]
        /\ ntpAnchors' \subseteq Anchors
    BY <1>1 DEF Poll, Mono, TypeOK, Anchors
  <2>3. QED
    BY <1>1, <2>1, <2>2 DEF Poll, TypeOK, uploaderVars, networkVars, serverVars
<1>2. ASSUME NEW n \in 1 .. MaxPolls, Prune(2 * n) PROVE TypeOK'
  BY <1>2 DEF Prune, TypeOK, uploaderVars, networkVars, serverVars
<1>3. ASSUME NEW d \in Drifts, Reboot(d) PROVE TypeOK'
  BY <1>3 DEF Reboot, TypeOK, NoRequest, serverVars
<1>4. ASSUME NewBuffer PROVE TypeOK'
  BY <1>4 DEF NewBuffer, TypeOK, NoRequest, serverVars
<1>5. ASSUME EnsureCursor PROVE TypeOK'
  <2>1. Ids(polls) \subseteq Nat
    BY DEF Ids, TypeOK, PollRows
  <2>2. cursor' \in Cursors
    BY <1>5, <2>1 DEF EnsureCursor, TypeOK, Cursors
  <2>3. QED
    BY <1>5, <2>2 DEF EnsureCursor, TypeOK, sensorVars, networkVars, serverVars
<1>6. ASSUME Send PROVE TypeOK'
  <2>1. PICK last \in {cursor.polls} \cup Ids(polls),
             lastObs \in {cursor.obs} \cup Ids(observations) :
               request' = [state |-> "sent", batch |-> Batch(Taken, last),
                           new |-> [cursor EXCEPT !.polls = last, !.obs = lastObs]]
    BY <1>6 DEF Send
  <2>2. last \in Nat /\ lastObs \in Nat
    BY DEF Ids, TypeOK, PollRows, ObsRows, Cursors
  <2>3. Taken \in SUBSET polls
    BY DEF Taken
  <2>4. Batch(Taken, last) \in Batches
    BY <2>2, <2>3, BatchType
  <2>5. [cursor EXCEPT !.polls = last, !.obs = lastObs] \in Cursors
    BY <2>2 DEF TypeOK, Cursors
  <2>6. QED
    BY <1>6, <2>1, <2>4, <2>5 DEF Send, TypeOK, sensorVars, uploaderVars, serverVars
<1>7. ASSUME Accepted PROVE TypeOK'
  <2>1. anchors' \subseteq Anchors
    BY <1>7 DEF Accepted, ServerAnchor, AnchorOf, Mono, Anchors, TypeOK
  <2>2. QED
    BY <1>7, <2>1 DEF Accepted, TypeOK, NoRequest, sensorVars, serverVars
<1>8. ASSUME GiveUp PROVE TypeOK'
  BY <1>8 DEF GiveUp, TypeOK, NoRequest, sensorVars, uploaderVars, serverVars
<1>9. ASSUME TooLarge PROVE TypeOK'
  <2>1. maxPolls' \in Nat \ {0}
    BY <1>9 DEF TooLarge, TypeOK
  <2>2. QED
    BY <1>9, <2>1 DEF TooLarge, TypeOK, NoRequest, sensorVars, serverVars
<1>10. ASSUME NEW err \in Errs, Heartbeat(err) PROVE TypeOK'
  <2>1. anchors' \subseteq Anchors
    BY <1>10 DEF Heartbeat, ServerAnchor, AnchorOf, Mono, Anchors, TypeOK
  <2>2. QED
    BY <1>10, <2>1 DEF Heartbeat, TypeOK, sensorVars, networkVars, serverVars
<1>11. ASSUME StateLoss PROVE TypeOK'
  BY <1>11 DEF StateLoss, TypeOK, NoRequest, sensorVars, serverVars
<1>12. ASSUME Merge PROVE TypeOK'
  <2>1. request.batch \in Batches
    BY DEF TypeOK
  <2>2. request' \in [state : {"idle", "sent", "merged"}, batch : Batches, new : Cursors]
    BY <1>12 DEF Merge, TypeOK
  <2>3. QED
    BY <1>12, <2>1, <2>2, MergeType DEF Merge, TypeOK, sensorVars, uploaderVars
<1>13. ASSUME NEW b \in late, MergeLate(b) PROVE TypeOK'
  <2>1. b \in Batches
    BY DEF TypeOK
  <2>2. QED
    BY <1>13, <2>1, MergeType DEF MergeLate, TypeOK, sensorVars, uploaderVars
<1>14. ASSUME UNCHANGED vars PROVE TypeOK'
  BY <1>14 DEF TypeOK, vars, sensorVars, uploaderVars, networkVars, serverVars
<1>15. QED
  BY <1>1, <1>2, <1>3, <1>4, <1>5, <1>6, <1>7, <1>8, <1>9, <1>10, <1>11, <1>12,
     <1>13, <1>14 DEF Next

(* Every variable of the pipeline keeps its type, whatever the bounds.     *)
THEOREM TypeCorrect == Spec => []TypeOK
<1>1. QED
  BY TypeInit, TypeStep, PTL DEF Spec

-----------------------------------------------------------------------------
(* Every row that travels or is stored has the poll's true time, up to the *)
(* error of a server anchor.                                               *)

RowPlaced(r) == r.ts - 2 * r.n \in {0} \cup Errs

\* The two clocks of a boot run at one pace: its polls agree on when it began,
\* its NTP anchor agrees with them, its server anchor up to its error.
BootInv ==
  /\ \A p \in polls : p.boot <= boot /\ (p.boot = boot => 2 * p.n - p.mono = bootTime)
  /\ \A a \in ntpAnchors : a.boot <= boot /\ (a.boot = boot => a.wall - a.mono = bootTime)
  /\ \A a \in anchors : a.boot <= boot /\ (a.boot = boot => (a.wall - a.mono) - bootTime \in Errs)
  /\ \A p \in polls, a \in ntpAnchors : p.boot = a.boot => a.wall - a.mono = 2 * p.n - p.mono
  /\ \A p \in polls, a \in anchors :
       p.boot = a.boot => (a.wall - a.mono) - (2 * p.n - p.mono) \in Errs

PlaceInv ==
  /\ \A p \in polls : p.synced => p.ts = 2 * p.n
  /\ BootInv
  /\ \A r \in request.batch.polls : RowPlaced(r)
  /\ \A b \in late : \A r \in b.polls : RowPlaced(r)
  /\ \A r \in srvPolls : RowPlaced(r)

LEMMA BootInit == Init => BootInv
BY DEF Init, BootInv

LEMMA BootPoll ==
  ASSUME TypeOK, BootInv, NEW kind \in Kinds, NEW synced \in BOOLEAN, Poll(kind, synced)
  PROVE  BootInv'
<1> DEFINE ts == IF synced THEN 2 * (now + 1) ELSE 2 * (now + 1) - drift
           mono == 2 * (now + 1) - bootTime
           anchor == [boot |-> boot, wall |-> ts, mono |-> mono]
<1>1. PICK id : polls' = polls \cup {[id |-> id, n |-> now + 1, boot |-> boot, synced |-> synced,
                                      ts |-> ts, mono |-> mono]}
  BY DEF Poll, Mono
<1> PICK new : new = [id |-> id, n |-> now + 1, boot |-> boot, synced |-> synced, ts |-> ts, mono |-> mono]
  OBVIOUS
<1>2. polls' = polls \cup {new} /\ new.n = now + 1 /\ new.boot = boot /\ new.mono = mono
  BY <1>1
<1>3. boot \in Nat /\ now \in Nat /\ bootTime \in Int /\ 2 * new.n - new.mono = bootTime
  BY <1>2 DEF TypeOK
<1>4. UNCHANGED <<boot, bootTime, anchors>>
  BY DEF Poll, uploaderVars
<1>5. \A a \in ntpAnchors' : a \in ntpAnchors \/ (a.boot = boot /\ a.wall - a.mono = bootTime)
  <2>1. CASE ntpAnchors' = ntpAnchors
    BY <2>1
  <2>2. CASE ntpAnchors' # ntpAnchors
    <3>1. synced /\ ntpAnchors' = ntpAnchors \cup {anchor}
      BY <2>2 DEF Poll, Mono
    <3>2. anchor.boot = boot /\ anchor.wall - anchor.mono = bootTime
      BY <1>3, <3>1
    <3>3. QED
      BY <3>1, <3>2
  <2>3. QED
    BY <2>1, <2>2
<1>6. \A p \in polls' : p.boot <= boot' /\ (p.boot = boot' => 2 * p.n - p.mono = bootTime')
  BY <1>2, <1>3, <1>4 DEF BootInv
<1>7. \A a \in ntpAnchors' : a.boot <= boot' /\ (a.boot = boot' => a.wall - a.mono = bootTime')
  BY <1>3, <1>4, <1>5 DEF BootInv
<1>8. \A a \in anchors' : a.boot <= boot' /\ (a.boot = boot' => (a.wall - a.mono) - bootTime' \in Errs)
  BY <1>4 DEF BootInv
<1>9. ASSUME NEW p \in polls', NEW a \in ntpAnchors', p.boot = a.boot
      PROVE  a.wall - a.mono = 2 * p.n - p.mono
  <2>1. CASE p \in polls /\ a \in ntpAnchors
    BY <1>9, <2>1 DEF BootInv
  <2>2. CASE p.boot = boot
    BY <1>4, <1>6, <1>7, <1>9, <2>2
  <2>3. QED
    BY <1>2, <1>5, <1>9, <2>1, <2>2
<1>10. ASSUME NEW p \in polls', NEW a \in anchors', p.boot = a.boot
       PROVE  (a.wall - a.mono) - (2 * p.n - p.mono) \in Errs
  <2>1. CASE p \in polls
    BY <1>4, <1>10, <2>1 DEF BootInv
  <2>2. CASE p = new
    BY <1>2, <1>3, <1>4, <1>8, <1>10, <2>2
  <2>3. QED
    BY <1>2, <2>1, <2>2
<1>11. QED
  BY <1>6, <1>7, <1>8, <1>9, <1>10 DEF BootInv

LEMMA BootAnchors ==
  ASSUME TypeOK, BootInv, NEW err \in Errs, ServerAnchor(err),
         UNCHANGED <<polls, boot, bootTime, ntpAnchors>>
  PROVE  BootInv'
<1> DEFINE new == AnchorOf(err)
<1>1. anchors' = anchors \cup {new}
  BY DEF ServerAnchor
<1>2. boot \in Nat /\ bootTime \in Int /\ now \in Nat /\ err \in Int
  BY EnvAssumption DEF TypeOK
<1>3. new.boot = boot /\ new.wall - new.mono = bootTime + err
  <2>1. /\ new.boot = boot /\ new.wall = 2 * now + 1 + err
        /\ new.mono = (2 * now + 1) - bootTime
    BY DEF AnchorOf, Mono
  <2>2. QED
    BY <1>2, <2>1
<1> HIDE DEF new
<1>4. (new.wall - new.mono) - bootTime = err
  BY <1>2, <1>3
<1>5. ASSUME NEW p \in polls, p.boot = new.boot
      PROVE  (new.wall - new.mono) - (2 * p.n - p.mono) \in Errs
  <2>1. 2 * p.n - p.mono = bootTime
    BY <1>3, <1>5 DEF BootInv
  <2>2. QED
    BY <1>4, <2>1
<1>6. \A a \in anchors' : a.boot <= boot /\ (a.boot = boot => (a.wall - a.mono) - bootTime \in Errs)
  BY <1>1, <1>2, <1>3, <1>4 DEF BootInv
<1>7. \A p \in polls, a \in anchors' :
        p.boot = a.boot => (a.wall - a.mono) - (2 * p.n - p.mono) \in Errs
  BY <1>1, <1>5 DEF BootInv
<1>8. QED
  BY <1>6, <1>7 DEF BootInv

\* A new boot has neither polls nor anchors; rows and anchors may go.
LEMMA BootKept ==
  ASSUME TypeOK, BootInv, polls' \subseteq polls, ntpAnchors' \subseteq ntpAnchors, anchors' \subseteq anchors,
         (boot' = boot /\ bootTime' = bootTime) \/ boot' = boot + 1
  PROVE  BootInv'
<1>1. boot \in Nat /\ (\A p \in polls : p.boot \in Nat) /\ (\A a \in ntpAnchors : a.boot \in Nat)
      /\ (\A a \in anchors : a.boot \in Nat)
  BY DEF TypeOK, PollRows, Anchors
<1>2. \A p \in polls' : p.boot <= boot' /\ (p.boot = boot' => 2 * p.n - p.mono = bootTime')
  BY <1>1 DEF BootInv
<1>3. \A a \in ntpAnchors' : a.boot <= boot' /\ (a.boot = boot' => a.wall - a.mono = bootTime')
  BY <1>1 DEF BootInv
<1>4. \A a \in anchors' : a.boot <= boot' /\ (a.boot = boot' => (a.wall - a.mono) - bootTime' \in Errs)
  BY <1>1 DEF BootInv
<1>5. /\ \A p \in polls', a \in ntpAnchors' : p.boot = a.boot => a.wall - a.mono = 2 * p.n - p.mono
      /\ \A p \in polls', a \in anchors' :
           p.boot = a.boot => (a.wall - a.mono) - (2 * p.n - p.mono) \in Errs
  BY DEF BootInv
<1>6. QED
  BY <1>2, <1>3, <1>4, <1>5 DEF BootInv

\* What the anchors say of a poll.
LEMMA NtpPlaces ==
  ASSUME TypeOK, BootInv, NEW p \in polls, HasAnchor(ntpAnchors, p.boot)
  PROVE  EpochTrue(ntpAnchors, p.boot) + p.mono = 2 * p.n
<1>1. PICK a \in ntpAnchors : a.boot = p.boot /\ EpochTrue(ntpAnchors, p.boot) = a.wall - a.mono
  BY EpochIs
<1>2. a.wall - a.mono = 2 * p.n - p.mono
  BY <1>1 DEF BootInv
<1>3. p.n \in Int /\ p.mono \in Int
  BY DEF TypeOK, PollRows
<1>4. QED
  BY <1>1, <1>2, <1>3

LEMMA ServerPlaces ==
  ASSUME TypeOK, BootInv, NEW p \in polls, HasAnchor(anchors, p.boot)
  PROVE  (EpochTrue(anchors, p.boot) + p.mono) - 2 * p.n \in Errs
<1>1. PICK a \in anchors : a.boot = p.boot /\ EpochTrue(anchors, p.boot) = a.wall - a.mono
  BY EpochIs
<1>2. (a.wall - a.mono) - (2 * p.n - p.mono) \in Errs
  BY <1>1 DEF BootInv
<1>3. p.n \in Int /\ p.mono \in Int /\ EpochTrue(anchors, p.boot) \in Int
  BY EpochType DEF TypeOK, PollRows
<1>4. (EpochTrue(anchors, p.boot) + p.mono) - 2 * p.n = EpochTrue(anchors, p.boot) - (2 * p.n - p.mono)
  BY <1>3
<1>5. QED
  BY <1>1, <1>2, <1>4

LEMMA SentPlaced ==
  ASSUME TypeOK, PlaceInv, NEW p \in polls, Fate(p) = "send"
  PROVE  RowPlaced(SentPoll(p))
<1>1. p.n \in Int /\ p.ts \in Int
  BY DEF TypeOK, PollRows
<1>2. SentPoll(p).ts = Placed(p) /\ SentPoll(p).n = p.n
  BY DEF SentPoll
<1>3. CASE p.synced
  <2>1. Placed(p) = 2 * p.n
    BY <1>3 DEF PlaceInv, Placed
  <2>2. QED
    BY <1>1, <1>2, <2>1 DEF RowPlaced
<1>4. CASE ~p.synced /\ HasAnchor(ntpAnchors, p.boot)
  <2>1. Placed(p) = 2 * p.n
    BY <1>4, NtpPlaces DEF PlaceInv, Placed
  <2>2. QED
    BY <1>1, <1>2, <2>1 DEF RowPlaced
<1>5. CASE ~p.synced /\ ~HasAnchor(ntpAnchors, p.boot)
  <2>1. HasAnchor(anchors, p.boot)
    BY <1>5 DEF Fate, Anchored
  <2>2. Placed(p) - 2 * p.n \in Errs
    BY <1>5, <2>1, ServerPlaces DEF PlaceInv, Placed
  <2>3. QED
    BY <1>2, <2>2 DEF RowPlaced
<1>6. QED
  BY <1>3, <1>4, <1>5

LEMMA MergePlaced ==
  ASSUME PlaceInv, NEW b, MergeRows(b), \A r \in b.polls : RowPlaced(r)
  PROVE  \A r \in srvPolls' : RowPlaced(r)
BY DEF PlaceInv, MergeRows, InsertByTs

LEMMA PlaceInit == Init => PlaceInv
BY BootInit DEF Init, PlaceInv, NoRequest, NoBatch

LEMMA PlaceStep == TypeOK /\ PlaceInv /\ [Next]_vars => PlaceInv'
<1> SUFFICES ASSUME TypeOK, PlaceInv, [Next]_vars PROVE PlaceInv'
  OBVIOUS
<1> USE DEF PlaceInv
<1>1. ASSUME NEW kind \in Kinds, NEW synced \in BOOLEAN, Poll(kind, synced) PROVE PlaceInv'
  <2>1. BootInv'
    BY <1>1, BootPoll
  <2>2. \A p \in polls' : p.synced => p.ts = 2 * p.n
    BY <1>1 DEF Poll
  <2>3. QED
    BY <1>1, <2>1, <2>2 DEF Poll, uploaderVars, networkVars, serverVars
<1>2. ASSUME NEW n \in 1 .. MaxPolls, Prune(2 * n) PROVE PlaceInv'
  BY <1>2, BootKept DEF Prune, uploaderVars, networkVars, serverVars
<1>3. ASSUME NEW d \in Drifts, Reboot(d) PROVE PlaceInv'
  BY <1>3, BootKept DEF Reboot, NoRequest, NoBatch, serverVars
<1>4. ASSUME NewBuffer PROVE PlaceInv'
  BY <1>4, BootKept DEF NewBuffer, NoRequest, NoBatch, serverVars
<1>5. ASSUME EnsureCursor PROVE PlaceInv'
  BY <1>5, BootKept DEF EnsureCursor, sensorVars, networkVars, serverVars
<1>6. ASSUME Send PROVE PlaceInv'
  <2>1. PICK last \in {cursor.polls} \cup Ids(polls),
             lastObs \in {cursor.obs} \cup Ids(observations) :
               request' = [state |-> "sent", batch |-> Batch(Taken, last),
                           new |-> [cursor EXCEPT !.polls = last, !.obs = lastObs]]
    BY <1>6 DEF Send
  <2>2. request'.batch.polls = {SentPoll(p) : p \in {q \in Taken : Fate(q) = "send"}}
    BY <2>1 DEF Batch
  <2>3. \A r \in request'.batch.polls : RowPlaced(r)
    BY <2>2, SentPlaced DEF Taken
  <2>4. QED
    BY <1>6, <2>3, BootKept DEF Send, sensorVars, uploaderVars, serverVars
<1>7. ASSUME Accepted PROVE PlaceInv'
  <2>1. CASE UNCHANGED anchors
    BY <1>7, <2>1, BootKept DEF Accepted, NoRequest, NoBatch, sensorVars, serverVars
  <2>2. ASSUME NEW err \in Errs, ServerAnchor(err) PROVE PlaceInv'
    <3>1. BootInv'
      BY <1>7, <2>2, BootAnchors DEF Accepted, sensorVars
    <3>2. QED
      BY <1>7, <3>1 DEF Accepted, NoRequest, NoBatch, sensorVars, serverVars
  <2>3. QED
    BY <1>7, <2>1, <2>2 DEF Accepted
<1>8. ASSUME GiveUp PROVE PlaceInv'
  BY <1>8, BootKept DEF GiveUp, NoRequest, NoBatch, sensorVars, uploaderVars, serverVars
<1>9. ASSUME TooLarge PROVE PlaceInv'
  BY <1>9, BootKept DEF TooLarge, NoRequest, NoBatch, sensorVars, serverVars
<1>10. ASSUME NEW err \in Errs, Heartbeat(err) PROVE PlaceInv'
  <2>1. BootInv'
    BY <1>10, BootAnchors DEF Heartbeat, sensorVars
  <2>2. QED
    BY <1>10, <2>1 DEF Heartbeat, sensorVars, networkVars, serverVars
<1>11. ASSUME StateLoss PROVE PlaceInv'
  BY <1>11, BootKept DEF StateLoss, NoRequest, NoBatch, sensorVars, serverVars
<1>12. ASSUME Merge PROVE PlaceInv'
  <2>1. \A r \in srvPolls' : RowPlaced(r)
    BY <1>12, MergePlaced DEF Merge
  <2>2. request'.batch = NoBatch
    BY <1>12 DEF Merge, TypeOK
  <2>3. QED
    BY <1>12, <2>1, <2>2, BootKept DEF Merge, NoBatch, sensorVars, uploaderVars
<1>13. ASSUME NEW b \in late, MergeLate(b) PROVE PlaceInv'
  <2>1. \A r \in srvPolls' : RowPlaced(r)
    BY <1>13, MergePlaced DEF MergeLate
  <2>2. QED
    BY <1>13, <2>1, BootKept DEF MergeLate, sensorVars, uploaderVars
<1>14. ASSUME UNCHANGED vars PROVE PlaceInv'
  BY <1>14, BootKept DEF vars, sensorVars, uploaderVars, networkVars, serverVars
<1>15. QED
  BY <1>1, <1>2, <1>3, <1>4, <1>5, <1>6, <1>7, <1>8, <1>9, <1>10, <1>11, <1>12,
     <1>13, <1>14 DEF Next

(* No stale time reaches the server, for any number of boots, buffers,     *)
(* losses of the state file and late requests.                             *)
THEOREM StoredWherePlaced == Spec => []PlacedTruly
<1>1. PlaceInv => PlacedTruly
  BY DEF PlaceInv, RowPlaced, PlacedTruly
<1>2. QED
  BY TypeInit, TypeStep, PlaceInit, PlaceStep, <1>1, PTL DEF Spec

-----------------------------------------------------------------------------
(* A sensor in its first buffer skips nothing.                             *)

\* A poll the uploader need not offer again.
Settled(p) == p.n \in StoredPolls \/ Fate(p) = "unverified"

\* The newest poll always stays in the buffer, so a row id is never used
\* twice: it is the number of the poll.
BufferInv ==
  /\ bufferId = 1
  /\ IsFiniteSet(polls)
  /\ \A p \in polls : p.id = p.n /\ p.n \in 1 .. now /\ p.boot <= boot
  /\ now > 0 => \E p \in polls : p.n = now

\* What a batch holds starts where the settled polls end.
BatchInv(b) ==
  \A r \in b.polls :
    /\ r.seq = r.n /\ r.n <= now
    /\ \A p \in polls : p.n <= r.n => Settled(p) \/ \E q \in b.polls : q.n = p.n

\* So do the polls the server stores, from which a lost cursor is found again.
ServerInv ==
  \A s \in srvPolls :
    /\ s.seq = s.n /\ s.n <= now
    /\ \A p \in polls : p.n <= s.n => Settled(p)

\* The cursor that waits for an answer is safe once the batch is stored.
RequestInv ==
  /\ request.new.polls <= now
  /\ request.state = "sent" =>
       \A p \in polls : p.id <= request.new.polls =>
          Settled(p) \/ \E q \in request.batch.polls : q.n = p.n
  /\ request.state = "merged" =>
       \A p \in polls : p.id <= request.new.polls => Settled(p)

SkipInv ==
  /\ BufferInv
  /\ ServerInv
  /\ BatchInv(request.batch)
  /\ \A b \in late : BatchInv(b)
  /\ RequestInv
  /\ cursor.polls <= now
  /\ NothingSkipped

(* What one step may change.                                               *)

\* A later poll, boot or anchor is all that time brings.
Onward ==
  /\ \A s \in srvPolls : s \in srvPolls'
  /\ \A a \in anchors' : a \in anchors \/ a.boot = boot
  /\ \A c \in ntpAnchors' : c \in ntpAnchors \/ c.boot = boot
  /\ boot' \in {boot, boot + 1}
  /\ now' \in {now, now + 1}
  /\ \A p \in polls' : p \in polls \/ (p.n = now + 1 /\ now' = now + 1)

LEMMA StepOnward ==
  ASSUME TypeOK, BufferInv, bufferId' = 1, [Next]_vars
  PROVE  Onward
<1> USE DEF Onward
<1>1. ASSUME NEW kind \in Kinds, NEW synced \in BOOLEAN, Poll(kind, synced) PROVE Onward
  BY <1>1 DEF Poll, uploaderVars, networkVars, serverVars
<1>2. ASSUME NEW n \in 1 .. MaxPolls, Prune(2 * n) PROVE Onward
  BY <1>2 DEF Prune, uploaderVars, networkVars, serverVars
<1>3. ASSUME NEW d \in Drifts, Reboot(d) PROVE Onward
  BY <1>3 DEF Reboot, serverVars
<1>4. ASSUME NewBuffer PROVE Onward
  BY <1>4 DEF NewBuffer, BufferInv
<1>5. ASSUME EnsureCursor PROVE Onward
  BY <1>5 DEF EnsureCursor, sensorVars, networkVars, serverVars
<1>6. ASSUME Send PROVE Onward
  BY <1>6 DEF Send, sensorVars, uploaderVars, serverVars
<1>7. ASSUME Accepted PROVE Onward
  BY <1>7 DEF Accepted, ServerAnchor, AnchorOf, sensorVars, serverVars
<1>8. ASSUME GiveUp PROVE Onward
  BY <1>8 DEF GiveUp, sensorVars, uploaderVars, serverVars
<1>9. ASSUME TooLarge PROVE Onward
  BY <1>9 DEF TooLarge, sensorVars, serverVars
<1>10. ASSUME NEW err \in Errs, Heartbeat(err) PROVE Onward
  BY <1>10 DEF Heartbeat, ServerAnchor, AnchorOf, sensorVars, networkVars, serverVars
<1>11. ASSUME StateLoss PROVE Onward
  BY <1>11 DEF StateLoss, sensorVars, serverVars
<1>12. ASSUME Merge PROVE Onward
  BY <1>12 DEF Merge, MergeRows, InsertByTs, sensorVars, uploaderVars
<1>13. ASSUME NEW b \in late, MergeLate(b) PROVE Onward
  BY <1>13 DEF MergeLate, MergeRows, InsertByTs, sensorVars, uploaderVars
<1>14. ASSUME UNCHANGED vars PROVE Onward
  BY <1>14 DEF vars, sensorVars, uploaderVars, networkVars, serverVars
<1>15. QED
  BY <1>1, <1>2, <1>3, <1>4, <1>5, <1>6, <1>7, <1>8, <1>9, <1>10, <1>11, <1>12,
     <1>13, <1>14 DEF Next

\* A stored poll stays stored, and a boot that ended unanchored stays so.
LEMMA SettledStays ==
  ASSUME TypeOK, BufferInv, Onward, NEW p \in polls, Settled(p)
  PROVE  Settled(p)'
<1>1. CASE p.n \in StoredPolls
  BY <1>1 DEF Settled, StoredPolls, Onward
<1>2. CASE Fate(p) = "unverified"
  <2>1. ~p.synced /\ ~HasAnchor(ntpAnchors, p.boot) /\ p.boot # boot
        /\ \A a \in anchors : a.boot # p.boot
    BY <1>2 DEF Fate, Anchored, HasAnchor
  <2>2. p.boot \in Nat /\ boot \in Nat /\ p.boot < boot
    BY <2>1 DEF BufferInv, TypeOK, PollRows
  <2>3. p.boot # boot' /\ ~HasAnchor(ntpAnchors', p.boot) /\ \A a \in anchors' : a.boot # p.boot
    BY <2>1, <2>2 DEF Onward, HasAnchor
  <2>4. QED
    BY <2>1, <2>3 DEF Settled, Fate, Anchored, HasAnchor
<1>3. QED
  BY <1>1, <1>2 DEF Settled

LEMMA BatchStays ==
  ASSUME TypeOK, BufferInv, Onward, NEW b \in Batches, BatchInv(b)
  PROVE  BatchInv(b)'
<1> SUFFICES ASSUME NEW r \in b.polls
             PROVE  /\ r.seq = r.n /\ r.n <= now'
                    /\ \A p \in polls' : p.n <= r.n =>
                          Settled(p)' \/ \E q \in b.polls : q.n = p.n
  BY DEF BatchInv
<1>1. r.n \in Nat /\ now \in Nat
  BY DEF Batches, SentPolls, TypeOK
<1>2. r.seq = r.n /\ r.n <= now
  BY DEF BatchInv
<1>3. ASSUME NEW p \in polls', p.n <= r.n
      PROVE  Settled(p)' \/ \E q \in b.polls : q.n = p.n
  <2>1. p \in polls
    BY <1>1, <1>2, <1>3 DEF Onward
  <2>2. QED
    BY <1>3, <2>1, SettledStays DEF BatchInv
<1>4. QED
  BY <1>1, <1>2, <1>3 DEF Onward

LEMMA ServerStays ==
  ASSUME TypeOK, BufferInv, Onward, ServerInv, UNCHANGED srvPolls
  PROVE  ServerInv'
<1> SUFFICES ASSUME NEW s \in srvPolls
             PROVE  /\ s.seq = s.n /\ s.n <= now'
                    /\ \A p \in polls' : p.n <= s.n => Settled(p)'
  BY DEF ServerInv
<1>1. s.n \in Nat /\ now \in Nat
  BY DEF SentPolls, TypeOK
<1>2. s.seq = s.n /\ s.n <= now
  BY DEF ServerInv
<1>3. ASSUME NEW p \in polls', p.n <= s.n PROVE Settled(p)'
  <2>1. p \in polls
    BY <1>1, <1>2, <1>3 DEF Onward
  <2>2. QED
    BY <1>3, <2>1, SettledStays DEF ServerInv
<1>4. QED
  BY <1>1, <1>2, <1>3 DEF Onward

\* The cursor stays safe while it does not move.
LEMMA CursorStays ==
  ASSUME TypeOK, BufferInv, Onward, NEW last \in Nat, last <= now,
         \A p \in polls : p.id <= last => Settled(p),
         NEW p \in polls', p.id <= last, p.id = p.n
  PROVE  Settled(p)'
<1>1. now \in Nat
  BY DEF TypeOK
<1>2. p \in polls
  BY <1>1 DEF Onward
<1>3. QED
  BY <1>2, SettledStays

-----------------------------------------------------------------------------
(* The buffer.                                                             *)

LEMMA BufferInit == Init => BufferInv
BY FS_EmptySet DEF Init, BufferInv

\* The next row id is the number of the next poll.
LEMMA NextIdIsNext ==
  ASSUME TypeOK, BufferInv, NEW id \in Nat, IsNextId(id, polls)
  PROVE  id = now + 1
<1>1. \A p \in polls : p.id \in Nat /\ p.id = p.n /\ p.n \in 1 .. now
  BY DEF TypeOK, PollRows, BufferInv
<1>2. now \in Nat
  BY DEF TypeOK
<1>3. CASE polls = {}
  BY <1>2, <1>3 DEF IsNextId, BufferInv
<1>4. CASE polls # {}
  <2>1. now > 0
    BY <1>1, <1>2, <1>4
  <2>2. PICK p \in polls : p.n = now
    BY <2>1 DEF BufferInv
  <2>3. now < id
    BY <1>1, <1>4, <2>2 DEF IsNextId
  <2>4. PICK q \in polls : q.id = id - 1
    BY <1>4 DEF IsNextId, Ids
  <2>5. QED
    BY <1>1, <1>2, <2>3, <2>4
<1>5. QED
  BY <1>3, <1>4

LEMMA BufferStep ==
  ASSUME TypeOK, PlaceInv, BufferInv, bufferId' = 1, [Next]_vars
  PROVE  BufferInv'
<1>1. ASSUME NEW kind \in Kinds, NEW synced \in BOOLEAN, Poll(kind, synced) PROVE BufferInv'
  <2>1. PICK id \in 1 .. now + 1, ts \in Int, mono \in Int :
          /\ IsNextId(id, polls)
          /\ polls' = polls \cup
               {[id |-> id, n |-> now + 1, boot |-> boot, synced |-> synced, ts |-> ts, mono |-> mono]}
    BY <1>1 DEF Poll, Mono, TypeOK
  <2>2. id = now + 1 /\ now \in Nat /\ boot \in Nat
    BY <2>1, NextIdIsNext DEF TypeOK
  <2>3. IsFiniteSet(polls')
    BY <2>1, FS_AddElement DEF BufferInv
  <2>4. now' = now + 1 /\ boot' = boot /\ bufferId' = bufferId
    BY <1>1 DEF Poll
  <2>5. \A p \in polls' : p.id = p.n /\ p.n \in 1 .. now' /\ p.boot <= boot'
    BY <2>1, <2>2, <2>4 DEF BufferInv
  <2> DEFINE new == [id |-> id, n |-> now + 1, boot |-> boot, synced |-> synced, ts |-> ts, mono |-> mono]
  <2>6. new \in polls' /\ new.n = now'
    BY <2>1, <2>4
  <2>7. QED
    BY <2>3, <2>4, <2>5, <2>6 DEF BufferInv
<1>2. ASSUME NEW n \in 1 .. MaxPolls, Prune(2 * n) PROVE BufferInv'
  <2>1. polls' = {p \in polls : ~Expired(p, 2 * n)} /\ UNCHANGED <<now, boot, bufferId>>
    BY <1>2 DEF Prune
  <2>2. IsFiniteSet(polls')
    BY <2>1, FS_Subset DEF BufferInv
  <2>3. PICK p \in polls : p.n = now /\ p.synced /\ 2 * n <= p.ts
    BY <1>2 DEF Prune
  <2>4. ~Expired(p, 2 * n)
    BY <2>3 DEF Expired, TypeOK, PollRows
  <2>5. QED
    BY <2>1, <2>2, <2>3, <2>4 DEF BufferInv
<1>3. ASSUME NEW d \in Drifts, Reboot(d) PROVE BufferInv'
  <2>1. UNCHANGED <<polls, now, bufferId>> /\ boot' = boot + 1 /\ boot \in Nat
    BY <1>3 DEF Reboot, TypeOK
  <2>2. \A p \in polls : p.boot \in Nat
    BY DEF TypeOK, PollRows
  <2>3. QED
    BY <2>1, <2>2 DEF BufferInv
<1>4. ASSUME NewBuffer PROVE BufferInv'
  BY <1>4 DEF NewBuffer, BufferInv
<1>5. ASSUME UNCHANGED <<polls, now, boot, bufferId>> PROVE BufferInv'
  BY <1>5 DEF BufferInv
<1>6. ASSUME EnsureCursor \/ Send \/ GiveUp \/ Accepted \/ TooLarge \/ StateLoss \/ Merge
             \/ (\E err \in Errs : Heartbeat(err)) \/ (\E b \in late : MergeLate(b))
             \/ UNCHANGED vars
      PROVE  UNCHANGED <<polls, now, boot, bufferId>>
  BY <1>6 DEF EnsureCursor, Send, GiveUp, Accepted, TooLarge, StateLoss, Merge, Heartbeat,
     MergeLate, vars, sensorVars
<1>7. QED
  BY <1>1, <1>2, <1>3, <1>4, <1>5, <1>6 DEF Next

-----------------------------------------------------------------------------
(* What a batch takes.                                                     *)

\* Every poll up to the last one taken is taken: a held poll ends the batch.
LEMMA TakenAll ==
  ASSUME TypeOK, BufferInv, NEW p \in Taken, NEW q \in polls,
         cursor.polls < q.id, q.id <= p.id
  PROVE  q \in Taken
<1> DEFINE after == {r \in polls : r.id > cursor.polls}
           upTo(r) == {t \in after : t.id <= r.id}
<1>1. \A r \in polls : r.id \in Nat
  BY DEF TypeOK, PollRows
<1>2. p \in after /\ q \in after /\ cursor.polls \in Nat
  BY <1>1 DEF Taken, TypeOK, Cursors
<1>3. IsFiniteSet(upTo(p))
  BY FS_Subset DEF BufferInv
<1>4. upTo(q) \subseteq upTo(p)
  BY <1>1, <1>2
<1>5. Cardinality(upTo(q)) <= Cardinality(upTo(p)) /\ IsFiniteSet(upTo(q))
  BY <1>3, <1>4, FS_Subset
<1>6. Cardinality(upTo(q)) \in Nat /\ Cardinality(upTo(p)) \in Nat
  BY <1>3, <1>5, FS_CardinalityType
<1>7. Cardinality(upTo(p)) <= maxPolls /\ maxPolls \in Nat
  BY DEF Taken, TypeOK
<1>8. Cardinality(upTo(q)) <= maxPolls
  BY <1>5, <1>6, <1>7
<1>9. \A r \in {s \in after : Cardinality(upTo(s)) <= maxPolls} :
        r.id <= q.id => Fate(r) # "hold"
  BY <1>1, <1>2 DEF Taken
<1>10. QED
  BY <1>2, <1>8, <1>9 DEF Taken

LEMMA TakenSettles ==
  ASSUME TypeOK, BufferInv, NothingSkipped, NEW last \in Nat,
         NEW p \in polls, p.id <= last, NEW top \in Taken, last <= top.id
  PROVE  Settled(p) \/ \E r \in Batch(Taken, last).polls : r.n = p.n
<1>1. p.id \in Nat /\ top.id \in Nat /\ cursor.polls \in Nat
  BY DEF TypeOK, PollRows, Cursors, Taken
<1>2. CASE p.id <= cursor.polls
  BY <1>2 DEF NothingSkipped, Settled
<1>3. CASE cursor.polls < p.id
  <2>1. p \in Taken
    BY <1>1, <1>3, TakenAll
  <2>2. Fate(p) # "hold"
    <3>1. p.id <= p.id
      BY <1>1
    <3>2. QED
      BY <2>1, <3>1 DEF Taken
  <2>3. CASE Fate(p) = "unverified"
    BY <2>3 DEF Settled
  <2>4. CASE Fate(p) = "send"
    <3>1. SentPoll(p) \in Batch(Taken, last).polls
      BY <2>1, <2>4 DEF Batch
    <3>2. SentPoll(p).n = p.n
      BY DEF SentPoll
    <3>3. QED
      BY <3>1, <3>2
  <2>5. QED
    BY <2>2, <2>3, <2>4 DEF Fate
<1>4. QED
  BY <1>1, <1>2, <1>3

-----------------------------------------------------------------------------
(* What a merge stores.                                                    *)

\* A row that finds its time taken finds itself: rows of two polls never have
\* the same time.
LEMMA MergeStores ==
  ASSUME TypeOK, PlaceInv, NEW b \in Batches, MergeRows(b),
         \A r \in b.polls : RowPlaced(r), NEW r \in b.polls
  PROVE  r.n \in StoredPolls'
<1> USE EnvAssumption
<1>1. CASE \A s \in srvPolls : s.ts # r.ts
  BY <1>1 DEF MergeRows, InsertByTs, StoredPolls
<1>2. CASE \E s \in srvPolls : s.ts = r.ts
  <2>1. PICK s \in srvPolls : s.ts = r.ts
    BY <1>2
  <2>2. s.n \in Nat /\ s.ts \in Int /\ r.n \in Nat /\ r.ts \in Int
    BY DEF TypeOK, Batches, SentPolls
  <2>3. s.ts - 2 * s.n \in {0, 1} /\ r.ts - 2 * r.n \in {0, 1}
    BY DEF PlaceInv, RowPlaced
  <2>4. s.n = r.n
    BY <2>1, <2>2, <2>3
  <2>5. QED
    BY <2>4 DEF MergeRows, InsertByTs, StoredPolls
<1>3. QED
  BY <1>1, <1>2

LEMMA MergeServes ==
  ASSUME TypeOK, PlaceInv, BufferInv, Onward, ServerInv, NEW b \in Batches, MergeRows(b),
         \A r \in b.polls : RowPlaced(r), BatchInv(b), UNCHANGED <<polls, now>>
  PROVE  ServerInv'
<1> SUFFICES ASSUME NEW s \in srvPolls'
             PROVE  /\ s.seq = s.n /\ s.n <= now
                    /\ \A p \in polls : p.n <= s.n => Settled(p)'
  BY DEF ServerInv
<1>1. s \in srvPolls \/ s \in b.polls
  BY DEF MergeRows, InsertByTs
<1>2. CASE s \in srvPolls
  BY <1>2, SettledStays DEF ServerInv
<1>3. CASE s \in b.polls
  <2>1. ASSUME NEW p \in polls, p.n <= s.n PROVE Settled(p)'
    <3>1. CASE Settled(p)
      BY <3>1, SettledStays
    <3>2. CASE \E q \in b.polls : q.n = p.n
      BY <3>2, MergeStores DEF Settled
    <3>3. QED
      BY <1>3, <2>1, <3>1, <3>2 DEF BatchInv
  <2>2. QED
    BY <1>3, <2>1 DEF BatchInv
<1>4. QED
  BY <1>1, <1>2, <1>3

-----------------------------------------------------------------------------
(* The invariant.  A step is seen part by part: the cursor, the request,   *)
(* the abandoned batches and the server each stay as they are or move in   *)
(* one way only.                                                           *)

LEMMA SkipInit == Init => SkipInv
BY BufferInit DEF Init, SkipInv, ServerInv, BatchInv, RequestInv, NothingSkipped,
   NoRequest, NoBatch, NoCursor

LEMMA CursorKept ==
  ASSUME TypeOK, SkipInv, BufferInv', Onward, cursor' = cursor
  PROVE  cursor'.polls <= now' /\ NothingSkipped'
<1>1. cursor.polls \in Nat /\ now \in Nat /\ cursor.polls <= now
  BY DEF TypeOK, Cursors, SkipInv
<1>2. \A p \in polls : p.id <= cursor.polls => Settled(p)
  BY DEF SkipInv, NothingSkipped, Settled
<1>3. \A p \in polls' : p.id <= cursor.polls => Settled(p)'
  BY <1>1, <1>2, CursorStays DEF SkipInv, BufferInv
<1>4. QED
  BY <1>1, <1>3 DEF Onward, NothingSkipped, Settled

LEMMA RequestKept ==
  ASSUME TypeOK, SkipInv, BufferInv', Onward, request' = request
  PROVE  BatchInv(request.batch)' /\ RequestInv'
<1> DEFINE last == request.new.polls
<1>1. last \in Nat /\ now \in Nat /\ last <= now /\ request.batch \in Batches
  BY DEF TypeOK, Cursors, SkipInv, RequestInv
<1>2. BatchInv(request.batch)'
  BY <1>1, BatchStays DEF SkipInv, BatchInv
<1>3. last <= now'
  BY <1>1 DEF Onward
<1>4. ASSUME request.state = "merged", NEW p \in polls', p.id <= last
      PROVE  Settled(p)'
  BY <1>1, <1>4, CursorStays DEF SkipInv, RequestInv, BufferInv
<1>5. ASSUME request.state = "sent", NEW p \in polls', p.id <= last
      PROVE  Settled(p)' \/ \E q \in request.batch.polls : q.n = p.n
  <2>1. p \in polls
    BY <1>1, <1>5 DEF Onward, BufferInv
  <2>2. QED
    BY <1>5, <2>1, SettledStays DEF SkipInv, RequestInv
<1>6. QED
  BY <1>2, <1>3, <1>4, <1>5 DEF RequestInv

LEMMA RequestDropped ==
  ASSUME TypeOK', request' = NoRequest
  PROVE  BatchInv(request.batch)' /\ RequestInv'
BY DEF TypeOK, NoRequest, NoBatch, NoCursor, BatchInv, RequestInv

LEMMA LateKept ==
  ASSUME TypeOK, SkipInv, Onward, late' \subseteq late \cup {request.batch}
  PROVE  \A b \in late' : BatchInv(b)'
<1> SUFFICES ASSUME NEW b \in late' PROVE BatchInv(b)'
  OBVIOUS
<1>1. b \in Batches /\ BatchInv(b)
  BY DEF TypeOK, SkipInv
<1>2. QED
  BY <1>1, BatchStays DEF SkipInv

\* A lost cursor is found again no further than the server's newest poll.
LEMMA ResumeSafe ==
  ASSUME TypeOK, PlaceInv, SkipInv, NEW newest \in srvPolls,
         NEW id \in {0} \cup Ids(polls), IsPollOf(id, newest)
  PROVE  id <= now /\ \A p \in polls : p.id <= id => Settled(p)
<1> USE EnvAssumption
<1>1. /\ newest.n \in Nat /\ newest.ts \in Int /\ newest.seq = newest.n /\ newest.n <= now
      /\ newest.ts - 2 * newest.n \in {0, 1}
  BY DEF TypeOK, SentPolls, SkipInv, ServerInv, PlaceInv, RowPlaced
<1>2. \A p \in polls : p.id \in Nat /\ p.n \in Nat /\ p.id = p.n /\ p.ts \in Int
  BY DEF TypeOK, PollRows, SkipInv, BufferInv
<1>3. id <= newest.n
  <2>1. CASE \E p \in polls : p.id = newest.seq /\ p.ts = newest.ts
    BY <1>1, <2>1 DEF IsPollOf
  <2>2. CASE ~ \E p \in polls : p.id = newest.seq /\ p.ts = newest.ts
    <3> DEFINE older == {p \in polls : p.synced /\ p.ts <= newest.ts}
    <3>1. CASE older = {}
      BY <1>1, <2>2, <3>1 DEF IsPollOf
    <3>2. CASE older # {}
      <4>1. id \in Ids(older)
        BY <2>2, <3>2 DEF IsPollOf
      <4>2. PICK p \in polls : p.id = id /\ p.synced /\ p.ts <= newest.ts
        BY <4>1 DEF Ids
      <4>3. p.ts = 2 * p.n
        BY <4>2 DEF PlaceInv
      <4>4. QED
        BY <1>1, <1>2, <4>2, <4>3
    <3>3. QED
      BY <3>1, <3>2
  <2>3. QED
    BY <2>1, <2>2
<1>4. id \in Nat /\ now \in Nat
  BY <1>2 DEF Ids, TypeOK
<1>5. \A p \in polls : p.n <= newest.n => Settled(p)
  BY DEF SkipInv, ServerInv
<1>6. QED
  BY <1>1, <1>2, <1>3, <1>4, <1>5

\* A batch takes the polls that follow, and nothing beyond its last one.
LEMMA SendSafe ==
  ASSUME TypeOK, PlaceInv, SkipInv, NEW last \in Nat, IsLastOf(last, Taken),
         NEW b, b = Batch(Taken, last)
  PROVE  /\ last <= now
         /\ BatchInv(b)
         /\ \A p \in polls : p.id <= last => Settled(p) \/ \E r \in b.polls : r.n = p.n
<1>1. /\ BufferInv /\ NothingSkipped /\ cursor.polls <= now
      /\ now \in Nat /\ cursor.polls \in Nat
  BY DEF SkipInv, TypeOK, Cursors
<1>2. \A p \in polls : p.id \in Nat /\ p.n \in Nat /\ p.id = p.n /\ p.n <= now
  BY <1>1 DEF TypeOK, PollRows, BufferInv
<1>3. last <= now /\ \A p \in polls : p.id <= last =>
         Settled(p) \/ \E r \in b.polls : r.n = p.n
  <2>1. CASE Taken = {}
    BY <1>1, <2>1 DEF IsLastOf, NothingSkipped, Settled
  <2>2. CASE Taken # {}
    <3>1. PICK top \in Taken : top.id = last
      BY <2>2 DEF IsLastOf, Ids
    <3>2. top \in polls
      BY DEF Taken
    <3>3. QED
      BY <1>1, <1>2, <3>1, <3>2, TakenSettles
  <2>3. QED
    BY <2>1, <2>2
<1>4. ASSUME NEW r \in b.polls
      PROVE  r.seq = r.n /\ r.n <= now /\ r.n <= last
  <2>1. PICK p \in Taken : r = SentPoll(p)
    BY DEF Batch
  <2>2. r.seq = p.id /\ r.n = p.n
    BY <2>1 DEF SentPoll
  <2>3. p \in polls /\ p.id <= last
    BY <2>1 DEF Taken, IsLastOf
  <2>4. QED
    BY <1>2, <2>2, <2>3
<1>5. BatchInv(b)
  <2>1. ASSUME NEW r \in b.polls, NEW p \in polls, p.n <= r.n
        PROVE  Settled(p) \/ \E q \in b.polls : q.n = p.n
    <3>1. r.n \in Nat
      <4>1. b \in Batches
        BY BatchType DEF Taken
      <4>2. QED
        BY <4>1 DEF Batches, SentPolls
    <3>2. p.id <= last
      BY <1>2, <1>4, <2>1, <3>1
    <3>3. QED
      BY <1>3, <3>2
  <2>2. QED
    BY <1>4, <2>1 DEF BatchInv
<1>6. QED
  BY <1>3, <1>5

LEMMA SkipStep ==
  ASSUME TypeOK, PlaceInv, SkipInv, bufferId' = 1, [Next]_vars
  PROVE  SkipInv'
<1>1. BufferInv /\ ServerInv /\ TypeOK'
  BY TypeStep DEF SkipInv
<1>2. Onward /\ BufferInv'
  BY <1>1, StepOnward, BufferStep
<1>3. ASSUME UNCHANGED <<cursor, request, late, srvPolls>> PROVE SkipInv'
  BY <1>1, <1>2, <1>3, CursorKept, RequestKept, LateKept, ServerStays DEF SkipInv
<1>4. ASSUME cursor' = cursor, srvPolls' = srvPolls, request' = NoRequest,
             late' \subseteq late \cup {request.batch}
      PROVE  SkipInv'
  BY <1>1, <1>2, <1>4, CursorKept, RequestDropped, LateKept, ServerStays DEF SkipInv
<1>5. ASSUME EnsureCursor PROVE SkipInv'
  <2>1. UNCHANGED <<request, late, srvPolls, polls, now, boot, ntpAnchors, anchors>>
    BY <1>5 DEF EnsureCursor, sensorVars, networkVars, serverVars
  <2>2. cursor'.polls <= now /\ \A p \in polls : p.id <= cursor'.polls => Settled(p)
    <3>1. CASE srvPolls = {} /\ cursor' = [buffer |-> bufferId, polls |-> 0, obs |-> 0]
      BY <3>1 DEF SkipInv, BufferInv, TypeOK, PollRows
    <3>2. ASSUME NEW newest \in srvPolls, NEW p \in {0} \cup Ids(polls), NEW o \in 0 .. now,
                 IsPollOf(p, newest), cursor' = [buffer |-> bufferId, polls |-> p, obs |-> o]
          PROVE  cursor'.polls <= now /\ \A q \in polls : q.id <= cursor'.polls => Settled(q)
      BY <3>2, ResumeSafe
    <3>3. QED
      BY <1>5, <3>1, <3>2 DEF EnsureCursor
  <2>3. NothingSkipped'
    BY <2>1, <2>2 DEF NothingSkipped, Settled, StoredPolls, Fate, Anchored, HasAnchor
  <2>4. QED
    BY <1>1, <1>2, <2>1, <2>2, <2>3, RequestKept, LateKept, ServerStays DEF SkipInv
<1>6. ASSUME Send PROVE SkipInv'
  <2>1. UNCHANGED <<cursor, late, srvPolls, polls, now, boot, ntpAnchors, anchors>>
    BY <1>6 DEF Send, sensorVars, uploaderVars, serverVars
  <2>2. PICK last \in {cursor.polls} \cup Ids(polls),
             lastObs \in {cursor.obs} \cup Ids(observations) :
          /\ IsLastOf(last, Taken)
          /\ request' = [state |-> "sent", batch |-> Batch(Taken, last),
                         new |-> [cursor EXCEPT !.polls = last, !.obs = lastObs]]
    BY <1>6 DEF Send
  <2>3. last \in Nat
    BY DEF TypeOK, PollRows, Cursors, Ids
  <2> DEFINE b == Batch(Taken, last)
  <2>4. /\ last <= now /\ BatchInv(b)
        /\ \A p \in polls : p.id <= last => Settled(p) \/ \E r \in b.polls : r.n = p.n
    BY <2>2, <2>3, SendSafe
  <2>5. request'.state = "sent" /\ request'.batch = b /\ request'.new.polls = last
    BY <2>2 DEF TypeOK, Cursors
  <2> HIDE DEF b
  <2>6. BatchInv(request.batch)' /\ RequestInv'
    BY <2>1, <2>4, <2>5 DEF BatchInv, RequestInv, Settled, StoredPolls, Fate, Anchored, HasAnchor
  <2>7. QED
    BY <1>1, <1>2, <2>1, <2>6, CursorKept, LateKept, ServerStays DEF SkipInv
<1>7. ASSUME Accepted PROVE SkipInv'
  <2>1. /\ request.state = "merged" /\ cursor' = request.new /\ request' = NoRequest
        /\ UNCHANGED <<late, srvPolls, polls, now>>
    BY <1>7 DEF Accepted, sensorVars, serverVars
  <2>2. cursor'.polls <= now' /\ NothingSkipped'
    BY <1>1, <1>2, <2>1, SettledStays DEF SkipInv, RequestInv, NothingSkipped, Settled
  <2>3. QED
    BY <1>1, <1>2, <2>1, <2>2, RequestDropped, LateKept, ServerStays DEF SkipInv
<1>8. ASSUME StateLoss PROVE SkipInv'
  <2>1. cursor' = NoCursor /\ request' = NoRequest /\ UNCHANGED <<late, srvPolls, polls, now>>
    BY <1>8 DEF StateLoss, sensorVars, serverVars
  <2>2. cursor'.polls <= now' /\ NothingSkipped'
    BY <2>1 DEF NoCursor, NothingSkipped, SkipInv, BufferInv, TypeOK
  <2>3. QED
    BY <1>1, <1>2, <2>1, <2>2, RequestDropped, LateKept, ServerStays DEF SkipInv
<1>9. ASSUME Merge PROVE SkipInv'
  <2>1. /\ request.state = "sent" /\ MergeRows(request.batch)
        /\ request' = [request EXCEPT !.state = "merged", !.batch = NoBatch]
        /\ UNCHANGED <<cursor, late, polls, now>>
    BY <1>9 DEF Merge, sensorVars, uploaderVars
  <2>2. /\ request.batch \in Batches /\ BatchInv(request.batch)
        /\ \A r \in request.batch.polls : RowPlaced(r)
    BY DEF TypeOK, SkipInv, PlaceInv
  <2>3. ServerInv'
    BY <1>1, <1>2, <2>1, <2>2, MergeServes
  <2>4. request'.state = "merged" /\ request'.batch = NoBatch /\ request'.new = request.new
    BY <2>1 DEF TypeOK
  <2>5. \A p \in polls : p.id <= request.new.polls => Settled(p)'
    BY <1>1, <1>2, <2>1, <2>2, SettledStays, MergeStores DEF SkipInv, RequestInv, Settled
  <2>6. BatchInv(request.batch)' /\ RequestInv'
    BY <2>1, <2>4, <2>5 DEF SkipInv, RequestInv, BatchInv, NoBatch
  <2>7. QED
    BY <1>2, <2>1, <2>3, <2>6, CursorKept, LateKept DEF SkipInv
<1>10. ASSUME NEW b \in late, MergeLate(b) PROVE SkipInv'
  <2>1. MergeRows(b) /\ late' = late \ {b} /\ UNCHANGED <<cursor, request, polls, now>>
    BY <1>10 DEF MergeLate, sensorVars, uploaderVars
  <2>2. b \in Batches /\ BatchInv(b) /\ \A r \in b.polls : RowPlaced(r)
    BY DEF TypeOK, SkipInv, PlaceInv
  <2>3. ServerInv'
    BY <1>1, <1>2, <2>1, <2>2, MergeServes
  <2>4. QED
    BY <1>2, <2>1, <2>3, CursorKept, RequestKept, LateKept DEF SkipInv
<1>11. ASSUME \/ \E kind \in Kinds, synced \in BOOLEAN : Poll(kind, synced)
              \/ \E n \in 1 .. MaxPolls : Prune(2 * n)
              \/ \E err \in Errs : Heartbeat(err)
              \/ UNCHANGED vars
       PROVE  UNCHANGED <<cursor, request, late, srvPolls>>
  BY <1>11 DEF Poll, Prune, Heartbeat, vars, uploaderVars, networkVars, serverVars
<1>12. ASSUME GiveUp \/ TooLarge \/ \E d \in Drifts : Reboot(d)
       PROVE  /\ cursor' = cursor /\ srvPolls' = srvPolls /\ request' = NoRequest
              /\ late' \subseteq late \cup {request.batch}
  BY <1>12 DEF GiveUp, TooLarge, Reboot, uploaderVars, serverVars
<1>13. ~NewBuffer
  BY DEF NewBuffer, SkipInv, BufferInv
<1>14. QED
  BY <1>3, <1>4, <1>5, <1>6, <1>7, <1>8, <1>9, <1>10, <1>11, <1>12, <1>13 DEF Next

LEMMA FirstStep ==
  TypeOK /\ PlaceInv /\ bufferId > 0 /\ (bufferId = 1 => SkipInv) /\ [Next]_vars
    => bufferId' > 0 /\ (bufferId' = 1 => SkipInv')
<1> SUFFICES ASSUME TypeOK, PlaceInv, bufferId > 0, bufferId = 1 => SkipInv, [Next]_vars
             PROVE  bufferId' > 0 /\ (bufferId' = 1 => SkipInv')
  OBVIOUS
<1>1. bufferId' = bufferId \/ bufferId' = bufferId + 1
  BY DEF Next, Poll, Prune, Reboot, NewBuffer, EnsureCursor, Send, Accepted, GiveUp,
     TooLarge, Heartbeat, StateLoss, Merge, MergeLate, vars, sensorVars
<1>2. bufferId \in Nat
  BY DEF TypeOK
<1>3. CASE bufferId' = 1
  BY <1>1, <1>2, <1>3, SkipStep
<1>4. QED
  BY <1>1, <1>2, <1>3

(* Until the buffer file is replaced, the uploader never skips a poll that *)
(* is still in the buffer: whatever requests are lost, late or repeated,   *)
(* and even when the state file disappears and the cursor is found again   *)
(* from the server's newest poll.                                          *)
THEOREM NothingIsSkipped == Spec => []FirstBufferSafe
<1> DEFINE Inv == TypeOK /\ PlaceInv /\ bufferId > 0 /\ (bufferId = 1 => SkipInv)
<1>1. Init => Inv
  BY TypeInit, PlaceInit, SkipInit DEF Init
<1>2. Inv /\ [Next]_vars => Inv'
  BY TypeStep, PlaceStep, FirstStep
<1>3. Inv => FirstBufferSafe
  BY DEF SkipInv, FirstBufferSafe
<1>4. QED
  BY <1>1, <1>2, <1>3, PTL DEF Spec

-----------------------------------------------------------------------------
(* With the state file and the buffer kept.                                *)

\* What the theorems assume of the environment.
Kept == MaxStateLosses = 0 /\ MaxBuffers = 1

\* The poll rows that are stored or travel.
Rows == srvPolls \cup request.batch.polls \cup UNION {b.polls : b \in late}

\* What may be said of the buffer and the cursor when both are kept.
KeptInv == TypeOK /\ PlaceInv /\ SkipInv /\ losses = 0

LEMMA KeptInit == Init => KeptInv
BY TypeInit, PlaceInit, SkipInit DEF Init, KeptInv

LEMMA KeptStep ==
  ASSUME Kept, KeptInv, [Next]_vars
  PROVE  KeptInv' /\ Onward /\ ~NewBuffer /\ ~StateLoss
<1>1. ~NewBuffer
  BY DEF Kept, KeptInv, SkipInv, BufferInv, NewBuffer
<1>2. ~StateLoss
  BY DEF Kept, KeptInv, StateLoss
<1>3. bufferId' = bufferId /\ losses' = losses
  BY <1>1, <1>2 DEF Next, Poll, Prune, Reboot, EnsureCursor, Send, Accepted, GiveUp,
     TooLarge, Heartbeat, Merge, MergeLate, vars, sensorVars, uploaderVars
<1>4. bufferId' = 1
  BY <1>3 DEF KeptInv, SkipInv, BufferInv
<1>5. KeptInv'
  BY <1>3, <1>4, TypeStep, PlaceStep, SkipStep DEF KeptInv
<1>6. Onward
  BY <1>4, StepOnward DEF KeptInv, SkipInv
<1>7. QED
  BY <1>1, <1>2, <1>5, <1>6

\* A row carries the number of a poll that was made.
LEMMA RowTypes ==
  ASSUME KeptInv, NEW r \in Rows
  PROVE  r \in SentPolls /\ r.n \in Nat /\ r.seq = r.n /\ r.n <= now
<1>1. CASE r \in srvPolls
  BY <1>1 DEF KeptInv, TypeOK, SkipInv, ServerInv, SentPolls
<1>2. CASE r \in request.batch.polls
  BY <1>2 DEF KeptInv, TypeOK, SkipInv, BatchInv, Batches, SentPolls
<1>3. ASSUME NEW b \in late, r \in b.polls
      PROVE  r \in SentPolls /\ r.n \in Nat /\ r.seq = r.n /\ r.n <= now
  BY <1>3 DEF KeptInv, TypeOK, SkipInv, BatchInv, Batches, SentPolls
<1>4. QED
  BY <1>1, <1>2, <1>3 DEF Rows

LEMMA BufferTypes ==
  ASSUME KeptInv, NEW p \in polls
  PROVE  /\ p \in PollRows /\ p.id = p.n /\ p.n \in Nat /\ p.n <= now /\ 1 <= p.n
         /\ p.boot \in Nat /\ p.boot <= boot
BY DEF KeptInv, TypeOK, SkipInv, BufferInv, PollRows

-----------------------------------------------------------------------------
(* Which rows there are.                                                    *)

Sendable == {p \in polls : Fate(p) = "send"}

\* Rows come from a batch that is built now, or were there before.
LEMMA RowsStep ==
  ASSUME KeptInv, [Next]_vars, ~NewBuffer, ~StateLoss
  PROVE  Rows' \subseteq Rows \cup {SentPoll(p) : p \in Sendable}
<1> USE DEF Rows
<1>1. ASSUME UNCHANGED <<srvPolls, request, late>> PROVE Rows' = Rows
  BY <1>1
<1>2. ASSUME srvPolls' = srvPolls, request' = NoRequest, late' \subseteq late \cup {request.batch}
      PROVE  Rows' \subseteq Rows
  BY <1>2 DEF NoRequest, NoBatch
<1>3. ASSUME Send PROVE Rows' \subseteq Rows \cup {SentPoll(p) : p \in Sendable}
  <2>1. PICK last \in {cursor.polls} \cup Ids(polls),
             lastObs \in {cursor.obs} \cup Ids(observations) :
               request' = [state |-> "sent", batch |-> Batch(Taken, last),
                           new |-> [cursor EXCEPT !.polls = last, !.obs = lastObs]]
    BY <1>3 DEF Send
  <2>2. request'.batch.polls = {SentPoll(p) : p \in {q \in Taken : Fate(q) = "send"}}
    BY <2>1 DEF Batch
  <2>3. request'.batch.polls \subseteq {SentPoll(p) : p \in Sendable}
    BY <2>2 DEF Taken, Sendable
  <2>4. srvPolls' = srvPolls /\ late' = late
    BY <1>3 DEF Send, serverVars
  <2>5. QED
    BY <2>3, <2>4
<1>4. ASSUME Merge PROVE Rows' \subseteq Rows
  <2>1. request'.batch = NoBatch
    BY <1>4 DEF Merge, KeptInv, TypeOK
  <2>2. QED
    BY <1>4, <2>1 DEF Merge, MergeRows, InsertByTs, NoBatch
<1>5. ASSUME NEW b \in late, MergeLate(b) PROVE Rows' \subseteq Rows
  BY <1>5 DEF MergeLate, MergeRows, InsertByTs
<1>6. ASSUME Accepted PROVE Rows' \subseteq Rows
  BY <1>2, <1>6 DEF Accepted, serverVars
<1>7. ASSUME \/ \E kind \in Kinds, synced \in BOOLEAN : Poll(kind, synced)
             \/ \E n \in 1 .. MaxPolls : Prune(2 * n)
             \/ \E err \in Errs : Heartbeat(err)
             \/ EnsureCursor \/ UNCHANGED vars
      PROVE  UNCHANGED <<srvPolls, request, late>>
  BY <1>7 DEF Poll, Prune, Heartbeat, EnsureCursor, vars, networkVars, serverVars
<1>8. ASSUME GiveUp \/ TooLarge \/ \E d \in Drifts : Reboot(d)
      PROVE  /\ srvPolls' = srvPolls /\ request' = NoRequest
             /\ late' \subseteq late \cup {request.batch}
  BY <1>8 DEF GiveUp, TooLarge, Reboot, serverVars
<1>9. QED
  BY <1>1, <1>2, <1>3, <1>4, <1>5, <1>6, <1>7, <1>8 DEF Next

-----------------------------------------------------------------------------
(* A sent poll keeps its fate and its place.                                *)

\* What was sent is in the buffer as something to be sent, with the same time
\* unless NTP may come late.
OnceInv ==
  /\ \A a, c \in anchors : a.boot = c.boot => a = c
  /\ \A p, q \in polls : p.n = q.n => p = q
  /\ \A r \in Rows, p \in polls :
       p.n = r.n => Fate(p) = "send" /\ (LateNtp \/ r.ts = Placed(p))
  /\ ~LateNtp => \A r, t \in Rows : r.n = t.n => r.ts = t.ts

LEMMA OnceInit == Init => OnceInv
BY DEF Init, OnceInv, Rows, NoRequest, NoBatch

\* Anchors are only added, for the running boot, and once.
LEMMA AnchorsStep ==
  ASSUME KeptInv, [Next]_vars, ~NewBuffer, ~StateLoss
  PROVE  /\ \A a \in anchors : a \in anchors'
         /\ ntpAnchors \subseteq ntpAnchors'
         /\ anchors' # anchors =>
              \E err \in Errs : /\ anchors' = anchors \cup {AnchorOf(err)}
                              /\ \A a \in anchors : a.boot # boot
         /\ ntpAnchors' # ntpAnchors => LateNtp \/ \A a \in anchors : a.boot # boot
         /\ \A c \in ntpAnchors' : c \in ntpAnchors \/ (c.boot = boot /\ ~HasAnchor(ntpAnchors, boot))
<1> DEFINE Goal == /\ \A a \in anchors : a \in anchors'
                   /\ ntpAnchors \subseteq ntpAnchors'
                   /\ anchors' # anchors =>
                        \E err \in Errs : /\ anchors' = anchors \cup {AnchorOf(err)}
                                        /\ \A a \in anchors : a.boot # boot
                   /\ ntpAnchors' # ntpAnchors => LateNtp \/ \A a \in anchors : a.boot # boot
                   /\ \A c \in ntpAnchors' :
                        c \in ntpAnchors \/ (c.boot = boot /\ ~HasAnchor(ntpAnchors, boot))
<1>1. ASSUME NEW kind \in Kinds, NEW synced \in BOOLEAN, Poll(kind, synced) PROVE Goal
  BY <1>1 DEF Poll, uploaderVars
<1>2. ASSUME UNCHANGED <<anchors, ntpAnchors>> PROVE Goal
  BY <1>2
<1>3. ASSUME Accepted PROVE Goal
  BY <1>3 DEF Accepted, ServerAnchor, sensorVars
<1>4. ASSUME NEW err \in Errs, Heartbeat(err) PROVE Goal
  BY <1>4 DEF Heartbeat, ServerAnchor, sensorVars
<1>5. ASSUME \/ \E n \in 1 .. MaxPolls : Prune(2 * n)
             \/ \E d \in Drifts : Reboot(d)
             \/ EnsureCursor \/ Send \/ GiveUp \/ TooLarge \/ Merge
             \/ \E b \in late : MergeLate(b)
             \/ UNCHANGED vars
      PROVE  UNCHANGED <<anchors, ntpAnchors>>
  BY <1>5 DEF Prune, Reboot, EnsureCursor, Send, GiveUp, TooLarge, Merge, MergeLate, vars,
     sensorVars, uploaderVars
<1>6. QED
  BY <1>1, <1>2, <1>3, <1>4, <1>5 DEF Next

\* The one new poll has a number of its own.
LEMMA NumbersStep ==
  ASSUME KeptInv, OnceInv, Onward, [Next]_vars, ~NewBuffer
  PROVE  \A p, q \in polls' : p.n = q.n => p = q
<1>1. ASSUME NEW kind \in Kinds, NEW synced \in BOOLEAN, Poll(kind, synced),
             NEW p \in polls', NEW q \in polls', p.n = q.n
      PROVE  p = q
  <2>1. PICK id \in 1 .. now + 1, ts \in Int, mono \in Int :
               polls' = polls \cup
                 {[id |-> id, n |-> now + 1, boot |-> boot, synced |-> synced, ts |-> ts, mono |-> mono]}
    BY <1>1 DEF Poll, Mono, KeptInv, TypeOK
  <2>2. now \in Nat /\ \A r \in polls : r.n \in Nat /\ r.n <= now
    BY BufferTypes DEF KeptInv, TypeOK
  <2>3. QED
    BY <1>1, <2>1, <2>2 DEF OnceInv
<1>2. ASSUME polls' \subseteq polls
      PROVE  \A p, q \in polls' : p.n = q.n => p = q
  BY <1>2 DEF OnceInv
<1>3. ASSUME \/ \E n \in 1 .. MaxPolls : Prune(2 * n)
             \/ \E d \in Drifts : Reboot(d)
             \/ \E err \in Errs : Heartbeat(err)
             \/ EnsureCursor \/ Send \/ Accepted \/ GiveUp \/ TooLarge \/ StateLoss \/ Merge
             \/ \E b \in late : MergeLate(b)
             \/ UNCHANGED vars
      PROVE  polls' \subseteq polls
  BY <1>3 DEF Prune, Reboot, Heartbeat, EnsureCursor, Send, Accepted, GiveUp, TooLarge,
     StateLoss, Merge, MergeLate, vars, sensorVars
<1>4. QED
  BY <1>1, <1>2, <1>3 DEF Next

\* When a boot began is told by its own anchors alone.
LEMMA EpochStays ==
  ASSUME NEW T, NEW U, NEW b, {d \in T : d.boot = b} = {d \in U : d.boot = b}
  PROVE  EpochTrue(T, b) = EpochTrue(U, b)
BY DEF EpochTrue

\* The time of a poll that may be sent is settled, but for a late NTP anchor.
LEMMA PlaceStays ==
  ASSUME KeptInv, OnceInv, Onward, [Next]_vars, ~NewBuffer, ~StateLoss,
         NEW p \in polls, Fate(p) = "send"
  PROVE  Fate(p)' = "send" /\ (LateNtp \/ Placed(p)' = Placed(p))
<1>1. CASE p.synced
  BY <1>1 DEF Fate, Placed
<1>2. CASE ~p.synced /\ HasAnchor(ntpAnchors, p.boot)
  <2>1. HasAnchor(ntpAnchors', p.boot)
    BY <1>2, AnchorsStep DEF HasAnchor
  <2>2. {d \in ntpAnchors' : d.boot = p.boot} = {d \in ntpAnchors : d.boot = p.boot}
    BY <1>2, AnchorsStep DEF HasAnchor
  <2>3. EpochTrue(ntpAnchors', p.boot) = EpochTrue(ntpAnchors, p.boot)
    BY <2>2, EpochStays
  <2>4. Placed(p)' = EpochTrue(ntpAnchors', p.boot) + p.mono
    BY <1>2, <2>1 DEF Placed
  <2>5. Placed(p) = EpochTrue(ntpAnchors, p.boot) + p.mono
    BY <1>2 DEF Placed
  <2>6. Fate(p)' = "send"
    BY <1>2, <2>1 DEF Fate, Anchored
  <2>7. QED
    BY <2>3, <2>4, <2>5, <2>6
<1>3. CASE ~p.synced /\ ~HasAnchor(ntpAnchors, p.boot)
  <2>1. PICK a \in anchors : a.boot = p.boot
    BY <1>3 DEF Fate, Anchored, HasAnchor
  <2>2. a \in anchors'
    BY AnchorsStep
  <2>3. Fate(p)' = "send"
    BY <2>1, <2>2 DEF Fate, Anchored, HasAnchor
  <2>4. ASSUME ~LateNtp PROVE Placed(p)' = Placed(p)
    <3>1. ~HasAnchor(ntpAnchors', p.boot)
      <4>1. CASE ntpAnchors' = ntpAnchors
        BY <1>3, <4>1 DEF HasAnchor
      <4>2. CASE ntpAnchors' # ntpAnchors
        <5>1. p.boot # boot
          BY <2>1, <2>4, <4>2, AnchorsStep
        <5>2. \A c \in ntpAnchors' : c \in ntpAnchors \/ c.boot = boot
          BY DEF Onward
        <5>3. QED
          BY <1>3, <5>1, <5>2 DEF HasAnchor
      <4>3. QED
        BY <4>1, <4>2
    <3>2. \A c \in anchors' : c.boot = p.boot => c = a
      <4>1. CASE anchors' = anchors
        BY <2>1, <4>1 DEF OnceInv
      <4>2. CASE anchors' # anchors
        BY <2>1, <4>2, AnchorsStep DEF OnceInv, AnchorOf
      <4>3. QED
        BY <4>1, <4>2
    <3>3. {c \in anchors' : c.boot = p.boot} = {c \in anchors : c.boot = p.boot}
      BY <2>1, <2>2, <3>2 DEF OnceInv
    <3>4. EpochTrue(anchors', p.boot) = EpochTrue(anchors, p.boot)
      BY <3>3, EpochStays
    <3>5. Placed(p) = EpochTrue(anchors, p.boot) + p.mono
      BY <1>3 DEF Placed
    <3>6. Placed(p)' = EpochTrue(anchors', p.boot) + p.mono
      BY <1>3, <3>1 DEF Placed
    <3>7. QED
      BY <3>4, <3>5, <3>6
  <2>5. QED
    BY <2>3, <2>4
<1>4. QED
  BY <1>1, <1>2, <1>3

LEMMA OnceStep ==
  ASSUME KeptInv, OnceInv, Onward, [Next]_vars, ~NewBuffer, ~StateLoss
  PROVE  OnceInv'
<1>1. \A a, c \in anchors' : a.boot = c.boot => a = c
  <2>1. CASE anchors' = anchors
    BY <2>1 DEF OnceInv
  <2>2. CASE anchors' # anchors
    BY <2>2, AnchorsStep DEF OnceInv, AnchorOf
  <2>3. QED
    BY <2>1, <2>2
<1>2. \A p, q \in polls' : p.n = q.n => p = q
  BY NumbersStep
<1>3. now \in Nat /\ \A p \in polls' : p \in polls \/ p.n = now + 1
  BY DEF Onward, KeptInv, TypeOK
<1>4. \A r \in Rows : r.n \in Nat /\ r.n <= now
  BY RowTypes
<1>5. \A r \in Rows' : r \in Rows \/ \E q \in Sendable : r = SentPoll(q)
  BY RowsStep
<1>6. \A q \in Sendable :
        /\ q \in polls /\ Fate(q) = "send" /\ SentPoll(q).n = q.n /\ SentPoll(q).ts = Placed(q)
        /\ q.n \in Nat /\ q.n <= now
  BY BufferTypes DEF Sendable, SentPoll
<1>7. ASSUME NEW r \in Rows', NEW p \in polls', p.n = r.n
      PROVE  Fate(p)' = "send" /\ (LateNtp \/ r.ts = Placed(p)')
  <2>1. CASE r \in Rows
    <3>1. p \in polls
      BY <1>3, <1>4, <1>7, <2>1
    <3>2. Fate(p) = "send" /\ (LateNtp \/ r.ts = Placed(p))
      BY <1>7, <2>1, <3>1 DEF OnceInv
    <3>3. QED
      BY <3>1, <3>2, PlaceStays
  <2>2. ASSUME NEW q \in Sendable, r = SentPoll(q)
        PROVE  Fate(p)' = "send" /\ (LateNtp \/ r.ts = Placed(p)')
    <3>1. p \in polls
      BY <1>3, <1>6, <1>7, <2>2
    <3>2. p = q
      BY <1>6, <1>7, <2>2, <3>1 DEF OnceInv
    <3>3. QED
      BY <1>6, <2>2, <3>2, PlaceStays
  <2>3. QED
    BY <1>5, <2>1, <2>2
<1>8. ASSUME ~LateNtp, NEW r \in Rows', NEW t \in Rows', r.n = t.n
      PROVE  r.ts = t.ts
  <2>1. ASSUME NEW u \in Rows, NEW q \in Sendable, u.n = q.n
        PROVE  u.ts = Placed(q)
    BY <1>6, <1>8, <2>1 DEF OnceInv
  <2>2. ASSUME NEW q \in Sendable, NEW u \in Sendable, q.n = u.n
        PROVE  q = u
    BY <1>6, <2>2 DEF OnceInv
  <2>3. QED
    BY <1>5, <1>6, <1>8, <2>1, <2>2 DEF OnceInv
<1>9. QED
  BY <1>1, <1>2, <1>7, <1>8 DEF OnceInv

(* While the state file and the buffer are kept, no poll is stored twice:   *)
(* not by a replay after a lost answer, nor by a late request, unless NTP    *)
(* reaches a boot after the server's time has anchored it.                  *)
THEOREM NoneIsStoredTwice == Kept /\ ~LateNtp /\ Spec => []OneRowPerPoll
<1> DEFINE Inv == KeptInv /\ OnceInv
<1> SUFFICES ASSUME Kept, ~LateNtp PROVE Spec => []OneRowPerPoll
  OBVIOUS
<1>1. Init => Inv
  BY KeptInit, OnceInit
<1>2. Inv /\ [Next]_vars => Inv'
  BY KeptStep, OnceStep
<1>3. Inv => OneRowPerPoll
  <2> SUFFICES ASSUME Inv, NEW s \in srvPolls, NEW t \in srvPolls, s.n = t.n PROVE s = t
    BY DEF OneRowPerPoll
  <2>1. s \in Rows /\ t \in Rows
    BY DEF Rows
  <2>2. s.ts = t.ts
    BY <2>1 DEF OnceInv
  <2>3. s \in SentPolls /\ t \in SentPolls /\ s.seq = s.n /\ t.seq = t.n
    BY <2>1, RowTypes
  <2>4. QED
    BY <2>2, <2>3 DEF SentPolls
<1>4. QED
  BY <1>1, <1>2, <1>3, PTL DEF Spec

-----------------------------------------------------------------------------
(* What is counted as unverified is lost for good.                          *)

AllGaps ==
  {[from |-> g.from, to |-> g.to, why |-> g.why] : g \in srvGaps}
    \cup request.batch.gaps \cup UNION {b.gaps : b \in late}

\* Nothing of the poll was sent, and what is left of it cannot be.
Lapsed(i) ==
  /\ i <= now
  /\ \A r \in Rows : r.n # i
  /\ \A p \in polls : p.n = i => Fate(p) = "unverified"

GapInv ==
  /\ \A g \in AllGaps : g.why = "unverified" => \A i \in g.from .. g.to : Lapsed(i)
  /\ \A m \in made : m.id = m.n

LEMMA GapInit == Init => GapInv
BY DEF Init, GapInv, AllGaps, NoRequest, NoBatch

Unverifiable == {p \in Taken : Fate(p) # "send"}

\* Gaps come from a batch that is built now, or were there before.
LEMMA GapsStep ==
  ASSUME KeptInv, [Next]_vars, ~NewBuffer, ~StateLoss
  PROVE  AllGaps' \subseteq AllGaps \cup LostGaps \cup UnverifiedGaps(Ids(Unverifiable))
<1> USE DEF AllGaps
<1>1. ASSUME UNCHANGED <<srvGaps, request, late>> PROVE AllGaps' = AllGaps
  BY <1>1
<1>2. ASSUME srvGaps' = srvGaps, request' = NoRequest, late' \subseteq late \cup {request.batch}
      PROVE  AllGaps' \subseteq AllGaps
  BY <1>2 DEF NoRequest, NoBatch
<1>3. ASSUME Send
      PROVE  AllGaps' \subseteq AllGaps \cup LostGaps \cup UnverifiedGaps(Ids(Unverifiable))
  <2>1. PICK last \in {cursor.polls} \cup Ids(polls),
             lastObs \in {cursor.obs} \cup Ids(observations) :
               request' = [state |-> "sent", batch |-> Batch(Taken, last),
                           new |-> [cursor EXCEPT !.polls = last, !.obs = lastObs]]
    BY <1>3 DEF Send
  <2>2. Taken \ {p \in Taken : Fate(p) = "send"} = Unverifiable
    BY DEF Unverifiable
  <2>3. request'.batch.gaps = LostGaps \cup UnverifiedGaps(Ids(Unverifiable))
    BY <2>1, <2>2 DEF Batch
  <2>4. srvGaps' = srvGaps /\ late' = late
    BY <1>3 DEF Send, serverVars
  <2>5. QED
    BY <2>3, <2>4
<1>4. ASSUME NEW b \in Batches, b.gaps \subseteq AllGaps, MergeRows(b)
      PROVE  \A g \in srvGaps' : [from |-> g.from, to |-> g.to, why |-> g.why] \in AllGaps
  <2>1. ASSUME NEW h \in b.gaps PROVE [from |-> h.from, to |-> h.to, why |-> h.why] = h
    BY DEF Batches, Gaps
  <2>2. QED
    BY <1>4, <2>1 DEF MergeRows, InsertGaps
<1>5. ASSUME Merge PROVE AllGaps' \subseteq AllGaps
  <2>1. request'.batch = NoBatch /\ request.batch \in Batches /\ late' = late
    BY <1>5 DEF Merge, KeptInv, TypeOK
  <2>2. MergeRows(request.batch) /\ request.batch.gaps \subseteq AllGaps
    BY <1>5 DEF Merge
  <2>3. \A g \in srvGaps' : [from |-> g.from, to |-> g.to, why |-> g.why] \in AllGaps
    BY <1>4, <2>1, <2>2
  <2>4. request'.batch.gaps = {}
    BY <2>1 DEF NoBatch
  <2>5. QED
    BY <2>1, <2>3, <2>4
<1>6. ASSUME NEW b \in late, MergeLate(b) PROVE AllGaps' \subseteq AllGaps
  <2>1. b \in Batches /\ b.gaps \subseteq AllGaps
    BY DEF KeptInv, TypeOK
  <2>2. MergeRows(b) /\ request' = request /\ late' \subseteq late
    BY <1>6 DEF MergeLate
  <2>3. QED
    BY <1>4, <2>1, <2>2
<1>7. ASSUME Accepted PROVE AllGaps' \subseteq AllGaps
  BY <1>2, <1>7 DEF Accepted, serverVars
<1>8. ASSUME \/ \E kind \in Kinds, synced \in BOOLEAN : Poll(kind, synced)
             \/ \E n \in 1 .. MaxPolls : Prune(2 * n)
             \/ \E err \in Errs : Heartbeat(err)
             \/ EnsureCursor \/ UNCHANGED vars
      PROVE  UNCHANGED <<srvGaps, request, late>>
  BY <1>8 DEF Poll, Prune, Heartbeat, EnsureCursor, vars, networkVars, serverVars
<1>9. ASSUME GiveUp \/ TooLarge \/ \E d \in Drifts : Reboot(d)
      PROVE  /\ srvGaps' = srvGaps /\ request' = NoRequest
             /\ late' \subseteq late \cup {request.batch}
  BY <1>9 DEF GiveUp, TooLarge, Reboot, serverVars
<1>10. QED
  BY <1>1, <1>2, <1>3, <1>5, <1>6, <1>7, <1>8, <1>9 DEF Next

\* A boot that ended without an anchor never gets one.
LEMMA UnverifiedStays ==
  ASSUME KeptInv, Onward, NEW p \in polls, Fate(p) = "unverified"
  PROVE  Fate(p)' = "unverified"
<1>1. ~p.synced /\ ~HasAnchor(ntpAnchors, p.boot) /\ p.boot # boot
      /\ \A a \in anchors : a.boot # p.boot
  BY DEF Fate, Anchored, HasAnchor
<1>2. p.boot \in Nat /\ boot \in Nat /\ p.boot < boot
  BY <1>1, BufferTypes DEF KeptInv, TypeOK
<1>3. p.boot # boot' /\ ~HasAnchor(ntpAnchors', p.boot) /\ \A a \in anchors' : a.boot # p.boot
  BY <1>1, <1>2 DEF Onward, HasAnchor
<1>4. QED
  BY <1>1, <1>3 DEF Fate, Anchored, HasAnchor

LEMMA LapsedStays ==
  ASSUME KeptInv, OnceInv, Onward, [Next]_vars, ~NewBuffer, ~StateLoss, NEW i \in Int, Lapsed(i)
  PROVE  Lapsed(i)'
<1>1. now \in Nat /\ i <= now'
  BY DEF Lapsed, Onward, KeptInv, TypeOK
<1>2. ASSUME NEW r \in Rows', r.n = i PROVE FALSE
  <2>1. CASE r \in Rows
    BY <1>2, <2>1 DEF Lapsed
  <2>2. ASSUME NEW q \in Sendable, r = SentPoll(q) PROVE FALSE
    BY <1>2, <2>2 DEF Sendable, SentPoll, Lapsed
  <2>3. QED
    BY <2>1, <2>2, RowsStep
<1>3. ASSUME NEW p \in polls', p.n = i PROVE Fate(p)' = "unverified"
  <2>1. p \in polls
    BY <1>1, <1>3 DEF Onward, Lapsed
  <2>2. QED
    BY <1>3, <2>1, UnverifiedStays DEF Lapsed
<1>4. QED
  BY <1>1, <1>2, <1>3 DEF Lapsed

\* A batch counts polls none of which was sent.
LEMMA UnverifiedLapsed ==
  ASSUME KeptInv, OnceInv, NEW g \in UnverifiedGaps(Ids(Unverifiable)), NEW i \in g.from .. g.to
  PROVE  Lapsed(i)
<1> DEFINE ids == Ids(Unverifiable)
<1>1. PICK run \in ids \X ids : run[1] .. run[2] \subseteq ids /\ g.from = run[1] /\ g.to = run[2]
  BY DEF UnverifiedGaps
<1>2. PICK p \in Unverifiable : p.id = i
  BY <1>1 DEF Ids
<1>3. p \in Taken /\ p \in polls /\ Fate(p) # "send"
  BY DEF Unverifiable, Taken
<1>4. p.id = p.n /\ p.n \in Nat /\ p.n <= now
  BY <1>3, BufferTypes
<1>5. Fate(p) = "unverified"
  BY <1>3, <1>4 DEF Taken, Fate
<1>6. \A r \in Rows : r.n # i
  BY <1>2, <1>3, <1>4 DEF OnceInv
<1>7. \A q \in polls : q.n = i => q = p
  BY <1>2, <1>3, <1>4 DEF OnceInv
<1>8. QED
  BY <1>2, <1>4, <1>5, <1>6, <1>7 DEF Lapsed

LEMMA MadeStep ==
  ASSUME KeptInv, [Next]_vars
  PROVE  \A m \in made' : m \in made \/ (m.id = m.n /\ m.n = now + 1)
<1>1. ASSUME NEW kind \in Kinds, NEW synced \in BOOLEAN, Poll(kind, synced)
      PROVE  \A m \in made' : m \in made \/ (m.id = m.n /\ m.n = now + 1)
  <2>1. PICK id \in 1 .. now + 1 :
          /\ IsNextId(id, polls)
          /\ made' = made \cup {[n |-> now + 1, buffer |-> bufferId, id |-> id]}
    BY <1>1 DEF Poll
  <2>2. id = now + 1
    BY <2>1, NextIdIsNext DEF KeptInv, SkipInv, TypeOK
  <2>3. QED
    BY <2>1, <2>2
<1>2. ASSUME \/ \E n \in 1 .. MaxPolls : Prune(2 * n)
             \/ \E d \in Drifts : Reboot(d)
             \/ \E err \in Errs : Heartbeat(err)
             \/ NewBuffer \/ EnsureCursor \/ Send \/ Accepted \/ GiveUp \/ TooLarge
             \/ StateLoss \/ Merge
             \/ \E b \in late : MergeLate(b)
             \/ UNCHANGED vars
      PROVE  made' = made
  BY <1>2 DEF Prune, Reboot, Heartbeat, NewBuffer, EnsureCursor, Send, Accepted, GiveUp,
     TooLarge, StateLoss, Merge, MergeLate, vars, sensorVars
<1>3. QED
  BY <1>1, <1>2 DEF Next

LEMMA GapStep ==
  ASSUME KeptInv, OnceInv, GapInv, Onward, [Next]_vars, ~NewBuffer, ~StateLoss
  PROVE  GapInv'
<1>1. ASSUME NEW g \in AllGaps', g.why = "unverified", NEW i \in g.from .. g.to
      PROVE  Lapsed(i)'
  <2>1. g \in AllGaps \/ g \in UnverifiedGaps(Ids(Unverifiable))
    BY <1>1, GapsStep DEF LostGaps
  <2>2. Lapsed(i)
    BY <1>1, <2>1, UnverifiedLapsed DEF GapInv
  <2>3. QED
    BY <2>2, LapsedStays
<1>2. \A m \in made' : m.id = m.n
  BY MadeStep DEF GapInv
<1>3. QED
  BY <1>1, <1>2 DEF GapInv

(* While the state file and the buffer are kept, no poll that the server     *)
(* counts as unverified is stored, by no late or repeated request either.    *)
THEOREM UnverifiedStaysAway == Kept /\ Spec => []UnverifiedNeverStored
<1> DEFINE Inv == KeptInv /\ OnceInv /\ GapInv
<1> SUFFICES ASSUME Kept PROVE Spec => []UnverifiedNeverStored
  OBVIOUS
<1>1. Init => Inv
  BY KeptInit, OnceInit, GapInit
<1>2. Inv /\ [Next]_vars => Inv'
  BY KeptStep, OnceStep, GapStep
<1>3. Inv => UnverifiedNeverStored
  <2> SUFFICES ASSUME Inv, NEW m \in made, m.n \in StoredPolls, NEW g \in srvGaps,
                      g.why = "unverified", g.from <= m.id, m.id <= g.to
               PROVE  FALSE
    BY DEF UnverifiedNeverStored, InGap
  <2>1. PICK s \in srvPolls : s.n = m.n
    BY DEF StoredPolls
  <2>2. m.id = m.n /\ m.n \in Nat /\ g.from \in Nat /\ g.to \in Nat
    BY DEF GapInv, KeptInv, TypeOK
  <2> DEFINE h == [from |-> g.from, to |-> g.to, why |-> g.why]
  <2>3. h \in AllGaps /\ m.n \in h.from .. h.to /\ h.why = "unverified"
    BY <2>2 DEF AllGaps
  <2>4. Lapsed(m.n)
    BY <2>3 DEF GapInv
  <2>5. QED
    BY <2>1, <2>4 DEF Lapsed, Rows
<1>4. QED
  BY <1>1, <1>2, <1>3, PTL DEF Spec

-----------------------------------------------------------------------------
(* The promise.                                                             *)

\* The promise's variables, and the polls that can still be delivered.
Made == {m.n : m \in made}
Ended(p) == ~p.synced /\ ~Anchored(p.boot) /\ p.boot # boot
Live == {p.n : p \in {q \in polls : ~Ended(q)}}
Undeliverable == Made \ Live
Released == {m.n : m \in {k \in made : k.id <= cursor.polls}}

MadeInv ==
  /\ Made = 1 .. now
  /\ \A m \in made : m.id = m.n
  /\ \A r \in Rows : r.n \in Made
  /\ cursor = NoCursor \/ cursor.buffer # 0
  /\ request # NoRequest =>
       /\ cursor # NoCursor /\ request.new.buffer # 0
       /\ cursor.polls <= request.new.polls

LEMMA MadeInit == Init => MadeInv
BY DEF Init, MadeInv, Made, Rows, NoRequest, NoBatch

-----------------------------------------------------------------------------
(* What a step does to the promise's variables.                             *)

\* The steps in which a poll is made, is given up, and all others.
Makes == \E kind \in Kinds, synced \in BOOLEAN : Poll(kind, synced)
GivesUp == (\E n \in 1 .. MaxPolls : Prune(2 * n)) \/ \E d \in Drifts : Reboot(d)

LEMMA PollMakes ==
  ASSUME KeptInv, MadeInv, NEW kind \in Kinds, NEW synced \in BOOLEAN, Poll(kind, synced)
  PROVE  /\ now + 1 \in 1 .. MaxPolls /\ now + 1 \notin Made
         /\ Made' = Made \cup {now + 1} /\ now' = now + 1
         /\ \A m \in made' : m.id = m.n
         /\ Live' = Live \cup {now + 1}
         /\ Released' = Released
         /\ UNCHANGED <<cursor, request, late, srvPolls>>
<1>1. PICK id \in 1 .. now + 1, ts \in Int, mono \in Int :
        /\ IsNextId(id, polls)
        /\ polls' = polls \cup
             {[id |-> id, n |-> now + 1, boot |-> boot, synced |-> synced, ts |-> ts, mono |-> mono]}
        /\ made' = made \cup {[n |-> now + 1, buffer |-> bufferId, id |-> id]}
  BY DEF Poll, Mono, KeptInv, TypeOK
<1>2. now \in Nat /\ cursor.polls \in Nat /\ cursor.polls <= now
  BY DEF KeptInv, TypeOK, SkipInv, Cursors
<1>3. id = now + 1
  BY <1>1, NextIdIsNext DEF KeptInv, SkipInv
<1>4. now' = now + 1 /\ now < MaxPolls /\ UNCHANGED <<cursor, request, late, srvPolls, boot, anchors>>
  BY DEF Poll, uploaderVars, networkVars, serverVars
<1>5. now + 1 \in 1 .. MaxPolls /\ now + 1 \notin Made
  BY <1>2, <1>4, BoundsAssumption DEF MadeInv
<1>6. Made' = Made \cup {now + 1} /\ \A m \in made' : m.id = m.n
  <2> DEFINE m == [n |-> now + 1, buffer |-> bufferId, id |-> id]
  <2>1. made' = made \cup {m} /\ m.n = now + 1 /\ m.id = m.n
    BY <1>1, <1>3
  <2> HIDE DEF m
  <2>2. Made' = Made \cup {now + 1}
    BY <2>1 DEF Made
  <2>3. QED
    BY <2>1, <2>2 DEF MadeInv
<1>7. Released' = Released
  <2>1. \A m \in made' : m.id <= cursor.polls => m \in made
    BY <1>1, <1>2, <1>3
  <2>2. made \subseteq made'
    BY <1>1
  <2>3. QED
    BY <1>4, <2>1, <2>2 DEF Released
<1>8. Live' = Live \cup {now + 1}
  <2> PICK new : new = [id |-> id, n |-> now + 1, boot |-> boot, synced |-> synced, ts |-> ts, mono |-> mono]
    OBVIOUS
  <2>1. polls' = polls \cup {new} /\ new.boot = boot /\ new.n = now + 1
    BY <1>1
  <2>2. ntpAnchors \subseteq ntpAnchors' /\ \A c \in ntpAnchors' : c \in ntpAnchors \/ c.boot = boot
    BY DEF Poll
  <2>3. new \in polls' /\ ~Ended(new)'
    BY <1>4, <2>1 DEF Ended
  <2>4. \A p \in polls : Ended(p)' <=> Ended(p)
    BY <1>4, <2>2 DEF Ended, Anchored, HasAnchor
  <2>5. \A n \in Live : n \in Live'
    BY <2>1, <2>4 DEF Live
  <2>6. now + 1 \in Live'
    BY <2>1, <2>3 DEF Live
  <2>7. \A n \in Live' : n \in Live \/ n = now + 1
    BY <2>1, <2>4 DEF Live
  <2>8. QED
    BY <2>5, <2>6, <2>7
<1>9. QED
  BY <1>4, <1>5, <1>6, <1>7, <1>8

LEMMA GivingUp ==
  ASSUME KeptInv, Onward, GivesUp
  PROVE  /\ Live' \subseteq Live
         /\ UNCHANGED <<now, made, cursor, srvPolls>>
         /\ request' \in {request, NoRequest} /\ late' = late
<1>1. polls' \subseteq polls
  BY DEF GivesUp, Prune, Reboot
<1>2. \A p \in polls : Ended(p) => Ended(p)'
  <2>1. \A p \in polls : p.boot \in Nat /\ p.boot <= boot /\ boot \in Nat
    BY BufferTypes DEF KeptInv, TypeOK
  <2>2. QED
    BY <2>1 DEF Onward, Ended, Anchored, HasAnchor
<1>3. QED
  BY <1>1, <1>2 DEF GivesUp, Prune, Reboot, Live, uploaderVars, networkVars, serverVars

\* Everything else leaves the buffer alone; an anchor helps no ended boot.
LEMMA OtherSteps ==
  ASSUME KeptInv, Onward, [Next]_vars, ~NewBuffer, ~StateLoss, ~Makes, ~GivesUp
  PROVE  Live' = Live /\ UNCHANGED <<now, made>>
<1>1. UNCHANGED <<polls, made, now, boot, ntpAnchors>>
  BY DEF Makes, GivesUp, Next, EnsureCursor, Send, Accepted, GiveUp, TooLarge, Heartbeat,
     Merge, MergeLate, vars, sensorVars
<1>2. \A a \in anchors : a \in anchors'
  BY AnchorsStep
<1>3. \A p \in polls : Ended(p)' <=> Ended(p)
  BY <1>1, <1>2 DEF Onward, Ended, Anchored, HasAnchor
<1>4. QED
  BY <1>1, <1>3 DEF Live

\* The cursor only moves on: to where it was found, or by an answer.
LEMMA CursorGrows ==
  ASSUME KeptInv, MadeInv, [Next]_vars, ~NewBuffer, ~StateLoss
  PROVE  cursor.polls <= cursor'.polls
<1>1. cursor.polls \in Nat /\ cursor'.polls \in Nat
  BY TypeStep DEF KeptInv, TypeOK, Cursors
<1>2. ASSUME EnsureCursor PROVE cursor.polls <= cursor'.polls
  BY <1>1, <1>2 DEF EnsureCursor, NoCursor
<1>3. ASSUME Accepted PROVE cursor.polls <= cursor'.polls
  BY <1>3 DEF Accepted, MadeInv, NoRequest
<1>4. ASSUME ~EnsureCursor, ~Accepted PROVE cursor' = cursor
  BY <1>4 DEF Next, Poll, Prune, Reboot, Send, GiveUp, TooLarge, Heartbeat, Merge, MergeLate,
     vars, uploaderVars
<1>5. QED
  BY <1>1, <1>2, <1>3, <1>4

LEMMA EndedIsUnverified ==
  ASSUME NEW p
  PROVE  Ended(p) <=> Fate(p) = "unverified"
BY DEF Ended, Fate

\* An answer that is waited for belongs to the cursor.
LEMMA RequestAhead ==
  ASSUME KeptInv, MadeInv, [Next]_vars, ~NewBuffer, ~StateLoss
  PROVE  /\ cursor' = NoCursor \/ cursor'.buffer # 0
         /\ request' # NoRequest =>
              /\ cursor' # NoCursor /\ request'.new.buffer # 0
              /\ cursor'.polls <= request'.new.polls
<1> DEFINE Goal == /\ cursor' = NoCursor \/ cursor'.buffer # 0
                   /\ request' # NoRequest =>
                        /\ cursor' # NoCursor /\ request'.new.buffer # 0
                        /\ cursor'.polls <= request'.new.polls
<1>1. ASSUME Send PROVE Goal
  <2>1. PICK last \in {cursor.polls} \cup Ids(polls),
             lastObs \in {cursor.obs} \cup Ids(observations) :
          /\ IsLastOf(last, Taken)
          /\ request' = [state |-> "sent", batch |-> Batch(Taken, last),
                         new |-> [cursor EXCEPT !.polls = last, !.obs = lastObs]]
    BY <1>1 DEF Send
  <2>2. cursor \in Cursors /\ cursor.polls \in Nat /\ \A p \in polls : p.id \in Nat
    BY DEF KeptInv, TypeOK, Cursors, PollRows
  <2>3. cursor.polls <= last
    BY <2>1, <2>2 DEF IsLastOf, Ids, Taken
  <2>4. request'.new.polls = last /\ request'.new.buffer = cursor.buffer
    BY <2>1, <2>2 DEF Cursors
  <2>5. cursor' = cursor /\ cursor # NoCursor
    BY <1>1 DEF Send, uploaderVars
  <2>6. QED
    BY <2>3, <2>4, <2>5 DEF MadeInv
<1>2. ASSUME Merge PROVE Goal
  <2>1. request # NoRequest /\ request'.new = request.new /\ cursor' = cursor
    BY <1>2 DEF Merge, NoRequest, KeptInv, TypeOK, uploaderVars
  <2>2. QED
    BY <2>1 DEF MadeInv
<1>3. ASSUME EnsureCursor PROVE Goal
  <2>1. cursor'.buffer = 1 /\ request' = NoRequest
    BY <1>3 DEF EnsureCursor, networkVars, MadeInv, KeptInv, SkipInv, BufferInv
  <2>2. QED
    BY <2>1
<1>4. ASSUME Accepted PROVE Goal
  <2>1. request # NoRequest /\ cursor' = request.new /\ request' = NoRequest
    BY <1>4 DEF Accepted, NoRequest
  <2>2. QED
    BY <2>1 DEF MadeInv
<1>5. ASSUME ~Send, ~Merge, ~EnsureCursor, ~Accepted
      PROVE  cursor' = cursor /\ request' \in {request, NoRequest}
  BY <1>5 DEF Next, Poll, Prune, Reboot, GiveUp, TooLarge, Heartbeat, MergeLate,
     vars, uploaderVars, networkVars
<1>6. QED
  BY <1>1, <1>2, <1>3, <1>4, <1>5 DEF MadeInv

LEMMA MadeInvStep ==
  ASSUME KeptInv, MadeInv, [Next]_vars, ~NewBuffer, ~StateLoss, Onward
  PROVE  MadeInv'
<1>1. Made' = 1 .. now' /\ Made \subseteq Made' /\ \A m \in made' : m.id = m.n
  <2>1. now \in Nat
    BY DEF KeptInv, TypeOK
  <2>2. CASE Makes
    <3>1. Made' = Made \cup {now + 1} /\ now' = now + 1 /\ \A m \in made' : m.id = m.n
      BY <2>2, PollMakes DEF Makes
    <3>2. QED
      BY <2>1, <3>1 DEF MadeInv
  <2>3. CASE ~Makes
    <3>1. UNCHANGED <<now, made>>
      BY <2>3, GivingUp, OtherSteps
    <3>2. QED
      BY <3>1 DEF Made, MadeInv
  <2>4. QED
    BY <2>2, <2>3
<1>2. ASSUME NEW r \in Rows' PROVE r.n \in Made'
  <2>1. CASE r \in Rows
    BY <1>1, <2>1 DEF MadeInv
  <2>2. ASSUME NEW q \in Sendable, r = SentPoll(q) PROVE r.n \in Made'
    <3>1. q.n \in 1 .. now /\ r.n = q.n
      BY <2>2 DEF Sendable, SentPoll, KeptInv, SkipInv, BufferInv
    <3>2. QED
      BY <1>1, <3>1 DEF MadeInv
  <2>3. QED
    BY <2>1, <2>2, RowsStep
<1>3. QED
  BY <1>1, <1>2, RequestAhead DEF MadeInv

-----------------------------------------------------------------------------
(* The refinement.                                                          *)

\* What the uploader will not offer again is stored or cannot be delivered.
ReleasedSafe == Released \subseteq StoredPolls \cup Undeliverable

LEMMA ReleaseIsSafe ==
  ASSUME KeptInv, MadeInv
  PROVE  ReleasedSafe
<1> SUFFICES ASSUME NEW m \in made, m.id <= cursor.polls, m.n \in Live
             PROVE  m.n \in StoredPolls
  BY DEF ReleasedSafe, Released, Undeliverable, Made
<1>1. PICK p \in polls : p.n = m.n /\ ~Ended(p)
  BY DEF Live
<1>2. p.id <= cursor.polls
  BY <1>1, BufferTypes DEF MadeInv
<1>3. QED
  BY <1>1, <1>2, EndedIsUnverified DEF KeptInv, SkipInv, NothingSkipped

LEMMA StoredWereMade ==
  ASSUME MadeInv
  PROVE  StoredPolls \subseteq Made
BY DEF MadeInv, StoredPolls, Rows

LEMMA PromiseNext ==
  ASSUME KeptInv, MadeInv, ReleasedSafe', Onward, [Next]_vars, ~NewBuffer, ~StateLoss,
         StoredPolls' \subseteq Made'
  PROVE  \/ \E n \in 1 .. MaxPolls :
              /\ n \notin Made /\ Made' = Made \cup {n}
              /\ UNCHANGED <<StoredPolls, Undeliverable, Released>>
         \/ \E S \in SUBSET Made :
              \/ StoredPolls' = StoredPolls \cup S /\ UNCHANGED <<Made, Undeliverable, Released>>
              \/ Undeliverable' = Undeliverable \cup S /\ UNCHANGED <<Made, StoredPolls, Released>>
              \/ /\ S \subseteq StoredPolls \cup Undeliverable
                 /\ Released' = Released \cup S /\ UNCHANGED <<Made, StoredPolls, Undeliverable>>
<1>1. CASE Makes
  <2>1. /\ now + 1 \in 1 .. MaxPolls /\ now + 1 \notin Made
        /\ Made' = Made \cup {now + 1}
        /\ Live' = Live \cup {now + 1}
        /\ Released' = Released /\ srvPolls' = srvPolls
    BY <1>1, PollMakes DEF Makes
  <2>2. Undeliverable' = Undeliverable /\ StoredPolls' = StoredPolls
    BY <2>1 DEF Undeliverable, StoredPolls
  <2>3. QED
    BY <2>1, <2>2
<1>2. CASE GivesUp
  <2>1. Live' \subseteq Live /\ UNCHANGED <<made, cursor, srvPolls>>
    BY <1>2, GivingUp
  <2>2. UNCHANGED <<Made, StoredPolls, Released>>
    BY <2>1 DEF Made, StoredPolls, Released
  <2>3. Undeliverable' = Undeliverable \cup Undeliverable' /\ Undeliverable' \subseteq Made
    BY <2>1, <2>2 DEF Undeliverable
  <2>4. QED
    BY <2>2, <2>3
<1>3. CASE ~Makes /\ ~GivesUp
  <2>1. Live' = Live /\ made' = made
    BY <1>3, OtherSteps
  <2>2. UNCHANGED <<Made, Undeliverable>>
    BY <2>1 DEF Made, Undeliverable
  <2>3. CASE srvPolls' = srvPolls
    <3>1. cursor.polls <= cursor'.polls /\ cursor.polls \in Nat /\ cursor'.polls \in Nat
      BY CursorGrows, TypeStep DEF KeptInv, TypeOK, Cursors
    <3>2. \A m \in made : m.id \in Nat
      BY DEF KeptInv, TypeOK
    <3>3. Released \subseteq Released' /\ Released' \subseteq Made
      BY <2>1, <3>1, <3>2 DEF Released, Made
    <3>4. StoredPolls' = StoredPolls
      BY <2>3 DEF StoredPolls
    <3>5. Released' \subseteq StoredPolls \cup Undeliverable
      BY <2>2, <3>4 DEF ReleasedSafe
    <3>6. QED
      BY <2>2, <3>3, <3>4, <3>5
  <2>4. CASE cursor' = cursor
    <3>1. Released' = Released
      BY <2>1, <2>4 DEF Released
    <3>2. StoredPolls \subseteq StoredPolls'
      BY DEF Onward, StoredPolls
    <3>3. QED
      BY <2>2, <3>1, <3>2
  <2>5. srvPolls' = srvPolls \/ cursor' = cursor
    BY DEF Next, Poll, Prune, Reboot, EnsureCursor, Send, Accepted, GiveUp, TooLarge, Heartbeat,
       Merge, MergeLate, vars, uploaderVars, serverVars
  <2>6. QED
    BY <2>3, <2>4, <2>5
<1>4. QED
  BY <1>1, <1>2, <1>3

(* While the state file and the buffer are kept the pipeline implements     *)
(* Delivery, for any number of polls, boots, lost answers and late requests: *)
(* the uploader releases only what the server stores or nothing can place.  *)
THEOREM ImplementsDelivery == Kept /\ Spec => DeliveryPromise
<1> DEFINE Inv == KeptInv /\ OnceInv /\ MadeInv
<1> SUFFICES ASSUME Kept PROVE Spec => DeliveryPromise
  OBVIOUS
<1>1. Init => Inv
  BY KeptInit, OnceInit, MadeInit
<1>2. Inv /\ [Next]_vars => Inv'
  BY KeptStep, OnceStep, MadeInvStep
<1>3. Inv => ReleasedSafe /\ StoredPolls \subseteq Made
  BY ReleaseIsSafe, StoredWereMade
<1>4. Init => Promise!Init
  BY DEF Init, Promise!Init, StoredPolls
<1>5. ASSUME Inv, ReleasedSafe', (StoredPolls \subseteq Made)', [Next]_vars
      PROVE  [Promise!Next]_(Promise!vars)
  <2>1. Live = {p.n : p \in {q \in polls : Fate(q) # "unverified"}}
    BY DEF Live, Ended, Fate
  <2>2. Live' = {p.n : p \in {q \in polls : Fate(q) # "unverified"}}'
    BY DEF Live, Ended, Fate
  <2>3. Onward /\ ~NewBuffer /\ ~StateLoss
    BY <1>5, KeptStep
  <2>4. Promise!Next
    BY <1>5, <2>1, <2>2, <2>3, PromiseNext
    DEF Promise!Next, Promise!Make, Promise!Store, Promise!Expire, Promise!Release, Made,
        Undeliverable, Released
  <2>5. QED
    BY <2>4
<1>6. QED
  BY <1>1, <1>2, <1>3, <1>4, <1>5, PTL DEF Spec, DeliveryPromise, Promise!Spec

-----------------------------------------------------------------------------
(* The two cursors of a batch agree: as long as the access point is also     *)
(* heard at least once per retention, no stored poll is without the          *)
(* observation the buffer has of it.  The row ids of the observations then   *)
(* never restart, so a row behind the observation cursor belongs to a poll   *)
(* behind the poll cursor, whatever is pruned and whatever clock stamped it. *)

Heard(table, n) == \E o \in table : o.poll = n

\* A row lies at or before its poll's time; a stale one still has its poll.
ObsRowsInv ==
  /\ \A o \in observations :
       /\ o.id >= 1 /\ o.poll <= now /\ o.ts <= 2 * o.poll
       /\ \/ o.ts = 2 * o.poll
          \/ \E p \in polls : p.id = o.poll /\ ~p.synced
  /\ \A o, q \in observations : o.id <= q.id => o.poll <= q.poll

\* The two halves of a cursor.
Coherent(table, c) ==
  /\ c.obs = 0 \/ \E o \in table : o.id >= c.obs
  /\ \A o \in table : o.id <= c.obs => o.poll <= c.polls

\* What is sent comes with its observation.
Carries(table, rows, obs) ==
  \A r \in rows : Heard(table, r.n) => \E s \in obs : s.n = r.n

SentRows == srvObs \cup request.batch.obs \cup UNION {b.obs : b \in late}

\* Every batch and the server carry what the table holds of their polls.
AllCarry ==
  /\ Carries(observations, srvPolls, srvObs)
  /\ Carries(observations, request.batch.polls, request.batch.obs)
  /\ \A b \in late : Carries(observations, b.polls, b.obs)

ObsInv ==
  /\ ObsRowsInv
  /\ Coherent(observations, cursor) /\ Coherent(observations, request.new)
  /\ cursor = NoCursor => Rows = {}
  /\ AllCarry
  /\ \A s \in SentRows : RowPlaced(s)

LEMMA ObsInit == Init => ObsInv
BY DEF Init, ObsInv, ObsRowsInv, Coherent, AllCarry, Carries, SentRows, Rows, NoRequest, NoBatch,
   NoCursor

-----------------------------------------------------------------------------
(* The table.                                                               *)

LEMMA ObsTypes ==
  ASSUME KeptInv, NEW o \in observations
  PROVE  o.id \in Nat /\ o.poll \in Nat /\ o.ts \in Int
BY DEF KeptInv, TypeOK, ObsRows

\* What a poll or a prune may do to the table.
ObsOnward ==
  /\ \A o \in observations' :
       o \in observations \/ (o.poll = now + 1 /\ \A q \in observations : q.id < o.id)
  /\ \A c \in Nat : (\E o \in observations : o.id >= c) => \E o \in observations' : o.id >= c

LEMMA PollObs ==
  ASSUME KeptInv, ObsRowsInv, NEW kind \in Kinds, NEW synced \in BOOLEAN, Poll(kind, synced)
  PROVE  ObsRowsInv' /\ ObsOnward /\ \A o \in observations' : o \in observations \/ o.id >= 1
<1>1. PICK id \in 1 .. now + 1 :
        LET ts == IF synced THEN 2 * (now + 1) ELSE 2 * (now + 1) - drift
            mono == Mono(2 * (now + 1))
        IN  /\ IsNextId(id, polls)
            /\ polls' = polls \cup
                 {[id |-> id, n |-> now + 1, boot |-> boot, synced |-> synced, ts |-> ts, mono |-> mono]}
            /\ IF kind = "heard"
               THEN \E oid \in 1 .. now + 1 :
                      /\ IsNextId(oid, observations)
                      /\ observations' = observations \cup {[id |-> oid, poll |-> id, ts |-> ts]}
               ELSE observations' = observations
  BY DEF Poll
<1>2. now \in Nat /\ drift \in Nat /\ id = now + 1
  BY <1>1, NextIdIsNext DEF KeptInv, SkipInv, TypeOK
<1>3. polls \subseteq polls'
  BY <1>1
<1>4. now' = now + 1
  BY DEF Poll
<1>5. CASE kind # "heard"
  <2>1. observations' = observations
    BY <1>1, <1>5
  <2>2. \A o \in observations : o.poll \in Nat
    BY ObsTypes
  <2>3. QED
    BY <1>2, <1>3, <1>4, <2>1, <2>2 DEF ObsRowsInv, ObsOnward
<1>6. CASE kind = "heard"
  <2> DEFINE time == IF synced THEN 2 * (now + 1) ELSE 2 * (now + 1) - drift
  <2>1. PICK oid \in 1 .. now + 1 :
          /\ IsNextId(oid, observations)
          /\ observations' = observations \cup {[id |-> oid, poll |-> id, ts |-> time]}
    BY <1>1, <1>6
  <2>2. time <= 2 * (now + 1) /\ (synced => time = 2 * (now + 1)) /\ time \in Int
    BY <1>2
  <2>3. ASSUME ~synced PROVE \E p \in polls' : p.id = now + 1 /\ ~p.synced
    <3> PICK row : row = [id |-> id, n |-> now + 1, boot |-> boot, synced |-> synced, ts |-> time,
                          mono |-> Mono(2 * (now + 1))]
      OBVIOUS
    <3>1. row \in polls' /\ row.id = now + 1
      BY <1>1, <1>2
    <3>2. ~row.synced
      BY <2>3
    <3>3. QED
      BY <3>1, <3>2
  <2> PICK new : new = [id |-> oid, poll |-> now + 1, ts |-> time]
    OBVIOUS
  <2>4. observations' = observations \cup {new} /\ new.id = oid /\ new.poll = now + 1 /\ new.ts = time
    BY <1>2, <2>1
  <2>5. oid \in Nat /\ oid >= 1 /\ \A q \in observations : q.id < oid
    BY <1>2, <2>1 DEF IsNextId
  <2>6. \A o \in observations : o.id \in Nat /\ o.poll \in Nat /\ o.ts \in Int /\ o.poll <= now
    BY ObsTypes DEF ObsRowsInv
  <2> HIDE DEF time
  <2>7. ASSUME NEW o \in observations'
        PROVE  /\ o.id >= 1 /\ o.poll <= now' /\ o.ts <= 2 * o.poll
               /\ \/ o.ts = 2 * o.poll
                  \/ \E p \in polls' : p.id = o.poll /\ ~p.synced
    BY <1>2, <1>3, <1>4, <2>2, <2>3, <2>4, <2>5, <2>6 DEF ObsRowsInv
  <2>8. ASSUME NEW o \in observations', NEW q \in observations', o.id <= q.id
        PROVE  o.poll <= q.poll
    BY <1>2, <2>4, <2>5, <2>6, <2>8 DEF ObsRowsInv
  <2>9. ObsOnward
    BY <2>4, <2>5 DEF ObsOnward
  <2>10. QED
    BY <2>5, <2>7, <2>8, <2>9, <2>4 DEF ObsRowsInv
<1>7. QED
  BY <1>5, <1>6

\* A row whose poll lies within the retention stays.
LEMMA Survives ==
  ASSUME KeptInv, ObsRowsInv, NEW n \in Nat, Prune(2 * n), NEW w \in observations,
         2 * w.poll >= 2 * n
  PROVE  w \in observations'
<1>1. w.poll \in Nat /\ w.ts \in Int
  BY ObsTypes
<1>2. w.ts < 2 * n => w.poll \in Ids({p \in polls : ~p.synced})
  BY <1>1 DEF ObsRowsInv, Ids
<1>3. ASSUME NEW p \in polls, ~p.synced, Expired(p, 2 * n), p.id = w.poll PROVE FALSE
  <2>1. p.id = p.n /\ p.n \in Nat
    BY BufferTypes
  <2>2. \A q \in polls : q.id = q.n /\ q.n \in Nat /\ (q.synced => q.ts = 2 * q.n)
    BY BufferTypes DEF KeptInv, PlaceInv
  <2>3. CASE HasAnchor(ntpAnchors, p.boot)
    <3>1. EpochTrue(ntpAnchors, p.boot) + p.mono = 2 * p.n
      BY <2>3, NtpPlaces DEF KeptInv, PlaceInv
    <3>2. QED
      BY <1>1, <1>3, <2>1, <2>3, <3>1 DEF Expired
  <2>4. CASE ~HasAnchor(ntpAnchors, p.boot)
    <3>1. PICK q \in polls : q.synced /\ q.id > p.id /\ q.ts < 2 * n
      BY <1>3, <2>4 DEF Expired
    <3>2. QED
      BY <1>1, <1>3, <2>1, <2>2, <3>1
  <2>5. QED
    BY <2>3, <2>4
<1>4. w.poll \notin Ids({p \in polls : ~p.synced /\ Expired(p, 2 * n)})
  BY <1>3 DEF Ids
<1>5. QED
  BY <1>2, <1>4 DEF Prune

LEMMA PruneObs ==
  ASSUME HeardInRetention, KeptInv, ObsRowsInv, NEW n \in Nat, Prune(2 * n)
  PROVE  ObsRowsInv' /\ ObsOnward /\ \A o \in observations' : o \in observations \/ o.id >= 1
<1>1. observations' \subseteq observations /\ now' = now
  BY DEF Prune
<1>2. ASSUME NEW o \in observations', NEW p \in polls, p.id = o.poll, ~p.synced
      PROVE  p \in polls'
  <2>1. o.poll \notin Ids({q \in polls : ~q.synced /\ Expired(q, 2 * n)})
    BY DEF Prune
  <2>2. ~Expired(p, 2 * n)
    BY <1>2, <2>1 DEF Ids
  <2>3. QED
    BY <2>2 DEF Prune
<1>3. ObsRowsInv'
  BY <1>1, <1>2 DEF ObsRowsInv
<1>4. PICK o \in observations : o.ts >= 2 * n
  BY DEF Prune
<1>5. o.id \in Nat /\ o.poll \in Nat /\ o.ts \in Int /\ o.ts <= 2 * o.poll
  BY ObsTypes DEF ObsRowsInv
<1>6. o \in observations'
  BY <1>4, <1>5, Survives
<1>7. ASSUME NEW c \in Nat, NEW w \in observations, w.id >= c
      PROVE  \E v \in observations' : v.id >= c
  <2>1. w.id \in Nat /\ w.poll \in Nat
    BY ObsTypes
  <2>2. CASE o.id >= w.id
    BY <1>5, <1>6, <1>7, <2>1, <2>2
  <2>3. CASE o.id <= w.id
    <3>1. 2 * w.poll >= 2 * n
      BY <1>4, <1>5, <2>1, <2>3 DEF ObsRowsInv
    <3>2. QED
      BY <1>7, <3>1, Survives
  <2>4. QED
    BY <1>5, <2>1, <2>2, <2>3
<1>8. QED
  BY <1>1, <1>3, <1>7 DEF ObsOnward

\* A cursor stays coherent while the table grows at its end.
LEMMA CoherentStays ==
  ASSUME KeptInv, ObsOnward, \A o \in observations' : o \in observations \/ o.id >= 1,
         \A o \in observations' : o.id \in Nat,
         NEW c \in Cursors, Coherent(observations, c)
  PROVE  Coherent(observations', c)
<1>1. c.obs \in Nat /\ \A o \in observations : o.id \in Nat
  BY ObsTypes DEF Cursors
<1>2. c.obs = 0 \/ \E o \in observations' : o.id >= c.obs
  BY <1>1 DEF ObsOnward, Coherent
<1>3. ASSUME NEW o \in observations', o.id <= c.obs PROVE o \in observations
  <2>1. CASE c.obs = 0
    BY <1>3, <2>1
  <2>2. CASE c.obs # 0
    <3>1. PICK w \in observations : w.id >= c.obs
      BY <2>2 DEF Coherent
    <3>2. ~(w.id < o.id)
      BY <1>1, <1>3, <3>1
    <3>3. QED
      BY <3>1, <3>2 DEF ObsOnward
  <2>3. QED
    BY <2>1, <2>2
<1>4. QED
  BY <1>2, <1>3 DEF Coherent

LEMMA NoCursorCoherent ==
  ASSUME ObsRowsInv, KeptInv, NEW b
  PROVE  Coherent(observations, [buffer |-> b, polls |-> 0, obs |-> 0])
<1>1. \A o \in observations : o.id >= 1 /\ o.id \in Nat
  BY ObsTypes DEF ObsRowsInv
<1>2. QED
  BY <1>1 DEF Coherent

\* The steps of the collector.
LEMMA TableStep ==
  ASSUME HeardInRetention, KeptInv, KeptInv', ObsInv,
         \/ \E kind \in Kinds, synced \in BOOLEAN : Poll(kind, synced)
         \/ \E n \in 1 .. MaxPolls : Prune(2 * n)
  PROVE  ObsInv'
<1>1. ObsRowsInv' /\ ObsOnward /\ \A o \in observations' : o \in observations \/ o.id >= 1
  <2>1. \A n \in 1 .. MaxPolls : n \in Nat
    BY BoundsAssumption
  <2>2. QED
    BY <2>1, PollObs, PruneObs DEF ObsInv
<1>2. \A o \in observations' : o.id \in Nat
  BY DEF KeptInv, TypeOK, ObsRows
<1>3. UNCHANGED <<cursor, request, late, srvPolls, srvObs>>
  BY DEF Poll, Prune, uploaderVars, networkVars, serverVars
<1>4. cursor \in Cursors /\ request.new \in Cursors
  BY DEF KeptInv, TypeOK
<1>5. Coherent(observations', cursor') /\ Coherent(observations', request'.new)
  BY <1>1, <1>2, <1>3, <1>4, CoherentStays DEF ObsInv
<1>6. Rows' = Rows /\ SentRows' = SentRows
  BY <1>3 DEF Rows, SentRows
<1>7. ASSUME NEW r \in Rows, Heard(observations', r.n) PROVE Heard(observations, r.n)
  <2>1. r.n \in Nat /\ r.n <= now /\ now \in Nat
    BY RowTypes DEF KeptInv, TypeOK
  <2>2. QED
    BY <1>1, <1>7, <2>1 DEF Heard, ObsOnward
<1>8. AllCarry'
  BY <1>3, <1>7 DEF ObsInv, AllCarry, Carries, Rows
<1>9. QED
  BY <1>1, <1>3, <1>5, <1>6, <1>8 DEF ObsInv

-----------------------------------------------------------------------------
(* The batches.                                                             *)

LEMMA SendCarries ==
  ASSUME KeptInv, ObsInv, NEW last, IsLastOf(last, Taken), last \in {cursor.polls} \cup Ids(polls)
  PROVE  /\ Carries(observations, Batch(Taken, last).polls, Batch(Taken, last).obs)
         /\ \A s \in Batch(Taken, last).obs : RowPlaced(s)
<1>1. cursor.polls \in Nat /\ cursor.obs \in Nat /\ last \in Nat
  BY DEF KeptInv, TypeOK, Cursors, Ids, PollRows
<1>2. ASSUME NEW p \in Taken, Fate(p) = "send", NEW o \in observations, o.poll = p.n
      PROVE  o \in ConsumedObs(last)
  <2>1. p \in polls /\ p.id > cursor.polls /\ p.id = p.n /\ p.n \in Nat
    BY BufferTypes DEF Taken
  <2>2. p.id <= last
    BY <1>2 DEF IsLastOf
  <2>3. \A q \in observations : q.id \in Nat /\ q.poll \in Nat
    BY ObsTypes
  <2>4. o.id > cursor.obs
    BY <1>1, <1>2, <2>1, <2>3 DEF ObsInv, Coherent
  <2>5. \A q \in observations : q.id <= o.id => q.poll <= last
    BY <1>1, <1>2, <2>1, <2>2, <2>3 DEF ObsInv, ObsRowsInv
  <2>6. QED
    BY <2>4, <2>5 DEF ConsumedObs
<1>3. ASSUME NEW p \in Taken, Fate(p) = "send", Heard(observations, p.n)
      PROVE  \E s \in Batch(Taken, last).obs : s.n = p.n
  <2>1. p \in polls /\ p.id = p.n
    BY BufferTypes DEF Taken
  <2>2. PICK o \in observations : o.poll = p.n
    BY <1>3 DEF Heard
  <2>3. o \in ConsumedObs(last)
    BY <1>2, <1>3, <2>2
  <2>4. [n |-> p.n, ts |-> Placed(p)] \in Batch(Taken, last).obs
    BY <1>3, <2>1, <2>2, <2>3 DEF Batch
  <2>5. QED
    BY <2>4
<1>4. Carries(observations, Batch(Taken, last).polls, Batch(Taken, last).obs)
  <2> SUFFICES ASSUME NEW r \in Batch(Taken, last).polls, Heard(observations, r.n)
               PROVE  \E s \in Batch(Taken, last).obs : s.n = r.n
    BY DEF Carries
  <2>1. PICK p \in Taken : Fate(p) = "send" /\ r = SentPoll(p)
    BY DEF Batch
  <2>2. r.n = p.n
    BY <2>1 DEF SentPoll
  <2>3. QED
    BY <1>3, <2>1, <2>2
<1>5. ASSUME NEW s \in Batch(Taken, last).obs PROVE RowPlaced(s)
  <2>1. PICK p \in Taken : Fate(p) = "send" /\ s = [n |-> p.n, ts |-> Placed(p)]
    BY DEF Batch
  <2>2. RowPlaced(SentPoll(p))
    BY <2>1, SentPlaced DEF Taken, KeptInv
  <2>3. QED
    BY <2>1, <2>2 DEF RowPlaced, SentPoll
<1>6. QED
  BY <1>4, <1>5

LEMMA SendCoherent ==
  ASSUME KeptInv, ObsInv, NEW last \in {cursor.polls} \cup Ids(polls), IsLastOf(last, Taken),
         NEW lastObs, IsLastObs(lastObs, ConsumedObs(last)), NEW b
  PROVE  Coherent(observations, [buffer |-> b, polls |-> last, obs |-> lastObs])
<1>1. cursor.polls \in Nat /\ cursor.obs \in Nat /\ last \in Nat
  BY DEF KeptInv, TypeOK, Cursors, Ids, PollRows
<1>2. \A o \in observations : o.id \in Nat /\ o.poll \in Nat
  BY ObsTypes
<1>3. cursor.polls <= last
  <2>1. \A p \in Taken : p.id > cursor.polls /\ p.id \in Nat
    BY BufferTypes DEF Taken
  <2>2. QED
    BY <1>1, <2>1 DEF IsLastOf, Ids
<1>4. \A o \in observations : o.id <= cursor.obs => o.poll <= last
  BY <1>1, <1>2, <1>3 DEF ObsInv, Coherent
<1>5. CASE ConsumedObs(last) = {}
  BY <1>4, <1>5 DEF IsLastObs, ObsInv, Coherent
<1>6. CASE ConsumedObs(last) # {}
  <2>1. PICK w \in ConsumedObs(last) : w.id = lastObs
    BY <1>6 DEF IsLastObs, Ids
  <2>2. w \in observations
    BY DEF ConsumedObs
  <2>3. \A o \in observations : o.id <= w.id => o.poll <= last
    BY <1>1, <1>2, <1>4, <2>2 DEF ConsumedObs
  <2>4. QED
    BY <1>2, <2>1, <2>2, <2>3 DEF Coherent
<1>7. QED
  BY <1>5, <1>6

\* An anchor's error is less than the time between two polls.
LEMMA OneTimeOnePoll ==
  ASSUME NEW i \in Nat, NEW j \in Nat, NEW x \in Int,
         x - 2 * i \in {0, 1}, x - 2 * j \in {0, 1}
  PROVE  i = j
OBVIOUS

\* Rows of one time are rows of one poll: a row that is there already is it.
LEMMA MergeCarries ==
  ASSUME KeptInv, Carries(observations, srvPolls, srvObs), NEW b \in Batches, MergeRows(b),
         Carries(observations, b.polls, b.obs),
         \A s \in srvObs \cup b.obs : RowPlaced(s)
  PROVE  Carries(observations, srvPolls', srvObs') /\ srvObs' \subseteq srvObs \cup b.obs
<1>1. srvObs \subseteq SentObs /\ b.obs \subseteq SentObs
  BY DEF KeptInv, TypeOK, Batches
<1>2. ASSUME NEW s \in b.obs PROVE \E t \in srvObs' : t.n = s.n
  <2>1. CASE \A t \in srvObs : t.ts # s.ts
    BY <2>1 DEF MergeRows, InsertByTs
  <2>2. CASE \E t \in srvObs : t.ts = s.ts
    <3>1. PICK t \in srvObs : t.ts = s.ts
      BY <2>2
    <3>2. t.n \in Nat /\ s.n \in Nat /\ t.ts \in Int /\ s.ts \in Int
      BY <1>1 DEF SentObs
    <3>3. t.ts - 2 * t.n \in {0, 1} /\ s.ts - 2 * s.n \in {0, 1}
      BY EnvAssumption DEF RowPlaced
    <3>4. t.n = s.n
      BY <3>1, <3>2, <3>3, OneTimeOnePoll
    <3>5. QED
      BY <3>4 DEF MergeRows, InsertByTs
  <2>3. QED
    BY <2>1, <2>2
<1>3. srvObs \subseteq srvObs' /\ srvObs' \subseteq srvObs \cup b.obs
  BY DEF MergeRows, InsertByTs
<1>4. srvPolls' \subseteq srvPolls \cup b.polls
  BY DEF MergeRows, InsertByTs
<1>5. QED
  BY <1>2, <1>3, <1>4 DEF Carries

-----------------------------------------------------------------------------
(* Every step.                                                              *)

LEMMA ObsStep ==
  ASSUME HeardInRetention, KeptInv, KeptInv', MadeInv, ObsInv, [Next]_vars, ~NewBuffer, ~StateLoss
  PROVE  ObsInv'
<1> DEFINE Quiet == UNCHANGED <<observations, polls, now>>
<1>1. ASSUME Quiet PROVE ObsRowsInv'
  BY <1>1 DEF ObsInv, ObsRowsInv
<1>2. Coherent(observations, NoCursor)
  BY NoCursorCoherent DEF ObsInv, NoCursor
<1>3. NoRequest.new = NoCursor /\ NoRequest.batch = NoBatch /\ NoBatch.obs = {} /\ NoBatch.polls = {}
  BY DEF NoRequest, NoBatch
<1>4. ASSUME Send PROVE ObsInv'
  <2>1. PICK last \in {cursor.polls} \cup Ids(polls),
             lastObs \in {cursor.obs} \cup Ids(observations) :
          /\ IsLastOf(last, Taken) /\ IsLastObs(lastObs, ConsumedObs(last))
          /\ request' = [state |-> "sent", batch |-> Batch(Taken, last),
                         new |-> [cursor EXCEPT !.polls = last, !.obs = lastObs]]
    BY <1>4 DEF Send
  <2>2. /\ Quiet /\ UNCHANGED <<cursor, late, srvPolls, srvObs>> /\ cursor # NoCursor
    BY <1>4 DEF Send, sensorVars, uploaderVars, serverVars
  <2>3. cursor \in Cursors
    BY DEF KeptInv, TypeOK
  <2>4. request'.new = [buffer |-> cursor.buffer, polls |-> last, obs |-> lastObs]
    BY <2>1, <2>3 DEF Cursors
  <2>5. Coherent(observations, request'.new)
    BY <2>1, <2>4, SendCoherent
  <2>6. request'.batch = Batch(Taken, last)
    BY <2>1
  <2>7. /\ Carries(observations, request'.batch.polls, request'.batch.obs)
        /\ \A s \in request'.batch.obs : RowPlaced(s)
    BY <2>1, <2>6, SendCarries
  <2>8. AllCarry'
    BY <2>2, <2>7 DEF ObsInv, AllCarry
  <2>9. \A s \in SentRows' : RowPlaced(s)
    BY <2>2, <2>7 DEF ObsInv, SentRows
  <2>10. QED
    BY <1>1, <2>2, <2>5, <2>8, <2>9 DEF ObsInv
<1>5. ASSUME Accepted PROVE ObsInv'
  <2>1. /\ Quiet /\ UNCHANGED <<late, srvPolls, srvObs>>
        /\ request # NoRequest /\ cursor' = request.new /\ request' = NoRequest
    BY <1>5 DEF Accepted, NoRequest, sensorVars, serverVars
  <2>2. cursor' # NoCursor
    BY <2>1 DEF MadeInv, NoCursor
  <2>3. AllCarry' /\ \A s \in SentRows' : RowPlaced(s)
    BY <1>3, <2>1 DEF ObsInv, AllCarry, Carries, SentRows
  <2>4. QED
    BY <1>1, <1>2, <1>3, <2>1, <2>2, <2>3 DEF ObsInv
<1>6. ASSUME EnsureCursor PROVE ObsInv'
  <2>1. Quiet /\ UNCHANGED <<request, late, srvPolls, srvObs>> /\ cursor = NoCursor
    BY <1>6 DEF EnsureCursor, sensorVars, networkVars, serverVars
  <2>2. Rows = {}
    BY <2>1 DEF ObsInv
  <2>3. cursor' = [buffer |-> bufferId, polls |-> 0, obs |-> 0]
    BY <1>6, <2>2 DEF EnsureCursor, Rows
  <2>4. Coherent(observations, cursor')
    BY <2>3, NoCursorCoherent DEF ObsInv
  <2>5. Rows' = Rows /\ SentRows' = SentRows /\ AllCarry'
    BY <2>1 DEF ObsInv, Rows, SentRows, AllCarry
  <2>6. QED
    BY <1>1, <2>1, <2>2, <2>4, <2>5 DEF ObsInv
<1>7. ASSUME Merge PROVE ObsInv'
  <2>1. /\ Quiet /\ UNCHANGED <<cursor, late>> /\ MergeRows(request.batch)
        /\ request'.new = request.new /\ request'.batch = NoBatch
    BY <1>7 DEF Merge, KeptInv, TypeOK, sensorVars, uploaderVars
  <2>2. request.batch \in Batches /\ \A s \in srvObs \cup request.batch.obs : RowPlaced(s)
    BY DEF KeptInv, TypeOK, ObsInv, SentRows
  <2>3. /\ Carries(observations, srvPolls', srvObs')
        /\ srvObs' \subseteq srvObs \cup request.batch.obs
    BY <2>1, <2>2, MergeCarries DEF ObsInv, AllCarry
  <2>4. AllCarry' /\ \A s \in SentRows' : RowPlaced(s)
    BY <1>3, <2>1, <2>2, <2>3 DEF ObsInv, AllCarry, Carries, SentRows
  <2>5. Rows' \subseteq Rows
    BY <1>3, <2>1 DEF Rows, MergeRows, InsertByTs
  <2>6. QED
    BY <1>1, <2>1, <2>4, <2>5 DEF ObsInv
<1>8. ASSUME NEW b \in late, MergeLate(b) PROVE ObsInv'
  <2>1. Quiet /\ UNCHANGED <<cursor, request>> /\ MergeRows(b) /\ late' \subseteq late
    BY <1>8 DEF MergeLate, sensorVars, uploaderVars
  <2>2. b \in Batches /\ \A s \in srvObs \cup b.obs : RowPlaced(s)
    BY DEF KeptInv, TypeOK, ObsInv, SentRows
  <2>3. Carries(observations, srvPolls', srvObs') /\ srvObs' \subseteq srvObs \cup b.obs
    BY <2>1, <2>2, MergeCarries DEF ObsInv, AllCarry
  <2>4. AllCarry' /\ \A s \in SentRows' : RowPlaced(s)
    BY <2>1, <2>2, <2>3 DEF ObsInv, AllCarry, SentRows
  <2>5. Rows' \subseteq Rows
    BY <2>1 DEF Rows, MergeRows, InsertByTs
  <2>6. QED
    BY <1>1, <2>1, <2>4, <2>5 DEF ObsInv
<1>9. ASSUME GiveUp \/ TooLarge \/ \E d \in Drifts : Reboot(d) PROVE ObsInv'
  <2>1. /\ Quiet /\ UNCHANGED <<cursor, srvPolls, srvObs>> /\ request' = NoRequest
        /\ late' \subseteq late \cup {request.batch}
    BY <1>9 DEF GiveUp, TooLarge, Reboot, sensorVars, uploaderVars, serverVars
  <2>2. AllCarry' /\ \A s \in SentRows' : RowPlaced(s)
    BY <1>3, <2>1 DEF ObsInv, AllCarry, Carries, SentRows
  <2>3. Rows' \subseteq Rows
    BY <1>3, <2>1 DEF Rows
  <2>4. QED
    BY <1>1, <1>2, <1>3, <2>1, <2>2, <2>3 DEF ObsInv
<1>10. ASSUME UNCHANGED vars \/ \E err \in Errs : Heartbeat(err) PROVE ObsInv'
  <2>1. Quiet /\ UNCHANGED <<cursor, request, late, srvPolls, srvObs>>
    BY <1>10 DEF Heartbeat, vars, sensorVars, uploaderVars, networkVars, serverVars
  <2>2. Rows' = Rows /\ SentRows' = SentRows /\ AllCarry'
    BY <2>1 DEF ObsInv, Rows, SentRows, AllCarry
  <2>3. QED
    BY <1>1, <2>1, <2>2 DEF ObsInv
<1>11. QED
  BY <1>4, <1>5, <1>6, <1>7, <1>8, <1>9, <1>10, TableStep DEF Next

(* While the state file and the buffer are kept, and the retention is longer *)
(* than the access point is ever unheard, a stored poll behind the cursor    *)
(* has its observation on the server, whatever is pruned, lost or late.      *)
THEOREM ObservationsComeAlong == Kept /\ HeardInRetention /\ Spec => []ObservationsFollow
<1> DEFINE Inv == KeptInv /\ MadeInv /\ ObsInv
<1> SUFFICES ASSUME Kept, HeardInRetention PROVE Spec => []ObservationsFollow
  OBVIOUS
<1>1. Init => Inv
  BY KeptInit, MadeInit, ObsInit
<1>2. Inv /\ [Next]_vars => KeptInv' /\ MadeInv'
  BY KeptStep, MadeInvStep
<1>3. ASSUME Inv, KeptInv', [Next]_vars PROVE ObsInv'
  BY <1>3, KeptStep, ObsStep
<1>4. Inv => ObservationsFollow
  <2> SUFFICES ASSUME Inv, NEW p \in polls, NEW o \in observations, o.poll = p.id,
                      p.n \in StoredPolls
               PROVE  \E s \in srvObs : s.n = p.n
    BY DEF ObservationsFollow
  <2>1. p.id = p.n
    BY BufferTypes
  <2>2. Heard(observations, p.n)
    BY <2>1 DEF Heard
  <2>3. QED
    BY <2>2 DEF StoredPolls, ObsInv, AllCarry, Carries
<1>5. QED
  BY <1>1, <1>2, <1>3, <1>4, PTL DEF Spec

=============================================================================
