---------------------------- MODULE ServerProofs ----------------------------
(***************************************************************************)
(* Proofs about the server's programs, for any number of requests at once: *)
(* no page is older than the state it was opened on, whichever of the three *)
(* caches answers; what an import commits reaches the rollups; reports of a *)
(* sensor that contradict each other have a boundary between them; the       *)
(* buckets and blocks of the dashboard tile their period in every zone; who  *)
(* turns the pages of the feed misses nothing; and the evaluation's report   *)
(* fits its trials.                                                          *)
(*                                                                         *)
(* Reads.  ReadsInv: whatever a cache or a request keeps under a tag is at  *)
(* least as new as everything the tag can stand for, because the versions  *)
(* were read before the data.  Import.  The mark an import sets lies at or  *)
(* before its polls, and a refresh that takes it holds it until it commits. *)
(* Adapters.  Every boundary and every contact is a place in the log; what  *)
(* the adapter record says was last said by contacts since the newest one.  *)
(* Stalls.  StallsInv: the stall fields of a row tell the last run of       *)
(* refusals in the sensor's history, and a request that has read a row      *)
(* holds its lock, so that the row it writes back follows from the present. *)
(* Periods.  A local time has come at a moment exactly when the clock shows *)
(* it or a later one then (UtcOrders), also in the hour that exists twice   *)
(* and after the one that does not; the edges are a step apart in local time. *)
(* Evaluation.  The trials in the order of their starts are a sequence, and   *)
(* what overlaps in it overlaps at neighbours; ids tell detections apart.     *)
(* Event feed.  FeedInv: the rows shown descend, and a row that stayed as it  *)
(* was is among them or follows the cursor; the page before is the last      *)
(* before this one, so the page toward newer rows is the same.               *)
(* Last, what the rules of the detectors compute: their folds are functions   *)
(* on the subsets of what is folded (FoldExists), so what one step keeps all  *)
(* keep.  DetectorProofs proves the detectors from it.                        *)
(***************************************************************************)
EXTENDS Server, SequenceTheorems, FiniteSetTheorems, WellFoundedInduction, TLAPS

-----------------------------------------------------------------------------
(* Facts about numbers and sequences.                                       *)

LEMMA LeastOfSet ==
  ASSUME NEW S \in SUBSET Nat, S # {}
  PROVE  \E u \in S : \A t \in S : u <= t
<1> DEFINE less == {d \in Nat \X Nat : d[1] < d[2]}
<1>1. IsWellFoundedOn(less, Nat)
  BY NatLessThanWellFounded DEF OpToRel
<1> HIDE DEF less
<1>2. PICK u \in S : \A t \in S : ~(<<t, u>> \in less)
  BY <1>1, WFMin
<1>3. ASSUME NEW t \in S PROVE u <= t
  <2>1. t \in Nat /\ u \in Nat /\ ~(<<t, u>> \in less)
    BY <1>2
  <2>2. ~(t < u)
    BY <2>1 DEF less
  <2>3. QED
    BY <2>1, <2>2
<1>4. QED
  BY <1>3

LEMMA MinIs ==
  ASSUME NEW S \in SUBSET Nat, S # {}
  PROVE  /\ Reads!Min(S) \in S /\ \A t \in S : Reads!Min(S) <= t
         /\ Import!Min(S) \in S /\ \A t \in S : Import!Min(S) <= t
BY LeastOfSet DEF Reads!Min, Import!Min

LEMMA MaxIs ==
  ASSUME NEW S \in SUBSET Nat, S # {}, NEW b \in Nat, \A t \in S : t <= b
  PROVE  Reads!Max(S) \in S /\ \A t \in S : Reads!Max(S) >= t
<1> DEFINE U == {u \in Nat : \A t \in S : t <= u}
<1>1. PICK u \in U : \A w \in U : u <= w
  <2>1. U \in SUBSET Nat /\ b \in U
    OBVIOUS
  <2>2. QED
    BY <2>1, LeastOfSet
<1>2. u \in S
  <2>1. SUFFICES ASSUME u \notin S PROVE FALSE
    OBVIOUS
  <2>2. \A t \in S : t \in Nat /\ t <= u /\ t # u
    BY <1>1, <2>1
  <2>3. u \in Nat /\ u # 0
    <3>1. PICK t \in S : t \in Nat /\ t <= u /\ t # u
      BY <2>2
    <3>2. u \in Nat
      BY <1>1
    <3>3. QED
      BY <3>1, <3>2
  <2>4. u - 1 \in U
    BY <2>2, <2>3
  <2>5. QED
    BY <1>1, <2>3, <2>4
<1>3. \A t \in S : u >= t
  BY <1>1
<1>4. QED
  BY <1>2, <1>3 DEF Reads!Max

LEMMA SeqAppend ==
  ASSUME NEW T, NEW s \in Seq(T), NEW e \in T
  PROVE  Append(s, e) \in Seq(T)
OBVIOUS

LEMMA SeqPart ==
  ASSUME NEW T, NEW s \in Seq(T), NEW i \in Int, NEW j \in Int, i >= 1, j <= Len(s)
  PROVE  SubSeq(s, i, j) \in Seq(T)
<1>1. \A k \in i .. j : k \in 1 .. Len(s)
  BY LenProperties
<1>2. \A k \in i .. j : s[k] \in T
  BY <1>1, ElementOfSeq
<1>3. QED
  BY <1>2, SubSeqProperties

-----------------------------------------------------------------------------
(* ReadCache: what the kept bodies are.                                     *)

(* The bodies kept after an answer are the old ones and the new one.        *)
LEMMA PutKeeps ==
  ASSUME NEW T, lru \in Seq(T), NEW item \in T
  PROVE  Reads!Put(item).items \in Seq(T)
<1>1. Reads!Kept(item).items \in Seq(T)
  <2> DEFINE same == Reads!Hit(item.page, item.tag)
  <2>1. CASE same = {}
    BY <2>1, SeqAppend DEF Reads!Kept
  <2>2. CASE same # {}
    <3>1. PICK i \in same : i = CHOOSE j \in same : TRUE
      BY <2>2
    <3>2. i \in 1 .. Len(lru) /\ Len(lru) \in Nat
      BY LenProperties DEF Reads!Hit
    <3>3. SubSeq(lru, 1, i - 1) \in Seq(T) /\ SubSeq(lru, i + 1, Len(lru)) \in Seq(T)
      BY <3>2, SeqPart
    <3>4. Reads!RemoveAt(lru, i) \in Seq(T)
      BY <3>3, ConcatProperties DEF Reads!RemoveAt
    <3>5. Append(Reads!RemoveAt(lru, i), item) \in Seq(T)
      BY <3>4, SeqAppend
    <3>6. QED
      BY <2>2, <3>1, <3>5 DEF Reads!Kept
  <2>3. QED
    BY <2>1, <2>2
<1>2. ASSUME NEW st, st.items \in Seq(T) PROVE Reads!Evicted(st).items \in Seq(T)
  <2> DEFINE fits == {k \in 0 .. Len(st.items) :
                        k = Len(st.items)
                        \/ st.bytes - Reads!Sizes(SubSeq(st.items, 1, k)) <= MaxBytes}
  <2>1. Len(st.items) \in Nat
    BY <1>2, LenProperties
  <2>2. fits \in SUBSET Nat /\ Len(st.items) \in fits
    BY <2>1
  <2>3. Reads!Min(fits) \in fits
    BY <2>2, MinIs
  <2>4. PICK k : k = Reads!Min(fits)
    OBVIOUS
  <2>5. k \in 0 .. Len(st.items)
    BY <2>3, <2>4
  <2>6. SubSeq(st.items, k + 1, Len(st.items)) \in Seq(T)
    BY <1>2, <2>1, <2>5, SeqPart
  <2>7. Reads!Evicted(st).items = SubSeq(st.items, k + 1, Len(st.items))
    BY <2>4 DEF Reads!Evicted
  <2>8. QED
    BY <2>6, <2>7
<1>3. QED
  BY <1>1, <1>2 DEF Reads!Put

(* A body that is found moves to the end.                                   *)
LEMMA TouchKeeps ==
  ASSUME NEW T, lru \in Seq(T), NEW i \in DOMAIN lru
  PROVE  Reads!Touched(i) \in Seq(T) /\ lru[i] \in T
<1>1. i \in 1 .. Len(lru) /\ Len(lru) \in Nat
  BY LenProperties
<1>2. SubSeq(lru, 1, i - 1) \in Seq(T) /\ SubSeq(lru, i + 1, Len(lru)) \in Seq(T)
  BY <1>1, SeqPart
<1>3. Reads!RemoveAt(lru, i) \in Seq(T)
  BY <1>2, ConcatProperties DEF Reads!RemoveAt
<1>4. lru[i] \in T
  BY <1>1, ElementOfSeq
<1>5. QED
  BY <1>3, <1>4, SeqAppend DEF Reads!Touched

-----------------------------------------------------------------------------
(* ReadCache: what the kept bodies must have seen.                          *)

Moments == [edits : Nat, n : [Reads!Rows -> Nat]]
Tags == Nat \X Nat \X Nat
Items == [page : Reads!Pages, tag : Tags, seen : Moments, size : Nat]
Copies == [tag : Tags, seen : Moments]
Keys == [key : Nat \X Nat, seen : Moments]

\* A stamp is given once, and later than every committed one but those that
\* were given before.
WritersOK ==
  /\ edits \in Nat /\ clock \in Nat /\ overtaken \in BOOLEAN
  /\ rows \in [Reads!Rows -> [stamp : Nat, n : Nat]]
  /\ begun \subseteq [row : Reads!Rows, stamp : Nat]
  /\ \A r \in Reads!Rows : rows[r].stamp <= clock
  /\ \A c \in begun : c.stamp <= clock /\ \A r \in Reads!Rows : rows[r].stamp # c.stamp
  /\ \A c, d \in begun : c.stamp = d.stamp => c = d

\* A request that has the versions and no answer yet.
Active(r) == r.at \in {"etag", "aps", "keep", "body", "render"}

\* As new, in the rows of R, as the present if the stamp is the present one, and
\* as every request under way with that stamp asked for.
FreshFor(R, i, tag, v) ==
  /\ tag[i] <= Reads!Newest(R)
  /\ tag[i] = Reads!Newest(R) => \A r \in R : v.n[r] >= rows[r].n
  /\ \A s \in Slots : Active(request[s]) /\ request[s].tag[i] = tag[i] => \A r \in R : v.n[r] >= request[s].start.n[r]

GoodKey(key, v) == v.edits >= key[2] /\ (~overtaken => FreshFor(Summaries, 1, key, v))

Good(tag, v) == GoodKey(tag, v) /\ (~overtaken => FreshFor(Events, 3, tag, v))

LruOK == lru \in Seq({x \in Items : Good(x.tag, x.seen)})

CopyOK == copy \in [Reads!Pages -> {None} \cup {x \in Copies : Good(x.tag, x.seen)}]

KeptOK == kept \in {None} \cup {x \in Keys : GoodKey(x.key, x.seen)}

\* What a request asked for is not newer than the present.
AskedOK(r) ==
  /\ r.page \in Reads!Pages /\ r.tag \in Tags /\ r.start \in Moments
  /\ r.start.edits = r.tag[2] /\ r.tag[2] <= edits
  /\ ~overtaken => r.tag[1] <= Reads!Newest(Summaries) /\ r.tag[3] <= Reads!Newest(Events)
  /\ \A q \in Reads!Rows : r.start.n[q] <= rows[q].n

\* What it carries is good, and its answer is new enough.
AnswerOK(r) ==
  /\ r.seen.edits >= r.start.edits
  /\ ~overtaken => \A q \in Reads!Rows : r.seen.n[q] >= r.start.n[q]

RequestOK(r) ==
  /\ r = [at |-> r.at, page |-> r.page, tag |-> r.tag, start |-> r.start, aps |-> r.aps, seen |-> r.seen]
  /\ Active(r) => AskedOK(r)
  /\ r.at = "keep" \/ (r.at = "body" /\ r.page = List) => r.aps \in Moments /\ GoodKey(r.tag, r.aps)
  /\ r.at = "render" => r.seen \in Moments /\ Good(r.tag, r.seen)
  /\ r.at = "done" => AnswerOK(r)

RequestsOK ==
  /\ request = [s \in Slots |-> request[s]]
  /\ \A s \in Slots : \A r : r = request[s] => RequestOK(r)

ReadsInv == WritersOK /\ LruOK /\ CopyOK /\ KeptOK /\ RequestsOK

-----------------------------------------------------------------------------
(* The stamps.                                                              *)

LEMMA NewestOf ==
  ASSUME WritersOK, NEW R \in SUBSET Reads!Rows, R # {}
  PROVE  /\ Reads!Newest(R) \in Nat
         /\ \E r \in R : Reads!Newest(R) = rows[r].stamp
         /\ \A r \in R : Reads!Newest(R) >= rows[r].stamp
<1> DEFINE S == {rows[r].stamp : r \in R}
<1>1. S \in SUBSET Nat /\ S # {} /\ \A t \in S : t <= clock
  BY DEF WritersOK
<1>2. clock \in Nat
  BY DEF WritersOK
<1>3. Reads!Max(S) \in S /\ \A t \in S : Reads!Max(S) >= t
  BY <1>1, <1>2, MaxIs
<1>4. QED
  BY <1>1, <1>3 DEF Reads!Newest

LEMMA BothNewest ==
  ASSUME WritersOK
  PROVE  /\ Reads!Newest(Summaries) \in Nat /\ Reads!Newest(Events) \in Nat
         /\ Summaries \subseteq Reads!Rows /\ Events \subseteq Reads!Rows
         /\ Reads!Now \in Moments /\ Reads!Tag \in Tags
<1>1. Summaries \subseteq Reads!Rows /\ Events \subseteq Reads!Rows
  BY DEF Reads!Rows
<1>2. Reads!Newest(Summaries) \in Nat /\ Reads!Newest(Events) \in Nat
  BY <1>1, NewestOf, ReadsAssumption
<1>3. Reads!Now \in Moments
  BY DEF Reads!Now, Moments, WritersOK
<1>4. Reads!Tag \in Tags
  BY <1>2 DEF Reads!Tag, Tags, WritersOK
<1>5. QED
  BY <1>1, <1>2, <1>3, <1>4

(* A row of R that is stamped by a commit, and no other overtaken: the stamp *)
(* is new.  The other part's stamp stays.                                   *)
LEMMA StampsGrow ==
  ASSUME WritersOK, Reads!Commit, ~overtaken',
         NEW R \in {Summaries, Events}
  PROVE  /\ Reads!Newest(R)' \in Nat
         /\ \/ Reads!Newest(R)' > Reads!Newest(R)
            \/ Reads!Newest(R)' = Reads!Newest(R) /\ \A r \in R : rows'[r] = rows[r]
<1>1. PICK c \in begun :
        /\ rows' = [rows EXCEPT ![c.row] = [stamp |-> c.stamp, n |-> rows[c.row].n + 1]]
        /\ overtaken' = (overtaken \/ c.stamp < Reads!Newest(IF c.row \in Events THEN Events ELSE Summaries))
  BY DEF Reads!Commit
<1>2. c.row \in Reads!Rows /\ c.stamp \in Nat /\ R \subseteq Reads!Rows /\ R # {}
  BY BothNewest, ReadsAssumption DEF WritersOK
<1>3. CASE c.row \in R
  <2>1. ~(c.stamp < Reads!Newest(R))
    BY <1>1, <1>2, <1>3, ReadsAssumption DEF Reads!Rows
  <2>2. PICK r \in R : Reads!Newest(R) = rows[r].stamp /\ Reads!Newest(R) \in Nat
    BY <1>2, NewestOf
  <2>3. rows[r].stamp # c.stamp
    BY <1>2 DEF WritersOK
  <2>4. c.stamp > Reads!Newest(R)
    BY <1>2, <2>1, <2>2, <2>3
  <2> DEFINE S == {rows'[q].stamp : q \in R}
  <2>5. S \in SUBSET Nat /\ c.stamp \in S /\ \A t \in S : t <= c.stamp \/ t <= Reads!Newest(R)
    <3>1. \A q \in R : rows'[q].stamp = IF q = c.row THEN c.stamp ELSE rows[q].stamp
      BY <1>1, <1>2 DEF WritersOK
    <3>2. \A q \in R : rows[q].stamp \in Nat /\ rows[q].stamp <= Reads!Newest(R)
      BY <1>2, NewestOf DEF WritersOK
    <3>3. QED
      BY <3>1, <3>2, <1>2, <1>3
  <2>6. PICK old : old = Reads!Newest(R) /\ old \in Nat /\ c.stamp > old
    BY <2>2, <2>4
  <2>7. Reads!Newest(R)' = Reads!Max(S)
    BY DEF Reads!Newest
  <2> HIDE DEF S
  <2>8. \A t \in S : t <= c.stamp
    BY <1>2, <2>5, <2>6
  <2>9. Reads!Max(S) \in S /\ \A t \in S : Reads!Max(S) >= t
    BY <1>2, <2>5, <2>8, MaxIs
  <2>10. PICK new : new = Reads!Max(S) /\ new \in Nat /\ new >= c.stamp
    BY <2>5, <2>9
  <2>11. new > old
    BY <1>2, <2>6, <2>10
  <2>12. QED
    BY <2>6, <2>7, <2>10, <2>11
<1>4. CASE c.row \notin R
  <2>1. \A r \in R : rows'[r] = rows[r]
    BY <1>1, <1>2, <1>4 DEF WritersOK
  <2>2. {rows'[r].stamp : r \in R} = {rows[r].stamp : r \in R}
    BY <2>1
  <2>3. Reads!Newest(R)' = Reads!Newest(R)
    BY <2>2 DEF Reads!Newest
  <2>4. QED
    BY <2>1, <2>3, <1>2, NewestOf
<1>5. QED
  BY <1>3, <1>4

LEMMA WritersStep ==
  ASSUME WritersOK, [Reads!Next]_(Reads!vars)
  PROVE  WritersOK'
<1>1. CASE UNCHANGED <<edits, clock, overtaken, rows, begun>>
  BY <1>1 DEF WritersOK
<1>2. CASE Reads!Edit
  BY <1>2 DEF WritersOK, Reads!Edit
<1>3. CASE Reads!Begin
  <2>1. PICK r \in Reads!Rows : begun' = begun \cup {[row |-> r, stamp |-> clock']}
    BY <1>3 DEF Reads!Begin
  <2>2. clock' = clock + 1 /\ UNCHANGED <<edits, rows, overtaken>>
    BY <1>3 DEF Reads!Begin
  <2>3. \A q \in Reads!Rows : rows[q].stamp \in Nat /\ rows[q].stamp <= clock
    BY DEF WritersOK
  <2>4. \A c \in begun : c.stamp \in Nat /\ c.stamp <= clock
    BY DEF WritersOK
  <2>5. QED
    BY <2>1, <2>2, <2>3, <2>4 DEF WritersOK
<1>4. CASE Reads!Commit
  <2>1. PICK c \in begun :
          /\ begun' = begun \ {c}
          /\ rows' = [rows EXCEPT ![c.row] = [stamp |-> c.stamp, n |-> rows[c.row].n + 1]]
          /\ overtaken' = (overtaken \/ c.stamp < Reads!Newest(IF c.row \in Events THEN Events ELSE Summaries))
          /\ UNCHANGED <<edits, clock>>
    BY <1>4 DEF Reads!Commit
  <2>2. c.row \in Reads!Rows /\ c.stamp \in Nat /\ c.stamp <= clock
    BY DEF WritersOK
  <2>3. rows' \in [Reads!Rows -> [stamp : Nat, n : Nat]]
    BY <2>1, <2>2 DEF WritersOK
  <2>4. \A r \in Reads!Rows : rows'[r].stamp = IF r = c.row THEN c.stamp ELSE rows[r].stamp
    BY <2>1, <2>2 DEF WritersOK
  <2>5. \A d \in begun' : d \in begun /\ d.stamp # c.stamp
    BY <2>1 DEF WritersOK
  <2>6. overtaken' \in BOOLEAN
    BY <2>1 DEF WritersOK
  <2>7. begun' \subseteq [row : Reads!Rows, stamp : Nat]
    BY <2>1 DEF WritersOK
  <2>8. QED
    BY <2>1, <2>2, <2>3, <2>4, <2>5, <2>6, <2>7 DEF WritersOK
<1>5. QED
  BY <1>1, <1>2, <1>3, <1>4 DEF Reads!Next, Reads!vars, Reads!Request, Reads!Account, Reads!NotModified, Reads!Lookup,
     Reads!Aps, Reads!Keep, Reads!Body, Reads!Render

-----------------------------------------------------------------------------
(* Good bodies stay good.                                                   *)

Transfers ==
  /\ \A key \in (Nat \X Nat) \cup Tags, v \in Moments : GoodKey(key, v) => GoodKey(key, v)'
  /\ \A tag \in Tags, v \in Moments : Good(tag, v) => Good(tag, v)'

\* No request is under way that was not, but one that asks for the present.
OnlyPresent ==
  \A s \in Slots : Active(request'[s]) =>
    \/ /\ Active(request[s])
       /\ request'[s].tag = request[s].tag /\ request'[s].start = request[s].start
    \/ request'[s].tag = Reads!Tag /\ request'[s].start = Reads!Now

LEMMA RequestsTransfer ==
  ASSUME UNCHANGED <<rows, overtaken>>, OnlyPresent
  PROVE  Transfers
<1>1. Reads!Newest(Summaries)' = Reads!Newest(Summaries) /\ Reads!Newest(Events)' = Reads!Newest(Events)
  BY DEF Reads!Newest
<1>2. ASSUME NEW key, NEW v, FreshFor(Summaries, 1, key, v) PROVE FreshFor(Summaries, 1, key, v)'
  <2>1. ASSUME NEW s \in Slots, Active(request'[s]), request'[s].tag[1] = key[1], NEW r \in Summaries
        PROVE  v.n[r] >= request'[s].start.n[r]
    <3>1. CASE Active(request[s]) /\ request'[s].tag = request[s].tag /\ request'[s].start = request[s].start
      BY <1>2, <2>1, <3>1 DEF FreshFor
    <3>2. CASE request'[s].tag = Reads!Tag /\ request'[s].start = Reads!Now
      BY <1>2, <2>1, <3>2 DEF FreshFor, Reads!Tag, Reads!Now, Reads!Rows
    <3>3. QED
      BY <2>1, <3>1, <3>2 DEF OnlyPresent
  <2>2. QED
    BY <1>1, <1>2, <2>1 DEF FreshFor
<1>3. ASSUME NEW key, NEW v, FreshFor(Events, 3, key, v) PROVE FreshFor(Events, 3, key, v)'
  <2>1. ASSUME NEW s \in Slots, Active(request'[s]), request'[s].tag[3] = key[3], NEW r \in Events
        PROVE  v.n[r] >= request'[s].start.n[r]
    <3>1. CASE Active(request[s]) /\ request'[s].tag = request[s].tag /\ request'[s].start = request[s].start
      BY <1>3, <2>1, <3>1 DEF FreshFor
    <3>2. CASE request'[s].tag = Reads!Tag /\ request'[s].start = Reads!Now
      BY <1>3, <2>1, <3>2 DEF FreshFor, Reads!Tag, Reads!Now, Reads!Rows
    <3>3. QED
      BY <2>1, <3>1, <3>2 DEF OnlyPresent
  <2>2. QED
    BY <1>1, <1>3, <2>1 DEF FreshFor
<1>4. ASSUME NEW key, NEW v, GoodKey(key, v) PROVE GoodKey(key, v)'
  BY <1>2, <1>4 DEF GoodKey
<1>5. QED
  BY <1>3, <1>4 DEF Transfers, Good

LEMMA CommitTransfers ==
  ASSUME WritersOK, Reads!Commit
  PROVE  Transfers
<1>1. request' = request /\ (~overtaken' => ~overtaken)
  BY DEF Reads!Commit
<1>2. ASSUME NEW R \in {Summaries, Events}, NEW i \in {1, 3}, NEW key, NEW v, key[i] \in Nat,
             ~overtaken', FreshFor(R, i, key, v)
      PROVE  FreshFor(R, i, key, v)'
  <2>1. PICK old \in Nat : old = Reads!Newest(R)
    BY BothNewest, <1>2
  <2>2. PICK new \in Nat : /\ new = Reads!Newest(R)'
                           /\ \/ new > Reads!Newest(R)
                              \/ new = Reads!Newest(R) /\ \A r \in R : rows'[r] = rows[r]
    BY StampsGrow, <1>2
  <2>3. new > old \/ (new = old /\ \A r \in R : rows'[r] = rows[r])
    BY <2>1, <2>2
  <2>4. key[i] <= old /\ (key[i] = old => \A r \in R : v.n[r] >= rows[r].n)
    BY <1>2, <2>1 DEF FreshFor
  <2>5. key[i] <= new /\ (key[i] = new => \A r \in R : v.n[r] >= rows'[r].n)
    BY <1>2, <2>3, <2>4
  <2>6. \A s \in Slots : Active(request'[s]) /\ request'[s].tag[i] = key[i]
                           => \A r \in R : v.n[r] >= request'[s].start.n[r]
    BY <1>1, <1>2 DEF FreshFor
  <2>7. QED
    BY <2>2, <2>5, <2>6 DEF FreshFor
<1>3. ASSUME NEW key \in (Nat \X Nat) \cup Tags, NEW v, GoodKey(key, v) PROVE GoodKey(key, v)'
  <2>1. key[1] \in Nat
    BY DEF Tags
  <2>2. QED
    BY <1>1, <1>2, <1>3, <2>1 DEF GoodKey
<1>4. ASSUME NEW tag \in Tags, NEW v, Good(tag, v) PROVE Good(tag, v)'
  <2>1. tag[3] \in Nat
    BY DEF Tags
  <2>2. GoodKey(tag, v)'
    BY <1>3, <1>4 DEF Good
  <2>3. QED
    BY <1>1, <1>2, <1>4, <2>1, <2>2 DEF Good
<1>5. QED
  BY <1>3, <1>4 DEF Transfers

LEMMA LruTransfers ==
  ASSUME Transfers, lru' \in Seq({x \in Items : Good(x.tag, x.seen)})
  PROVE  LruOK'
<1>1. {x \in Items : Good(x.tag, x.seen)} \subseteq {x \in Items : Good(x.tag, x.seen)'}
  BY DEF Transfers, Items
<1>2. lru' \in Seq({x \in Items : Good(x.tag, x.seen)'})
  BY <1>1, SeqMonotonic
<1>3. QED
  BY <1>2 DEF LruOK

LEMMA CachesTransfer ==
  ASSUME Transfers
  PROVE  /\ LruOK /\ UNCHANGED lru => LruOK'
         /\ CopyOK /\ UNCHANGED copy => CopyOK'
         /\ KeptOK /\ UNCHANGED kept => KeptOK'
<1>1. ASSUME LruOK, UNCHANGED lru PROVE LruOK'
  <2>1. lru' \in Seq({x \in Items : Good(x.tag, x.seen)})
    BY <1>1 DEF LruOK
  <2>2. QED
    BY <2>1, LruTransfers
<1>2. ASSUME CopyOK, UNCHANGED copy PROVE CopyOK'
  <2>1. {x \in Copies : Good(x.tag, x.seen)} \subseteq {x \in Copies : Good(x.tag, x.seen)'}
    BY DEF Transfers, Copies
  <2>2. copy' \in [Reads!Pages -> {None} \cup {x \in Copies : Good(x.tag, x.seen)'}]
    BY <2>1, <1>2 DEF CopyOK
  <2>3. QED
    BY <2>2 DEF CopyOK
<1>3. ASSUME KeptOK, UNCHANGED kept PROVE KeptOK'
  <2>1. {x \in Keys : GoodKey(x.key, x.seen)} \subseteq {x \in Keys : GoodKey(x.key, x.seen)'}
    BY DEF Transfers, Keys
  <2>2. kept' \in {None} \cup {x \in Keys : GoodKey(x.key, x.seen)'}
    BY <2>1, <1>3 DEF KeptOK
  <2>3. QED
    BY <2>2 DEF KeptOK
<1>4. QED
  BY <1>1, <1>2, <1>3

-----------------------------------------------------------------------------
(* What a request reads is good.                                            *)

LEMMA TheseAre ==
  ASSUME RequestsOK, NEW s \in Slots
  PROVE  RequestOK(request[s])
BY DEF RequestsOK

LEMMA LesserOf ==
  ASSUME NEW a \in Nat, NEW b \in Nat
  PROVE  Reads!Min({a, b}) \in Nat /\ Reads!Min({a, b}) \in {a, b}
BY MinIs

\* The queries of a request see at least what any request asked for.
LEMMA PresentIsGood ==
  ASSUME WritersOK, RequestsOK, NEW r, AskedOK(r)
  PROVE  Reads!Now \in Moments /\ Good(r.tag, Reads!Now)
<1>1. /\ Reads!Now \in Moments /\ Reads!Now.edits = edits
      /\ \A q \in Reads!Rows : Reads!Now.n[q] = rows[q].n /\ rows[q].n \in Nat
      /\ Summaries \subseteq Reads!Rows /\ Events \subseteq Reads!Rows
  BY BothNewest DEF Reads!Now, WritersOK
<1>2. r.tag[2] \in Nat /\ r.tag[2] <= edits
      /\ (~overtaken => r.tag[1] <= Reads!Newest(Summaries) /\ r.tag[3] <= Reads!Newest(Events))
  BY DEF AskedOK, Tags
<1>3. \A s \in Slots : Active(request[s]) => \A q \in Reads!Rows : request[s].start.n[q] <= rows[q].n
  BY TheseAre DEF RequestOK, AskedOK
<1>4. \A s \in Slots : Active(request[s]) => request[s].start \in Moments
  BY TheseAre DEF RequestOK, AskedOK
<1>5. ASSUME ~overtaken PROVE FreshFor(Summaries, 1, r.tag, Reads!Now) /\ FreshFor(Events, 3, r.tag, Reads!Now)
  BY <1>1, <1>2, <1>3, <1>4, <1>5 DEF FreshFor, Moments
<1>6. QED
  BY <1>1, <1>2, <1>5 DEF Good, GoodKey, WritersOK

\* So does a page that takes from older, but good, access points what a refresh
\* writes.
LEMMA OlderIsGood ==
  ASSUME WritersOK, RequestsOK, NEW r, AskedOK(r), NEW a \in Moments, GoodKey(r.tag, a)
  PROVE  Reads!Older(a, Reads!Now) \in Moments /\ Good(r.tag, Reads!Older(a, Reads!Now))
<1> DEFINE b == Reads!Now
           o == Reads!Older(a, b)
<1>1. b \in Moments /\ Good(r.tag, b)
  BY PresentIsGood
<1>2. /\ o.edits = Reads!Min({a.edits, b.edits})
      /\ \A q \in Reads!Rows : o.n[q] = IF q \in Summaries THEN Reads!Min({a.n[q], b.n[q]}) ELSE b.n[q]
      /\ o = [edits |-> o.edits, n |-> [q \in Reads!Rows |-> o.n[q]]]
  BY DEF Reads!Older
<1> HIDE DEF b, o
<1>3. a.edits \in Nat /\ b.edits \in Nat /\ \A q \in Reads!Rows : a.n[q] \in Nat /\ b.n[q] \in Nat
  BY <1>1 DEF Moments
<1>4. o.edits \in {a.edits, b.edits} /\ o.edits \in Nat
  BY <1>2, <1>3, LesserOf
<1>5. \A q \in Reads!Rows : o.n[q] \in Nat /\ (IF q \in Summaries THEN o.n[q] \in {a.n[q], b.n[q]} ELSE o.n[q] = b.n[q])
  BY <1>2, <1>3, LesserOf
<1>6. o \in Moments
  BY <1>2, <1>4, <1>5 DEF Moments
<1>7. Summaries \subseteq Reads!Rows /\ Events \subseteq Reads!Rows /\ \A q \in Events : q \notin Summaries
  BY BothNewest, ReadsAssumption
<1>8. ASSUME ~overtaken PROVE FreshFor(Summaries, 1, r.tag, o)
  <2>1. FreshFor(Summaries, 1, r.tag, a) /\ FreshFor(Summaries, 1, r.tag, b)
    BY <1>1, <1>8 DEF Good, GoodKey
  <2>2. \A q \in Summaries : o.n[q] \in {a.n[q], b.n[q]}
    BY <1>5, <1>7
  <2>3. QED
    BY <2>1, <2>2 DEF FreshFor
<1>9. ASSUME ~overtaken PROVE FreshFor(Events, 3, r.tag, o)
  <2>1. FreshFor(Events, 3, r.tag, b)
    BY <1>1, <1>9 DEF Good
  <2>2. \A q \in Events : o.n[q] = b.n[q]
    BY <1>5, <1>7
  <2>3. QED
    BY <2>1, <2>2 DEF FreshFor
<1>10. o.edits >= r.tag[2]
  BY <1>1, <1>4 DEF Good, GoodKey
<1>11. QED
  BY <1>6, <1>8, <1>9, <1>10 DEF Good, GoodKey, o, b

\* A good body is new enough for the request that gets it.
LEMMA GoodAnswers ==
  ASSUME RequestsOK, NEW s \in Slots, Active(request[s]), NEW v, Good(request[s].tag, v)
  PROVE  /\ v.edits >= request[s].start.edits
         /\ ~overtaken => \A q \in Reads!Rows : v.n[q] >= request[s].start.n[q]
<1>1. request[s].start.edits = request[s].tag[2]
  BY TheseAre DEF RequestOK, AskedOK
<1>2. ASSUME ~overtaken, NEW q \in Reads!Rows PROVE v.n[q] >= request[s].start.n[q]
  BY <1>2 DEF Good, GoodKey, FreshFor, Reads!Rows
<1>3. QED
  BY <1>1, <1>2 DEF Good, GoodKey

-----------------------------------------------------------------------------
(* The steps of a request.                                                  *)

\* One request goes on to r, which is as a request must be.
LEMMA GoesOn ==
  ASSUME ReadsInv, NEW s \in Slots, NEW r, Reads!Step(s, r), RequestOK(r),
         UNCHANGED <<edits, rows, begun, clock, overtaken>>,
         Active(r) => \/ Active(request[s]) /\ r.tag = request[s].tag /\ r.start = request[s].start
                      \/ r.tag = Reads!Tag /\ r.start = Reads!Now
  PROVE  Transfers /\ RequestsOK'
<1>1. request' = [q \in Slots |-> IF q = s THEN r ELSE request[q]]
  BY DEF Reads!Step, ReadsInv, RequestsOK
<1>2. OnlyPresent
  BY <1>1 DEF OnlyPresent
<1>3. Transfers
  BY <1>2, RequestsTransfer
<1>4. Reads!Newest(Summaries)' = Reads!Newest(Summaries) /\ Reads!Newest(Events)' = Reads!Newest(Events)
  BY DEF Reads!Newest
<1>5. ASSUME NEW x, RequestOK(x) PROVE RequestOK(x)'
  <2>1. Active(x) => AskedOK(x)'
    BY <1>4, <1>5 DEF RequestOK, AskedOK
  <2>2. x.at = "keep" \/ (x.at = "body" /\ x.page = List) => GoodKey(x.tag, x.aps)'
    BY <1>3, <1>5 DEF RequestOK, AskedOK, Active, Transfers
  <2>3. x.at = "render" => Good(x.tag, x.seen)'
    BY <1>3, <1>5 DEF RequestOK, AskedOK, Active, Transfers
  <2>4. QED
    BY <1>5, <2>1, <2>2, <2>3 DEF RequestOK, AnswerOK, Active
<1>6. \A q \in Slots : \A x : x = request'[q] => RequestOK(x)
  BY <1>1 DEF ReadsInv, RequestsOK
<1>7. QED
  BY <1>1, <1>3, <1>5, <1>6 DEF RequestsOK

LEMMA AccountStep ==
  ASSUME ReadsInv, NEW s \in Slots, Reads!Account(s)
  PROVE  ReadsInv'
<1>1. PICK p \in Reads!Pages : Reads!Step(s, Reads!At("etag", p, Reads!Tag, Reads!Now, None, None))
  BY DEF Reads!Account
<1>2. PICK r : r = Reads!At("etag", p, Reads!Tag, Reads!Now, None, None)
  OBVIOUS
<1>3. Reads!Step(s, r) /\ UNCHANGED <<edits, rows, begun, clock, lru, kept, copy, overtaken>>
  BY <1>1, <1>2 DEF Reads!Account
<1>4. AskedOK(r)
  <2>1. Reads!Tag \in Tags /\ Reads!Now \in Moments
    BY BothNewest DEF ReadsInv
  <2>2. Reads!Tag[2] = edits /\ Reads!Now.edits = edits /\ edits \in Nat
    BY DEF Reads!Tag, Reads!Now, ReadsInv, WritersOK
  <2>3. Reads!Tag[1] = Reads!Newest(Summaries) /\ Reads!Tag[3] = Reads!Newest(Events)
    BY DEF Reads!Tag
  <2>4. Reads!Newest(Summaries) \in Nat /\ Reads!Newest(Events) \in Nat
    BY BothNewest DEF ReadsInv
  <2>5. \A q \in Reads!Rows : Reads!Now.n[q] = rows[q].n /\ rows[q].n \in Nat
    BY DEF Reads!Now, ReadsInv, WritersOK
  <2>6. QED
    BY <1>2, <2>1, <2>2, <2>3, <2>4, <2>5 DEF AskedOK, Reads!At
<1>5. RequestOK(r)
  BY <1>2, <1>4 DEF RequestOK, Reads!At
<1>6. Transfers /\ RequestsOK'
  BY <1>2, <1>3, <1>5, GoesOn DEF Reads!At
<1>7. WritersOK'
  BY <1>3 DEF ReadsInv, WritersOK
<1>8. QED
  BY <1>3, <1>6, <1>7, CachesTransfer DEF ReadsInv

LEMMA WritersKeep ==
  ASSUME ReadsInv, UNCHANGED <<edits, rows, begun, clock, overtaken>>
  PROVE  WritersOK'
BY DEF ReadsInv, WritersOK

\* An answer with a good body.
LEMMA AnswerStep ==
  ASSUME ReadsInv, NEW s \in Slots, Active(request[s]), NEW v, Good(request[s].tag, v), Reads!Done(s, v),
         UNCHANGED <<edits, rows, begun, clock, overtaken>>
  PROVE  Transfers /\ RequestsOK'
<1>1. PICK r : r = Reads!At("done", None, None, request[s].start, None, v)
  OBVIOUS
<1>2. Reads!Step(s, r) /\ ~Active(r)
  BY <1>1 DEF Reads!Done, Active, Reads!At
<1>3. AnswerOK(r)
  BY <1>1, GoodAnswers DEF AnswerOK, Reads!At, ReadsInv
<1>4. RequestOK(r)
  BY <1>1, <1>2, <1>3 DEF RequestOK, Reads!At
<1>5. QED
  BY <1>2, <1>4, GoesOn

LEMMA NotModifiedStep ==
  ASSUME ReadsInv, NEW s \in Slots, Reads!NotModified(s)
  PROVE  ReadsInv'
<1>1. Active(request[s]) /\ UNCHANGED <<edits, rows, begun, clock, overtaken, lru, kept, copy>>
  BY DEF Reads!NotModified, Active
<1>2. request[s].page \in Reads!Pages
  BY <1>1, TheseAre DEF ReadsInv, RequestOK, AskedOK
<1>3. PICK x : x = copy[request[s].page]
  OBVIOUS
<1>4. x # None /\ x.tag = request[s].tag /\ Reads!Done(s, x.seen)
  BY <1>3 DEF Reads!NotModified, Reads!Current
<1>5. x \in Copies /\ Good(x.tag, x.seen)
  BY <1>2, <1>3, <1>4 DEF ReadsInv, CopyOK
<1>6. Transfers /\ RequestsOK'
  BY <1>1, <1>4, <1>5, AnswerStep
<1>7. QED
  BY <1>1, <1>6, WritersKeep, CachesTransfer DEF ReadsInv

\* An answer that the browser keeps.
LEMMA SentStep ==
  ASSUME ReadsInv, NEW s \in Slots, Active(request[s]), NEW v \in Moments, Good(request[s].tag, v), Reads!Answer(s, v),
         UNCHANGED <<edits, rows, begun, clock, overtaken>>
  PROVE  Transfers /\ RequestsOK' /\ CopyOK'
<1>1. Transfers /\ RequestsOK'
  BY AnswerStep DEF Reads!Answer
<1>2. request[s].page \in Reads!Pages /\ request[s].tag \in Tags
  BY TheseAre DEF ReadsInv, RequestOK, AskedOK
<1>3. PICK x : x = [tag |-> request[s].tag, seen |-> v]
  OBVIOUS
<1>4. x \in Copies /\ Good(x.tag, x.seen)'
  BY <1>1, <1>2, <1>3 DEF Copies, Transfers
<1>5. {y \in Copies : Good(y.tag, y.seen)} \subseteq {y \in Copies : Good(y.tag, y.seen)'}
  BY <1>1 DEF Transfers, Copies
<1>6. copy' \in [Reads!Pages -> {None} \cup {y \in Copies : Good(y.tag, y.seen)'}]
  <2>1. copy' = [copy EXCEPT ![request[s].page] = x]
    BY <1>3 DEF Reads!Answer
  <2>2. copy \in [Reads!Pages -> {None} \cup {y \in Copies : Good(y.tag, y.seen)}]
    BY DEF ReadsInv, CopyOK
  <2>3. copy \in [Reads!Pages -> {None} \cup {y \in Copies : Good(y.tag, y.seen)'}]
    BY <1>5, <2>2
  <2>4. QED
    BY <1>4, <2>1, <2>3
<1>7. QED
  BY <1>1, <1>6 DEF CopyOK

LEMMA LookupStep ==
  ASSUME ReadsInv, NEW s \in Slots, Reads!Lookup(s)
  PROVE  ReadsInv'
<1> DEFINE T == {x \in Items : Good(x.tag, x.seen)}
<1>1. Active(request[s]) /\ request[s].at = "etag" /\ UNCHANGED <<edits, rows, begun, clock, overtaken, kept>>
  BY DEF Reads!Lookup, Active
<1>2. CASE \E i \in Reads!Hit(request[s].page, request[s].tag) :
             Reads!Answer(s, lru[i].seen) /\ lru' = Reads!Touched(i)
  <2>1. PICK i \in DOMAIN lru : /\ lru[i].tag = request[s].tag
                                /\ Reads!Answer(s, lru[i].seen) /\ lru' = Reads!Touched(i)
    BY <1>2 DEF Reads!Hit
  <2>2. lru \in Seq(T)
    BY DEF ReadsInv, LruOK
  <2>3. lru' \in Seq(T) /\ lru[i] \in T
    BY <2>1, <2>2, TouchKeeps
  <2>4. PICK x \in T : x = lru[i]
    BY <2>3
  <2>5. x.seen \in Moments /\ Good(request[s].tag, x.seen) /\ Reads!Answer(s, x.seen)
    BY <2>1, <2>4 DEF Items
  <2>6. Transfers /\ RequestsOK' /\ CopyOK'
    BY <1>1, <2>5, SentStep
  <2>7. QED
    BY <1>1, <2>3, <2>6, WritersKeep, CachesTransfer, LruTransfers DEF ReadsInv
<1>3. CASE /\ Reads!Step(s, [request[s] EXCEPT !.at = IF request[s].page = List THEN "aps" ELSE "body"])
           /\ UNCHANGED <<lru, copy>>
  <2>1. PICK at : at = IF request[s].page = List THEN "aps" ELSE "body"
    OBVIOUS
  <2>2. PICK r : r = [request[s] EXCEPT !.at = at]
    OBVIOUS
  <2>3. RequestOK(request[s])
    BY TheseAre DEF ReadsInv
  <2>4. /\ r.at = at /\ r.page = request[s].page /\ r.tag = request[s].tag /\ r.start = request[s].start
        /\ r = [at |-> r.at, page |-> r.page, tag |-> r.tag, start |-> r.start, aps |-> r.aps, seen |-> r.seen]
    BY <2>2, <2>3 DEF RequestOK
  <2>5. AskedOK(r)
    BY <1>1, <2>3, <2>4 DEF RequestOK, AskedOK
  <2>6. RequestOK(r)
    BY <2>1, <2>4, <2>5 DEF RequestOK
  <2>7. Transfers /\ RequestsOK'
    BY <1>1, <1>3, <2>1, <2>2, <2>4, <2>6, GoesOn
  <2>8. QED
    BY <1>1, <1>3, <2>7, WritersKeep, CachesTransfer DEF ReadsInv
<1>4. QED
  BY <1>2, <1>3 DEF Reads!Lookup

\* The kept access points under the tag's key are good for the tag.
LEMMA KeyIsOfTag ==
  ASSUME NEW tag, NEW v
  PROVE  GoodKey(Reads!KeyOf(tag), v) <=> GoodKey(tag, v)
BY DEF GoodKey, FreshFor, Reads!KeyOf

\* A request goes on with access points.
LEMMA WithAps ==
  ASSUME ReadsInv, NEW s \in Slots, Active(request[s]), NEW at \in {"body", "keep"}, NEW a \in Moments,
         GoodKey(request[s].tag, a),
         Reads!Step(s, Reads!At(at, request[s].page, request[s].tag, request[s].start, a, None)),
         UNCHANGED <<edits, rows, begun, clock, overtaken>>
  PROVE  Transfers /\ RequestsOK'
<1>1. PICK r : r = Reads!At(at, request[s].page, request[s].tag, request[s].start, a, None)
  OBVIOUS
<1>2. AskedOK(request[s])
  BY TheseAre DEF ReadsInv, RequestOK
<1>3. AskedOK(r)
  BY <1>1, <1>2 DEF AskedOK, Reads!At
<1>4. RequestOK(r)
  BY <1>1, <1>3 DEF RequestOK, Reads!At
<1>5. QED
  BY <1>1, <1>4, GoesOn DEF Reads!At

LEMMA ApsStep ==
  ASSUME ReadsInv, NEW s \in Slots, Reads!Aps(s)
  PROVE  ReadsInv'
<1> DEFINE r == request[s]
<1>1. Active(r) /\ UNCHANGED <<edits, rows, begun, clock, overtaken, lru, copy, kept>>
  BY DEF Reads!Aps, Active
<1>2. AskedOK(r)
  BY <1>1, TheseAre DEF ReadsInv, RequestOK
<1>3. CASE kept # None /\ kept.key = Reads!KeyOf(r.tag)
  <2>1. kept \in Keys /\ GoodKey(kept.key, kept.seen)
    BY <1>3 DEF ReadsInv, KeptOK
  <2>2. PICK a : a = kept.seen
    OBVIOUS
  <2>3. a \in Moments /\ GoodKey(r.tag, a)
    BY <1>3, <2>1, <2>2, KeyIsOfTag DEF Keys
  <2>4. Reads!Step(s, Reads!At("body", r.page, r.tag, r.start, a, None))
    BY <1>3, <2>2 DEF Reads!Aps
  <2>5. Transfers /\ RequestsOK'
    BY <1>1, <2>3, <2>4, WithAps
  <2>6. QED
    BY <1>1, <2>5, WritersKeep, CachesTransfer DEF ReadsInv
<1>4. CASE ~(kept # None /\ kept.key = Reads!KeyOf(r.tag))
  <2>1. Reads!Now \in Moments /\ GoodKey(r.tag, Reads!Now)
    BY <1>2, PresentIsGood DEF ReadsInv, Good
  <2>2. Reads!Step(s, Reads!At("keep", r.page, r.tag, r.start, Reads!Now, None))
    BY <1>4 DEF Reads!Aps
  <2>3. Transfers /\ RequestsOK'
    BY <1>1, <2>1, <2>2, WithAps
  <2>4. QED
    BY <1>1, <2>3, WritersKeep, CachesTransfer DEF ReadsInv
<1>5. QED
  BY <1>3, <1>4

LEMMA KeepStep ==
  ASSUME ReadsInv, NEW s \in Slots, Reads!Keep(s)
  PROVE  ReadsInv'
<1>1. Active(request[s]) /\ UNCHANGED <<edits, rows, begun, clock, overtaken, lru, copy>>
  BY DEF Reads!Keep, Active
<1>2. RequestOK(request[s])
  BY TheseAre DEF ReadsInv
<1>3. /\ AskedOK(request[s]) /\ request[s].aps \in Moments /\ GoodKey(request[s].tag, request[s].aps)
  BY <1>1, <1>2 DEF RequestOK, Reads!Keep
<1>4. PICK r : r = [request[s] EXCEPT !.at = "body"]
  OBVIOUS
<1>5. /\ r.at = "body" /\ r.page = request[s].page /\ r.tag = request[s].tag /\ r.start = request[s].start
      /\ r.aps = request[s].aps
      /\ r = [at |-> r.at, page |-> r.page, tag |-> r.tag, start |-> r.start, aps |-> r.aps, seen |-> r.seen]
  BY <1>2, <1>4 DEF RequestOK
<1>6. RequestOK(r)
  <2>1. AskedOK(r)
    BY <1>3, <1>5 DEF AskedOK
  <2>2. QED
    BY <1>3, <1>5, <2>1 DEF RequestOK
<1>7. Transfers /\ RequestsOK'
  BY <1>1, <1>4, <1>5, <1>6, GoesOn DEF Reads!Keep
<1>8. KeptOK'
  <2>1. PICK x : x = [key |-> Reads!KeyOf(request[s].tag), seen |-> request[s].aps]
    OBVIOUS
  <2>2. x \in Keys /\ GoodKey(x.key, x.seen)
    BY <1>3, <2>1, KeyIsOfTag DEF Keys, AskedOK, Tags, Reads!KeyOf
  <2>3. x \in {y \in Keys : GoodKey(y.key, y.seen)'}
    BY <1>7, <2>2 DEF Transfers, Keys
  <2>4. kept' = x
    BY <2>1 DEF Reads!Keep
  <2>5. QED
    BY <2>3, <2>4 DEF KeptOK
<1>9. QED
  BY <1>1, <1>7, <1>8, WritersKeep, CachesTransfer DEF ReadsInv

LEMMA BodyStep ==
  ASSUME ReadsInv, NEW s \in Slots, Reads!Body(s)
  PROVE  ReadsInv'
<1>1. Active(request[s]) /\ UNCHANGED <<edits, rows, begun, clock, overtaken, lru, copy, kept>>
  BY DEF Reads!Body, Active
<1>2. RequestOK(request[s]) /\ AskedOK(request[s])
  BY <1>1, TheseAre DEF ReadsInv, RequestOK
<1>3. PICK v : v = IF request[s].page = List THEN Reads!Older(request[s].aps, Reads!Now) ELSE Reads!Now
  OBVIOUS
<1>4. v \in Moments /\ Good(request[s].tag, v)
  <2>1. CASE request[s].page = List
    <3>1. request[s].aps \in Moments /\ GoodKey(request[s].tag, request[s].aps)
      BY <1>2, <2>1 DEF RequestOK, Reads!Body
    <3>2. QED
      BY <1>2, <1>3, <2>1, <3>1, OlderIsGood DEF ReadsInv
  <2>2. CASE request[s].page # List
    BY <1>2, <1>3, <2>2, PresentIsGood DEF ReadsInv
  <2>3. QED
    BY <2>1, <2>2
<1>5. PICK r : r = Reads!At("render", request[s].page, request[s].tag, request[s].start, None, v)
  OBVIOUS
<1>6. Reads!Step(s, r)
  BY <1>3, <1>5 DEF Reads!Body
<1>7. RequestOK(r)
  <2>1. AskedOK(r)
    BY <1>2, <1>5 DEF AskedOK, Reads!At
  <2>2. QED
    BY <1>4, <1>5, <2>1 DEF RequestOK, Reads!At
<1>8. Transfers /\ RequestsOK'
  BY <1>1, <1>5, <1>6, <1>7, GoesOn DEF Reads!At
<1>9. QED
  BY <1>1, <1>8, WritersKeep, CachesTransfer DEF ReadsInv

LEMMA RenderStep ==
  ASSUME ReadsInv, NEW s \in Slots, Reads!Render(s)
  PROVE  ReadsInv'
<1> DEFINE T == {x \in Items : Good(x.tag, x.seen)}
<1>1. Active(request[s]) /\ UNCHANGED <<edits, rows, begun, clock, overtaken, kept>>
  BY DEF Reads!Render, Active
<1>2. RequestOK(request[s]) /\ AskedOK(request[s])
  BY <1>1, TheseAre DEF ReadsInv, RequestOK
<1>3. PICK v : v = request[s].seen
  OBVIOUS
<1>4. v \in Moments /\ Good(request[s].tag, v) /\ Reads!Answer(s, v)
  BY <1>2, <1>3 DEF RequestOK, Reads!Render
<1>5. PICK size \in 1 .. MaxSize :
        lru' = Reads!Put([page |-> request[s].page, tag |-> request[s].tag, seen |-> v, size |-> size]).items
  BY <1>3 DEF Reads!Render
<1>6. PICK item : item = [page |-> request[s].page, tag |-> request[s].tag, seen |-> v, size |-> size]
  OBVIOUS
<1>7. item \in T
  BY <1>2, <1>4, <1>6 DEF Items, AskedOK
<1>8. lru' \in Seq(T)
  <2>1. lru \in Seq(T)
    BY DEF ReadsInv, LruOK
  <2>2. QED
    BY <1>5, <1>6, <1>7, <2>1, PutKeeps
<1>9. Transfers /\ RequestsOK' /\ CopyOK'
  BY <1>1, <1>4, SentStep
<1>10. QED
  BY <1>1, <1>8, <1>9, WritersKeep, CachesTransfer, LruTransfers DEF ReadsInv

-----------------------------------------------------------------------------
(* The steps of the writers.                                                *)

LEMMA WritersGrow ==
  ASSUME WritersOK, Reads!Edit \/ Reads!Begin \/ Reads!Commit \/ UNCHANGED Reads!vars
  PROVE  /\ edits \in Nat /\ edits' \in Nat /\ edits' >= edits
         /\ \A q \in Reads!Rows : rows[q].n \in Nat /\ rows'[q].n \in Nat /\ rows'[q].n >= rows[q].n
<1>1. edits \in Nat /\ \A q \in Reads!Rows : rows[q].n \in Nat
  BY DEF WritersOK
<1>2. CASE Reads!Edit
  BY <1>1, <1>2 DEF Reads!Edit
<1>3. CASE Reads!Begin \/ UNCHANGED Reads!vars
  BY <1>1, <1>3 DEF Reads!Begin, Reads!vars
<1>4. CASE Reads!Commit
  <2>1. PICK c \in begun : /\ rows' = [rows EXCEPT ![c.row] = [stamp |-> c.stamp, n |-> rows[c.row].n + 1]]
                           /\ edits' = edits
    BY <1>4 DEF Reads!Commit
  <2>2. \A q \in Reads!Rows : rows'[q].n = IF q = c.row THEN rows[q].n + 1 ELSE rows[q].n
    BY <2>1 DEF WritersOK
  <2>3. QED
    BY <1>1, <2>1, <2>2
<1>5. QED
  BY <1>2, <1>3, <1>4

LEMMA WriteKeeps ==
  ASSUME ReadsInv, Reads!Edit \/ Reads!Begin \/ Reads!Commit \/ UNCHANGED Reads!vars
  PROVE  ReadsInv'
<1>1. UNCHANGED <<lru, kept, copy, request>>
  BY DEF Reads!Edit, Reads!Begin, Reads!Commit, Reads!vars
<1>2. Transfers
  <2>1. CASE Reads!Edit \/ Reads!Begin \/ UNCHANGED Reads!vars
    <3>1. UNCHANGED <<rows, overtaken>> /\ OnlyPresent
      BY <2>1, <1>1 DEF OnlyPresent, Reads!Edit, Reads!Begin, Reads!vars
    <3>2. QED
      BY <3>1, RequestsTransfer
  <2>2. QED
    BY <2>1, CommitTransfers DEF ReadsInv
<1>3. WritersOK'
  BY WritersStep DEF ReadsInv, Reads!Next
<1>4. ASSUME NEW r, AskedOK(r) PROVE AskedOK(r)'
  <2>1. edits' \in Nat /\ edits' >= edits
    BY WritersGrow DEF ReadsInv
  <2>2. \A q \in Reads!Rows : rows[q].n \in Nat /\ rows'[q].n \in Nat /\ rows'[q].n >= rows[q].n
    BY WritersGrow DEF ReadsInv
  <2>3. ASSUME ~overtaken'
        PROVE  r.tag[1] <= Reads!Newest(Summaries)' /\ r.tag[3] <= Reads!Newest(Events)'
    <3>1. CASE Reads!Edit \/ Reads!Begin \/ UNCHANGED Reads!vars
      BY <1>4, <2>3, <3>1 DEF AskedOK, Reads!Edit, Reads!Begin, Reads!vars, Reads!Newest
    <3>2. CASE Reads!Commit
      <4>1. /\ Reads!Newest(Summaries)' \in Nat /\ Reads!Newest(Summaries)' >= Reads!Newest(Summaries)
            /\ Reads!Newest(Events)' \in Nat /\ Reads!Newest(Events)' >= Reads!Newest(Events)
            /\ Reads!Newest(Summaries) \in Nat /\ Reads!Newest(Events) \in Nat
        BY <2>3, <3>2, StampsGrow, BothNewest DEF ReadsInv
      <4>2. ~overtaken /\ r.tag[1] \in Nat /\ r.tag[3] \in Nat
        BY <1>4, <2>3, <3>2 DEF AskedOK, Tags, Reads!Commit
      <4>3. QED
        BY <1>4, <4>1, <4>2 DEF AskedOK
    <3>3. QED
      BY <3>1, <3>2
  <2>4. r.tag[2] \in Nat /\ edits \in Nat /\ \A q \in Reads!Rows : r.start.n[q] \in Nat
    BY <1>4 DEF AskedOK, Tags, Moments, ReadsInv, WritersOK
  <2>5. r.tag[2] <= edits' /\ \A q \in Reads!Rows : r.start.n[q] <= rows'[q].n
    BY <1>4, <2>1, <2>2, <2>4 DEF AskedOK
  <2>6. QED
    BY <1>4, <2>3, <2>5 DEF AskedOK
<1>5. ~overtaken' => ~overtaken
  BY DEF Reads!Edit, Reads!Begin, Reads!Commit, Reads!vars
<1>6. ASSUME NEW x, RequestOK(x) PROVE RequestOK(x)'
  <2>1. Active(x) => AskedOK(x)'
    BY <1>4, <1>6 DEF RequestOK
  <2>2. x.at = "keep" \/ (x.at = "body" /\ x.page = List) => GoodKey(x.tag, x.aps)'
    BY <1>2, <1>6 DEF RequestOK, AskedOK, Active, Transfers
  <2>3. x.at = "render" => Good(x.tag, x.seen)'
    BY <1>2, <1>6 DEF RequestOK, AskedOK, Active, Transfers
  <2>4. x.at = "done" => AnswerOK(x)'
    BY <1>5, <1>6 DEF RequestOK, AnswerOK
  <2>5. QED
    BY <1>6, <2>1, <2>2, <2>3, <2>4 DEF RequestOK, Active
<1>7. RequestsOK'
  BY <1>1, <1>6 DEF ReadsInv, RequestsOK
<1>8. QED
  BY <1>1, <1>2, <1>3, <1>7, CachesTransfer DEF ReadsInv

LEMMA ReadsStep ==
  ASSUME ReadsInv, [Reads!Next]_(Reads!vars)
  PROVE  ReadsInv'
<1>1. CASE UNCHANGED Reads!vars
  BY <1>1, WriteKeeps
<1>2. CASE Reads!Edit \/ Reads!Begin \/ Reads!Commit
  BY <1>2, WriteKeeps
<1>3. ASSUME NEW s \in Slots, Reads!Request(s) PROVE ReadsInv'
  BY <1>3, AccountStep, NotModifiedStep, LookupStep, ApsStep, KeepStep, BodyStep, RenderStep DEF Reads!Request
<1>4. QED
  BY <1>1, <1>2, <1>3 DEF Reads!Next

LEMMA ReadsInit ==
  ASSUME Reads!Init
  PROVE  ReadsInv
<1>1. WritersOK
  <2>1. rows = [r \in Reads!Rows |-> [stamp |-> 0, n |-> 0]] /\ begun = {} /\ clock = 0 /\ edits = 0 /\ overtaken = FALSE
    BY DEF Reads!Init
  <2>2. \A r \in Reads!Rows : rows[r].stamp = 0
    BY <2>1
  <2>3. rows \in [Reads!Rows -> [stamp : Nat, n : Nat]]
    BY <2>1
  <2>4. edits \in Nat /\ clock \in Nat /\ \A r \in Reads!Rows : rows[r].stamp <= clock
    BY <2>1, <2>2
  <2>5. \A c : c \notin begun
    BY <2>1
  <2>6. overtaken \in BOOLEAN
    BY <2>1
  <2>7. QED
    BY <2>3, <2>4, <2>5, <2>6 DEF WritersOK
<1>2. LruOK /\ KeptOK /\ CopyOK
  BY DEF Reads!Init, LruOK, KeptOK, CopyOK
<1>3. \A s \in Slots : RequestOK(request[s])
  BY DEF Reads!Init, Reads!Idle, Reads!At, RequestOK, Active
<1>4. RequestsOK
  BY <1>3 DEF RequestsOK, Reads!Init
<1>5. QED
  BY <1>1, <1>2, <1>4 DEF ReadsInv

-----------------------------------------------------------------------------
(* The theorems about the reads.                                            *)

\* A step of the whole is a step of the part at work, or none.
LEMMA PartSteps ==
  ASSUME [ServerNext]_<<part, ingestVars, readVars, importVars, periodVars, evaluationVars, feedVars, floodVars, twinVars>>
  PROVE  /\ part' = part
         /\ part = "ingest" => [Ingest!Next]_(Ingest!vars)
         /\ part = "reads" => [Reads!Next]_(Reads!vars)
         /\ part = "import" => [Import!Next]_(Import!vars)
BY DEF ServerNext, ingestVars, readVars, importVars, periodVars, Buckets!vars, Ingest!vars, Ingest!memory, Reads!vars, Import!vars

LEMMA ReadsAlways ==
  ServerSpec => [](part = "reads" => ReadsInv)
<1> DEFINE IInv == part = "reads" => ReadsInv
<1>1. ServerInit => IInv
  BY ReadsInit DEF ServerInit
<1>2. IInv /\ [ServerNext]_<<part, ingestVars, readVars, importVars, periodVars, evaluationVars, feedVars, floodVars, twinVars>> => IInv'
  BY PartSteps, ReadsStep
<1>3. QED
  BY <1>1, <1>2, PTL DEF ServerSpec

\* The answers of a request are new enough.
LEMMA ReadsMean ==
  ASSUME ReadsInv
  PROVE  Reads!EditsAreSeen /\ Reads!FreshWhenOrdered
<1>1. \A s \in Slots : request[s].at = "done" => AnswerOK(request[s])
  BY TheseAre DEF ReadsInv, RequestOK
<1>2. QED
  BY <1>1 DEF AnswerOK, Reads!EditsAreSeen, Reads!FreshWhenOrdered, Reads!AtLeast

(* A page opened after an operator's write shows the write, whichever of the *)
(* three caches answers and whatever runs beside it.                        *)
THEOREM EditsReachThePages ==
  ServerSpec => []EditsAreSeen
<1>1. (part = "reads" => ReadsInv) => EditsAreSeen
  BY ReadsMean DEF EditsAreSeen
<1>2. QED
  BY <1>1, ReadsAlways, PTL

(* And every change of a refresh or a detector that was committed before, as  *)
(* long as such changes commit in the order they began in.                  *)
THEOREM ChangesReachThePages ==
  ServerSpec => []FreshWhenOrdered
<1>1. (part = "reads" => ReadsInv) => FreshWhenOrdered
  BY ReadsMean DEF FreshWhenOrdered
<1>2. QED
  BY <1>1, ReadsAlways, PTL

-----------------------------------------------------------------------------
(* SnapshotImport: the mark covers what is inserted.                        *)

LEMMA NoMarkIsLast ==
  Import!NoMark \in Nat /\ \A t \in ImportTimes : t \in Nat /\ t < Import!NoMark
<1>1. \E m \in ImportTimes : \A t \in ImportTimes : m >= t
  BY TimesAssumption
<1>2. Import!Max(ImportTimes) \in ImportTimes /\ \A t \in ImportTimes : Import!Max(ImportTimes) >= t
  BY <1>1 DEF Import!Max
<1>3. PICK m : m = Import!Max(ImportTimes)
  OBVIOUS
<1>4. m \in Nat /\ Import!NoMark = m + 1 /\ \A t \in ImportTimes : t \in Nat /\ m >= t
  BY <1>2, <1>3, TimesAssumption DEF Import!NoMark
<1>5. QED
  BY <1>4

LEMMA LeastOf ==
  ASSUME NEW S \in SUBSET ImportTimes
  PROVE  Import!Least(S) \in Nat /\ \A t \in S : Import!Least(S) <= t
<1>1. S \cup {Import!NoMark} \in SUBSET Nat
  BY NoMarkIsLast
<1>2. QED
  BY <1>1, MinIs DEF Import!Least

LEMMA EarlierOf ==
  ASSUME NEW a \in Nat, NEW b \in Nat
  PROVE  Import!Min({a, b}) \in Nat /\ Import!Min({a, b}) <= a /\ Import!Min({a, b}) <= b
BY MinIs

\* The records have their fields, the polls are times.
ImportShape ==
  /\ imported = [polls |-> imported.polls, rows |-> imported.rows, clients |-> imported.clients, uploads |-> imported.uploads]
  /\ load = [at |-> load.at, copy |-> load.copy, clients |-> load.clients,
             staged |-> load.staged, from |-> load.from]
  /\ job = [at |-> job.at, from |-> job.from]
  /\ imported.polls \subseteq ImportTimes /\ load.copy.polls \subseteq ImportTimes
  /\ mark \in Nat /\ load.from \in Nat /\ job.from \in Nat

\* While the merge is open, its mark is at or before every poll it inserts.
MarksItsOwn ==
  load.at = "commit" => \A t \in load.copy.polls \ imported.polls : load.from <= t

NoJob == job.at = "none" => job.from = Import!NoMark

ImportInv == ImportShape /\ MarksItsOwn /\ NoJob /\ Import!CommittedIsCovered

LEMMA ImportInit == Import!Init => ImportInv
BY NoMarkIsLast DEF Import!Init, ImportInv, ImportShape, MarksItsOwn, NoJob, Import!CommittedIsCovered, Import!NoLoad, Import!NoCopy

\* A refresh from any time shows at least what was shown and what lies after it.
LEMMA RefreshKeeps ==
  ASSUME ImportShape, NEW from \in Nat, NEW t \in imported.polls
  PROVE  t \in rollups \/ t >= from => t \in Import!Refreshed(from)
<1>1. t \in Nat
  BY TimesAssumption DEF ImportShape
<1>2. QED
  BY <1>1 DEF Import!Refreshed

LEMMA BeginStep ==
  ASSUME ImportInv, NEW taken \in Import!Copies, NEW w \in BOOLEAN, Import!Begin(taken, w)
  PROVE  ImportInv'
<1>1. taken.polls \subseteq ImportTimes
  BY DEF Import!Copies
<1>2. PICK at : at = IF taken.version \in Accepted THEN "copy" ELSE "refused"
  OBVIOUS
<1>3. load' = [at |-> at, copy |-> taken, clients |-> w, staged |-> {}, from |-> Import!NoMark]
  BY <1>2 DEF Import!Begin, Import!NoLoad
<1>4. UNCHANGED <<imported, mark, rollups, job>> /\ at # "commit"
  BY <1>2 DEF Import!Begin
<1>5. QED
  BY <1>1, <1>3, <1>4, NoMarkIsLast DEF ImportInv, ImportShape, MarksItsOwn, NoJob, Import!CommittedIsCovered

LEMMA MergeStep ==
  ASSUME ImportInv, Import!Merge
  PROVE  ImportInv'
<1>1. PICK from : from = Import!Least(load.copy.polls \ imported.polls)
  OBVIOUS
<1>2. from \in Nat /\ \A t \in load.copy.polls \ imported.polls : from <= t
  BY <1>1, LeastOf DEF ImportInv, ImportShape
<1>3. load' = [load EXCEPT !.at = "commit", !.from = from] /\ UNCHANGED <<imported, mark, rollups, job>>
  BY <1>1 DEF Import!Merge
<1>4. /\ load'.at = "commit" /\ load'.copy = load.copy /\ load'.from = from
      /\ load' = [at |-> load'.at, copy |-> load'.copy, clients |-> load'.clients,
                  staged |-> load'.staged, from |-> load'.from]
  BY <1>3 DEF ImportInv, ImportShape
<1>5. QED
  BY <1>2, <1>3, <1>4 DEF ImportInv, ImportShape, MarksItsOwn, NoJob, Import!CommittedIsCovered

LEMMA CommitStep ==
  ASSUME ImportInv, Import!Commit
  PROVE  ImportInv'
<1> DEFINE known(r) == load.copy.polls \subseteq imported.polls /\ r \subseteq imported.rows
<1>1. PICK added :
        /\ imported' = [polls |-> imported.polls \cup load.copy.polls, rows |-> imported.rows \cup added,
                  clients |-> imported.clients \/ load.clients, uploads |-> imported.uploads + 1]
        /\ mark' = IF ~known(added) THEN Import!Min({mark, load.from}) ELSE mark
  BY DEF Import!Commit, Import!MarkOfImport, Import!MarkAfter
<1>2. load' = [load EXCEPT !.at = "refresh"] /\ load.at = "commit" /\ UNCHANGED <<rollups, job>>
  BY DEF Import!Commit
<1>3. mark' \in Nat /\ mark' <= mark /\ (~known(added) => mark' <= load.from)
  BY <1>1, EarlierOf DEF ImportInv, ImportShape
<1>4. ImportShape' /\ load'.at = "refresh"
  BY <1>1, <1>2, <1>3 DEF ImportInv, ImportShape
<1>5. ASSUME NEW t \in imported'.polls PROVE t \in rollups \/ t >= mark' \/ t >= job.from
  <2>1. t \in Nat /\ mark \in Nat /\ load.from \in Nat
    BY <1>1, TimesAssumption DEF ImportInv, ImportShape
  <2>2. CASE t \in imported.polls
    BY <1>3, <2>1, <2>2 DEF ImportInv, Import!CommittedIsCovered
  <2>3. CASE t \in load.copy.polls \ imported.polls
    <3>1. load.from <= t /\ ~known(added)
      BY <1>1, <1>2, <2>3 DEF ImportInv, MarksItsOwn
    <3>2. QED
      BY <1>3, <2>1, <3>1
  <2>4. QED
    BY <1>1, <2>2, <2>3
<1>6. QED
  BY <1>2, <1>4, <1>5 DEF ImportInv, MarksItsOwn, NoJob, Import!CommittedIsCovered

LEMMA LoadStep ==
  ASSUME ImportInv, Import!CopyTables \/ Import!RefreshAfterImport \/ Import!Fail
  PROVE  ImportInv'
<1>1. UNCHANGED <<imported, mark, job>>
  BY DEF Import!CopyTables, Import!RefreshAfterImport, Import!Fail
<1>2. /\ load'.at \in {"failed", "merge", "done"}
      /\ load'.copy = load.copy /\ load'.from = load.from
      /\ load' = [at |-> load'.at, copy |-> load'.copy, clients |-> load'.clients,
                  staged |-> load'.staged, from |-> load'.from]
  BY DEF Import!CopyTables, Import!RefreshAfterImport, Import!Fail, ImportInv, ImportShape
<1>3. ImportShape' /\ MarksItsOwn' /\ NoJob'
  BY <1>1, <1>2 DEF ImportInv, ImportShape, MarksItsOwn, NoJob
<1>4. \A t \in imported.polls : t \in rollups => t \in rollups'
  BY RefreshKeeps DEF Import!CopyTables, Import!RefreshAfterImport, Import!Fail, ImportInv, ImportShape
<1>5. QED
  BY <1>1, <1>3, <1>4 DEF ImportInv, Import!CommittedIsCovered

LEMMA IngestStep ==
  ASSUME ImportInv, NEW t \in ImportTimes, Import!Ingest(t)
  PROVE  ImportInv'
<1>1. /\ imported' = [imported EXCEPT !.polls = @ \cup {t}] /\ mark' = Import!MarkAfter(t, TRUE)
      /\ UNCHANGED <<rollups, load, job>> /\ load.at # "commit"
  BY DEF Import!Ingest, Import!MergeLocked
<1>2. t \in Nat /\ mark' \in Nat /\ mark' <= mark /\ mark' <= t
  BY <1>1, EarlierOf, TimesAssumption DEF ImportInv, ImportShape, Import!MarkAfter
<1>3. ImportShape' /\ imported'.polls = imported.polls \cup {t}
  BY <1>1, <1>2 DEF ImportInv, ImportShape
<1>4. \A u \in imported.polls : u \in Nat /\ mark \in Nat
  BY TimesAssumption DEF ImportInv, ImportShape
<1>5. \A u \in imported.polls : u \in rollups \/ u >= mark' \/ u >= job.from
  BY <1>2, <1>4 DEF ImportInv, Import!CommittedIsCovered
<1>6. t >= mark'
  BY <1>2
<1>7. Import!CommittedIsCovered'
  BY <1>1, <1>3, <1>5, <1>6 DEF Import!CommittedIsCovered
<1>8. QED
  BY <1>1, <1>3, <1>7 DEF ImportInv, MarksItsOwn, NoJob

LEMMA RefresherStep ==
  ASSUME ImportInv, Import!Take \/ Import!Refresh
  PROVE  ImportInv'
<1>1. UNCHANGED <<imported, load>>
  BY DEF Import!Take, Import!Refresh
<1>2. \A t \in imported.polls : t \in Nat /\ t < Import!NoMark /\ ~(t >= Import!NoMark)
  BY NoMarkIsLast DEF ImportInv, ImportShape
<1>3. CASE Import!Take
  <2>1. job' = [at |-> "taken", from |-> mark] /\ mark' = Import!NoMark /\ rollups' = rollups
        /\ job.from = Import!NoMark
    BY <1>3 DEF Import!Take, ImportInv, NoJob
  <2>2. QED
    BY <1>1, <1>2, <2>1, NoMarkIsLast DEF ImportInv, ImportShape, MarksItsOwn, NoJob, Import!CommittedIsCovered
<1>4. CASE Import!Refresh
  <2>1. /\ job' = [at |-> "none", from |-> Import!NoMark] /\ mark' = mark
        /\ rollups' = Import!Refreshed(job.from)
    BY <1>4 DEF Import!Refresh
  <2>2. \A t \in imported.polls : t \in rollups' \/ t >= mark
    BY <2>1, RefreshKeeps DEF ImportInv, ImportShape, Import!CommittedIsCovered
  <2>3. QED
    BY <1>1, <2>1, <2>2, NoMarkIsLast DEF ImportInv, ImportShape, MarksItsOwn, NoJob, Import!CommittedIsCovered
<1>5. QED
  BY <1>3, <1>4

LEMMA ImportStep ==
  ASSUME ImportInv, [Import!Next]_(Import!vars)
  PROVE  ImportInv'
<1>1. CASE UNCHANGED Import!vars
  BY <1>1 DEF Import!vars, ImportInv, ImportShape, MarksItsOwn, NoJob, Import!CommittedIsCovered
<1>2. QED
  BY <1>1, BeginStep, MergeStep, CommitStep, LoadStep, IngestStep, RefresherStep DEF Import!Next

(* For any copies, times, batches and interleavings: every poll in the       *)
(* database is in the rollups or at or after a mark that is stored or being  *)
(* refreshed from, also when the importer dies between its two transactions. *)
THEOREM ImportIsCovered ==
  ServerSpec => []CommittedIsCovered
<1> DEFINE IInv == part = "import" => ImportInv
<1>1. ServerInit => IInv
  BY ImportInit DEF ServerInit
<1>2. IInv /\ [ServerNext]_<<part, ingestVars, readVars, importVars, periodVars, evaluationVars, feedVars, floodVars, twinVars>> => IInv'
  BY PartSteps, ImportStep
<1>3. IInv => CommittedIsCovered
  BY DEF ImportInv, CommittedIsCovered
<1>4. QED
  BY <1>1, <1>2, <1>3, PTL DEF ServerSpec

-----------------------------------------------------------------------------
(* IngestService: the adapter record and the boundaries.                    *)

\* The histories are sequences, the records have their sensors.
HistoriesOK ==
  /\ log = [s \in Sensors |-> log[s]] /\ adapter = [s \in Sensors |-> adapter[s]]
  /\ bounds \in [Sensors -> Nat]
  /\ \A s \in Sensors : log[s] \in Seq(Range(log[s]))

\* Every report on this history is before the newest boundary, or the record
\* agrees with all it says.
RecordOK(L, record, b) ==
  \A i \in DOMAIN L :
    L[i].what \in {"batch", "heartbeat"} =>
      /\ L[i].bounds \in Nat /\ L[i].bounds <= b
      /\ \A k \in Ingest!Fields :
           L[i].adapter[k] # None => L[i].bounds < b \/ record[k] = L[i].adapter[k]

\* Reports that contradict each other have a boundary between them.
PairsOK(L) ==
  \A i, j \in DOMAIN L :
    /\ L[i].what \in {"batch", "heartbeat"} /\ L[j].what \in {"batch", "heartbeat"} /\ i < j
    /\ \E k \in Ingest!Fields : Ingest!Contradict(L[i].adapter[k], L[j].adapter[k])
    => L[j].bounds > L[i].bounds

AdaptersInv ==
  /\ HistoriesOK
  /\ \A s \in Sensors : RecordOK(log[s], adapter[s], bounds[s]) /\ PairsOK(log[s])

LEMMA OwnRange ==
  ASSUME NEW S, NEW L \in Seq(S)
  PROVE  L \in Seq(Range(L))
<1>1. L \in [1 .. Len(L) -> S] /\ Len(L) \in Nat
  BY LenProperties
<1>2. L \in [1 .. Len(L) -> Range(L)]
  BY <1>1 DEF Range
<1>3. QED
  BY <1>1, <1>2 DEF Seq

LEMMA AppendedAt ==
  ASSUME NEW L, L \in Seq(Range(L)), NEW e
  PROVE  /\ Append(L, e) \in Seq(Range(Append(L, e)))
         /\ Len(L) \in Nat /\ DOMAIN L = 1 .. Len(L) /\ DOMAIN Append(L, e) = 1 .. Len(L) + 1
         /\ Append(L, e)[Len(L) + 1] = e /\ \A i \in DOMAIN L : Append(L, e)[i] = L[i]
<1> DEFINE T == Range(L) \cup {e}
<1>1. L \in Seq(T)
  <2>1. \A i \in 1 .. Len(L) : L[i] \in T
    BY ElementOfSeq
  <2>2. QED
    BY <2>1, IsASeq, LenProperties
<1> HIDE DEF T
<1>2. /\ Append(L, e) \in Seq(T) /\ Len(Append(L, e)) = Len(L) + 1
      /\ \A i \in 1 .. Len(L) : Append(L, e)[i] = L[i]
      /\ Append(L, e)[Len(L) + 1] = e
  BY <1>1, AppendProperties DEF T
<1>3. Append(L, e) \in Seq(Range(Append(L, e)))
  BY <1>2, OwnRange
<1>4. QED
  BY <1>1, <1>2, <1>3, LenProperties

\* A report that is committed leaves the record and the pairs as they should be.
LEMMA ReportKeeps ==
  ASSUME NEW L, L \in Seq(Range(L)), NEW record, NEW b \in Nat, RecordOK(L, record, b), PairsOK(L),
         NEW e, NEW next, NEW nb,
         next = Ingest!AdapterNext(record, e.adapter),
         nb = IF Ingest!AdapterAction(record, e.adapter) = "change" THEN b + 1 ELSE b,
         e.bounds = nb
  PROVE  RecordOK(Append(L, e), next, nb) /\ PairsOK(Append(L, e))
<1> DEFINE n == e.adapter
<1>1. nb \in Nat /\ b <= nb
  OBVIOUS
<1>2. \/ nb = b + 1 /\ next = n
      \/ /\ nb = b
         /\ \A k \in Ingest!Fields : ~Ingest!Contradict(record[k], n[k])
         /\ \A k \in Ingest!Fields : record[k] # None => next[k] = record[k]
         /\ \A k \in Ingest!Fields : n[k] # None => next[k] = n[k]
  BY DEF Ingest!AdapterNext, Ingest!AdapterAction, Ingest!Contradict
<1>3. \A k \in Ingest!Fields : n[k] # None => next[k] = n[k]
  BY <1>2
<1>4. ASSUME NEW i \in DOMAIN L, L[i].what \in {"batch", "heartbeat"}
      PROVE  /\ L[i].bounds \in Nat /\ L[i].bounds <= nb
             /\ \A k \in Ingest!Fields :
                  L[i].adapter[k] # None => L[i].bounds < nb \/ next[k] = L[i].adapter[k]
             /\ \A k \in Ingest!Fields :
                  Ingest!Contradict(L[i].adapter[k], n[k]) => L[i].bounds < nb
  BY <1>1, <1>2, <1>4 DEF RecordOK, Ingest!Contradict
<1>5. RecordOK(Append(L, e), next, nb)
  BY <1>1, <1>3, <1>4, AppendedAt DEF RecordOK
<1>6. ASSUME NEW i \in DOMAIN Append(L, e), NEW j \in DOMAIN Append(L, e),
             Append(L, e)[i].what \in {"batch", "heartbeat"}, Append(L, e)[j].what \in {"batch", "heartbeat"}, i < j,
             NEW k \in Ingest!Fields, Ingest!Contradict(Append(L, e)[i].adapter[k], Append(L, e)[j].adapter[k])
      PROVE  Append(L, e)[j].bounds > Append(L, e)[i].bounds
  <2>1. i \in DOMAIN L /\ (j \in DOMAIN L \/ j = Len(L) + 1)
    BY <1>6, AppendedAt
  <2>2. CASE j \in DOMAIN L
    BY <1>6, <2>1, <2>2, AppendedAt DEF PairsOK
  <2>3. CASE j = Len(L) + 1
    BY <1>1, <1>4, <1>6, <2>1, <2>3, AppendedAt
  <2>4. QED
    BY <2>1, <2>2, <2>3
<1>7. QED
  BY <1>5, <1>6 DEF PairsOK

\* A refusal is no report.
LEMMA RefusalKeeps ==
  ASSUME NEW L, L \in Seq(Range(L)), NEW record, NEW b, RecordOK(L, record, b), PairsOK(L),
         NEW e, e.what \notin {"batch", "heartbeat"}
  PROVE  RecordOK(Append(L, e), record, b) /\ PairsOK(Append(L, e))
<1>1. \A i \in DOMAIN Append(L, e) :
         Append(L, e)[i].what \in {"batch", "heartbeat"} => i \in DOMAIN L /\ Append(L, e)[i] = L[i]
  BY AppendedAt
<1>2. QED
  BY <1>1 DEF RecordOK, PairsOK

\* What the history of each sensor takes in a step.
LEMMA StalledStep ==
  ASSUME AdaptersInv, NEW r, NEW next, NEW persists, NEW e, e.what \notin {"batch", "heartbeat"},
         Ingest!Stalled(r, next, persists, e)
  PROVE  AdaptersInv'
<1>1. UNCHANGED <<adapter, bounds>>
  BY DEF Ingest!Stalled
<1>2. CASE UNCHANGED log
  BY <1>1, <1>2 DEF AdaptersInv, HistoriesOK
<1>3. CASE Ingest!Note(slot[r].sensor, e)
  <2>1. PICK t : t = slot[r].sensor
    OBVIOUS
  <2>2. log' = [log EXCEPT ![t] = Append(log[t], e)]
    BY <1>3, <2>1 DEF Ingest!Note
  <2>3. log' = [s \in Sensors |-> IF s = t THEN Append(log[t], e) ELSE log[s]]
    BY <2>2 DEF AdaptersInv, HistoriesOK
  <2>4. ASSUME NEW s \in Sensors
        PROVE  log'[s] \in Seq(Range(log'[s])) /\ RecordOK(log'[s], adapter[s], bounds[s]) /\ PairsOK(log'[s])
    <3>1. CASE s = t
      BY <2>2, <2>3, <3>1, AppendedAt, RefusalKeeps DEF AdaptersInv, HistoriesOK
    <3>2. CASE s # t
      BY <2>3, <3>2 DEF AdaptersInv, HistoriesOK
    <3>3. QED
      BY <3>1, <3>2
  <2>5. log' = [s \in Sensors |-> log'[s]]
    BY <2>3
  <2>6. QED
    BY <1>1, <2>4, <2>5 DEF AdaptersInv, HistoriesOK
<1>4. QED
  BY <1>2, <1>3 DEF Ingest!Stalled

LEMMA ContactStep ==
  ASSUME AdaptersInv, NEW r, Ingest!Contact(r)
  PROVE  AdaptersInv'
<1>1. PICK t, e, next, nb :
        /\ t = slot[r].sensor
        /\ e = [what |-> slot[r].route, seq |-> slot[r].seq, at |-> slot[r].at,
                risk |-> slot[r].risk, adapter |-> slot[r].adapter, bounds |-> bounds'[t]]
        /\ next = Ingest!AdapterNext(adapter[t], slot[r].adapter)
        /\ nb = IF Ingest!AdapterAction(adapter[t], slot[r].adapter) = "change" THEN bounds[t] + 1 ELSE bounds[t]
  OBVIOUS
<1>2. /\ log' = [log EXCEPT ![t] = Append(log[t], e)]
      /\ adapter' = [adapter EXCEPT ![t] = next] /\ bounds' = [bounds EXCEPT ![t] = nb]
      /\ e.adapter = slot[r].adapter /\ e.bounds = bounds'[t]
  BY <1>1 DEF Ingest!Contact, Ingest!Beat, Ingest!Note
<1>3. /\ log' = [s \in Sensors |-> IF s = t THEN Append(log[t], e) ELSE log[s]]
      /\ adapter' = [s \in Sensors |-> IF s = t THEN next ELSE adapter[s]]
      /\ bounds' = [s \in Sensors |-> IF s = t THEN nb ELSE bounds[s]]
  BY <1>2 DEF AdaptersInv, HistoriesOK
<1>4. ASSUME NEW s \in Sensors
      PROVE  /\ log'[s] \in Seq(Range(log'[s])) /\ bounds'[s] \in Nat
             /\ RecordOK(log'[s], adapter'[s], bounds'[s]) /\ PairsOK(log'[s])
  <2>1. CASE s = t
    <3>1. /\ log[t] \in Seq(Range(log[t])) /\ bounds[t] \in Nat
          /\ RecordOK(log[t], adapter[t], bounds[t]) /\ PairsOK(log[t])
      BY <2>1 DEF AdaptersInv, HistoriesOK
    <3>2. log'[s] = Append(log[t], e) /\ adapter'[s] = next /\ bounds'[s] = nb /\ e.bounds = nb /\ nb \in Nat
      BY <1>1, <1>2, <1>3, <2>1, <3>1
    <3>3. RecordOK(Append(log[t], e), next, nb) /\ PairsOK(Append(log[t], e))
      BY <1>1, <1>2, <3>1, <3>2, ReportKeeps
    <3>4. QED
      BY <3>1, <3>2, <3>3, AppendedAt
  <2>2. CASE s # t
    BY <1>3, <2>2 DEF AdaptersInv, HistoriesOK
  <2>3. QED
    BY <2>1, <2>2
<1>5. /\ log' = [s \in Sensors |-> log'[s]] /\ adapter' = [s \in Sensors |-> adapter'[s]]
      /\ bounds' \in [Sensors -> Nat]
  BY <1>3, <1>4
<1>6. QED
  BY <1>4, <1>5 DEF AdaptersInv, HistoriesOK

LEMMA AdaptersStep ==
  ASSUME AdaptersInv, [Ingest!Next]_(Ingest!vars)
  PROVE  AdaptersInv'
<1>1. CASE UNCHANGED <<log, adapter, bounds>>
  BY <1>1 DEF AdaptersInv, HistoriesOK
<1>2. ASSUME NEW r \in Slots, Ingest!Commit(r) PROVE AdaptersInv'
  <2>1. CASE Ingest!Contact(r)
    BY <2>1, ContactStep
  <2>2. CASE Ingest!Rejected(r) \/ Ingest!AuthFailed(r)
    <3>1. \E next, persists, e : e.what \notin {"batch", "heartbeat"} /\ Ingest!Stalled(r, next, persists, e)
      BY <2>2 DEF Ingest!Rejected, Ingest!AuthFailed
    <3>2. QED
      BY <3>1, StalledStep
  <2>3. QED
    BY <1>2, <2>1, <2>2 DEF Ingest!Commit
<1>3. ASSUME NEW r \in Slots,
             \/ \E s \in Sensors, p \in Payloads : Ingest!Arrive(r, s, p)
             \/ Ingest!Authenticate(r) \/ Ingest!PoolTimeout(r) \/ Ingest!Limit(r) \/ Ingest!Acquire(r)
             \/ Ingest!Read(r) \/ Ingest!RollBack(r)
      PROVE  UNCHANGED <<log, adapter, bounds>>
  BY <1>3 DEF Ingest!Arrive, Ingest!Authenticate, Ingest!PoolTimeout, Ingest!Limit, Ingest!Acquire,
    Ingest!Read, Ingest!RollBack
<1>4. Ingest!Tick \/ UNCHANGED Ingest!vars => UNCHANGED <<log, adapter, bounds>>
  BY DEF Ingest!Tick, Ingest!vars
<1>5. QED
  BY <1>1, <1>2, <1>3, <1>4 DEF Ingest!Next

(* For any sensors, payloads, threads and interleavings of the requests: two *)
(* reports that contradict each other on the adapter have a boundary between *)
(* them, however partial the reports that came in between were.             *)
THEOREM BoundariesBetweenAdapters ==
  ServerSpec => []BoundaryBetweenAdapters
<1> DEFINE IInv == part = "ingest" => AdaptersInv
<1>1. ServerInit => IInv
  BY EmptySeq, RangeOfSeq DEF ServerInit, Ingest!Init, AdaptersInv, HistoriesOK, RecordOK, PairsOK
<1>2. IInv /\ [ServerNext]_<<part, ingestVars, readVars, importVars, periodVars, evaluationVars, feedVars, floodVars, twinVars>> => IInv'
  BY PartSteps, AdaptersStep
<1>3. IInv => BoundaryBetweenAdapters
  BY DEF AdaptersInv, PairsOK, BoundaryBetweenAdapters, Ingest!BoundaryBetweenAdapters, Ingest!Contacts,
     Ingest!Told
<1>4. QED
  BY <1>1, <1>2, <1>3, PTL DEF ServerSpec

-----------------------------------------------------------------------------
(* IngestService: the stall events.  What the stall fields and the open      *)
(* events tell is stated over the places of a history, so that one more      *)
(* entry at its end is all there is to reason about.                         *)

LEMMA SameCardinality ==
  \A S : Ingest!Cardinality(S) = Cardinality(S)
BY DEF Ingest!Cardinality, Cardinality

\* The stall fields tell the last run at the places P of a history L: its batch,
\* the time of its first entry, its length.
RunTold(L, P, seq, since, n) ==
  /\ P = {} => since = None
  /\ P # {} => /\ since # None
               /\ \E i \in P : /\ Ingest!Begins(L, P, i) /\ since = L[i].at
                               /\ \A k \in P : i <= k => L[k].seq = seq
                               /\ n = Ingest!Cardinality({k \in P : i <= k})

\* An entry ends the stalls of some kinds, or is one more of its own.
SinceAfter(L, e, kind, ends) ==
  /\ Ingest!Since(L, kind, ends) \subseteq 1 .. Len(L)
  /\ Ingest!Since(Append(L, e), kind, ends) =
       IF e.what \in ends THEN {}
       ELSE IF e.what = kind THEN Ingest!Since(L, kind, ends) \cup {Len(L) + 1}
       ELSE Ingest!Since(L, kind, ends)

LEMMA SinceExtended ==
  ASSUME NEW L, L \in Seq(Range(L)), NEW e, NEW kind, NEW ends, kind \notin ends
  PROVE  SinceAfter(L, e, kind, ends)
<1> DEFINE M == Append(L, e)
           n == Len(L) + 1
<1>1. /\ Len(L) \in Nat /\ DOMAIN L = 1 .. Len(L) /\ DOMAIN M = 1 .. n
      /\ M[n] = e /\ \A i \in DOMAIN L : M[i] = L[i]
  BY AppendedAt
<1>2. \A i : i \in DOMAIN M <=> i \in DOMAIN L \/ i = n
  BY <1>1
<1> HIDE DEF M
<1>3. \A ks : Ingest!Told(M, ks) = IF e.what \in ks THEN Ingest!Told(L, ks) \cup {n} ELSE Ingest!Told(L, ks)
  BY <1>1, <1>2 DEF Ingest!Told
<1>4. \A ks : \A i \in Ingest!Told(L, ks) : i \in 1 .. Len(L) /\ i < n /\ ~(n < i)
  BY <1>1 DEF Ingest!Told
<1>5. CASE e.what \in ends
  <2>1. n \in Ingest!Told(M, ends)
    BY <1>3, <1>5
  <2>2. e.what \notin {kind}
    BY <1>5
  <2>3. \A i \in Ingest!Told(M, {kind}) : ~(n < i)
    BY <1>3, <1>4, <2>2
  <2>4. Ingest!Since(M, kind, ends) = {}
    BY <1>3, <1>4, <2>1, <2>2 DEF Ingest!Since
  <2>5. QED
    BY <1>4, <1>5, <2>4 DEF Ingest!Since, M, SinceAfter
<1>6. CASE e.what \notin ends
  BY <1>3, <1>4, <1>6 DEF Ingest!Since, M, SinceAfter
<1>7. QED
  BY <1>5, <1>6

\* What is said of places P only depends on what the history has there.
LEMMA PlacesKept ==
  ASSUME NEW L, NEW M, NEW P, \A i \in P : M[i] = L[i]
  PROVE  /\ \A n : Ingest!Persisted(M, P, n) <=> Ingest!Persisted(L, P, n)
         /\ \A seq, since, n : RunTold(L, P, seq, since, n) => RunTold(M, P, seq, since, n)
<1>1. \A i \in P : Ingest!Begins(M, P, i) <=> Ingest!Begins(L, P, i)
  BY DEF Ingest!Begins
<1>2. \A n : Ingest!Persisted(M, P, n) <=> Ingest!Persisted(L, P, n)
  BY <1>1 DEF Ingest!Persisted
<1>3. QED
  BY <1>1, <1>2 DEF RunTold

\* One more entry at the end, of the same batch as the last run or of another.
Grown(L, M, P, Q, e, seq, since, n, c) ==
  IF seq = e.seq /\ since # None
  THEN /\ RunTold(M, Q, seq, since, n + 1)
       /\ Ingest!Persisted(M, Q, c) <=> Ingest!Persisted(L, P, c) \/ (n + 1 >= c /\ e.at - since >= Persist)
  ELSE /\ RunTold(M, Q, e.seq, e.at, 1)
       /\ Ingest!Persisted(M, Q, c) <=> Ingest!Persisted(L, P, c) \/ (1 >= c /\ e.at - e.at >= Persist)

LEMMA RunGrows ==
  ASSUME NEW L, NEW M, NEW P \in SUBSET Nat, NEW m \in Nat, NEW Q, Q = P \cup {m},
         \A i \in P : i < m /\ M[i] = L[i],
         NEW e, M[m] = e, e.at \in Nat, None \notin Nat,
         NEW seq, NEW since, NEW n, RunTold(L, P, seq, since, n), NEW c \in Nat \ {0}
  PROVE  Grown(L, M, P, Q, e, seq, since, n, c)
<1> DEFINE Run(i, j) == {k \in Q : i <= k /\ k <= j}
<1>1. \A k : k \in Q <=> k \in P \/ k = m
  OBVIOUS
<1>2. \A i \in P : i \in Nat /\ i < m /\ ~(m <= i) /\ i # m
  OBVIOUS
\* The places before the new one.
<1>3. ASSUME NEW i \in P PROVE Ingest!Begins(M, Q, i) <=> Ingest!Begins(L, P, i)
  <2>1. \A q \in Q : q < i => q \in P
    BY <1>2
  <2>2. QED
    BY <1>2, <2>1 DEF Ingest!Begins
<1>4. ASSUME NEW i \in P, NEW j \in P PROVE Run(i, j) = {k \in P : i <= k /\ k <= j}
  BY <1>2
<1>5. ASSUME NEW i \in P, NEW j \in P
      PROVE  (\A k \in Run(i, j) : M[k].seq = M[i].seq)
               <=> (\A k \in {h \in P : i <= h /\ h <= j} : L[k].seq = L[i].seq)
  <2>1. PICK S : S = {h \in P : i <= h /\ h <= j}
    OBVIOUS
  <2>2. Run(i, j) = S
    BY <1>4, <2>1
  <2>3. M[i] = L[i] /\ \A k \in S : M[k] = L[k]
    BY <2>1
  <2> HIDE DEF Run
  <2>4. (\A k \in Run(i, j) : M[k].seq = M[i].seq) <=> (\A k \in S : L[k].seq = L[i].seq)
    BY <2>2, <2>3
  <2>5. QED
    BY <2>1, <2>4, Zenon
<1>6. \A i \in Q : i \in Nat /\ i <= m
  <2>1. m \in Nat /\ m <= m /\ \A i \in P : i \in Nat /\ i <= m
    OBVIOUS
  <2>2. QED
    BY <1>1, <2>1, Zenon
<1>7. \A i \in Q : Run(i, m) = {k \in Q : i <= k}
  BY <1>6
\* A run is new when it ends with the new place.
<1> DEFINE Long(i) == /\ Ingest!Begins(M, Q, i) /\ \A k \in Run(i, m) : M[k].seq = M[i].seq
                      /\ Ingest!Cardinality(Run(i, m)) >= c /\ M[m].at - M[i].at >= Persist
           Told(i, j) == /\ Ingest!Begins(M, Q, i) /\ \A k \in Run(i, j) : M[k].seq = M[i].seq
                         /\ Ingest!Cardinality(Run(i, j)) >= c /\ M[j].at - M[i].at >= Persist
<1>8. Ingest!Persisted(M, Q, c) <=> Ingest!Persisted(L, P, c) \/ \E i \in Q : Long(i)
  <2>1. ASSUME NEW j \in P PROVE ~Told(m, j)
    <3>1. \A k \in Q : ~(m <= k /\ k <= j)
      BY <1>1, <1>2
    <3>2. Run(m, j) = {}
      BY <3>1
    <3>3. Ingest!Cardinality(Run(m, j)) = 0 /\ ~(0 >= c)
      BY <3>2, FS_EmptySet, SameCardinality
    <3> HIDE DEF Run
    <3>4. QED
      BY <3>3
  <2>2. ASSUME NEW i \in P, NEW j \in P
        PROVE  Told(i, j) <=> LET run == {k \in P : i <= k /\ k <= j}
                              IN  /\ Ingest!Begins(L, P, i) /\ \A k \in run : L[k].seq = L[i].seq
                                  /\ Ingest!Cardinality(run) >= c /\ L[j].at - L[i].at >= Persist
    BY <1>3, <1>4, <1>5
  <2>3. Ingest!Persisted(M, Q, c) <=> \E i, j \in Q : Told(i, j)
    BY DEF Ingest!Persisted
  <2>4. Ingest!Persisted(L, P, c) <=> \E i, j \in P : Told(i, j)
    BY <2>2 DEF Ingest!Persisted
  <2>5. \A i : Told(i, m) <=> Long(i)
    OBVIOUS
  <2> HIDE DEF Told, Long
  <2>6. QED
    BY <2>1, <2>3, <2>4, <2>5
<1>9. CASE seq = e.seq /\ since # None
  <2>1. PICK i \in P : /\ Ingest!Begins(L, P, i) /\ since = L[i].at
                       /\ \A k \in P : i <= k => L[k].seq = seq
                       /\ n = Ingest!Cardinality({k \in P : i <= k})
    BY <1>9 DEF RunTold
  <2>2. Run(i, m) = {k \in P : i <= k} \cup {m} /\ Ingest!Cardinality(Run(i, m)) = n + 1 /\ n \in Nat
    <3>1. IsFiniteSet({k \in P : i <= k}) /\ m \notin P
      <4>1. {k \in P : i <= k} \in SUBSET Nat /\ \A k \in {h \in P : i <= h} : k <= m
        BY <1>1, <1>6
      <4>2. QED
        BY <1>2, <4>1, FS_BoundedSetOfNaturals
    <3>2. Run(i, m) = {k \in P : i <= k} \cup {m}
      BY <1>1, <1>6, <1>7
    <3>3. QED
      BY <2>1, <3>1, <3>2, FS_AddElement, FS_CardinalityType, SameCardinality
  <2>3. \A k \in Run(i, m) : M[k].seq = M[i].seq /\ M[k].seq = seq
    BY <1>2, <1>9, <2>1, <2>2
  <2>4. RunTold(M, Q, seq, since, n + 1)
    BY <1>3, <1>7, <1>9, <2>1, <2>2, <2>3 DEF RunTold
  <2>5. ASSUME NEW h \in Q, Long(h) PROVE h = i
    <3>1. h \in Nat /\ i \in Nat
      BY <1>2
    <3>2. CASE h < i
      <4>1. PICK q \in P : h <= q /\ q < i /\ L[q].seq # L[i].seq
        <5>1. h \in P
          BY <1>1, <3>1, <3>2, <1>2
        <5>2. QED
          BY <2>1, <3>2, <5>1 DEF Ingest!Begins
      <4>2. q \in Run(h, m) /\ i \in Run(h, m)
        BY <1>2, <3>2, <4>1
      <4>3. QED
        BY <2>5, <4>1, <4>2
    <3>3. CASE i < h
      <4>1. PICK q \in Q : i <= q /\ q < h /\ M[q].seq # M[h].seq
        BY <2>5, <3>3 DEF Ingest!Begins
      <4>2. q \in Run(i, m) /\ h \in Run(i, m)
        BY <1>2, <3>1, <3>3, <4>1
      <4>3. QED
        BY <2>3, <4>1, <4>2
    <3>4. QED
      BY <3>1, <3>2, <3>3
  <2>6. Long(i) <=> n + 1 >= c /\ e.at - since >= Persist
    BY <1>3, <2>1, <2>2, <2>3
  <2>7. (\E h \in Q : Long(h)) <=> n + 1 >= c /\ e.at - since >= Persist
    BY <2>5, <2>6
  <2>8. QED
    BY <1>8, <1>9, <2>4, <2>7 DEF Grown
<1>10. CASE ~(seq = e.seq /\ since # None)
  <2>1. \A p \in P : \E q \in P : p <= q /\ L[q].seq # e.seq
    <3>1. CASE P = {}
      BY <3>1
    <3>2. CASE P # {}
      <4>1. PICK i \in P : \A k \in P : i <= k => L[k].seq = seq
        BY <3>2 DEF RunTold
      <4>2. seq # e.seq
        BY <1>10, <3>2 DEF RunTold
      <4>3. QED
        BY <1>2, <4>1, <4>2
    <3>3. QED
      BY <3>1, <3>2
  <2>2. Ingest!Begins(M, Q, m)
    <3>1. ASSUME NEW p \in Q, p < m PROVE \E q \in Q : p <= q /\ q < m /\ M[q].seq # M[m].seq
      <4>1. p \in P
        BY <1>1, <3>1
      <4>2. PICK q \in P : p <= q /\ L[q].seq # e.seq
        BY <2>1, <4>1
      <4>3. q \in Q /\ q < m /\ M[q] = L[q]
        BY <1>1, <1>2
      <4>4. QED
        BY <4>2, <4>3
    <3>2. QED
      BY <3>1 DEF Ingest!Begins
  <2>3. Run(m, m) = {m} /\ {k \in Q : m <= k} = {m} /\ Ingest!Cardinality({m}) = 1
    <3>1. \A k \in Q : m <= k <=> k = m
      BY <1>1, <1>2
    <3>2. Run(m, m) = {m} /\ {k \in Q : m <= k} = {m}
      BY <1>1, <3>1
    <3>3. QED
      BY <3>2, FS_Singleton, SameCardinality
  <2>4. RunTold(M, Q, e.seq, e.at, 1)
    BY <2>2, <2>3 DEF RunTold
  <2>5. ASSUME NEW h \in Q, Long(h) PROVE h = m
    <3>1. SUFFICES ASSUME h \in P PROVE FALSE
      OBVIOUS
    <3>2. PICK q \in P : h <= q /\ L[q].seq # e.seq
      BY <2>1, <3>1
    <3>3. q \in Run(h, m) /\ m \in Run(h, m)
      BY <1>2, <3>1, <3>2
    <3>4. QED
      BY <2>5, <3>2, <3>3
  <2>6. Long(m) <=> 1 >= c /\ e.at - e.at >= Persist
    BY <2>2, <2>3
  <2>7. (\E h \in Q : Long(h)) <=> 1 >= c /\ e.at - e.at >= Persist
    BY <2>5, <2>6
  <2>8. QED
    BY <1>8, <1>10, <2>4, <2>7 DEF Grown
<1>11. QED
  BY <1>9, <1>10

\* The places of the refused batches, and of the refused tokens, since the stall
\* they belong to was last ended.
Rejects(L) == Ingest!Since(L, "upload_rejected", {"batch"})
Fails(L) == Ingest!Since(L, "upload_unauthorized", {"batch", "heartbeat"})

LEMMA PlacesGrow ==
  ASSUME NEW L, L \in Seq(Range(L)), NEW e
  PROVE  /\ Rejects(L) \subseteq 1 .. Len(L) /\ Fails(L) \subseteq 1 .. Len(L)
         /\ e.what = "upload_rejected" =>
              Rejects(Append(L, e)) = Rejects(L) \cup {Len(L) + 1} /\ Fails(Append(L, e)) = Fails(L)
         /\ e.what = "upload_unauthorized" =>
              Rejects(Append(L, e)) = Rejects(L) /\ Fails(Append(L, e)) = Fails(L) \cup {Len(L) + 1}
         /\ e.what = "batch" => Rejects(Append(L, e)) = {} /\ Fails(Append(L, e)) = {}
         /\ e.what = "heartbeat" => Rejects(Append(L, e)) = Rejects(L) /\ Fails(Append(L, e)) = {}
<1>1. PICK a, x, b, y : a = "upload_rejected" /\ x = {"batch"} /\ b = "upload_unauthorized" /\ y = {"batch", "heartbeat"}
  OBVIOUS
<1>2. a \notin x /\ b \notin y
  BY <1>1
<1>3. SinceAfter(L, e, a, x) /\ SinceAfter(L, e, b, y)
  BY <1>2, SinceExtended
<1>4. Rejects(L) = Ingest!Since(L, a, x) /\ Rejects(Append(L, e)) = Ingest!Since(Append(L, e), a, x)
  BY <1>1 DEF Rejects
<1>5. Fails(L) = Ingest!Since(L, b, y) /\ Fails(Append(L, e)) = Ingest!Since(Append(L, e), b, y)
  BY <1>1 DEF Fails
<1>6. QED
  BY <1>1, <1>3, <1>4, <1>5 DEF SinceAfter

\* Stall fields and open events say what the history has.
StallsTold(L, st, events) ==
  /\ RunTold(L, Rejects(L), st.rejectSeq, st.rejectSince, st.rejects)
  /\ RunTold(L, Fails(L), None, st.authSince, st.authFails)
  /\ "upload_rejected" \in events <=> Ingest!Persisted(L, Rejects(L), RejectCount)
  /\ "upload_unauthorized" \in events <=> Ingest!Persisted(L, Fails(L), AuthFailCount)
  /\ "upload_retention_risk" \in events <=> Ingest!AtRisk(L)

\* A refusal is no report of the risk, a report says it.
LEMMA RiskAfter ==
  ASSUME NEW L, L \in Seq(Range(L)), NEW e
  PROVE  Ingest!AtRisk(Append(L, e)) <=> IF e.what \in {"batch", "heartbeat"} THEN e.risk ELSE Ingest!AtRisk(L)
<1>1. PICK M, n : M = Append(L, e) /\ n = Len(L) + 1
  OBVIOUS
<1>2. /\ n \in Nat /\ M[n] = e /\ \A i \in DOMAIN L : M[i] = L[i] /\ i \in Nat /\ i < n
      /\ \A i : i \in DOMAIN M <=> i \in DOMAIN L \/ i = n
  BY <1>1, AppendedAt
<1>3. CASE e.what \notin {"batch", "heartbeat"}
  <2>1. Ingest!Contacts(M) = Ingest!Contacts(L)
    BY <1>2, <1>3 DEF Ingest!Contacts, Ingest!Told
  <2>2. \A i \in Ingest!Contacts(L) : M[i] = L[i]
    BY <1>2 DEF Ingest!Contacts, Ingest!Told
  <2>3. QED
    BY <1>1, <1>3, <2>1, <2>2 DEF Ingest!AtRisk
<1>4. CASE e.what \in {"batch", "heartbeat"}
  <2>1. \A i : i \in Ingest!Contacts(M) <=> i \in Ingest!Contacts(L) \/ i = n
    BY <1>2, <1>4 DEF Ingest!Contacts, Ingest!Told
  <2>2. \A i \in Ingest!Contacts(L) : i \in Nat /\ i < n /\ ~(n <= i)
    BY <1>2 DEF Ingest!Contacts, Ingest!Told
  <2>3. n <= n
    BY <1>2
  <2>4. QED
    BY <1>1, <1>2, <1>4, <2>1, <2>2, <2>3 DEF Ingest!AtRisk
<1>5. QED
  BY <1>3, <1>4

LEMMA RejectTold ==
  ASSUME NEW L, L \in Seq(Range(L)), NEW st, NEW events, StallsTold(L, st, events),
         NEW e, e.what = "upload_rejected", e.at \in Nat, NEW next, next = Ingest!AfterReject(st, e.seq, e.at),
         NEW after, after = IF Ingest!RejectPersists(next, e.at) THEN events \cup {"upload_rejected"} ELSE events
  PROVE  StallsTold(Append(L, e), next, after)
<1>1. PICK M, m : M = Append(L, e) /\ m = Len(L) + 1
  OBVIOUS
<1>2. /\ m \in Nat /\ M[m] = e /\ \A i \in 1 .. Len(L) : i \in Nat /\ i < m /\ M[i] = L[i]
  BY <1>1, AppendedAt
<1>3. /\ Rejects(L) \subseteq 1 .. Len(L) /\ Fails(L) \subseteq 1 .. Len(L)
      /\ Rejects(M) = Rejects(L) \cup {m} /\ Fails(M) = Fails(L)
  BY <1>1, PlacesGrow
<1>4. /\ RunTold(M, Fails(M), None, st.authSince, st.authFails)
      /\ Ingest!Persisted(M, Fails(M), AuthFailCount) <=> Ingest!Persisted(L, Fails(L), AuthFailCount)
  BY <1>2, <1>3, PlacesKept DEF StallsTold
<1>5. Ingest!AtRisk(M) <=> Ingest!AtRisk(L)
  BY <1>1, RiskAfter
<1>6. /\ RunTold(L, Rejects(L), st.rejectSeq, st.rejectSince, st.rejects)
      /\ Rejects(L) \in SUBSET Nat /\ \A i \in Rejects(L) : i < m /\ M[i] = L[i]
      /\ None \notin Nat /\ RejectCount \in Nat \ {0}
  BY <1>2, <1>3, IngestAssumption DEF StallsTold
<1>7. IF st.rejectSeq = e.seq /\ st.rejectSince # None
      THEN /\ RunTold(M, Rejects(M), st.rejectSeq, st.rejectSince, st.rejects + 1)
           /\ Ingest!Persisted(M, Rejects(M), RejectCount)
                <=> \/ Ingest!Persisted(L, Rejects(L), RejectCount)
                    \/ st.rejects + 1 >= RejectCount /\ e.at - st.rejectSince >= Persist
      ELSE /\ RunTold(M, Rejects(M), e.seq, e.at, 1)
           /\ Ingest!Persisted(M, Rejects(M), RejectCount)
                <=> \/ Ingest!Persisted(L, Rejects(L), RejectCount)
                    \/ 1 >= RejectCount /\ e.at - e.at >= Persist
  <2>1. PICK P, Q, seq, since, n, c :
          /\ P = Rejects(L) /\ Q = Rejects(M) /\ c = RejectCount
          /\ seq = st.rejectSeq /\ since = st.rejectSince /\ n = st.rejects
    OBVIOUS
  <2>2. /\ P \in SUBSET Nat /\ Q = P \cup {m} /\ \A i \in P : i < m /\ M[i] = L[i]
        /\ RunTold(L, P, seq, since, n) /\ c \in Nat \ {0}
    BY <1>3, <1>6, <2>1
  <2>3. Grown(L, M, P, Q, e, seq, since, n, c)
    BY <1>2, <1>6, <2>2, RunGrows
  <2>4. QED
    BY <2>1, <2>3 DEF Grown
<1>8. /\ next.authSince = st.authSince /\ next.authFails = st.authFails
      /\ RunTold(M, Rejects(M), next.rejectSeq, next.rejectSince, next.rejects)
      /\ Ingest!Persisted(M, Rejects(M), RejectCount)
           <=> Ingest!Persisted(L, Rejects(L), RejectCount) \/ Ingest!RejectPersists(next, e.at)
  <2>1. CASE st.rejectSeq = e.seq /\ st.rejectSince # None
    <3>1. next = Ingest!Stall(e.seq, st.rejectSince, st.rejects + 1, st.authSince, st.authFails)
      BY <2>1 DEF Ingest!AfterReject
    <3>2. QED
      BY <1>7, <2>1, <3>1 DEF Ingest!Stall, Ingest!RejectPersists
  <2>2. CASE ~(st.rejectSeq = e.seq /\ st.rejectSince # None)
    <3>1. next = Ingest!Stall(e.seq, e.at, 1, st.authSince, st.authFails)
      BY <2>2 DEF Ingest!AfterReject
    <3>2. QED
      BY <1>7, <2>2, <3>1 DEF Ingest!Stall, Ingest!RejectPersists
  <2>3. QED
    BY <2>1, <2>2
<1>9. QED
  BY <1>1, <1>4, <1>5, <1>8 DEF StallsTold

LEMMA FailTold ==
  ASSUME NEW L, L \in Seq(Range(L)), NEW st, NEW events, StallsTold(L, st, events),
         NEW e, e.what = "upload_unauthorized", e.seq = None, e.at \in Nat,
         NEW next, next = Ingest!AfterAuthFail(st, e.at), NEW after,
         after = IF Ingest!AuthFailPersists(next, e.at) THEN events \cup {"upload_unauthorized"} ELSE events
  PROVE  StallsTold(Append(L, e), next, after)
<1>1. PICK M, m : M = Append(L, e) /\ m = Len(L) + 1
  OBVIOUS
<1>2. /\ m \in Nat /\ M[m] = e /\ \A i \in 1 .. Len(L) : i \in Nat /\ i < m /\ M[i] = L[i]
  BY <1>1, AppendedAt
<1>3. /\ Rejects(L) \subseteq 1 .. Len(L) /\ Fails(L) \subseteq 1 .. Len(L)
      /\ Rejects(M) = Rejects(L) /\ Fails(M) = Fails(L) \cup {m}
  BY <1>1, PlacesGrow
<1>4. /\ RunTold(M, Rejects(M), st.rejectSeq, st.rejectSince, st.rejects)
      /\ Ingest!Persisted(M, Rejects(M), RejectCount) <=> Ingest!Persisted(L, Rejects(L), RejectCount)
  BY <1>2, <1>3, PlacesKept DEF StallsTold
<1>5. Ingest!AtRisk(M) <=> Ingest!AtRisk(L)
  BY <1>1, RiskAfter
<1>6. /\ RunTold(L, Fails(L), None, st.authSince, st.authFails)
      /\ Fails(L) \in SUBSET Nat /\ \A i \in Fails(L) : i < m /\ M[i] = L[i]
      /\ None \notin Nat /\ AuthFailCount \in Nat \ {0}
  BY <1>2, <1>3, IngestAssumption DEF StallsTold
<1>7. IF None = e.seq /\ st.authSince # None
      THEN /\ RunTold(M, Fails(M), None, st.authSince, st.authFails + 1)
           /\ Ingest!Persisted(M, Fails(M), AuthFailCount)
                <=> \/ Ingest!Persisted(L, Fails(L), AuthFailCount)
                    \/ st.authFails + 1 >= AuthFailCount /\ e.at - st.authSince >= Persist
      ELSE /\ RunTold(M, Fails(M), e.seq, e.at, 1)
           /\ Ingest!Persisted(M, Fails(M), AuthFailCount)
                <=> \/ Ingest!Persisted(L, Fails(L), AuthFailCount)
                    \/ 1 >= AuthFailCount /\ e.at - e.at >= Persist
  <2>1. PICK P, Q, seq, since, n, c :
          /\ P = Fails(L) /\ Q = Fails(M) /\ c = AuthFailCount
          /\ seq = None /\ since = st.authSince /\ n = st.authFails
    OBVIOUS
  <2>2. /\ P \in SUBSET Nat /\ Q = P \cup {m} /\ \A i \in P : i < m /\ M[i] = L[i]
        /\ RunTold(L, P, seq, since, n) /\ c \in Nat \ {0}
    BY <1>3, <1>6, <2>1
  <2>3. Grown(L, M, P, Q, e, seq, since, n, c)
    BY <1>2, <1>6, <2>2, RunGrows
  <2>4. QED
    BY <2>1, <2>3 DEF Grown
<1>8. /\ next.rejectSeq = st.rejectSeq /\ next.rejectSince = st.rejectSince /\ next.rejects = st.rejects
      /\ RunTold(M, Fails(M), None, next.authSince, next.authFails)
      /\ Ingest!Persisted(M, Fails(M), AuthFailCount)
           <=> Ingest!Persisted(L, Fails(L), AuthFailCount) \/ Ingest!AuthFailPersists(next, e.at)
  <2>1. CASE st.authSince # None
    <3>1. next = Ingest!Stall(st.rejectSeq, st.rejectSince, st.rejects, st.authSince, st.authFails + 1)
      BY <2>1 DEF Ingest!AfterAuthFail
    <3>2. QED
      BY <1>7, <2>1, <3>1 DEF Ingest!Stall, Ingest!AuthFailPersists
  <2>2. CASE st.authSince = None
    <3>1. next = Ingest!Stall(st.rejectSeq, st.rejectSince, st.rejects, e.at, 1)
      BY <2>2 DEF Ingest!AfterAuthFail
    <3>2. QED
      BY <1>7, <2>2, <3>1 DEF Ingest!Stall, Ingest!AuthFailPersists
  <2>3. QED
    BY <2>1, <2>2
<1>9. QED
  BY <1>1, <1>4, <1>5, <1>8 DEF StallsTold

\* What a contact ends, and says of the risk.
Clears(st, events, e, next, left, after) ==
  /\ e.what \in {"batch", "heartbeat"}
  /\ next = IF e.what = "batch" THEN Ingest!AfterAccept(st) ELSE Ingest!AfterAuthOk(st)
  /\ left = events \ (IF e.what = "batch" THEN {"upload_rejected", "upload_unauthorized"}
                      ELSE {"upload_unauthorized"})
  /\ after = IF e.risk THEN left \cup {"upload_retention_risk"} ELSE left \ {"upload_retention_risk"}

LEMMA ContactTold ==
  ASSUME NEW L, L \in Seq(Range(L)), NEW st, NEW events, StallsTold(L, st, events),
         NEW e, NEW next, NEW left, NEW after, Clears(st, events, e, next, left, after)
  PROVE  StallsTold(Append(L, e), next, after)
<1> USE DEF Clears
<1>1. PICK M, m : M = Append(L, e) /\ m = Len(L) + 1
  OBVIOUS
<1>2. \A i \in 1 .. Len(L) : M[i] = L[i]
  BY <1>1, AppendedAt
<1>3. /\ Rejects(L) \subseteq 1 .. Len(L) /\ Fails(M) = {}
      /\ Rejects(M) = IF e.what = "batch" THEN {} ELSE Rejects(L)
  BY <1>1, PlacesGrow
<1>4. /\ Ingest!AtRisk(M) <=> e.risk
      /\ \A n : ~Ingest!Persisted(M, {}, n)
      /\ \A seq, n : RunTold(M, {}, seq, None, n)
  BY <1>1, RiskAfter DEF Ingest!Persisted, RunTold
<1>5. CASE e.what = "batch"
  <2>1. next.rejectSince = None /\ next.authSince = None
    BY <1>5 DEF Ingest!AfterAccept, Ingest!ClearStall, Ingest!Stall
  <2>2. "upload_rejected" \notin after /\ "upload_unauthorized" \notin after /\ ("upload_retention_risk" \in after <=> e.risk)
    BY <1>5
  <2>3. QED
    BY <1>1, <1>3, <1>4, <1>5, <2>1, <2>2 DEF StallsTold
<1>6. CASE e.what = "heartbeat"
  <2>1. /\ next.authSince = None
        /\ next.rejectSeq = st.rejectSeq /\ next.rejectSince = st.rejectSince /\ next.rejects = st.rejects
    BY <1>6 DEF Ingest!AfterAuthOk, Ingest!Stall
  <2>2. /\ "upload_rejected" \in after <=> "upload_rejected" \in events
        /\ "upload_unauthorized" \notin after /\ ("upload_retention_risk" \in after <=> e.risk)
    BY <1>6
  <2>3. /\ RunTold(M, Rejects(M), st.rejectSeq, st.rejectSince, st.rejects)
        /\ Ingest!Persisted(M, Rejects(M), RejectCount) <=> Ingest!Persisted(L, Rejects(L), RejectCount)
    BY <1>2, <1>3, <1>6, PlacesKept DEF StallsTold
  <2>4. QED
    BY <1>1, <1>3, <1>4, <1>6, <2>1, <2>2, <2>3 DEF StallsTold
<1>7. QED
  BY <1>5, <1>6

(* What a request carries: its sensor and its time, and with a row the lock  *)
(* on it, so that the row is still as it was read.                          *)
Carries(q, r, locks, rowsOf) ==
  q.stage # "idle" =>
    /\ q.sensor \in Sensors /\ q.route \in {"batch", "heartbeat"} /\ q.seq \in Ingest!Batches
    /\ q.stage # "queued" => q.at \in Nat
    /\ q.stage = "write" /\ q.st # None => locks[q.sensor] = r /\ q.st = rowsOf[q.sensor]

StallsInv ==
  /\ now \in Nat
  /\ slot = [r \in Slots |-> slot[r]] /\ lock = [s \in Sensors |-> lock[s]]
  /\ open = [s \in Sensors |-> open[s]]
  /\ status \in [Sensors -> Ingest!Statuses \cup {None}]
  /\ \A r \in Slots : Carries(slot[r], r, lock, status)
  /\ \A s \in Sensors \ raced : StallsTold(log[s], Ingest!StallOf(status[s]), open[s])

LEMMA StallsTyped ==
  ASSUME NEW st \in Ingest!Stalls, NEW seq \in Ingest!Batches, NEW at \in Nat
  PROVE  /\ Ingest!AfterReject(st, seq, at) \in Ingest!Stalls
         /\ Ingest!AfterAuthFail(st, at) \in Ingest!Stalls
         /\ Ingest!AfterAccept(st) \in Ingest!Stalls /\ Ingest!AfterAuthOk(st) \in Ingest!Stalls
BY DEF Ingest!AfterReject, Ingest!AfterAuthFail, Ingest!AfterAccept, Ingest!AfterAuthOk, Ingest!ClearStall,
   Ingest!Stall, Ingest!Stalls

LEMMA RowTyped ==
  ASSUME NEW st \in Ingest!Statuses \cup {None}
  PROVE  /\ Ingest!StallOf(st) \in Ingest!Stalls
         /\ st # None => st.lastSeq \in Ingest!Batches \cup {None} /\ Ingest!StallOf(st) = st.stall
BY DEF Ingest!StallOf, Ingest!Statuses, Ingest!ClearStall, Ingest!Stall, Ingest!Stalls

(* A step of a request that commits nothing.                                *)
LEMMA SlotStep ==
  ASSUME StallsInv, NEW r \in Slots, NEW q, slot' = [slot EXCEPT ![r] = q],
         Carries(q, r, lock, status), UNCHANGED <<now, lock, status, open, log, raced>>
  PROVE  StallsInv'
<1>1. slot' = [s \in Slots |-> IF s = r THEN q ELSE slot[s]]
  BY DEF StallsInv
<1>2. slot' = [s \in Slots |-> slot'[s]] /\ \A s \in Slots : Carries(slot'[s], s, lock, status)
  BY <1>1 DEF StallsInv
<1>3. QED
  BY <1>2 DEF StallsInv

(* It is answered, and what it had locked is free.                          *)
LEMMA ReleasedKeeps ==
  ASSUME StallsInv, NEW r \in Slots, Ingest!Answered(r), Ingest!Release(r),
         NEW news, \A q \in Slots \ {r} : slot[q].stage = "write" /\ slot[q].st # None
                     => news[slot[q].sensor] = status[slot[q].sensor]
  PROVE  /\ slot' = [s \in Slots |-> slot'[s]] /\ lock' = [s \in Sensors |-> lock'[s]]
         /\ \A q \in Slots : Carries(slot'[q], q, lock', news)
<1>1. /\ slot' = [q \in Slots |-> IF q = r THEN Ingest!Idle ELSE slot[q]]
      /\ lock' = [s \in Sensors |-> IF lock[s] = r THEN None ELSE lock[s]]
  BY DEF StallsInv, Ingest!Answered, Ingest!Release
<1>2. ASSUME NEW q \in Slots PROVE Carries(slot'[q], q, lock', news)
  <2>1. CASE q = r
    BY <1>1, <2>1 DEF Ingest!Idle, Carries
  <2>2. CASE q # r
    <3>1. slot'[q] = slot[q] /\ Carries(slot[q], q, lock, status)
      BY <1>1, <2>2 DEF StallsInv
    <3>2. QED
      BY <1>1, <2>2, <3>1 DEF Carries
  <2>3. QED
    BY <2>1, <2>2
<1>3. QED
  BY <1>1, <1>2

LEMMA RollBackStep ==
  ASSUME StallsInv, NEW r \in Slots, Ingest!RollBack(r)
  PROVE  StallsInv'
<1>1. Ingest!Answered(r) /\ Ingest!Release(r) /\ UNCHANGED <<now, status, open, log, raced>>
  BY DEF Ingest!RollBack
<1>2. /\ slot' = [s \in Slots |-> slot'[s]] /\ lock' = [s \in Sensors |-> lock'[s]]
      /\ \A q \in Slots : Carries(slot'[q], q, lock', status)
  BY <1>1, ReleasedKeeps
<1>3. QED
  BY <1>1, <1>2 DEF StallsInv

LEMMA ReadStep ==
  ASSUME StallsInv, NEW r \in Slots, Ingest!Read(r)
  PROVE  StallsInv'
<1>1. PICK s, q : s = slot[r].sensor /\ q = Ingest!At(slot[r], "write", slot[r].at, status[s])
  OBVIOUS
<1>2. /\ slot[r].stage = "read" /\ slot' = [slot EXCEPT ![r] = q]
      /\ lock' = IF status[s] = None THEN lock ELSE [lock EXCEPT ![s] = r]
      /\ status[s] = None \/ lock[s] = None
      /\ UNCHANGED <<now, status, open, log, raced>>
  BY <1>1 DEF Ingest!Read, Ingest!Lockable
<1>3. s \in Sensors /\ slot[r].at \in Nat /\ slot[r].route \in {"batch", "heartbeat"} /\ slot[r].seq \in Ingest!Batches
  BY <1>1, <1>2 DEF StallsInv, Carries
<1>4. /\ slot' = [t \in Slots |-> IF t = r THEN q ELSE slot[t]]
      /\ lock' = [t \in Sensors |-> IF t = s /\ status[s] # None THEN r ELSE lock[t]]
  BY <1>2 DEF StallsInv
<1>5. ASSUME NEW t \in Slots PROVE Carries(slot'[t], t, lock', status)
  <2>1. CASE t = r
    BY <1>1, <1>3, <1>4, <2>1 DEF Carries, Ingest!At
  <2>2. CASE t # r
    <3>1. slot'[t] = slot[t] /\ Carries(slot[t], t, lock, status) /\ t # None
      BY <1>4, <2>2, IngestAssumption DEF StallsInv
    <3>2. QED
      BY <1>2, <1>4, <3>1 DEF Carries
  <2>3. QED
    BY <2>1, <2>2
<1>6. slot' = [t \in Slots |-> slot'[t]] /\ lock' = [t \in Sensors |-> lock'[t]]
  BY <1>4
<1>7. QED
  BY <1>2, <1>5, <1>6 DEF StallsInv

(* A commit on a sensor's row: no other request holds it.                   *)
Writes(r, s, row, events, L) ==
  /\ r \in Slots /\ s \in Sensors /\ row \in Ingest!Statuses
  /\ lock[s] \in {None, r} /\ now' = now /\ raced \subseteq raced'
  /\ status' = [status EXCEPT ![s] = row] /\ open' = [open EXCEPT ![s] = events]
  /\ log' = [log EXCEPT ![s] = L]
  /\ Ingest!Answered(r) /\ Ingest!Release(r) /\ (s \notin raced' => StallsTold(L, row.stall, events))

LEMMA WrittenStep ==
  ASSUME StallsInv, HistoriesOK, NEW r, NEW s, NEW row, NEW events, NEW L, Writes(r, s, row, events, L)
  PROVE  StallsInv'
<1> USE DEF Writes
<1>1. /\ status' = [t \in Sensors |-> IF t = s THEN row ELSE status[t]]
      /\ open' = [t \in Sensors |-> IF t = s THEN events ELSE open[t]]
      /\ log' = [t \in Sensors |-> IF t = s THEN L ELSE log[t]]
  BY DEF StallsInv, HistoriesOK
<1>2. \A q \in Slots \ {r} : slot[q].stage = "write" /\ slot[q].st # None
        => status'[slot[q].sensor] = status[slot[q].sensor]
  <2>1. ASSUME NEW q \in Slots, q # r, slot[q].stage = "write", slot[q].st # None
        PROVE  status'[slot[q].sensor] = status[slot[q].sensor]
    <3>1. slot[q].sensor \in Sensors /\ lock[slot[q].sensor] = q /\ q # None
      BY <2>1, IngestAssumption DEF StallsInv, Carries
    <3>2. slot[q].sensor # s
      BY <2>1, <3>1
    <3>3. QED
      BY <1>1, <3>1, <3>2
  <2>2. QED
    BY <2>1
<1>3. /\ slot' = [t \in Slots |-> slot'[t]] /\ lock' = [t \in Sensors |-> lock'[t]]
      /\ \A q \in Slots : Carries(slot'[q], q, lock', status')
  BY <1>2, ReleasedKeeps
<1>4. status' \in [Sensors -> Ingest!Statuses \cup {None}] /\ open' = [t \in Sensors |-> open'[t]]
  BY <1>1 DEF StallsInv
<1>5. ASSUME NEW t \in Sensors \ raced' PROVE StallsTold(log'[t], Ingest!StallOf(status'[t]), open'[t])
  <2>1. CASE t = s
    <3>1. status'[t] = row /\ row # None /\ open'[t] = events /\ log'[t] = L
      BY <1>1, <2>1, IngestAssumption
    <3>2. QED
      BY <2>1, <3>1 DEF Ingest!StallOf
  <2>2. CASE t # s
    <3>1. t \in Sensors \ raced /\ status'[t] = status[t] /\ open'[t] = open[t] /\ log'[t] = log[t]
      BY <1>1, <2>2
    <3>2. QED
      BY <3>1 DEF StallsInv
  <2>3. QED
    BY <2>1, <2>2
<1>6. QED
  BY <1>3, <1>4, <1>5 DEF StallsInv

(* A refused batch, a failed authentication: the row is as it was read.     *)
LEMMA RefusedStep ==
  ASSUME StallsInv, HistoriesOK, NEW r \in Slots, slot[r].stage = "write", Ingest!Answered(r), Ingest!Release(r),
         now' = now, NEW next, NEW persists, NEW e, next \in Ingest!Stalls, Ingest!Stalled(r, next, persists, e),
         slot[r].sensor \notin raced /\ slot[r].st # None =>
           StallsTold(Append(log[slot[r].sensor], e), next, Ingest!Opened(slot[r].sensor, e.what, persists))
  PROVE  StallsInv'
<1>1. CASE slot[r].st = None
  <2>1. UNCHANGED <<status, open, log, raced>>
    BY <1>1 DEF Ingest!Stalled
  <2>2. /\ slot' = [s \in Slots |-> slot'[s]] /\ lock' = [s \in Sensors |-> lock'[s]]
        /\ \A q \in Slots : Carries(slot'[q], q, lock', status)
    BY ReleasedKeeps
  <2>3. QED
    BY <2>1, <2>2 DEF StallsInv
<1>2. CASE slot[r].st # None
  <2>1. PICK s, row, events, L :
          /\ s = slot[r].sensor /\ row = [lastSeq |-> status[s].lastSeq, stall |-> next]
          /\ events = Ingest!Opened(s, e.what, persists) /\ L = Append(log[s], e)
    OBVIOUS
  <2>2. /\ status' = [status EXCEPT ![s] = row] /\ open' = [open EXCEPT ![s] = events]
        /\ log' = [log EXCEPT ![s] = L] /\ raced' = raced
    BY <1>2, <2>1 DEF Ingest!Stalled, Ingest!Note
  <2>3. s \in Sensors /\ lock[s] = r /\ status[s] # None
    BY <1>2, <2>1 DEF StallsInv, Carries
  <2>4. row \in Ingest!Statuses
    <3>1. status[s].lastSeq \in Ingest!Batches \cup {None}
      BY <2>3, RowTyped DEF StallsInv
    <3>2. QED
      BY <2>1, <3>1 DEF Ingest!Statuses
  <2>5. s \notin raced' => StallsTold(L, row.stall, events)
    BY <1>2, <2>1, <2>2
  <2>6. Writes(r, s, row, events, L)
    BY <2>2, <2>3, <2>4, <2>5 DEF Writes
  <2>7. QED
    BY <2>6, WrittenStep
<1>3. QED
  BY <1>1, <1>2

LEMMA RejectedStep ==
  ASSUME StallsInv, HistoriesOK, NEW r \in Slots, slot[r].stage = "write", Ingest!Answered(r), Ingest!Release(r),
         now' = now, Ingest!Rejected(r)
  PROVE  StallsInv'
<1>1. PICK s, st, e, next :
        /\ s = slot[r].sensor /\ st = Ingest!StallOf(slot[r].st)
        /\ e = [what |-> "upload_rejected", seq |-> slot[r].seq, at |-> slot[r].at]
        /\ next = Ingest!AfterReject(st, slot[r].seq, slot[r].at)
  OBVIOUS
<1>2. Ingest!Stalled(r, next, Ingest!RejectPersists(next, slot[r].at), e)
  BY <1>1 DEF Ingest!Rejected
<1>3. /\ s \in Sensors /\ slot[r].at \in Nat /\ slot[r].seq \in Ingest!Batches
      /\ slot[r].st # None => slot[r].st = status[s]
  BY <1>1 DEF StallsInv, Carries
<1>4. st \in Ingest!Stalls /\ next \in Ingest!Stalls
  BY <1>1, <1>3, RowTyped, StallsTyped DEF StallsInv
<1>5. ASSUME s \notin raced, slot[r].st # None
      PROVE  StallsTold(Append(log[s], e), next, Ingest!Opened(s, e.what, Ingest!RejectPersists(next, slot[r].at)))
  <2>1. StallsTold(log[s], st, open[s]) /\ log[s] \in Seq(Range(log[s]))
    BY <1>1, <1>3, <1>5 DEF StallsInv, HistoriesOK
  <2>2. e.what = "upload_rejected" /\ e.at = slot[r].at /\ e.seq = slot[r].seq
    BY <1>1
  <2>3. PICK after : after = Ingest!Opened(s, e.what, Ingest!RejectPersists(next, slot[r].at))
    OBVIOUS
  <2>4. after = IF Ingest!RejectPersists(next, e.at) THEN open[s] \cup {"upload_rejected"} ELSE open[s]
    BY <2>2, <2>3 DEF Ingest!Opened
  <2>5. StallsTold(Append(log[s], e), next, after)
    BY <1>1, <1>3, <2>1, <2>2, <2>4, RejectTold
  <2>6. QED
    BY <2>3, <2>5
<1>6. QED
  BY <1>1, <1>2, <1>4, <1>5, RefusedStep

LEMMA AuthFailedStep ==
  ASSUME StallsInv, HistoriesOK, NEW r \in Slots, slot[r].stage = "write", Ingest!Answered(r), Ingest!Release(r),
         now' = now, Ingest!AuthFailed(r)
  PROVE  StallsInv'
<1>1. PICK s, st, e, next :
        /\ s = slot[r].sensor /\ st = Ingest!StallOf(slot[r].st)
        /\ e = [what |-> "upload_unauthorized", seq |-> None, at |-> slot[r].at]
        /\ next = Ingest!AfterAuthFail(st, slot[r].at)
  OBVIOUS
<1>2. Ingest!Stalled(r, next, Ingest!AuthFailPersists(next, slot[r].at), e)
  BY <1>1 DEF Ingest!AuthFailed
<1>3. /\ s \in Sensors /\ slot[r].at \in Nat /\ slot[r].seq \in Ingest!Batches
      /\ slot[r].st # None => slot[r].st = status[s]
  BY <1>1 DEF StallsInv, Carries
<1>4. st \in Ingest!Stalls /\ next \in Ingest!Stalls
  BY <1>1, <1>3, RowTyped, StallsTyped DEF StallsInv
<1>5. ASSUME s \notin raced, slot[r].st # None
      PROVE  StallsTold(Append(log[s], e), next, Ingest!Opened(s, e.what, Ingest!AuthFailPersists(next, slot[r].at)))
  <2>1. StallsTold(log[s], st, open[s]) /\ log[s] \in Seq(Range(log[s]))
    BY <1>1, <1>3, <1>5 DEF StallsInv, HistoriesOK
  <2>2. e.what = "upload_unauthorized" /\ e.at = slot[r].at /\ e.seq = None
    BY <1>1
  <2>3. PICK after : after = Ingest!Opened(s, e.what, Ingest!AuthFailPersists(next, slot[r].at))
    OBVIOUS
  <2>4. after = IF Ingest!AuthFailPersists(next, e.at) THEN open[s] \cup {"upload_unauthorized"} ELSE open[s]
    BY <2>2, <2>3 DEF Ingest!Opened
  <2>5. StallsTold(Append(log[s], e), next, after)
    BY <1>1, <1>3, <2>1, <2>2, <2>4, FailTold
  <2>6. QED
    BY <2>3, <2>5
<1>6. QED
  BY <1>1, <1>2, <1>4, <1>5, RefusedStep

(* A contact: the row it read is the row, or it raced with the first one.   *)
LEMMA ReportedStep ==
  ASSUME StallsInv, HistoriesOK, NEW r \in Slots, slot[r].stage = "write", Ingest!Answered(r), Ingest!Release(r),
         now' = now, Ingest!Contact(r)
  PROVE  StallsInv'
<1>1. PICK s, st, stall, row, e, L, events :
        /\ s = slot[r].sensor /\ st = Ingest!StallOf(slot[r].st)
        /\ stall = IF slot[r].route = "batch" THEN Ingest!AfterAccept(st) ELSE Ingest!AfterAuthOk(st)
        /\ row = Ingest!Status(slot[r].st, slot[r].route = "batch", slot[r].seq, stall)
        /\ e = [what |-> slot[r].route, seq |-> slot[r].seq, at |-> slot[r].at,
                risk |-> slot[r].risk, adapter |-> slot[r].adapter, bounds |-> bounds'[s]]
        /\ L = Append(log[s], e) /\ events = open'[s]
  OBVIOUS
<1>2. /\ lock[s] \in {None, r} /\ status' = [status EXCEPT ![s] = row] /\ log' = [log EXCEPT ![s] = L]
      /\ raced' = IF slot[r].st = None /\ status[s] # None THEN raced \cup {s} ELSE raced
  BY <1>1 DEF Ingest!Contact, Ingest!Note
<1>3. /\ s \in Sensors /\ slot[r].at \in Nat /\ slot[r].seq \in Ingest!Batches
      /\ slot[r].route \in {"batch", "heartbeat"}
      /\ slot[r].st # None => slot[r].st = status[s]
  BY <1>1 DEF StallsInv, Carries
<1>4. slot[r].st \in Ingest!Statuses \cup {None}
  BY <1>3 DEF StallsInv
<1>5. stall \in Ingest!Stalls
  BY <1>1, <1>3, <1>4, RowTyped, StallsTyped
<1>6. row \in Ingest!Statuses /\ row.stall = stall
  <2>1. slot[r].st # None => slot[r].st.lastSeq \in Ingest!Batches \cup {None}
    BY <1>4, RowTyped
  <2>2. QED
    BY <1>1, <1>3, <1>5, <2>1 DEF Ingest!Status, Ingest!Statuses
<1>7. /\ e.what = slot[r].route /\ e.risk = slot[r].risk
  BY <1>1
<1>8. PICK left : left = open[s] \ (IF e.what = "batch" THEN {"upload_rejected", "upload_unauthorized"}
                                    ELSE {"upload_unauthorized"})
  OBVIOUS
<1>9. open' = [open EXCEPT ![s] = IF e.risk THEN left \cup {"upload_retention_risk"}
                                  ELSE left \ {"upload_retention_risk"}]
  BY <1>1, <1>7, <1>8 DEF Ingest!Contact, Ingest!Beat
<1>10. /\ events = IF e.risk THEN left \cup {"upload_retention_risk"} ELSE left \ {"upload_retention_risk"}
       /\ open' = [open EXCEPT ![s] = events]
  BY <1>1, <1>3, <1>9 DEF StallsInv
<1>11. ASSUME s \notin raced' PROVE StallsTold(L, row.stall, events)
  <2>1. s \notin raced /\ slot[r].st = status[s]
    BY <1>2, <1>3, <1>11
  <2>2. StallsTold(log[s], st, open[s]) /\ log[s] \in Seq(Range(log[s]))
    BY <1>1, <1>3, <2>1 DEF StallsInv, HistoriesOK
  <2>3. e.what \in {"batch", "heartbeat"}
    BY <1>3, <1>7
  <2>4. StallsTold(Append(log[s], e), stall, events)
    <3>1. Clears(st, open[s], e, stall, left, events)
      BY <1>1, <1>7, <1>8, <1>10, <2>3 DEF Clears
    <3>2. QED
      BY <2>2, <3>1, ContactTold
  <2>5. QED
    BY <1>1, <1>6, <2>4
<1>12. raced \subseteq raced'
  BY <1>2
<1>13. Writes(r, s, row, events, L)
  BY <1>2, <1>3, <1>6, <1>10, <1>11, <1>12 DEF Writes
<1>14. QED
  BY <1>13, WrittenStep

LEMMA StallsStep ==
  ASSUME StallsInv, HistoriesOK, [Ingest!Next]_(Ingest!vars)
  PROVE  StallsInv'
<1>1. CASE UNCHANGED Ingest!vars
  BY <1>1 DEF Ingest!vars, StallsInv
<1>2. CASE Ingest!Tick
  <2>1. now' \in Nat /\ UNCHANGED <<slot, status, lock, open, log, raced>>
    BY <1>2 DEF Ingest!Tick, StallsInv
  <2>2. QED
    BY <2>1 DEF StallsInv
<1>3. ASSUME NEW r \in Slots, NEW s \in Sensors, NEW p \in Payloads, Ingest!Arrive(r, s, p) PROVE StallsInv'
  <2>1. Carries(Ingest!Request(p, s), r, lock, status) /\ UNCHANGED <<now, lock, status, open, log, raced>>
    BY <1>3, IngestAssumption DEF Ingest!Arrive, Ingest!Request, Ingest!Batches, Carries
  <2>2. CASE slot' = [slot EXCEPT ![r] = Ingest!Request(p, s)]
    BY <2>1, <2>2, SlotStep
  <2>3. CASE UNCHANGED slot
    BY <2>1, <2>3 DEF StallsInv
  <2>4. QED
    BY <1>3, <2>2, <2>3 DEF Ingest!Arrive
<1>4. ASSUME NEW r \in Slots,
             Ingest!Authenticate(r) \/ Ingest!PoolTimeout(r) \/ Ingest!Limit(r) \/ Ingest!Acquire(r)
      PROVE  StallsInv'
  <2>1. UNCHANGED <<now, lock, status, open, log, raced>> /\ slot[r].stage \in {"queued", "limit", "merge"}
    BY <1>4 DEF Ingest!Authenticate, Ingest!PoolTimeout, Ingest!Limit, Ingest!Acquire
  <2>2. \/ Ingest!Answered(r)
        \/ \E stage \in {"limit", "read"} : slot' = [slot EXCEPT ![r] = Ingest!At(slot[r], stage, now, None)]
        \/ slot[r].stage # "queued" /\ \E stage \in {"merge", "read"} : Ingest!Goto(r, stage)
    BY <1>4 DEF Ingest!Authenticate, Ingest!PoolTimeout, Ingest!Limit, Ingest!Acquire
  <2>3. /\ slot[r].sensor \in Sensors /\ slot[r].route \in {"batch", "heartbeat"} /\ slot[r].seq \in Ingest!Batches
        /\ slot[r].stage # "queued" => slot[r].at \in Nat
        /\ now \in Nat
    BY <2>1 DEF StallsInv, Carries
  <2>4. \A stage \in {"limit", "merge", "read"} :
          /\ Carries(Ingest!At(slot[r], stage, now, None), r, lock, status)
          /\ slot[r].stage # "queued" => Carries(Ingest!At(slot[r], stage, slot[r].at, slot[r].st), r, lock, status)
    BY <2>3 DEF Ingest!At, Carries
  <2>5. Carries(Ingest!Idle, r, lock, status)
    BY DEF Ingest!Idle, Carries
  <2>6. QED
    BY <2>1, <2>2, <2>4, <2>5, SlotStep DEF Ingest!Answered, Ingest!Goto
<1>5. ASSUME NEW r \in Slots, Ingest!Commit(r) PROVE StallsInv'
  <2>1. slot[r].stage = "write" /\ Ingest!Answered(r) /\ Ingest!Release(r) /\ now' = now
    BY <1>5 DEF Ingest!Commit
  <2>2. QED
    BY <1>5, <2>1, RejectedStep, AuthFailedStep, ReportedStep DEF Ingest!Commit
<1>6. QED
  BY <1>1, <1>2, <1>3, <1>4, <1>5, ReadStep, RollBackStep DEF Ingest!Next

LEMMA StallsInit ==
  ASSUME Ingest!Init
  PROVE  StallsInv
<1>1. PICK L : L = <<>> /\ DOMAIN L = {}
  OBVIOUS
<1>2. Rejects(L) = {} /\ Fails(L) = {} /\ Ingest!Contacts(L) = {}
  BY <1>1 DEF Rejects, Fails, Ingest!Since, Ingest!Contacts, Ingest!Told
<1>3. StallsTold(L, Ingest!ClearStall, {})
  BY <1>2 DEF StallsTold, RunTold, Ingest!Persisted, Ingest!AtRisk, Ingest!ClearStall, Ingest!Stall
<1>4. QED
  BY <1>1, <1>3 DEF Ingest!Init, StallsInv, Carries, Ingest!Idle, Ingest!StallOf

(* For any sensors, payloads, threads and interleavings of the requests: the *)
(* open events of a sensor say what its history says - a batch refused again *)
(* and again over the persistence time since the last accepted one, a token  *)
(* that failed since the last good one, the risk of the newest report - but  *)
(* for a sensor whose first contacts raced, when there is no row to lock.    *)
THEOREM EventsFollowTheHistory ==
  ServerSpec => []EventsTellTheStalls
<1> DEFINE IInv == part = "ingest" => AdaptersInv /\ StallsInv
<1>1. ServerInit => IInv
  <2>1. ServerInit => AdaptersInv
    BY EmptySeq, RangeOfSeq DEF ServerInit, Ingest!Init, AdaptersInv, HistoriesOK, RecordOK, PairsOK
  <2>2. QED
    BY <2>1, StallsInit DEF ServerInit
<1>2. IInv /\ [ServerNext]_<<part, ingestVars, readVars, importVars, periodVars, evaluationVars, feedVars, floodVars, twinVars>> => IInv'
  <2>1. AdaptersInv => HistoriesOK
    BY DEF AdaptersInv
  <2>2. QED
    BY <2>1, PartSteps, AdaptersStep, StallsStep
<1>3. IInv => EventsTellTheStalls
  <2>1. StallsInv => Ingest!EventsTellTheStalls
    BY DEF StallsInv, StallsTold, Rejects, Fails, Ingest!EventsTellTheStalls
  <2>2. QED
    BY <2>1 DEF EventsTellTheStalls
<1>4. QED
  BY <1>1, <1>2, <1>3, PTL DEF ServerSpec

-----------------------------------------------------------------------------
(* Periods: where local times lie in UTC.                                   *)

\* Local time in UTC and back, for a zone z; edge i of n buckets of s hours.
UtcOf(z, w) == w - (IF w < z.at + (IF z.before > z.after THEN z.before ELSE z.after) THEN z.before ELSE z.after)
WallOf(z, t) == t + (IF t < z.at THEN z.before ELSE z.after)
LastEdge(z, t, s) == WallOf(z, t) - (WallOf(z, t) % s)

ZoneOK(z) == z.at \in Int /\ z.before \in Int /\ z.after \in Int /\ z.after - z.before \in -1 .. 1

\* A local time is not after a moment if and only if the clock has shown it.
LEMMA UtcOrders ==
  ASSUME NEW z, ZoneOK(z), NEW w \in Int, NEW t \in Int
  PROVE  /\ UtcOf(z, w) \in Int /\ WallOf(z, t) \in Int
         /\ UtcOf(z, w) <= t <=> w <= WallOf(z, t)
<1>1. PICK a \in Int, b \in Int, c \in Int : a = z.at /\ b = z.before /\ c = z.after /\ (c = b - 1 \/ c = b \/ c = b + 1)
  BY DEF ZoneOK
<1>2. PICK u \in Int : u = UtcOf(z, w) /\ u = w - (IF w < a + (IF b > c THEN b ELSE c) THEN b ELSE c)
  BY <1>1 DEF UtcOf
<1>3. PICK v \in Int : v = WallOf(z, t) /\ v = t + (IF t < a THEN b ELSE c)
  BY <1>1 DEF WallOf
<1>4. u <= t <=> w <= v
  BY <1>1, <1>2, <1>3
<1>5. QED
  BY <1>2, <1>3, <1>4

\* The moment of a local time shows that time, or the next one where the clock
\* skips it; local times s hours apart are s hours apart, give or take one.
LEMMA UtcSteps ==
  ASSUME NEW z, ZoneOK(z), NEW w \in Int, NEW s \in Int
  PROVE  /\ UtcOf(z, w + s) - UtcOf(z, w) \in (s - 1) .. (s + 1)
         /\ \/ WallOf(z, UtcOf(z, w)) = w
            \/ /\ WallOf(z, UtcOf(z, w)) = w + 1
               /\ w >= z.at + z.before /\ w < z.at + z.after
<1>1. PICK a \in Int, b \in Int, c \in Int : a = z.at /\ b = z.before /\ c = z.after /\ (c = b - 1 \/ c = b \/ c = b + 1)
  BY DEF ZoneOK
<1>2. PICK u \in Int : u = UtcOf(z, w) /\ u = w - (IF w < a + (IF b > c THEN b ELSE c) THEN b ELSE c)
  BY <1>1 DEF UtcOf
<1>3. PICK x \in Int : x = UtcOf(z, w + s) /\ x = (w + s) - (IF w + s < a + (IF b > c THEN b ELSE c) THEN b ELSE c)
  BY <1>1 DEF UtcOf
<1>4. PICK v \in Int : v = WallOf(z, u) /\ v = u + (IF u < a THEN b ELSE c)
  BY <1>1 DEF WallOf
<1>5. x - u \in (s - 1) .. (s + 1) /\ (v = w \/ (v = w + 1 /\ w >= a + b /\ w < a + c))
  BY <1>1, <1>2, <1>3, <1>4
<1>6. QED
  BY <1>1, <1>2, <1>3, <1>4, <1>5

\* Local times that are two hours apart or more are different moments.
LEMMA UtcDistinct ==
  ASSUME NEW z, ZoneOK(z), NEW w \in Int, NEW x \in Int, UtcOf(z, w) = UtcOf(z, x)
  PROVE  w - x \in -1 .. 1
<1>1. PICK a \in Int, b \in Int, c \in Int : a = z.at /\ b = z.before /\ c = z.after /\ (c = b - 1 \/ c = b \/ c = b + 1)
  BY DEF ZoneOK
<1>2. UtcOf(z, w) = w - (IF w < a + (IF b > c THEN b ELSE c) THEN b ELSE c)
  BY <1>1 DEF UtcOf
<1>3. UtcOf(z, x) = x - (IF x < a + (IF b > c THEN b ELSE c) THEN b ELSE c)
  BY <1>1 DEF UtcOf
<1>4. PICK y \in {b, c}, d \in {b, c} : UtcOf(z, w) = w - y /\ UtcOf(z, x) = x - d
  BY <1>2, <1>3
<1>5. y \in Int /\ d \in Int /\ (y = d \/ y = d + 1 \/ y = d - 1)
  BY <1>1, <1>4
<1>6. w - y = x - d
  BY <1>4
<1>7. w - x = 0 \/ w - x = 1 \/ w - x = -1
  BY <1>5, <1>6
<1>8. QED
  BY <1>7

\* The last edge is the greatest multiple of the step that the clock has shown.
LEMMA LastEdgeIs ==
  ASSUME NEW z, ZoneOK(z), NEW t \in Int, NEW s \in {6, 24}
  PROVE  /\ LastEdge(z, t, s) \in Int /\ LastEdge(z, t, s) % s = 0
         /\ LastEdge(z, t, s) <= WallOf(z, t) /\ WallOf(z, t) < LastEdge(z, t, s) + s
<1>1. PICK v \in Int : v = WallOf(z, t)
  BY UtcOrders
<1>2. CASE s = 6
  <2>1. LastEdge(z, t, s) = v - (v % 6)
    BY <1>1, <1>2 DEF LastEdge
  <2>2. (v - (v % 6)) \in Int /\ (v - (v % 6)) % 6 = 0 /\ v - (v % 6) <= v /\ v < (v - (v % 6)) + 6
    OBVIOUS
  <2>3. QED
    BY <1>1, <1>2, <2>1, <2>2
<1>3. CASE s = 24
  <2>1. LastEdge(z, t, s) = v - (v % 24)
    BY <1>1, <1>3 DEF LastEdge
  <2>2. (v - (v % 24)) \in Int /\ (v - (v % 24)) % 24 = 0 /\ v - (v % 24) <= v /\ v < (v - (v % 24)) + 24
    OBVIOUS
  <2>3. QED
    BY <1>1, <1>3, <2>1, <2>2
<1>4. QED
  BY <1>2, <1>3


\* Multiples of a step.
LEMMA Multiples ==
  ASSUME NEW l \in Int, NEW k \in Int
  PROVE  /\ l % 6 = 0 => (l - 6 * k) % 6 = 0
         /\ l % 24 = 0 => (l - 24 * k) % 24 = 0
<1>1. ASSUME l % 6 = 0 PROVE (l - 6 * k) % 6 = 0
  <2>1. PICK m \in Int : l = 6 * m
    BY <1>1
  <2>2. PICK j \in Int : j = m - k
    OBVIOUS
  <2>3. l - 6 * k = 6 * j /\ (6 * j) % 6 = 0
    BY <2>1, <2>2
  <2>4. QED
    BY <2>3
<1>2. ASSUME l % 24 = 0 PROVE (l - 24 * k) % 24 = 0
  <2>1. PICK m \in Int : l = 24 * m
    BY <1>2
  <2>2. PICK j \in Int : j = m - k
    OBVIOUS
  <2>3. l - 24 * k = 24 * j /\ (24 * j) % 24 = 0
    BY <2>1, <2>2
  <2>4. QED
    BY <2>3
<1>3. QED
  BY <1>1, <1>2

-----------------------------------------------------------------------------
(* Periods: the edges and the blocks.                                       *)

\* The local times of the edges of n buckets of s hours.
Local(z, t, s, n, i) == LastEdge(z, t, s) - s * (n - i)

\* Step and number of the buckets of a range but the day's.
OfRange(range) == IF range = "7d" THEN <<6, 28>> ELSE <<24, 30>>

LEMMA EdgesAre ==
  ASSUME NEW range \in Buckets!Ranges
  PROVE  /\ range \in {"24h", "7d", "30d"}
         /\ range = "24h" =>
              /\ Buckets!Counts[range] = 24 /\ Buckets!Steps[range] = 1
              /\ Buckets!Edges(range) = [i \in 1 .. 25 |-> moment - (24 - i)]
         /\ range # "24h" =>
              /\ Buckets!Steps[range] = OfRange(range)[1] /\ Buckets!Counts[range] = OfRange(range)[2]
              /\ Buckets!Edges(range) = [i \in 1 .. OfRange(range)[2] + 1 |->
                    UtcOf(zone, Local(zone, moment, OfRange(range)[1], OfRange(range)[2], i))]
<1>1. range \in {"24h", "7d", "30d"}
  BY DEF Buckets!Ranges, Buckets!Steps
<1>2. range # "24h" => /\ Buckets!Steps[range] = OfRange(range)[1] /\ Buckets!Counts[range] = OfRange(range)[2]
  BY <1>1 DEF Buckets!Steps, Buckets!Counts, OfRange
<1>3. \A w : Buckets!ToUtc(w) = UtcOf(zone, w)
  BY DEF Buckets!ToUtc, Buckets!Larger, UtcOf
<1>4. ASSUME range # "24h"
      PROVE  Buckets!Edges(range) = [i \in 1 .. OfRange(range)[2] + 1 |->
               UtcOf(zone, Local(zone, moment, OfRange(range)[1], OfRange(range)[2], i))]
  <2>1. PICK s, n : s = OfRange(range)[1] /\ n = OfRange(range)[2]
    OBVIOUS
  <2>2. Buckets!LocalEdges(s, n) = [i \in 1 .. n + 1 |-> Local(zone, moment, s, n, i)]
    BY DEF Buckets!LocalEdges, Buckets!Wall, Buckets!Offset, Local, LastEdge, WallOf
  <2>3. PICK E : E = Buckets!LocalEdges(s, n)
    OBVIOUS
  <2>4. Buckets!Edges(range) = [i \in DOMAIN E |-> Buckets!ToUtc(E[i])]
    BY <1>2, <1>4, <2>1, <2>3 DEF Buckets!Edges
  <2>5. QED
    BY <1>3, <2>1, <2>2, <2>3, <2>4
<1>5. range = "24h" =>
        /\ Buckets!Counts[range] = 24 /\ Buckets!Steps[range] = 1
        /\ Buckets!Edges(range) = [i \in 1 .. 25 |-> moment - (24 - i)]
  BY DEF Buckets!Counts, Buckets!Steps, Buckets!Edges
<1>6. QED
  BY <1>1, <1>2, <1>4, <1>5

\* The local edges are multiples of their step, a step apart.
LEMMA LocalsAre ==
  ASSUME NEW z, ZoneOK(z), NEW t \in Int, NEW range \in {"7d", "30d"},
         NEW s, NEW n, s = OfRange(range)[1], n = OfRange(range)[2]
  PROVE  /\ s \in {6, 24} /\ n \in {28, 30}
         /\ \A i \in 1 .. n + 1 :
              /\ Local(z, t, s, n, i) \in Int /\ Local(z, t, s, n, i) % s = 0
              /\ i <= n => Local(z, t, s, n, i + 1) = Local(z, t, s, n, i) + s
         /\ Local(z, t, s, n, n) <= WallOf(z, t) /\ WallOf(z, t) < Local(z, t, s, n, n + 1)
         /\ Local(z, t, s, n, n) = LastEdge(z, t, s)
<1>1. CASE range = "7d"
  <2>1. s = 6 /\ n = 28
    BY <1>1 DEF OfRange
  <2>2. PICK l \in Int, w \in Int :
          l = LastEdge(z, t, 6) /\ w = WallOf(z, t) /\ l % 6 = 0 /\ l <= w /\ w < l + 6
    <3>1. LastEdge(z, t, 6) \in Int /\ LastEdge(z, t, 6) % 6 = 0
          /\ LastEdge(z, t, 6) <= WallOf(z, t) /\ WallOf(z, t) < LastEdge(z, t, 6) + 6
      BY LastEdgeIs
    <3>2. WallOf(z, t) \in Int
      BY UtcOrders
    <3>3. QED
      BY <3>1, <3>2
  <2>3. \A i : Local(z, t, s, n, i) = l - 6 * (28 - i)
    BY <2>1, <2>2 DEF Local
  <2>4. /\ \A i \in 1 .. 29 : /\ l - 6 * (28 - i) \in Int /\ (l - 6 * (28 - i)) % 6 = 0
                              /\ l - 6 * (28 - (i + 1)) = (l - 6 * (28 - i)) + 6
        /\ l - 6 * (28 - 28) = l /\ l - 6 * (28 - 29) = l + 6
    <3>1. ASSUME NEW i \in 1 .. 29 PROVE (l - 6 * (28 - i)) % 6 = 0
      <4>1. \A k \in Int : (l - 6 * k) % 6 = 0
        BY <2>2, Multiples
      <4>2. 28 - i \in Int
        OBVIOUS
      <4>3. QED
        BY <4>1, <4>2
    <3>2. \A i \in 1 .. 29 : /\ l - 6 * (28 - i) \in Int
                           /\ l - 6 * (28 - (i + 1)) = (l - 6 * (28 - i)) + 6
      BY <2>2
    <3>3. l - 6 * (28 - 28) = l /\ l - 6 * (28 - 29) = l + 6
      BY <2>2
    <3>4. QED
      BY <3>1, <3>2, <3>3
  <2>5. ASSUME NEW i \in 1 .. 29
        PROVE  /\ Local(z, t, s, n, i) \in Int /\ Local(z, t, s, n, i) % 6 = 0
               /\ i <= 28 => Local(z, t, s, n, i + 1) = Local(z, t, s, n, i) + 6
    <3>1. Local(z, t, s, n, i) = l - 6 * (28 - i) /\ Local(z, t, s, n, i + 1) = l - 6 * (28 - (i + 1))
      BY <2>3
    <3>2. QED
      BY <2>4, <3>1
  <2>6. Local(z, t, s, n, 28) = l /\ Local(z, t, s, n, 28 + 1) = l + 6
    BY <2>3, <2>4
  <2>7. QED
    BY <2>1, <2>2, <2>5, <2>6
<1>2. CASE range = "30d"
  <2>1. s = 24 /\ n = 30
    BY <1>2 DEF OfRange
  <2>2. PICK l \in Int, w \in Int :
          l = LastEdge(z, t, 24) /\ w = WallOf(z, t) /\ l % 24 = 0 /\ l <= w /\ w < l + 24
    <3>1. LastEdge(z, t, 24) \in Int /\ LastEdge(z, t, 24) % 24 = 0
          /\ LastEdge(z, t, 24) <= WallOf(z, t) /\ WallOf(z, t) < LastEdge(z, t, 24) + 24
      BY LastEdgeIs
    <3>2. WallOf(z, t) \in Int
      BY UtcOrders
    <3>3. QED
      BY <3>1, <3>2
  <2>3. \A i : Local(z, t, s, n, i) = l - 24 * (30 - i)
    BY <2>1, <2>2 DEF Local
  <2>4. /\ \A i \in 1 .. 31 : /\ l - 24 * (30 - i) \in Int /\ (l - 24 * (30 - i)) % 24 = 0
                              /\ l - 24 * (30 - (i + 1)) = (l - 24 * (30 - i)) + 24
        /\ l - 24 * (30 - 30) = l /\ l - 24 * (30 - 31) = l + 24
    <3>1. ASSUME NEW i \in 1 .. 31 PROVE (l - 24 * (30 - i)) % 24 = 0
      <4>1. \A k \in Int : (l - 24 * k) % 24 = 0
        BY <2>2, Multiples
      <4>2. 30 - i \in Int
        OBVIOUS
      <4>3. QED
        BY <4>1, <4>2
    <3>2. \A i \in 1 .. 31 : /\ l - 24 * (30 - i) \in Int
                           /\ l - 24 * (30 - (i + 1)) = (l - 24 * (30 - i)) + 24
      BY <2>2
    <3>3. l - 24 * (30 - 30) = l /\ l - 24 * (30 - 31) = l + 24
      BY <2>2
    <3>4. QED
      BY <3>1, <3>2, <3>3
  <2>5. ASSUME NEW i \in 1 .. 31
        PROVE  /\ Local(z, t, s, n, i) \in Int /\ Local(z, t, s, n, i) % 24 = 0
               /\ i <= 30 => Local(z, t, s, n, i + 1) = Local(z, t, s, n, i) + 24
    <3>1. Local(z, t, s, n, i) = l - 24 * (30 - i) /\ Local(z, t, s, n, i + 1) = l - 24 * (30 - (i + 1))
      BY <2>3
    <3>2. QED
      BY <2>4, <3>1
  <2>6. Local(z, t, s, n, 30) = l /\ Local(z, t, s, n, 30 + 1) = l + 24
    BY <2>3, <2>4
  <2>7. QED
    BY <2>1, <2>2, <2>5, <2>6
<1>3. QED
  BY <1>1, <1>2

\* Each bucket is as long as its step and starts at its time; now is in the last.
LEMMA RangeTiles ==
  ASSUME ZoneOK(zone), moment \in Int, NEW range \in Buckets!Ranges
  PROVE  LET edges == Buckets!Edges(range)
             n == Buckets!Counts[range]
         IN  /\ edges[n] <= moment /\ moment < edges[n + 1]
             /\ \A i \in 1 .. n :
                  /\ edges[i + 1] - edges[i] \in
                       IF range = "24h" THEN {1}
                       ELSE {Buckets!Steps[range] - 1, Buckets!Steps[range], Buckets!Steps[range] + 1}
                  /\ Buckets!Wall(edges[i]) % Buckets!Steps[range] = 0
                     \/ (Buckets!InGap(Buckets!Wall(edges[i]) - 1)
                         /\ (Buckets!Wall(edges[i]) - 1) % Buckets!Steps[range] = 0)
<1>1. \A u : Buckets!Wall(u) = WallOf(zone, u)
  BY DEF Buckets!Wall, Buckets!Offset, WallOf
<1>2. PICK E : E = Buckets!Edges(range)
  OBVIOUS
<1>3. CASE range = "24h"
  <2>1. Buckets!Counts[range] = 24 /\ Buckets!Steps[range] = 1 /\ E = [i \in 1 .. 25 |-> moment - (24 - i)]
    BY <1>2, <1>3, EdgesAre
  <2>2. /\ E[24] <= moment /\ moment < E[24 + 1]
        /\ \A i \in 1 .. 24 : E[i + 1] - E[i] = 1 /\ E[i] \in Int
    <3>1. E[24] = moment /\ E[24 + 1] = moment + 1
      BY <2>1
    <3>2. ASSUME NEW i \in 1 .. 24 PROVE E[i + 1] - E[i] = 1 /\ E[i] \in Int
      <4>1. E[i] = moment - (24 - i) /\ E[i + 1] = moment - (24 - (i + 1))
        BY <2>1
      <4>2. QED
        BY <4>1
    <3>3. QED
      BY <3>1, <3>2
  <2>3. \A i \in 1 .. 24 : WallOf(zone, E[i]) \in Int
    BY <2>2, UtcOrders
  <2>4. \A v \in Int : v % 1 = 0
    OBVIOUS
  <2>5. QED
    BY <1>1, <1>2, <1>3, <2>1, <2>2, <2>3, <2>4
<1>4. CASE range # "24h"
  <2>1. PICK s, n : s = OfRange(range)[1] /\ n = OfRange(range)[2]
    OBVIOUS
  <2>2. /\ range \in {"7d", "30d"} /\ Buckets!Steps[range] = s /\ Buckets!Counts[range] = n
        /\ E = [i \in 1 .. n + 1 |-> UtcOf(zone, Local(zone, moment, s, n, i))]
    BY <1>2, <1>4, <2>1, EdgesAre
  <2>3. PICK L : L = [i \in 1 .. n + 1 |-> Local(zone, moment, s, n, i)]
    OBVIOUS
  <2>4. /\ s \in {6, 24} /\ n \in {28, 30}
        /\ \A i \in 1 .. n + 1 : L[i] \in Int /\ L[i] % s = 0 /\ (i <= n => L[i + 1] = L[i] + s)
        /\ L[n] <= WallOf(zone, moment) /\ WallOf(zone, moment) < L[n + 1]
    <3>1. s \in {6, 24} /\ n \in {28, 30}
      BY <2>1, <2>2, LocalsAre
    <3>2. \A i \in 1 .. n + 1 : L[i] = Local(zone, moment, s, n, i)
      BY <2>3
    <3>3. n \in 1 .. n + 1 /\ n + 1 \in 1 .. n + 1 /\ \A i \in 1 .. n + 1 : i <= n => i + 1 \in 1 .. n + 1
      BY <3>1
    <3>4. /\ \A i \in 1 .. n + 1 :
              /\ Local(zone, moment, s, n, i) \in Int /\ Local(zone, moment, s, n, i) % s = 0
              /\ i <= n => Local(zone, moment, s, n, i + 1) = Local(zone, moment, s, n, i) + s
          /\ Local(zone, moment, s, n, n) <= WallOf(zone, moment)
          /\ WallOf(zone, moment) < Local(zone, moment, s, n, n + 1)
      BY <2>1, <2>2, LocalsAre
    <3>5. QED
      BY <3>1, <3>2, <3>3, <3>4
  <2>5. /\ \A i \in 1 .. n + 1 : E[i] = UtcOf(zone, L[i]) /\ E[i] \in Int
        /\ n \in 1 .. n + 1 /\ n + 1 \in 1 .. n + 1
    BY <2>2, <2>3, <2>4, UtcOrders
  <2>6. E[n] <= moment /\ moment < E[n + 1]
    <3>1. UtcOf(zone, L[n]) <= moment <=> L[n] <= WallOf(zone, moment)
      BY <2>4, <2>5, UtcOrders
    <3>2. UtcOf(zone, L[n + 1]) <= moment <=> L[n + 1] <= WallOf(zone, moment)
      BY <2>4, <2>5, UtcOrders
    <3>3. WallOf(zone, moment) \in Int /\ L[n + 1] \in Int
      BY <2>4, <2>5, UtcOrders
    <3>4. QED
      BY <2>4, <2>5, <3>1, <3>2, <3>3
  <2>7. ASSUME NEW i \in 1 .. n
        PROVE  /\ E[i + 1] - E[i] \in {s - 1, s, s + 1}
               /\ \/ WallOf(zone, E[i]) % s = 0
                  \/ Buckets!InGap(WallOf(zone, E[i]) - 1) /\ (WallOf(zone, E[i]) - 1) % s = 0
    <3>1. i \in 1 .. n + 1 /\ i + 1 \in 1 .. n + 1 /\ i <= n
      BY <2>4
    <3>2. PICK w \in Int : w = L[i] /\ w % s = 0 /\ L[i + 1] = w + s
      BY <2>4, <3>1
    <3>3. /\ UtcOf(zone, w + s) - UtcOf(zone, w) \in (s - 1) .. (s + 1)
          /\ \/ WallOf(zone, UtcOf(zone, w)) = w
             \/ /\ WallOf(zone, UtcOf(zone, w)) = w + 1
                /\ w >= zone.at + zone.before /\ w < zone.at + zone.after
      <4>1. s \in Int
        BY <2>4
      <4>2. QED
        BY <4>1, UtcSteps
    <3>4. E[i] = UtcOf(zone, w) /\ E[i + 1] = UtcOf(zone, w + s)
      BY <2>5, <3>1, <3>2
    <3>5. E[i + 1] - E[i] \in {s - 1, s, s + 1}
      BY <2>4, <3>3, <3>4
    <3>6. CASE WallOf(zone, E[i]) = w
      BY <3>2, <3>5, <3>6
    <3>7. CASE WallOf(zone, E[i]) = w + 1 /\ w >= zone.at + zone.before /\ w < zone.at + zone.after
      <4>1. WallOf(zone, E[i]) - 1 = w
        BY <3>7
      <4>2. QED
        BY <3>2, <3>5, <3>7, <4>1 DEF Buckets!InGap
    <3>8. QED
      BY <3>3, <3>4, <3>6, <3>7
  <2>8. QED
    BY <1>1, <1>2, <1>4, <2>2, <2>6, <2>7
<1>5. QED
  BY <1>3, <1>4

\* The next hour has the edges of this one, or another last edge.
LEMMA EpochNames ==
  ASSUME NEW z, ZoneOK(z), NEW t \in Int, NEW u \in Int, NEW s \in {6, 24},
         UtcOf(z, LastEdge(z, t, s)) = UtcOf(z, LastEdge(z, u, s))
  PROVE  LastEdge(z, t, s) = LastEdge(z, u, s)
<1>1. PICK l \in Int, m \in Int : l = LastEdge(z, t, s) /\ m = LastEdge(z, u, s) /\ l % s = 0 /\ m % s = 0
  BY LastEdgeIs
<1>2. l - m \in -1 .. 1
  BY <1>1, UtcDistinct
<1>3. l = m
  <2>1. CASE s = 6
    BY <1>1, <1>2, <2>1
  <2>2. CASE s = 24
    BY <1>1, <1>2, <2>2
  <2>3. QED
    BY <2>1, <2>2
<1>4. QED
  BY <1>1, <1>3

\* The blocks of the days whose midnights are L, when every midnight exists.
BlockOf(z, l, k) == <<UtcOf(z, l + 4 * k), UtcOf(z, (l + 4 * k) + 4)>>

LEMMA BlocksAre ==
  ASSUME ZoneOK(zone), moment \in Int,
         {Buckets!Wall(Buckets!Edges("30d")[i]) % 24 : i \in 1 .. 30} = {0}
  PROVE  \E L :
           /\ \A i \in 1 .. 31 : /\ L[i] \in Int /\ L[i] % 24 = 0 /\ (i <= 30 => L[i + 1] = L[i] + 24)
                                 /\ Buckets!Edges("30d")[i] = UtcOf(zone, L[i])
           /\ \A ab : ab \in Buckets!Blocks("30d", 4) <=> \E i \in 1 .. 30, k \in 0 .. 5 : ab = BlockOf(zone, L[i], k)
<1>1. "30d" \in Buckets!Ranges
  BY DEF Buckets!Ranges, Buckets!Steps
<1>2. PICK L, E : L = [i \in 1 .. 31 |-> Local(zone, moment, 24, 30, i)] /\ E = Buckets!Edges("30d")
  OBVIOUS
<1>3. OfRange("30d")[1] = 24 /\ OfRange("30d")[2] = 30
  BY DEF OfRange
<1>4. /\ \A i \in 1 .. 31 : Local(zone, moment, 24, 30, i) \in Int /\ Local(zone, moment, 24, 30, i) % 24 = 0
      /\ \A i \in 1 .. 30 : Local(zone, moment, 24, 30, i + 1) = Local(zone, moment, 24, 30, i) + 24
  <2>1. \A i \in 1 .. 30 + 1 :
          /\ Local(zone, moment, 24, 30, i) \in Int /\ Local(zone, moment, 24, 30, i) % 24 = 0
          /\ i <= 30 => Local(zone, moment, 24, 30, i + 1) = Local(zone, moment, 24, 30, i) + 24
    <3>1. PICK range, s, n : range = "30d" /\ s = 24 /\ n = 30
      OBVIOUS
    <3>2. range \in {"7d", "30d"} /\ s = OfRange(range)[1] /\ n = OfRange(range)[2]
      BY <1>3, <3>1
    <3>3. \A i \in 1 .. n + 1 :
            /\ Local(zone, moment, s, n, i) \in Int /\ Local(zone, moment, s, n, i) % s = 0
            /\ i <= n => Local(zone, moment, s, n, i + 1) = Local(zone, moment, s, n, i) + s
      BY <3>2, LocalsAre
    <3>4. QED
      BY <3>1, <3>3
  <2>2. QED
    BY <2>1
<1>5. \A i \in 1 .. 31 : L[i] \in Int /\ L[i] % 24 = 0 /\ (i <= 30 => L[i + 1] = L[i] + 24)
  <2>1. \A i \in 1 .. 31 : L[i] = Local(zone, moment, 24, 30, i) /\ (i <= 30 => i + 1 \in 1 .. 31 /\ i \in 1 .. 30)
    BY <1>2
  <2>2. QED
    BY <1>4, <2>1
<1>6. Buckets!Counts["30d"] = 30 /\ E = [i \in 1 .. 30 + 1 |-> UtcOf(zone, Local(zone, moment, 24, 30, i))]
  BY <1>1, <1>2, <1>3, EdgesAre
<1>7. \A i \in 1 .. 31 : E[i] = UtcOf(zone, L[i])
  BY <1>2, <1>6
<1>8. ASSUME NEW i \in 1 .. 30 PROVE Buckets!Wall(E[i]) = L[i]
  <2>1. Buckets!Wall(E[i]) = WallOf(zone, E[i])
    BY DEF Buckets!Wall, Buckets!Offset, WallOf
  <2>2. PICK w \in Int : w = L[i] /\ w % 24 = 0 /\ E[i] = UtcOf(zone, w)
    BY <1>5, <1>7
  <2>3. WallOf(zone, UtcOf(zone, w)) = w \/ WallOf(zone, UtcOf(zone, w)) = w + 1
    BY UtcSteps
  <2>4. WallOf(zone, E[i]) % 24 = 0
    BY <1>2, <2>1
  <2>5. (w + 1) % 24 # 0
    BY <2>2
  <2>6. WallOf(zone, E[i]) = w \/ WallOf(zone, E[i]) = w + 1
    BY <2>2, <2>3
  <2>7. WallOf(zone, E[i]) # w + 1
    BY ONLY <2>4, <2>5
  <2>8. QED
    BY ONLY <2>1, <2>2, <2>6, <2>7
<1>9. \A w : Buckets!ToUtc(w) = UtcOf(zone, w)
  BY DEF Buckets!ToUtc, Buckets!Larger, UtcOf
<1>10. ASSUME NEW l \in Int, NEW k \in 0 .. 5
       PROVE  /\ <<Buckets!ToUtc(l + k * 4), Buckets!ToUtc(Buckets!Smaller((l + k * 4) + 4, l + 24))>> = BlockOf(zone, l, k)
              /\ BlockOf(zone, l, k)[1] < BlockOf(zone, l, k)[2]
  <2>1. l + k * 4 = l + 4 * k /\ (l + 4 * k) + 4 <= l + 24 /\ l + 4 * k \in Int /\ (l + 4 * k) + 4 \in Int
    OBVIOUS
  <2>2. Buckets!Smaller((l + k * 4) + 4, l + 24) = (l + 4 * k) + 4
    BY <2>1 DEF Buckets!Smaller
  <2>3. PICK w \in Int : w = l + 4 * k
    BY <2>1
  <2>4. UtcOf(zone, w + 4) - UtcOf(zone, w) \in (4 - 1) .. (4 + 1) /\ UtcOf(zone, w) \in Int /\ UtcOf(zone, w + 4) \in Int
    BY UtcSteps, UtcOrders
  <2>5. UtcOf(zone, w) < UtcOf(zone, w + 4)
    BY <2>4
  <2>6. Buckets!ToUtc(l + k * 4) = UtcOf(zone, w)
    BY <1>9, <2>1, <2>3
  <2>7. Buckets!ToUtc(Buckets!Smaller((l + k * 4) + 4, l + 24)) = UtcOf(zone, w + 4)
    BY <1>9, <2>2, <2>3
  <2>8. BlockOf(zone, l, k) = <<UtcOf(zone, w), UtcOf(zone, w + 4)>>
    BY ONLY <2>3 DEF BlockOf
  <2>9. QED
    BY <2>5, <2>6, <2>7, <2>8
<1>11. PICK C : C = [i \in 1 .. 30 |->
           {<<Buckets!ToUtc(b), Buckets!ToUtc(Buckets!Smaller(b + 4, Buckets!Wall(E[i]) + 24))>> :
               b \in {Buckets!Wall(E[i]) + k * 4 : k \in 0 .. (23 \div 4)}}]
  OBVIOUS
<1>12. Buckets!Blocks("30d", 4) = {ab \in UNION {C[i] : i \in 1 .. 30} : ab[1] < ab[2]}
  BY <1>2, <1>6, <1>11 DEF Buckets!Blocks
<1>13. \A i \in 1 .. 30 : \A ab : ab \in C[i] <=> \E k \in 0 .. 5 : ab = BlockOf(zone, L[i], k)
  <2>1. SUFFICES ASSUME NEW i \in 1 .. 30 PROVE \A ab : ab \in C[i] <=> \E k \in 0 .. 5 : ab = BlockOf(zone, L[i], k)
    OBVIOUS
  <2>2. PICK l \in Int : l = L[i] /\ l = Buckets!Wall(E[i])
    BY <1>5, <1>8
  <2>3. 23 \div 4 = 5
    OBVIOUS
  <2>4. C[i] = {<<Buckets!ToUtc(l + k * 4), Buckets!ToUtc(Buckets!Smaller((l + k * 4) + 4, l + 24))>> : k \in 0 .. 5}
    BY <1>11, <2>2, <2>3
  <2>5. QED
    BY <1>10, <2>2, <2>4
<1>14. ASSUME NEW ab
       PROVE  ab \in Buckets!Blocks("30d", 4) <=> \E i \in 1 .. 30, k \in 0 .. 5 : ab = BlockOf(zone, L[i], k)
  <2>1. ASSUME NEW i \in 1 .. 30, NEW k \in 0 .. 5 PROVE BlockOf(zone, L[i], k)[1] < BlockOf(zone, L[i], k)[2]
    <3>1. PICK l \in Int : l = L[i]
      BY <1>5
    <3>2. BlockOf(zone, l, k)[1] < BlockOf(zone, l, k)[2]
      BY <1>10
    <3>3. QED
      BY <3>1, <3>2
  <2>2. ASSUME NEW i \in 1 .. 30, NEW k \in 0 .. 5, ab = BlockOf(zone, L[i], k) PROVE ab[1] < ab[2] /\ ab \in C[i]
    BY <1>13, <2>1, <2>2
  <2>3. ab \in UNION {C[i] : i \in 1 .. 30} <=> \E i \in 1 .. 30 : ab \in C[i]
    OBVIOUS
  <2>4. ab \in UNION {C[i] : i \in 1 .. 30} <=> \E i \in 1 .. 30, k \in 0 .. 5 : ab = BlockOf(zone, L[i], k)
    BY <1>13, <2>3
  <2>5. QED
    BY <1>12, <2>2, <2>4
<1>15. QED
  BY <1>2, <1>5, <1>7, <1>14

LEMMA BlocksTile ==
  ASSUME ZoneOK(zone), moment \in Int
  PROVE  Buckets!BlocksTile
<1>1. PICK E, B : E = Buckets!Edges("30d") /\ B = Buckets!Blocks("30d", 4)
  OBVIOUS
<1>2. SUFFICES ASSUME {Buckets!Wall(E[i]) % 24 : i \in 1 .. 30} = {0}
               PROVE  /\ \A ab \in B : ab[2] - ab[1] \in 3 .. 5 /\ ab[2] \in {cd[1] : cd \in B} \cup {E[31]}
                      /\ Buckets!Cardinality({ab[1] : ab \in B}) = Buckets!Cardinality(B)
  BY <1>1 DEF Buckets!BlocksTile
<1>3. PICK L :
        /\ \A i \in 1 .. 31 : /\ L[i] \in Int /\ L[i] % 24 = 0 /\ (i <= 30 => L[i + 1] = L[i] + 24)
                              /\ E[i] = UtcOf(zone, L[i])
        /\ \A ab : ab \in B <=> \E i \in 1 .. 30, k \in 0 .. 5 : ab = BlockOf(zone, L[i], k)
  <2>1. {Buckets!Wall(Buckets!Edges("30d")[i]) % 24 : i \in 1 .. 30} = {0}
    BY <1>1, <1>2
  <2>2. \E L :
          /\ \A i \in 1 .. 31 : /\ L[i] \in Int /\ L[i] % 24 = 0 /\ (i <= 30 => L[i + 1] = L[i] + 24)
                                /\ Buckets!Edges("30d")[i] = UtcOf(zone, L[i])
          /\ \A ab : ab \in Buckets!Blocks("30d", 4) <=> \E i \in 1 .. 30, k \in 0 .. 5 : ab = BlockOf(zone, L[i], k)
    BY <2>1, BlocksAre
  <2>3. QED
    BY <1>1, <2>2
<1>4. ASSUME NEW ab \in B
      PROVE  ab[2] - ab[1] \in 3 .. 5 /\ ab[2] \in {cd[1] : cd \in B} \cup {E[31]}
  <2>1. PICK i \in 1 .. 30, k \in 0 .. 5 : ab = BlockOf(zone, L[i], k)
    BY <1>3, <1>4
  <2>2. PICK l \in Int : l = L[i] /\ L[i + 1] = l + 24
    BY <1>3
  <2>3. PICK w \in Int : w = l + 4 * k
    OBVIOUS
  <2>4. ab[1] = UtcOf(zone, w) /\ ab[2] = UtcOf(zone, w + 4)
    BY <2>1, <2>2, <2>3 DEF BlockOf
  <2>5. UtcOf(zone, w + 4) - UtcOf(zone, w) \in (4 - 1) .. (4 + 1)
    BY UtcSteps
  <2>6. CASE k < 5
    <3>1. k + 1 \in 0 .. 5 /\ l + 4 * (k + 1) = w + 4
      BY <2>3, <2>6
    <3>2. BlockOf(zone, L[i], k + 1) \in B
      BY <1>3, <3>1
    <3>3. BlockOf(zone, L[i], k + 1)[1] = UtcOf(zone, w + 4)
      BY <2>2, <3>1 DEF BlockOf
    <3>4. QED
      BY <2>4, <2>5, <3>2, <3>3
  <2>7. CASE k = 5 /\ i < 30
    <3>1. i + 1 \in 1 .. 30 /\ 0 \in 0 .. 5 /\ (l + 24) + 4 * 0 = w + 4
      BY <2>3, <2>7
    <3>2. BlockOf(zone, L[i + 1], 0) \in B
      BY <1>3, <3>1
    <3>3. BlockOf(zone, L[i + 1], 0)[1] = UtcOf(zone, w + 4)
      BY <2>2, <3>1 DEF BlockOf
    <3>4. QED
      BY <2>4, <2>5, <3>2, <3>3
  <2>8. CASE k = 5 /\ i = 30
    <3>1. L[31] = w + 4
      BY <2>2, <2>3, <2>8
    <3>2. E[31] = UtcOf(zone, w + 4)
      BY <1>3, <3>1
    <3>3. QED
      BY <2>4, <2>5, <3>2
  <2>9. QED
    BY <2>6, <2>7, <2>8
<1>5. ASSUME NEW ab \in B, NEW cd \in B, ab[1] = cd[1] PROVE ab = cd
  <2>1. PICK i \in 1 .. 30, k \in 0 .. 5 : ab = BlockOf(zone, L[i], k)
    BY <1>3
  <2>2. PICK j \in 1 .. 30, m \in 0 .. 5 : cd = BlockOf(zone, L[j], m)
    BY <1>3
  <2>3. PICK l \in Int, n \in Int : l = L[i] /\ n = L[j] /\ l % 24 = 0 /\ n % 24 = 0
    <3>1. i \in 1 .. 31 /\ j \in 1 .. 31
      OBVIOUS
    <3>2. L[i] \in Int /\ L[i] % 24 = 0 /\ L[j] \in Int /\ L[j] % 24 = 0
      BY <1>3, <3>1
    <3>3. QED
      BY <3>2
  <2>4. PICK w \in Int, x \in Int : w = l + 4 * k /\ x = n + 4 * m
    OBVIOUS
  <2>5. ab = <<UtcOf(zone, w), UtcOf(zone, w + 4)>> /\ cd = <<UtcOf(zone, x), UtcOf(zone, x + 4)>>
    BY <2>1, <2>2, <2>3, <2>4 DEF BlockOf
  <2>6. w - x \in -1 .. 1
    <3>1. UtcOf(zone, w) = UtcOf(zone, x)
      BY <1>5, <2>5
    <3>2. QED
      BY <3>1, UtcDistinct
  <2>7. PICK p \in Int, q \in Int : l = 24 * p /\ n = 24 * q
    <3>1. \A v \in Int : v % 24 = 0 => \E p \in Int : v = 24 * p
      OBVIOUS
    <3>2. (\E p \in Int : l = 24 * p) /\ (\E q \in Int : n = 24 * q)
      BY <2>3, <3>1
    <3>3. QED
      BY <3>2
  <2>8. w = x
    BY <2>4, <2>6, <2>7
  <2>9. QED
    BY <2>5, <2>8
<1>6. PICK f : f = [ab \in B |-> ab[1]]
  OBVIOUS
<1>7. PICK T : T = {ab[1] : ab \in B}
  OBVIOUS
<1>8. f \in Bijection(B, T)
  BY <1>5, <1>6, <1>7 DEF Bijection, Injection, Surjection, IsInjective
<1>9. IsFiniteSet(B)
  <2>1. PICK S : S = (1 .. 30) \X (0 .. 5)
    OBVIOUS
  <2>2. PICK g : g = [ik \in S |-> BlockOf(zone, L[ik[1]], ik[2])]
    OBVIOUS
  <2>3. g \in Surjection(S, B)
    <3>1. \A ik \in S : ik[1] \in 1 .. 30 /\ ik[2] \in 0 .. 5
      BY <2>1
    <3>2. \A ik \in S : g[ik] \in B
      BY <1>3, <2>2, <3>1
    <3>3. ASSUME NEW ab \in B PROVE \E ik \in S : g[ik] = ab
      <4>1. PICK i \in 1 .. 30, k \in 0 .. 5 : ab = BlockOf(zone, L[i], k)
        BY <1>3
      <4>2. <<i, k>> \in S
        BY <2>1
      <4>3. g[<<i, k>>] = ab
        BY <2>2, <4>1, <4>2
      <4>4. QED
        BY <4>2, <4>3
    <3>4. g \in [S -> B]
      BY <2>2, <3>2
    <3>5. QED
      BY <3>3, <3>4 DEF Surjection
  <2>4. IsFiniteSet(S)
    <3>1. PICK a \in Int, b \in Int, c \in Int, d \in Int : a = 1 /\ b = 30 /\ c = 0 /\ d = 5
      OBVIOUS
    <3>2. IsFiniteSet(a .. b) /\ IsFiniteSet(c .. d)
      BY FS_Interval
    <3>3. IsFiniteSet((a .. b) \X (c .. d))
      BY <3>2, FS_Product
    <3>4. S = (a .. b) \X (c .. d)
      BY <2>1, <3>1
    <3>5. QED
      BY <3>3, <3>4
  <2>5. QED
    BY <2>3, <2>4, FS_Surjection
<1>10. Cardinality(T) = Cardinality(B)
  BY <1>8, <1>9, FS_Bijection DEF ExistsBijection
<1>11. Buckets!Cardinality(T) = Cardinality(T) /\ Buckets!Cardinality(B) = Cardinality(B)
  BY DEF Buckets!Cardinality, Cardinality
<1>12. QED
  BY <1>4, <1>7, <1>10, <1>11

-----------------------------------------------------------------------------
(* The theorems about the periods.                                          *)

PeriodsOK == part = "periods" => zone \in Zones /\ moment \in Int

LEMMA ZonesAre ==
  ASSUME NEW z \in Zones
  PROVE  ZoneOK(z)
BY ZonesAssumption DEF ZoneOK

LEMMA PeriodsStep ==
  ASSUME PeriodsOK, [ServerNext]_<<part, ingestVars, readVars, importVars, periodVars, evaluationVars, feedVars, floodVars, twinVars>>
  PROVE  PeriodsOK'
BY DEF PeriodsOK, ServerNext, Buckets!Next, Buckets!Tick, periodVars

LEMMA PeriodsInit ==
  ASSUME ServerInit
  PROVE  PeriodsOK
BY ZonesAssumption DEF PeriodsOK, ServerInit, Buckets!Init

(* Every hour of a period is in one bucket, and each bucket starts at its     *)
(* local time; and so are the hours of a day in its blocks - in every zone,  *)
(* at every moment, before, in and after a change of the clocks by an hour,  *)
(* forward or back. (api/app/v2/periods.py: period(), blocks())             *)
THEOREM BucketsAlwaysTile ==
  ServerSpec => []BucketsTile
<1>1. PeriodsOK => BucketsTile
  <2>1. SUFFICES ASSUME ZoneOK(zone), moment \in Int PROVE Buckets!BucketsTile
    BY ZonesAre DEF PeriodsOK, BucketsTile
  <2>2. QED
    BY <2>1, RangeTiles, BlocksTile DEF Buckets!BucketsTile
<1>2. QED
  BY <1>1, PeriodsInit, PeriodsStep, PTL DEF ServerSpec

\* The edges and the epoch of a range, for any zone and moment.
EdgesOf(range, z, t) ==
  IF range = "24h" THEN [i \in 1 .. 25 |-> t - (24 - i)]
  ELSE [i \in 1 .. OfRange(range)[2] + 1 |-> UtcOf(z, Local(z, t, OfRange(range)[1], OfRange(range)[2], i))]

EpochIs(range, z, t) == IF range = "24h" THEN t ELSE UtcOf(z, LastEdge(z, t, OfRange(range)[1]))

EdgesHold ==
  moment \in Int /\ ZoneOK(zone) =>
    \A range \in Buckets!Ranges :
      Buckets!Edges(range) = EdgesOf(range, zone, moment) /\ Buckets!Epoch(range) = EpochIs(range, zone, moment)

LEMMA EdgesAreSo ==
  EdgesHold
<1>1. SUFFICES ASSUME moment \in Int, ZoneOK(zone), NEW range \in Buckets!Ranges
      PROVE  Buckets!Edges(range) = EdgesOf(range, zone, moment) /\ Buckets!Epoch(range) = EpochIs(range, zone, moment)
  BY DEF EdgesHold
<1>2. Buckets!Edges(range) = EdgesOf(range, zone, moment)
  BY EdgesAre DEF EdgesOf
<1>3. CASE range = "24h"
  <2>1. EdgesOf(range, zone, moment)[24] = moment
    BY <1>1, <1>3 DEF EdgesOf
  <2>2. QED
    BY <1>2, <1>3, <2>1, EdgesAre DEF EpochIs, Buckets!Epoch
<1>4. CASE range # "24h"
  <2>1. PICK s, n : s = OfRange(range)[1] /\ n = OfRange(range)[2]
    OBVIOUS
  <2>2. range \in {"7d", "30d"} /\ Buckets!Counts[range] = n
    BY <1>4, <2>1, EdgesAre
  <2>3. n \in {28, 30} /\ Local(zone, moment, s, n, n) = LastEdge(zone, moment, s)
    BY <1>1, <2>1, <2>2, LocalsAre
  <2>4. EdgesOf(range, zone, moment)[n] = UtcOf(zone, Local(zone, moment, s, n, n))
    BY <1>4, <2>1, <2>3 DEF EdgesOf
  <2>5. QED
    BY <1>2, <1>4, <2>1, <2>2, <2>3, <2>4 DEF EpochIs, Buckets!Epoch
<1>5. QED
  BY <1>2, <1>3, <1>4

(* The start of the current bucket, which is all a tag holds of the          *)
(* boundaries, names them: from one hour to the next it stays only when all  *)
(* edges stay, around a change of the clocks too.                            *)
THEOREM EpochsNameBoundaries ==
  ServerSpec => EpochNamesBoundaries
<1>1. EdgesHold
  BY EdgesAreSo
<1>2. ASSUME PeriodsOK, [ServerNext]_<<part, ingestVars, readVars, importVars, periodVars, evaluationVars, feedVars, floodVars, twinVars>>, EdgesHold, EdgesHold'
      PROVE  [Buckets!Tick => \A range \in Buckets!Ranges :
                Buckets!Epoch(range)' = Buckets!Epoch(range) => Buckets!Edges(range)' = Buckets!Edges(range)]_(Buckets!vars)
  <2>1. CASE UNCHANGED periodVars
    BY <2>1 DEF periodVars, Buckets!vars
  <2>2. CASE part = "periods" /\ Buckets!Next
    <3>1. zone \in Zones /\ ZoneOK(zone) /\ moment \in Int /\ zone' = zone /\ moment' = moment + 1
      BY <1>2, <2>2, ZonesAre DEF PeriodsOK, Buckets!Next, Buckets!Tick
    <3>2. ASSUME NEW range \in Buckets!Ranges, Buckets!Epoch(range)' = Buckets!Epoch(range)
          PROVE  Buckets!Edges(range)' = Buckets!Edges(range)
      <4>1. /\ Buckets!Epoch(range) = EpochIs(range, zone, moment) /\ Buckets!Edges(range) = EdgesOf(range, zone, moment)
            /\ Buckets!Epoch(range)' = EpochIs(range, zone, moment + 1)
            /\ Buckets!Edges(range)' = EdgesOf(range, zone, moment + 1)
        BY <1>2, <3>1 DEF EdgesHold
      <4>2. range # "24h"
        <5>1. ASSUME range = "24h" PROVE moment = moment + 1
          BY <3>2, <4>1, <5>1 DEF EpochIs
        <5>2. QED
          BY <3>1, <5>1
      <4>3. PICK s : s = OfRange(range)[1]
        OBVIOUS
      <4>4. s \in {6, 24}
        BY <4>3 DEF OfRange
      <4>5. UtcOf(zone, LastEdge(zone, moment, s)) = UtcOf(zone, LastEdge(zone, moment + 1, s))
        BY <3>2, <4>1, <4>2, <4>3 DEF EpochIs
      <4>6. PICK u \in Int : u = moment + 1
        BY <3>1
      <4>7. LastEdge(zone, moment, s) = LastEdge(zone, u, s)
        BY <3>1, <4>4, <4>5, <4>6, EpochNames
      <4>8. EdgesOf(range, zone, moment) = EdgesOf(range, zone, u)
        BY <4>2, <4>3, <4>7 DEF EdgesOf, Local
      <4>9. QED
        BY <4>1, <4>6, <4>8
    <3>3. QED
      BY <3>2
  <2>3. QED
    BY <1>2, <2>1, <2>2 DEF ServerNext
<1>3. QED
  BY <1>1, <1>2, PeriodsInit, PeriodsStep, EdgesAreSo, PTL DEF ServerSpec, EpochNamesBoundaries, Buckets!EpochNamesBoundaries

-----------------------------------------------------------------------------
(* Finite sets in order.                                                    *)

Orders(R, S) ==
  /\ \A x \in S : <<x, x>> \notin R
  /\ \A x, y, z \in S : <<x, y>> \in R /\ <<y, z>> \in R => <<x, z>> \in R
  /\ \A x, y \in S : x = y \/ <<x, y>> \in R \/ <<y, x>> \in R

\* Of a finite set in order one is the last.
LEMMA LastOf ==
  ASSUME NEW R, NEW S, IsFiniteSet(S), S # {}, Orders(R, S)
  PROVE  \E m \in S : \A x \in S \ {m} : <<x, m>> \in R
<1> DEFINE Has(A) == \E m \in A : \A x \in A \ {m} : <<x, m>> \in R
           Bad == {n \in Nat : \E A : IsFiniteSet(A) /\ Cardinality(A) = n /\ A # {} /\ Orders(R, A) /\ ~Has(A)}
<1>1. SUFFICES ASSUME ~Has(S) PROVE FALSE
  OBVIOUS
<1>2. Cardinality(S) \in Bad
  BY <1>1, FS_CardinalityType
<1>3. PICK n \in Bad : \A k \in Bad : n <= k
  <2>1. Bad \in SUBSET Nat /\ Bad # {}
    BY <1>2
  <2> HIDE DEF Bad
  <2>2. QED
    BY <2>1, LeastOfSet
<1>4. PICK A : IsFiniteSet(A) /\ Cardinality(A) = n /\ A # {} /\ Orders(R, A) /\ ~Has(A)
  BY <1>3
<1>5. PICK a \in A : TRUE
  BY <1>4
<1> DEFINE B == A \ {a}
<1>6. IsFiniteSet(B) /\ Cardinality(B) = n - 1 /\ n \in Nat
  BY <1>3, <1>4, <1>5, FS_RemoveElement
<1>7. Orders(R, B)
  BY <1>4 DEF Orders
<1>8. CASE B = {}
  BY <1>4, <1>5, <1>8
<1>9. CASE B # {}
  <2>1. n - 1 \in Nat
    BY <1>6, <1>9, FS_CardinalityType
  <2>2. n - 1 \notin Bad
    BY <1>3, <1>6
  <2>3. Has(B)
    BY <1>6, <1>7, <1>9, <2>1, <2>2
  <2>4. PICK m \in B : \A x \in B \ {m} : <<x, m>> \in R
    BY <2>3
  <2>5. CASE <<a, m>> \in R
    BY <1>4, <2>4, <2>5
  <2>6. CASE <<m, a>> \in R
    <3>1. \A x \in A \ {a} : <<x, a>> \in R
      BY <1>4, <1>5, <2>4, <2>6 DEF Orders
    <3>2. QED
      BY <1>4, <1>5, <3>1
  <2>7. QED
    BY <1>4, <1>5, <2>4, <2>5, <2>6 DEF Orders
<1>10. QED
  BY <1>8, <1>9

\* A finite set in order is a sequence.
LEMMA SequenceOf ==
  ASSUME NEW R, NEW S, IsFiniteSet(S), Orders(R, S)
  PROVE  \E f \in [1..Cardinality(S) -> S] : \A i, j \in 1..Cardinality(S) : i < j => <<f[i], f[j]>> \in R
<1> DEFINE Has(A) == \E f \in [1..Cardinality(A) -> A] : \A i, j \in 1..Cardinality(A) : i < j => <<f[i], f[j]>> \in R
           Bad == {n \in Nat : \E A : IsFiniteSet(A) /\ Cardinality(A) = n /\ Orders(R, A) /\ ~Has(A)}
<1>1. SUFFICES ASSUME ~Has(S) PROVE FALSE
  OBVIOUS
<1>2. Cardinality(S) \in Bad
  BY <1>1, FS_CardinalityType
<1>3. PICK n \in Bad : \A k \in Bad : n <= k
  <2>1. Bad \in SUBSET Nat /\ Bad # {}
    BY <1>2
  <2> HIDE DEF Bad
  <2>2. QED
    BY <2>1, LeastOfSet
<1>4. PICK A : IsFiniteSet(A) /\ Cardinality(A) = n /\ Orders(R, A) /\ ~Has(A)
  BY <1>3
<1>5. CASE A = {}
  <2>1. Cardinality(A) = 0
    BY <1>5, FS_EmptySet
  <2>2. \A i \in 1..Cardinality(A) : FALSE
    BY <2>1
  <2>3. PICK f : f = [i \in 1..Cardinality(A) |-> i]
    OBVIOUS
  <2>4. f \in [1..Cardinality(A) -> A]
    BY <2>2, <2>3
  <2>5. QED
    BY <1>4, <2>2, <2>4
<1>6. CASE A # {}
  <2>1. PICK m \in A : \A x \in A \ {m} : <<x, m>> \in R
    BY <1>4, <1>6, LastOf
  <2> DEFINE B == A \ {m}
  <2>2. IsFiniteSet(B) /\ Cardinality(B) = n - 1 /\ n \in Nat
    BY <1>3, <1>4, <2>1, FS_RemoveElement
  <2>3. n - 1 \in Nat
    BY <2>2, FS_CardinalityType
  <2>4. Orders(R, B)
    BY <1>4 DEF Orders
  <2>5. Has(B)
    <3>1. n - 1 \notin Bad
      BY <1>3, <2>2
    <3>2. QED
      BY <2>2, <2>3, <2>4, <3>1
  <2>6. PICK f \in [1..n - 1 -> B] : \A i, j \in 1..n - 1 : i < j => <<f[i], f[j]>> \in R
    BY <2>2, <2>5
  <2> DEFINE g == [i \in 1..n |-> IF i = n THEN m ELSE f[i]]
  <2>7. g \in [1..n -> A]
    BY <2>2, <2>3, <2>6
  <2>8. ASSUME NEW i \in 1..n, NEW j \in 1..n, i < j PROVE <<g[i], g[j]>> \in R
    <3>1. i \in 1..n - 1 /\ i # n /\ f[i] \in B /\ g[i] = f[i]
      BY <2>2, <2>6, <2>8
    <3>2. CASE j = n
      BY <2>1, <3>1, <3>2
    <3>3. CASE j # n
      BY <2>2, <2>6, <2>8, <3>1, <3>3
    <3>4. QED
      BY <3>2, <3>3
  <2>9. QED
    BY <1>4, <2>7, <2>8
<1>7. QED
  BY <1>5, <1>6

\* And every member is in it.
LEMMA SequenceHasAll ==
  ASSUME NEW R, NEW S, IsFiniteSet(S), Orders(R, S), NEW f \in [1..Cardinality(S) -> S],
         \A i, j \in 1..Cardinality(S) : i < j => <<f[i], f[j]>> \in R
  PROVE  \A x \in S : \E i \in 1..Cardinality(S) : f[i] = x
<1>1. PICK n \in Nat : n = Cardinality(S)
  BY FS_CardinalityType
<1>2. f \in Injection(1..n, S)
  <2>1. ASSUME NEW i \in 1..n, NEW j \in 1..n, f[i] = f[j] PROVE i = j
    <3>1. i \in Int /\ j \in Int /\ f[i] \in S
      BY <1>1
    <3>2. ~(i < j) /\ ~(j < i)
      BY <1>1, <2>1, <3>1 DEF Orders
    <3>3. QED
      BY <3>1, <3>2
  <2>2. QED
    BY <1>1, <2>1 DEF Injection, IsInjective
<1>3. Cardinality(1..n) = n
  <2>1. PICK a \in Int, b \in Int : a = 1 /\ b = n
    BY <1>1
  <2>2. Cardinality(a..b) = IF a > b THEN 0 ELSE b - a + 1
    BY FS_Interval
  <2>3. QED
    BY <1>1, <2>1, <2>2
<1>4. f \in Surjection(1..n, S)
  BY <1>1, <1>2, <1>3, FS_Injection
<1>5. QED
  BY <1>1, <1>4 DEF Surjection

-----------------------------------------------------------------------------
(* Evaluation: a report that fits its trials and detections.                *)

\* A trial lasts, and its id tells it from the others; a detection has one date
\* at the most, and in the database it was fetched and its id tells it from the
\* others.
EvaluationInv ==
  /\ IsFiniteSet(trials) /\ IsFiniteSet(detections)
  /\ \A t \in trials : t.start \in Int /\ t.stop \in Int /\ t.start < t.stop
  /\ \A t \in trials : t.id \in Int
  /\ \A s, t \in trials : s.id = t.id => s = t
  /\ \A d \in detections : d.dated = {} \/ \E ts \in TrialTimes : d.dated = {ts}
  /\ source = "database" =>
       /\ \A d \in detections : d.id \in 1..Cardinality(detections)
       /\ \A d, e \in detections : d.id = e.id => d = e
       /\ \A d \in detections : d.dated \subseteq Report!Fetched

\* The evaluation counts as its proof does.
LEMMA TrialsAreCounted ==
  \A S : Report!Cardinality(S) = Cardinality(S)
BY DEF Report!Cardinality, Cardinality

LEMMA StageStep ==
  ASSUME EvaluationInv, NEW id \in 1..MaxTrials, NEW start \in TrialTimes, NEW duration \in Durations,
         NEW kind \in Stagings, Report!Stage(id, start, duration, kind)
  PROVE  EvaluationInv'
<1> DEFINE t == [id |-> id, start |-> start, stop |-> start + duration, type |-> kind.type, attack |-> kind.attack,
                 target |-> kind.target]
<1>1. /\ t.start < t.stop /\ \A s \in trials : s.id # id
      /\ trials' = trials \cup {t} /\ UNCHANGED <<source, detections>>
  BY DEF Report!Stage, Report!Valid
<1>2. t.start = start /\ t.start \in Int /\ t.stop \in Int /\ t.id = id /\ id \in Int
  BY TrialsAssumption
<1> HIDE DEF t
<1>3. IsFiniteSet(trials')
  BY <1>1, FS_AddElement DEF EvaluationInv
<1>4. /\ \A u \in trials' : u.start \in Int /\ u.stop \in Int /\ u.start < u.stop /\ u.id \in Int
      /\ \A s, u \in trials' : s.id = u.id => s = u
  BY <1>1, <1>2 DEF EvaluationInv
<1>5. QED
  BY <1>1, <1>3, <1>4 DEF EvaluationInv, Report!Fetched

LEMMA DetectStep ==
  ASSUME EvaluationInv, NEW bssid, NEW dated, dated = {} \/ \E ts \in TrialTimes : dated = {ts},
         Report!Detect(bssid, dated)
  PROVE  EvaluationInv'
<1> DEFINE n == Cardinality(detections)
           d == [id |-> Report!IdOf(n + 1), bssid |-> bssid, dated |-> dated]
<1>1. /\ detections' = detections \cup {d} /\ UNCHANGED <<source, trials>>
      /\ source = "database" => dated \subseteq Report!Fetched
  BY TrialsAreCounted DEF Report!Detect
<1>2. n \in Nat
  BY FS_CardinalityType DEF EvaluationInv
<1>3. IsFiniteSet(detections') /\ Cardinality(detections') = IF d \in detections THEN n ELSE n + 1
  BY <1>1, FS_AddElement DEF EvaluationInv
<1>4. ASSUME source' = "database"
      PROVE  /\ \A e \in detections' : e.id \in 1..Cardinality(detections')
             /\ \A e, f \in detections' : e.id = f.id => e = f
             /\ \A e \in detections' : e.dated \subseteq Report!Fetched
  <2>0. \A e \in detections' : e.dated \subseteq Report!Fetched
    BY <1>1, <1>4 DEF EvaluationInv
  <2>1. source = "database" /\ d.id = n + 1
    BY <1>1, <1>4 DEF Report!IdOf
  <2>2. \A e \in detections : e.id \in 1..n
    BY <2>1 DEF EvaluationInv
  <2>3. \A e, f \in detections : e.id = f.id => e = f
    BY <2>1 DEF EvaluationInv
  <2> HIDE DEF d, n
  <2>4. d \notin detections
    BY <1>2, <2>1, <2>2
  <2>5. Cardinality(detections') = n + 1
    BY <1>3, <2>4
  <2>6. \A e \in detections' : e.id \in 1..n + 1
    BY <1>1, <1>2, <2>1, <2>2
  <2>7. \A e, f \in detections' : e.id = f.id => e = f
    BY <1>1, <1>2, <2>1, <2>2, <2>3
  <2>8. QED
    BY <2>0, <2>5, <2>6, <2>7
<1>5. \A e \in detections' : e.dated = {} \/ \E ts \in TrialTimes : e.dated = {ts}
  BY <1>1 DEF EvaluationInv
<1>6. /\ \A u \in trials' : u.start \in Int /\ u.stop \in Int /\ u.start < u.stop /\ u.id \in Int
      /\ IsFiniteSet(trials') /\ \A s, u \in trials' : s.id = u.id => s = u
  BY <1>1 DEF EvaluationInv
<1> HIDE DEF d, n
<1>7. QED
  BY <1>3, <1>4, <1>5, <1>6 DEF EvaluationInv, Report!Fetched

\* The one date of a detection.
LEMMA DateOf ==
  ASSUME EvaluationInv, NEW d \in detections, Report!EarliestTs(d) # None
  PROVE  Report!EarliestTs(d) \in TrialTimes
<1>1. PICK ts \in TrialTimes : d.dated = {ts}
  BY DEF EvaluationInv, Report!EarliestTs
<1>2. Report!Min({ts}) = ts
  <2>1. ts \in Int
    BY TrialsAssumption
  <2>2. QED
    BY <2>1 DEF Report!Min
<1>3. QED
  BY <1>1, <1>2 DEF Report!EarliestTs

LEMMA OneTrialEach ==
  ASSUME EvaluationInv, Report!Spaced, NEW d \in detections
  PROVE  Cardinality({t \in Report!Own : d \in Report!Matches(t)}) <= 1
<1> DEFINE M == {t \in Report!Own : d \in Report!Matches(t)}
<1>1. ASSUME NEW s \in M, NEW t \in M, t.start - s.stop > Pre + Post PROVE FALSE
  <2>1. PICK e : e = Report!EarliestTs(d)
    OBVIOUS
  <2>2. e \in s.start - Pre..s.stop + Post /\ e \in t.start - Pre..t.stop + Post
    BY <2>1 DEF Report!Matches, Report!MatchTrial
  <2>3. s \in trials /\ t \in trials /\ t.start - s.stop > Pre + Post
    BY <1>1 DEF Report!Own
  <2>4. \A x \in {s, t} : x.start \in Int /\ x.stop \in Int
    BY <2>3 DEF EvaluationInv
  <2>5. Pre \in Int /\ Post \in Int
    BY TrialsAssumption
  <2>6. PICK a \in Int, b \in Int, c \in Int : a = s.stop /\ b = t.start /\ c = t.stop
    BY <2>4
  <2>7. QED
    BY <2>2, <2>3, <2>4, <2>5, <2>6
<1>2. ASSUME NEW s \in M, NEW t \in M PROVE s = t
  <2>1. s # t => t.start - s.stop > Pre + Post \/ s.start - t.stop > Pre + Post
    BY DEF Report!Spaced
  <2> HIDE DEF M
  <2>2. QED
    BY <1>1, <2>1
<1>3. CASE M = {}
  BY <1>3, FS_EmptySet
<1>4. CASE M # {}
  <2>1. PICK t : M = {t}
    BY <1>2, <1>4
  <2>2. Cardinality(M) = 1
    BY <2>1, FS_Singleton
  <2>3. QED
    BY <2>2
<1>5. QED
  BY <1>3, <1>4

\* Neighbours in the order of their starts are enough to compare.
LEMMA OverlapsAreFound ==
  ASSUME EvaluationInv
  PROVE  (Report!Overlaps(Report!Ordered) = {})
           <=> (\A s, t \in Report!Own : s # t => s.stop <= t.start \/ t.stop <= s.start)
<1> DEFINE S == Report!Own
           Before(s, t) == s.start < t.start \/ (s.start = t.start /\ s.id < t.id)
           R == {p \in S \X S : Before(p[1], p[2])}
<1>1. S \subseteq trials /\ IsFiniteSet(S)
  BY FS_Subset DEF EvaluationInv, Report!Own
<1>2. \A t \in S : t.start \in Int /\ t.stop \in Int /\ t.start < t.stop /\ t.id \in Int
  BY <1>1 DEF EvaluationInv
<1>3. \A s, t \in S : s.id = t.id => s = t
  BY <1>1 DEF EvaluationInv
<1>4. PICK n \in Nat : n = Cardinality(S)
  BY <1>1, FS_CardinalityType
<1> DEFINE Sorted(f) == \A i, j \in DOMAIN f : i < j => Before(f[i], f[j])
<1>5. Report!Ordered = CHOOSE ordered \in [1..n -> S] : Sorted(ordered)
  BY <1>4, TrialsAreCounted DEF Report!Ordered, Report!Before
<1> HIDE DEF S
<1>6. \A s, t \in S : <<s, t>> \in R <=> Before(s, t)
  OBVIOUS
<1> HIDE DEF R
<1>7. Orders(R, S)
  <2>1. \A x, y, z \in S : Before(x, y) /\ Before(y, z) => Before(x, z)
    <3>1. SUFFICES ASSUME NEW x \in S, NEW y \in S, NEW z \in S, Before(x, y), Before(y, z) PROVE Before(x, z)
      OBVIOUS
    <3>2. QED
      BY <1>2, <3>1
  <2>2. \A x, y \in S : x = y \/ Before(x, y) \/ Before(y, x)
    <3>1. SUFFICES ASSUME NEW x \in S, NEW y \in S, x # y PROVE Before(x, y) \/ Before(y, x)
      OBVIOUS
    <3>2. x.id # y.id
      BY <1>3, <3>1
    <3>3. QED
      BY <1>2, <3>2
  <2>3. \A x \in S : ~Before(x, x)
    BY <1>2
  <2> HIDE DEF Before
  <2>4. QED
    BY <1>6, <2>1, <2>2, <2>3 DEF Orders
<1>8. \E f \in [1..n -> S] : Sorted(f)
  <2> HIDE DEF Before
  <2>1. PICK f \in [1..n -> S] : \A i, j \in 1..n : i < j => <<f[i], f[j]>> \in R
    BY <1>1, <1>4, <1>7, SequenceOf
  <2>2. DOMAIN f = 1..n /\ \A i \in 1..n : f[i] \in S
    OBVIOUS
  <2>3. Sorted(f)
    BY <1>6, <2>1, <2>2
  <2>4. QED
    BY <2>3
<1>9. PICK ordered \in [1..n -> S] : Sorted(ordered) /\ ordered = Report!Ordered
  BY <1>5, <1>8
<1>10. DOMAIN ordered = 1..n /\ Len(ordered) = n /\ \A i \in 1..n : ordered[i] \in S
  <2>1. ordered \in Seq(S)
    BY <1>9, IsASeq
  <2>2. QED
    BY <1>9, <2>1, LenProperties
<1>11. \A t \in S : \E i \in 1..n : ordered[i] = t
  <2> HIDE DEF Before
  <2>1. \A i, j \in 1..n : i < j => <<ordered[i], ordered[j]>> \in R
    BY <1>6, <1>9, <1>10
  <2>2. QED
    BY <1>1, <1>4, <1>7, <2>1, SequenceHasAll
<1>12. Report!Overlaps(ordered) = {i \in 2..n : ordered[i].start < ordered[i - 1].stop}
  BY <1>10 DEF Report!Overlaps
<1>13. ASSUME NEW i \in 1..n, NEW j \in 1..n, i < j
       PROVE  ordered[i].start <= ordered[j].start /\ ordered[i] # ordered[j]
  <2>1. Before(ordered[i], ordered[j]) /\ ordered[i] \in S /\ ordered[j] \in S
    BY <1>9, <1>10, <1>13
  <2>2. QED
    BY <1>2, <2>1
<1>14. ASSUME Report!Overlaps(ordered) = {}, NEW i \in 1..n, NEW j \in 1..n, i < j
       PROVE  ordered[i].stop <= ordered[j].start
  <2>1. i + 1 \in 2..n /\ i + 1 \in 1..n /\ i + 1 - 1 = i
    BY <1>14
  <2>2. ~(ordered[i + 1].start < ordered[i].stop)
    BY <1>12, <1>14, <2>1
  <2>3. i + 1 = j \/ i + 1 < j
    BY <1>14
  <2>4. ordered[i + 1].start \in Int /\ ordered[i].stop \in Int /\ ordered[j].start \in Int
    BY <1>2, <1>10, <2>1
  <2>5. ordered[i + 1].start <= ordered[j].start
    BY <1>13, <2>1, <2>3, <2>4
  <2>6. QED
    BY <2>2, <2>4, <2>5
<1>15. ASSUME Report!Overlaps(ordered) = {}, NEW s \in S, NEW t \in S, s # t
       PROVE  s.stop <= t.start \/ t.stop <= s.start
  <2>1. PICK i \in 1..n, j \in 1..n : ordered[i] = s /\ ordered[j] = t
    BY <1>11
  <2>2. i < j \/ j < i
    BY <1>15, <2>1
  <2>3. QED
    BY <1>14, <1>15, <2>1, <2>2
<1>16. ASSUME \A s, t \in S : s # t => s.stop <= t.start \/ t.stop <= s.start, NEW i \in 2..n
       PROVE  ~(ordered[i].start < ordered[i - 1].stop)
  <2>1. i - 1 \in 1..n /\ i \in 1..n /\ i - 1 < i
    BY <1>4
  <2>2. PICK s \in S, t \in S : s = ordered[i - 1] /\ t = ordered[i]
    BY <1>10, <2>1
  <2>3. s.start <= t.start /\ s # t
    BY <1>13, <2>1, <2>2
  <2>4. s.stop <= t.start \/ t.stop <= s.start
    BY <1>16, <2>3
  <2>5. s.start \in Int /\ s.stop \in Int /\ t.start \in Int /\ t.stop \in Int /\ t.start < t.stop
    BY <1>2
  <2>6. ~(t.start < s.stop)
    BY <2>3, <2>4, <2>5
  <2>7. QED
    BY <2>2, <2>6
<1>17. (Report!Overlaps(ordered) = {}) <=> (\A s, t \in S : s # t => s.stop <= t.start \/ t.stop <= s.start)
  BY <1>12, <1>15, <1>16
<1>18. QED
  BY <1>9, <1>17 DEF S

LEMMA FalsePositivesAreClean ==
  ASSUME EvaluationInv, trials = Report!Own, source = "database", NEW d \in Report!FalsePositives
  PROVE  Report!EarliestTs(d) \in Report!CleanPolls \cup (Report!Fetched \ Report!InWindow)
<1>1. d \in detections /\ Report!EarliestTs(d) # None /\ ~Report!NearAnyTrial(Report!EarliestTs(d))
  BY DEF Report!FalsePositives, Report!Unmatched, Report!Strays
<1>2. Report!EarliestTs(d) \in TrialTimes
  BY <1>1, DateOf
<1>3. Report!EarliestTs(d) \in Report!Fetched
  <2>1. PICK ts \in TrialTimes : d.dated = {ts}
    BY <1>1 DEF EvaluationInv, Report!EarliestTs
  <2>2. Report!Min({ts}) = ts
    <3>1. ts \in Int
      BY TrialsAssumption
    <3>2. QED
      BY <3>1 DEF Report!Min
  <2>3. Report!EarliestTs(d) = ts
    BY <2>1, <2>2 DEF Report!EarliestTs
  <2>4. ts \in Report!Fetched
    BY <1>1, <2>1 DEF EvaluationInv
  <2>5. QED
    BY <2>3, <2>4
<1>4. PICK ts \in Report!Fetched : ts = Report!EarliestTs(d)
  BY <1>3
<1>5. CASE ts \in Report!InWindow
  <2>1. ts \in Report!Polls
    BY <1>5 DEF Report!Polls
  <2>2. \A t \in Report!Attacks : ts \notin t.start - Guard..t.stop + Guard
    BY <1>1, <1>4 DEF Report!NearAnyTrial, Report!Attacks
  <2>3. QED
    BY <1>4, <2>1, <2>2 DEF Report!CleanPolls
<1>6. QED
  BY <1>4, <1>5

LEMMA OrganicIsCounted ==
  ASSUME EvaluationInv, trials = Report!Own, source = "database", trials = Report!Attacks,
         NEW d \in detections, d.bssid \notin Report!Targets, Report!EarliestTs(d) \in Report!CleanPolls
  PROVE  d \in Report!FalsePositives
<1>1. d.id \notin Report!MatchedIds
  <2>1. SUFFICES ASSUME d.id \in Report!MatchedIds PROVE FALSE
    OBVIOUS
  <2>2. PICK t \in Report!Own : \E e \in Report!Matches(t) : e.id = d.id
    BY <2>1 DEF Report!MatchedIds
  <2>3. PICK e \in Report!Matches(t) : e \in detections /\ e = d
    BY <2>2 DEF EvaluationInv, Report!Matches
  <2>4. t.target # None /\ d.bssid = t.target
    BY <2>2, <2>3 DEF Report!Matches, Report!MatchTrial
  <2>5. d.bssid \in Report!Targets
    BY <2>2, <2>4 DEF Report!Targets
  <2>6. QED
    BY <2>5
<1>2. Report!EarliestTs(d) # None /\ ~Report!NearAnyTrial(Report!EarliestTs(d))
  <2>1. Report!EarliestTs(d) \in TrialTimes
    BY DEF Report!CleanPolls, Report!Polls, Report!InWindow
  <2>2. QED
    BY <2>1, TrialsAssumption DEF Report!CleanPolls, Report!NearAnyTrial
<1>3. QED
  BY <1>1, <1>2 DEF Report!FalsePositives, Report!Unmatched, Report!Strays

LEMMA HonestFromInv ==
  ASSUME EvaluationInv
  PROVE  Report!ReportIsHonest
<1>1. Report!Spaced => \A d \in detections : Cardinality({t \in Report!Own : d \in Report!Matches(t)}) <= 1
  BY OneTrialEach
<1>2. \A t \in Report!Own : Report!Matches(t) \cap Report!FalsePositives = {}
  <2>1. SUFFICES ASSUME NEW t \in Report!Own, NEW d \in Report!Matches(t), d \in Report!FalsePositives PROVE FALSE
    OBVIOUS
  <2>2. d.id \in Report!MatchedIds
    BY DEF Report!MatchedIds
  <2>3. QED
    BY <2>1, <2>2 DEF Report!FalsePositives, Report!Unmatched, Report!Strays
<1>3. (Report!Overlaps(Report!Ordered) = {})
        <=> (\A s, t \in Report!Own : s # t => s.stop <= t.start \/ t.stop <= s.start)
  BY OverlapsAreFound
<1>4. (trials = Report!Own /\ source = "database") =>
        \A d \in Report!FalsePositives :
          Report!EarliestTs(d) \in Report!CleanPolls \cup (Report!Fetched \ Report!InWindow)
  BY FalsePositivesAreClean
<1>5. (trials = Report!Own /\ source = "database" /\ trials = Report!Attacks) =>
        \A d \in detections : (d.bssid \notin Report!Targets /\ Report!EarliestTs(d) \in Report!CleanPolls) =>
                                d \in Report!FalsePositives
  BY OrganicIsCounted
<1>6. QED
  BY <1>1, <1>2, <1>3, <1>4, <1>5, TrialsAreCounted DEF Report!ReportIsHonest

(* What the evaluation reports of a detector fits its trials: with spaced    *)
(* trials a detection counts for one at the most and never also as a false   *)
(* positive; overlaps() finds every two trials that overlap; and the false   *)
(* positives of the window are those of the hours that they are divided by,  *)
(* the others those of the edges.  For any number of trials and detections,  *)
(* slacks, guard band and window.                                            *)
(* (server/evaluation/metrics.py, server/evaluation/groundtruth.py)         *)
THEOREM ReportsFitTheTrials == ServerSpec => []ReportIsHonest
<1> DEFINE IInv == part = "evaluation" => EvaluationInv
<1>1. ServerInit => IInv
  BY FS_EmptySet DEF ServerInit, Report!Init, EvaluationInv
<1>2. IInv /\ [ServerNext]_<<part, ingestVars, readVars, importVars, periodVars, evaluationVars, feedVars, floodVars, twinVars>> => IInv'
  <2>1. SUFFICES ASSUME IInv, [ServerNext]_<<part, ingestVars, readVars, importVars, periodVars, evaluationVars, feedVars, floodVars, twinVars>>,
                        part' = "evaluation"
                 PROVE  EvaluationInv'
    OBVIOUS
  <2>2. CASE part = "evaluation" /\ Report!Next
    <3>1. CASE \E id \in 1..MaxTrials, start \in TrialTimes, duration \in Durations, kind \in Stagings :
                 Report!Stage(id, start, duration, kind)
      BY <2>1, <2>2, <3>1, StageStep
    <3>2. CASE \E bssid \in Bssids, dated \in {{}} \cup {{ts} : ts \in TrialTimes} : Report!Detect(bssid, dated)
      <4>1. PICK bssid \in Bssids, dated \in {{}} \cup {{ts} : ts \in TrialTimes} : Report!Detect(bssid, dated)
        BY <3>2
      <4>2. dated = {} \/ \E ts \in TrialTimes : dated = {ts}
        OBVIOUS
      <4>3. QED
        BY <2>1, <2>2, <4>1, <4>2, DetectStep
    <3>3. QED
      BY <2>2, <3>1, <3>2 DEF Report!Next
  <2>3. CASE part = "evaluation" /\ UNCHANGED evaluationVars
    BY <2>1, <2>3 DEF evaluationVars, EvaluationInv, Report!Fetched
  <2>4. QED
    BY <2>1, <2>2, <2>3 DEF ServerNext
<1>3. IInv => ReportIsHonest
  BY HonestFromInv DEF ReportIsHonest
<1>4. QED
  BY <1>1, <1>2, <1>3, PTL DEF ServerSpec

-----------------------------------------------------------------------------
(* EventFeed: pages of rows, newest first.                                   *)

FeedRow == [at : Places, members : SUBSET Nat]
Placed(X) == X \subseteq FeedRow /\ IsFiniteSet(X) /\ \A r, s \in X : r.at = s.at => r = s
Descending(f) == \A i, j \in DOMAIN f : i < j => Pages!Later(f[i].at, f[j].at)

\* The feed counts as its proof does.
LEMMA RowsAreCounted ==
  \A S : Pages!Cardinality(S) = Cardinality(S)
BY DEF Pages!Cardinality, Cardinality

LEMMA LaterOrders ==
  /\ \A p \in Places : ~Pages!Later(p, p)
  /\ \A p, q, o \in Places : Pages!Later(p, q) /\ Pages!Later(q, o) => Pages!Later(p, o)
  /\ \A p, q \in Places : p = q \/ Pages!Later(p, q) \/ Pages!Later(q, p)
<1>1. \A p \in Places : p = <<p[1], p[2]>> /\ p[1] \in Int /\ p[2] \in Int
  <2>1. Stamps \subseteq Int
    BY FeedAssumption
  <2>2. SUFFICES ASSUME NEW a \in Stamps, NEW b \in Nat, NEW p, p = <<a, b>>
                 PROVE  p = <<p[1], p[2]>> /\ p[1] \in Int /\ p[2] \in Int
    BY DEF Places
  <2>3. QED
    BY <2>1, <2>2
<1>2. \A p \in Places : ~Pages!Later(p, p)
  BY <1>1 DEF Pages!Later
<1>3. \A p, q, o \in Places : Pages!Later(p, q) /\ Pages!Later(q, o) => Pages!Later(p, o)
  BY <1>1 DEF Pages!Later
<1>4. \A p, q \in Places : p = q \/ Pages!Later(p, q) \/ Pages!Later(q, p)
  BY <1>1 DEF Pages!Later
<1>5. QED
  BY <1>2, <1>3, <1>4

\* Rows in order are a list of all of them.
Lists(f, n, X) ==
  /\ f \in [1..n -> X] /\ n = Cardinality(X) /\ f = Pages!InOrder(X) /\ Descending(f)
  /\ \A r \in X : \E i \in 1..n : f[i] = r

LEMMA InOrderIs ==
  ASSUME NEW X, Placed(X)
  PROVE  \E n \in Nat : \E f : Lists(f, n, X)
<1> DEFINE R == {p \in X \X X : Pages!Later(p[1].at, p[2].at)}
<1>1. \A r, s \in X : <<r, s>> \in R <=> Pages!Later(r.at, s.at)
  OBVIOUS
<1> HIDE DEF R
<1>2. \A r \in X : r.at \in Places
  BY DEF Placed, FeedRow
<1>3. Orders(R, X)
  <2>1. \A x \in X : <<x, x>> \notin R
    BY <1>1, <1>2, LaterOrders
  <2>2. \A x, y, z \in X : <<x, y>> \in R /\ <<y, z>> \in R => <<x, z>> \in R
    BY <1>1, <1>2, LaterOrders
  <2>3. \A x, y \in X : x = y \/ <<x, y>> \in R \/ <<y, x>> \in R
    BY <1>1, <1>2, LaterOrders DEF Placed
  <2>4. QED
    BY <2>1, <2>2, <2>3 DEF Orders
<1>4. IsFiniteSet(X)
  BY DEF Placed
<1>5. PICK n \in Nat : n = Cardinality(X)
  BY <1>4, FS_CardinalityType
<1>6. Pages!InOrder(X) = CHOOSE f \in [1..n -> X] : Descending(f)
  BY <1>5, RowsAreCounted DEF Pages!InOrder, Descending
<1>7. \E f \in [1..n -> X] : Descending(f)
  <2>1. PICK f \in [1..n -> X] : \A i, j \in 1..n : i < j => <<f[i], f[j]>> \in R
    BY <1>3, <1>4, <1>5, SequenceOf
  <2>2. DOMAIN f = 1..n /\ \A i \in 1..n : f[i] \in X
    OBVIOUS
  <2>3. Descending(f)
    BY <1>1, <2>1, <2>2 DEF Descending
  <2>4. QED
    BY <2>3
<1>8. PICK f \in [1..n -> X] : Descending(f) /\ f = Pages!InOrder(X)
  BY <1>6, <1>7
<1>9. \A r \in X : \E i \in 1..n : f[i] = r
  <2>1. \A i, j \in 1..n : i < j => <<f[i], f[j]>> \in R
    BY <1>1, <1>8 DEF Descending
  <2>2. QED
    BY <1>3, <1>4, <1>5, <2>1, SequenceHasAll
<1>10. QED
  BY <1>5, <1>8, <1>9 DEF Lists

\* The rows that a cursor toward older ones leaves.
Beyond(F, before) == {r \in Pages!Rows(F) : before = None \/ Pages!Follows(r.at, before)}

\* A page toward older rows: the first of the rows that follow the cursor.
OlderOK(p, before, H) ==
  /\ p = [rows |-> p.rows, newer |-> p.newer, older |-> p.older]
  /\ p.rows \in Seq(H) /\ {p.newer, p.older} \subseteq {None} \cup Places
  /\ Descending(p.rows)
  /\ p.older # None => Len(p.rows) = PageRows /\ p.older = p.rows[PageRows].at
  /\ \A r \in H : (\E i \in DOMAIN p.rows : p.rows[i] = r) \/ (p.older # None /\ Pages!Later(p.older, r.at))
  /\ before # None /\ p.rows # <<>> => p.newer = p.rows[1].at

LEMMA OlderPage ==
  ASSUME NEW F, NEW before \in Places \cup {None}, Placed(Pages!Rows(F)), NEW H, H = Beyond(F, before)
  PROVE  OlderOK(Pages!Page(F, before, None), before, H)
<1>1. Placed(H)
  BY FS_Subset DEF Placed, Beyond
<1>n. PICK n \in Nat : \E g : Lists(g, n, H)
  BY <1>1, InOrderIs
<1>0. PICK g : Lists(g, n, H)
  BY <1>n
<1>2. /\ g \in [1..n -> H] /\ n = Cardinality(H) /\ g = Pages!InOrder(H) /\ Descending(g)
      /\ \A r \in H : \E i \in 1..n : g[i] = r
  BY <1>0 DEF Lists
<1>3. DOMAIN g = 1..n /\ g \in Seq(H) /\ Len(g) = n /\ \A i \in 1..n : g[i] \in H /\ g[i].at \in Places
  <2>1. g \in Seq(H)
    BY <1>2, IsASeq
  <2>2. QED
    BY <1>1, <1>2, <2>1, LenProperties DEF Placed, FeedRow
<1>4. None \notin Places /\ PageRows \in Nat /\ PageRows > 0
  BY FeedAssumption
<1>5. Pages!Fetched(F, before, None) = IF n <= PageRows THEN g ELSE SubSeq(g, 1, PageRows + 1)
  <2>1. H = {r \in Pages!Rows(F) : (before = None \/ Pages!Follows(r.at, before)) /\ (None = None \/ Pages!Later(r.at, None))}
    BY DEF Beyond
  <2>2. QED
    BY <1>2, <1>3, <2>1 DEF Pages!Fetched, Beyond
<1>6. CASE n <= PageRows
  <2>1. Pages!Fetched(F, before, None) = g /\ ~(Len(g) > PageRows)
    BY <1>3, <1>4, <1>5, <1>6
  <2> DEFINE newer == IF g = <<>> THEN before ELSE IF before # None THEN Head(g).at ELSE None
  <2>2. PICK p : p = Pages!Page(F, before, None) /\ p = [rows |-> g, newer |-> newer, older |-> None]
    BY <2>1 DEF Pages!Page
  <2> HIDE DEF newer
  <2>3. g # <<>> => Head(g) = g[1] /\ g[1].at \in Places
    BY <1>3
  <2>4. newer \in {None} \cup Places
    BY <2>3 DEF newer
  <2>5. before # None /\ g # <<>> => newer = g[1].at
    BY <2>3 DEF newer
  <2>6. p.rows = g /\ p.newer = newer /\ p.older = None
    BY <2>2
  <2>7. OlderOK(p, before, H)
    BY <1>2, <1>3, <2>2, <2>4, <2>5, <2>6 DEF OlderOK
  <2>8. QED
    BY <2>2, <2>7
<1>7. CASE n > PageRows
  <2> DEFINE t == SubSeq(g, 1, PageRows + 1)
             f == Pages!Front(t)
  <2>1. t \in Seq(H) /\ Len(t) = PageRows + 1 /\ \A i \in 1..PageRows + 1 : t[i] = g[i]
    BY <1>3, <1>4, <1>7, SubSeqProperties
  <2>2. f \in Seq(H) /\ Len(f) = PageRows /\ \A i \in 1..PageRows : f[i] = g[i]
    BY <1>4, <2>1, SubSeqProperties DEF Pages!Front
  <2>3. Pages!Fetched(F, before, None) = t /\ Len(t) > PageRows
    BY <1>4, <1>5, <1>7, <2>1
  <2> DEFINE newer == IF before # None THEN Head(f).at ELSE None
  <2> HIDE DEF t
  <2>4. f # <<>> /\ DOMAIN f = 1..PageRows /\ Head(f) = f[1] /\ Pages!Last(f) = f[PageRows]
    BY <1>4, <2>2 DEF Pages!Last
  <2>5. PICK p : p = Pages!Page(F, before, None) /\ p = [rows |-> f, newer |-> newer, older |-> f[PageRows].at]
    BY <2>3, <2>4 DEF Pages!Page
  <2> HIDE DEF f, newer
  <2>6. \A i \in 1..PageRows : i \in 1..n
    BY <1>4, <1>7
  <2>7. Descending(f)
    BY <1>2, <1>3, <2>2, <2>4, <2>6 DEF Descending
  <2>8. f[PageRows].at \in Places /\ f[1].at \in Places
    BY <1>3, <1>4, <2>2, <2>6
  <2>9. ASSUME NEW r \in H PROVE (\E i \in DOMAIN f : f[i] = r) \/ Pages!Later(f[PageRows].at, r.at)
    <3>1. PICK i \in 1..n : g[i] = r
      BY <1>2
    <3>2. CASE i <= PageRows
      BY <2>2, <2>4, <3>1, <3>2
    <3>3. CASE i > PageRows
      <4>1. PageRows \in 1..n /\ PageRows < i
        BY <1>4, <1>7, <3>3
      <4>2. QED
        BY <1>2, <1>3, <1>4, <2>2, <3>1, <4>1 DEF Descending
    <3>4. QED
      BY <1>4, <3>1, <3>2, <3>3
  <2>10. newer \in {None} \cup Places /\ (before # None => newer = f[1].at)
    BY <2>4, <2>8 DEF newer
  <2>11. p.rows = f /\ p.newer = newer /\ p.older = f[PageRows].at
    BY <2>5
  <2>12. OlderOK(p, before, H)
    BY <1>4, <2>2, <2>5, <2>7, <2>8, <2>9, <2>10, <2>11 DEF OlderOK
  <2>13. QED
    BY <2>5, <2>12
<1>8. QED
  BY <1>2, <1>4, <1>6, <1>7

\* A page toward newer rows undoes the one toward older rows: its rows are the
\* last ones before the cursor.
Before(F, after) == {r \in Pages!Rows(F) : Pages!Later(r.at, after)}
Returns(b, F, after) ==
  /\ b \in Seq(Before(F, after)) /\ Len(b) = PageRows /\ Descending(b)
  /\ \A r \in Before(F, after) : (\E i \in DOMAIN b : b[i] = r) \/ Pages!Later(r.at, b[1].at)

LEMMA NewerPage ==
  ASSUME NEW F, NEW after \in Places, Placed(Pages!Rows(F)), NEW b, Returns(b, F, after)
  PROVE  Pages!Page(F, None, after).rows = b
<1>1. PICK H : H = Before(F, after)
  OBVIOUS
<1>2. Placed(H)
  BY <1>1, FS_Subset DEF Placed, Before
<1>n. PICK n \in Nat : \E g : Lists(g, n, H)
  BY <1>2, InOrderIs
<1>3. PICK g : Lists(g, n, H)
  BY <1>n
<1>4. /\ g \in [1..n -> H] /\ n = Cardinality(H) /\ g = Pages!InOrder(H) /\ Descending(g)
      /\ \A r \in H : \E i \in 1..n : g[i] = r
  BY <1>3 DEF Lists
<1>5. DOMAIN g = 1..n /\ g \in Seq(H) /\ Len(g) = n /\ \A i \in 1..n : g[i] \in H
  <2>1. g \in Seq(H)
    BY <1>4, IsASeq
  <2>2. QED
    BY <1>4, <2>1, LenProperties
<1>6. /\ b \in Seq(H) /\ DOMAIN b = 1..PageRows /\ Len(b) = PageRows /\ Descending(b)
      /\ \A i \in 1..PageRows : b[i] \in H
      /\ \A r \in H : (\E i \in DOMAIN b : b[i] = r) \/ Pages!Later(r.at, b[1].at)
  BY <1>1 DEF Returns
<1>7. None \notin Places /\ PageRows \in Nat /\ PageRows > 0
  BY FeedAssumption
<1>8. \A r \in H : r.at \in Places
  BY <1>2 DEF Placed, FeedRow
<1>9. PageRows <= n
  <2>1. ASSUME NEW i \in 1..PageRows, NEW j \in 1..PageRows, b[i] = b[j] PROVE i = j
    <3>1. b[i].at \in Places
      BY <1>6, <1>8
    <3>2. ~(i < j) /\ ~(j < i)
      BY <1>6, <2>1, <3>1, LaterOrders DEF Descending
    <3>3. QED
      BY <1>7, <3>2
  <2>2. b \in Injection(1..PageRows, H)
    BY <1>6, <2>1 DEF Injection, IsInjective
  <2>3. IsFiniteSet(H)
    BY <1>2 DEF Placed
  <2>4. Cardinality(1..PageRows) <= Cardinality(H)
    BY <2>2, <2>3, FS_Injection
  <2>5. PICK u \in Int, v \in Int : u = 1 /\ v = PageRows
    BY <1>7
  <2>6. Cardinality(u..v) = IF u > v THEN 0 ELSE v - u + 1
    BY FS_Interval
  <2>7. QED
    BY <1>4, <1>7, <2>4, <2>5, <2>6
\* Counted from the end the two agree: the first to differ would stand in both.
<1> DEFINE Bad == {k \in Nat : k < PageRows /\ b[PageRows - k] # g[n - k]}
<1>10. Bad = {}
  <2>1. SUFFICES ASSUME Bad # {} PROVE FALSE
    OBVIOUS
  <2>2. PICK k \in Bad : \A l \in Bad : k <= l
    <3>1. Bad \in SUBSET Nat
      OBVIOUS
    <3> HIDE DEF Bad
    <3>2. QED
      BY <2>1, <3>1, LeastOfSet
  <2>3. k \in Nat /\ k < PageRows /\ b[PageRows - k] # g[n - k]
    BY <2>2
  <2>4. \A l \in Nat : l < k => b[PageRows - l] = g[n - l]
    BY <1>7, <2>2, <2>3
  <2> HIDE DEF Bad
  <2>5. PICK p \in 1..PageRows, q \in 1..n : p = PageRows - k /\ q = n - k
    BY <1>7, <1>9, <2>3
  <2>6. \A i \in 1..PageRows : i > p => \E l \in Nat : l < k /\ i = PageRows - l
    <3>1. SUFFICES ASSUME NEW i \in 1..PageRows, i > p PROVE \E l \in Nat : l < k /\ i = PageRows - l
      OBVIOUS
    <3>2. PageRows - i \in Nat /\ PageRows - i < k /\ i = PageRows - (PageRows - i)
      BY <1>7, <2>3, <2>5, <3>1
    <3>3. QED
      BY <3>2
  <2>7. \A i \in 1..n : i > q => \E l \in Nat : l < k /\ i = n - l
    <3>1. SUFFICES ASSUME NEW i \in 1..n, i > q PROVE \E l \in Nat : l < k /\ i = n - l
      OBVIOUS
    <3>2. n - i \in Nat /\ n - i < k /\ i = n - (n - i)
      BY <2>3, <2>5, <3>1
    <3>3. QED
      BY <3>2
  <2>8. /\ b[p] \in H /\ g[q] \in H /\ b[p].at \in Places /\ g[q].at \in Places /\ b[p] # g[q]
    BY <1>5, <1>6, <1>8, <2>3, <2>5
  <2>9. Pages!Later(b[p].at, g[q].at)
    <3>1. PICK m \in 1..n : g[m] = b[p]
      BY <1>4, <2>8
    <3>2. ~(m > q)
      <4>1. SUFFICES ASSUME m > q PROVE FALSE
        OBVIOUS
      <4>2. PICK l \in Nat : l < k /\ m = n - l
        BY <2>7, <4>1
      <4>3. b[PageRows - l] = b[p]
        BY <2>4, <3>1, <4>2
      <4>4. PageRows - l \in 1..PageRows /\ p < PageRows - l
        BY <1>7, <2>3, <2>5, <4>2
      <4>5. QED
        BY <1>6, <2>8, <4>3, <4>4, LaterOrders DEF Descending
    <3>3. m < q
      BY <2>8, <3>1, <3>2
    <3>4. QED
      BY <1>4, <1>5, <3>1, <3>3 DEF Descending
  <2>10. CASE \E i \in DOMAIN b : b[i] = g[q]
    <3>1. PICK i \in 1..PageRows : b[i] = g[q]
      BY <1>6, <2>10
    <3>2. ~(i > p)
      <4>1. SUFFICES ASSUME i > p PROVE FALSE
        OBVIOUS
      <4>2. PICK l \in Nat : l < k /\ i = PageRows - l
        BY <2>6, <4>1
      <4>3. g[n - l] = g[q]
        BY <2>4, <3>1, <4>2
      <4>4. n - l \in 1..n /\ q < n - l
        BY <1>7, <1>9, <2>3, <2>5, <4>2
      <4>5. QED
        BY <1>4, <1>5, <2>8, <4>3, <4>4, LaterOrders DEF Descending
    <3>3. i < p
      BY <2>8, <3>1, <3>2
    <3>4. Pages!Later(g[q].at, b[p].at)
      BY <1>6, <3>1, <3>3 DEF Descending
    <3>5. QED
      BY <2>8, <2>9, <3>4, LaterOrders
  <2>11. CASE Pages!Later(g[q].at, b[1].at)
    <3>1. b[1] \in H /\ b[1].at \in Places /\ 1 \in 1..PageRows
      BY <1>6, <1>7, <1>8
    <3>2. p = 1 \/ Pages!Later(b[1].at, b[p].at)
      BY <1>6, <3>1 DEF Descending
    <3>3. Pages!Later(g[q].at, b[p].at)
      BY <2>8, <2>11, <3>1, <3>2, LaterOrders
    <3>4. QED
      BY <2>8, <2>9, <3>3, LaterOrders
  <2>12. QED
    BY <1>6, <2>8, <2>10, <2>11
<1>11. \A i \in 1..PageRows : b[i] = g[n - PageRows + i]
  <2>1. SUFFICES ASSUME NEW i \in 1..PageRows PROVE b[i] = g[n - PageRows + i]
    OBVIOUS
  <2>2. PICK k \in Nat : k < PageRows /\ k = PageRows - i
    BY <1>7
  <2>3. b[PageRows - k] = g[n - k]
    BY <1>10, <2>2
  <2>4. PageRows - k = i /\ n - k = n - PageRows + i
    BY <1>7, <2>2
  <2>5. QED
    BY <2>3, <2>4
<1>12. Pages!Fetched(F, None, after) = IF n <= PageRows THEN g ELSE SubSeq(g, n - PageRows, n)
  <2>1. H = {r \in Pages!Rows(F) : (None = None \/ Pages!Follows(r.at, None)) /\ (after = None \/ Pages!Later(r.at, after))}
    BY <1>1, <1>7 DEF Before
  <2>2. after # None
    BY <1>7
  <2>3. QED
    BY <1>4, <1>5, <2>1, <2>2 DEF Pages!Fetched
<1>13. CASE n <= PageRows
  <2>1. n = PageRows /\ Pages!Fetched(F, None, after) = g /\ ~(Len(g) > PageRows)
    BY <1>5, <1>7, <1>9, <1>12, <1>13
  <2>2. Pages!Page(F, None, after).rows = g
    BY <2>1 DEF Pages!Page
  <2>3. \A i \in 1..PageRows : b[i] = g[i]
    BY <1>7, <1>11, <2>1
  <2>4. b = g
    BY <1>4, <1>6, <2>1, <2>3
  <2>5. QED
    BY <2>2, <2>4
<1>14. CASE n > PageRows
  <2> DEFINE t == SubSeq(g, n - PageRows, n)
  <2>1. /\ t \in Seq(H) /\ Len(t) = PageRows + 1
        /\ \A i \in 1..PageRows + 1 : t[i] = g[n - PageRows + i - 1]
    <3>1. PICK m \in 1..n : m = n - PageRows
      BY <1>7, <1>14
    <3>2. /\ SubSeq(g, m, n) \in Seq(H) /\ Len(SubSeq(g, m, n)) = n - m + 1
          /\ \A i \in 1..n - m + 1 : SubSeq(g, m, n)[i] = g[m + i - 1]
      BY <1>5, <3>1, SubSeqProperties
    <3>3. n - m + 1 = PageRows + 1
      BY <1>7, <3>1
    <3>4. QED
      BY <3>1, <3>2, <3>3
  <2>2. Pages!Fetched(F, None, after) = t /\ Len(t) > PageRows
    BY <1>7, <1>12, <1>14, <2>1
  <2> HIDE DEF t
  <2>3. Pages!Page(F, None, after).rows = Tail(t)
    BY <1>7, <2>2 DEF Pages!Page
  <2>4. Tail(t) \in Seq(H) /\ Len(Tail(t)) = PageRows /\ \A i \in 1..PageRows : Tail(t)[i] = t[i + 1]
    BY <1>7, <2>1, HeadTailProperties
  <2>5. \A i \in 1..PageRows : Tail(t)[i] = b[i]
    BY <1>7, <1>11, <2>1, <2>4
  <2>6. Tail(t) = b
    BY <1>6, <2>4, <2>5
  <2>7. QED
    BY <2>3, <2>6
<1>15. QED
  BY <1>7, <1>13, <1>14

\* What is known of the events: each has a time, a group and a label.
FeedOK == feed \in Seq([ts : Stamps, group : Groups \cup {OwnRow}, status : Labels])

\* Each row stands at its newest event.
LEMMA RowIs ==
  ASSUME FeedOK, NEW F, NEW e \in Pages!Shown(F)
  PROVE  \E lead \in Pages!Shown(F) :
           /\ Pages!RowKey(lead) = Pages!RowKey(e) /\ lead \in 1..Len(feed)
           /\ Pages!RowOf(Pages!RowKey(e), F).at = <<feed[lead].ts, lead>>
           /\ Pages!RowOf(Pages!RowKey(e), F) \in FeedRow
<1>1. PICK n \in Nat : n = Len(feed) /\ DOMAIN feed = 1..n /\ \A o \in 1..n : feed[o].ts \in Stamps
  <2>1. Len(feed) \in Nat /\ DOMAIN feed = 1..Len(feed)
    BY LenProperties DEF FeedOK
  <2>2. \A o \in 1..Len(feed) : feed[o] \in [ts : Stamps, group : Groups \cup {OwnRow}, status : Labels]
    BY ElementOfSeq DEF FeedOK
  <2>3. QED
    BY <2>1, <2>2
<1> DEFINE M == {o \in Pages!Shown(F) : Pages!RowKey(o) = Pages!RowKey(e)}
           Place(o) == <<feed[o].ts, o>>
           R == {p \in M \X M : Pages!Later(Place(p[2]), Place(p[1]))}
<1>2. M \subseteq 1..n /\ e \in M
  BY <1>1 DEF Pages!Shown
<1>3. IsFiniteSet(M)
  <2>1. PICK a \in Int, b \in Int : a = 1 /\ b = n
    BY <1>1
  <2>2. IsFiniteSet(a..b)
    BY FS_Interval
  <2>3. QED
    BY <1>2, <2>1, <2>2, FS_Subset
<1>4. \A o \in M : Place(o) \in Places
  BY <1>1, <1>2 DEF Places
<1>5. \A o, u \in M : Place(o) = Place(u) => o = u
  OBVIOUS
<1>6. \A o, u \in M : <<o, u>> \in R <=> Pages!Later(Place(u), Place(o))
  OBVIOUS
<1> HIDE DEF R, Place
<1>7. Orders(R, M)
  <2>1. \A x \in M : <<x, x>> \notin R
    BY <1>4, <1>6, LaterOrders
  <2>2. \A x, y, z \in M : <<x, y>> \in R /\ <<y, z>> \in R => <<x, z>> \in R
    BY <1>4, <1>6, LaterOrders
  <2>3. \A x, y \in M : x = y \/ <<x, y>> \in R \/ <<y, x>> \in R
    BY <1>4, <1>5, <1>6, LaterOrders
  <2>4. QED
    BY <2>1, <2>2, <2>3 DEF Orders
<1>8. PICK m \in M : \A x \in M \ {m} : <<x, m>> \in R
  BY <1>2, <1>3, <1>7, LastOf
<1> DEFINE lead == CHOOSE o \in M : \A u \in M : u = o \/ Pages!Later(Place(o), Place(u))
<1>9. lead \in M
  BY <1>6, <1>8
<1>10. Pages!RowOf(Pages!RowKey(e), F) = [at |-> Place(lead), members |-> M]
  BY DEF Pages!RowOf, Place
<1> HIDE DEF lead, M
<1>l. PICK l \in M : l = lead
  BY <1>9
<1>11. PICK r : l = lead /\ r = Pages!RowOf(Pages!RowKey(e), F)
  BY <1>l
<1>12. r.at = Place(l) /\ r \in FeedRow
  <2>1. M \in SUBSET Nat
    BY <1>2
  <2>2. QED
    BY <1>4, <1>10, <1>11, <2>1 DEF FeedRow
<1>13. l \in Pages!Shown(F) /\ Pages!RowKey(l) = Pages!RowKey(e) /\ l \in 1..Len(feed)
  BY <1>1, <1>2 DEF M
<1>14. QED
  BY <1>11, <1>12, <1>13 DEF Place

\* So rows have places of their own.
LEMMA RowsPlaced ==
  ASSUME FeedOK, NEW F
  PROVE  Placed(Pages!Rows(F))
<1>1. ASSUME NEW r \in Pages!Rows(F)
      PROVE  \E lead \in Pages!Shown(F) : /\ lead \in 1..Len(feed) /\ r = Pages!RowOf(Pages!RowKey(lead), F)
                                          /\ r.at = <<feed[lead].ts, lead>> /\ r \in FeedRow
  <2>1. PICK e \in Pages!Shown(F) : r = Pages!RowOf(Pages!RowKey(e), F)
    BY <1>1 DEF Pages!Rows
  <2>2. PICK lead \in Pages!Shown(F) :
           /\ Pages!RowKey(lead) = Pages!RowKey(e) /\ lead \in 1..Len(feed)
           /\ Pages!RowOf(Pages!RowKey(e), F).at = <<feed[lead].ts, lead>>
           /\ Pages!RowOf(Pages!RowKey(e), F) \in FeedRow
    BY RowIs
  <2>3. QED
    BY <2>1, <2>2
<1>2. ASSUME NEW r \in Pages!Rows(F), NEW s \in Pages!Rows(F), r.at = s.at PROVE r = s
  <2>1. PICK e : r.at = <<feed[e].ts, e>> /\ r = Pages!RowOf(Pages!RowKey(e), F)
    BY <1>1
  <2>2. PICK o : s.at = <<feed[o].ts, o>> /\ s = Pages!RowOf(Pages!RowKey(o), F)
    BY <1>1
  <2>3. e = o
    <3>1. r.at[2] = e /\ s.at[2] = o
      BY <2>1, <2>2
    <3>2. QED
      BY <1>2, <3>1
  <2>4. QED
    BY <2>1, <2>2, <2>3
<1>3. IsFiniteSet(Pages!Rows(F))
  <2> DEFINE f == [r \in Pages!Rows(F) |-> r.at[2]]
  <2>1. ASSUME NEW r \in Pages!Rows(F), NEW s \in Pages!Rows(F), r.at[2] = s.at[2] PROVE r = s
    <3>1. PICK e : r.at = <<feed[e].ts, e>> /\ r = Pages!RowOf(Pages!RowKey(e), F)
      BY <1>1
    <3>2. PICK o : s.at = <<feed[o].ts, o>> /\ s = Pages!RowOf(Pages!RowKey(o), F)
      BY <1>1
    <3>3. e = o
      BY <2>1, <3>1, <3>2
    <3>4. QED
      BY <3>1, <3>2, <3>3
  <2>2. \A r \in Pages!Rows(F) : r.at[2] \in 1..Len(feed)
    <3>1. SUFFICES ASSUME NEW r \in Pages!Rows(F) PROVE r.at[2] \in 1..Len(feed)
      OBVIOUS
    <3>2. PICK e : e \in 1..Len(feed) /\ r.at = <<feed[e].ts, e>>
      BY <1>1
    <3>3. QED
      BY <3>2
  <2>3. f \in Injection(Pages!Rows(F), 1..Len(feed))
    BY <2>1, <2>2 DEF Injection, IsInjective
  <2>4. PICK a \in Int, b \in Int : a = 1 /\ b = Len(feed)
    BY LenProperties DEF FeedOK
  <2>5. IsFiniteSet(a..b)
    BY FS_Interval
  <2>6. QED
    BY <2>3, <2>4, <2>5, FS_Injection
<1>4. Pages!Rows(F) \subseteq FeedRow
  BY <1>1
<1>5. QED
  BY <1>2, <1>3, <1>4 DEF Placed

\* The counts beside the filter count the rows of the feed.
LEMMA RowCountIs ==
  ASSUME FeedOK, NEW label
  PROVE  Pages!RowCount(label) = Cardinality(Pages!Rows({label}))
<1> DEFINE F == {label}
           Marks == {Pages!RowKey(e) : e \in Pages!Shown(F)}
           f == [key \in Marks |-> Pages!RowOf(key, F)]
<1>1. f \in Surjection(Marks, Pages!Rows(F))
  BY DEF Pages!Rows, Surjection
<1>2. ASSUME NEW k \in Marks, NEW l \in Marks, Pages!RowOf(k, F) = Pages!RowOf(l, F) PROVE k = l
  <2>1. PICK e \in Pages!Shown(F) : k = Pages!RowKey(e)
    OBVIOUS
  <2>2. PICK o \in Pages!Shown(F) : l = Pages!RowKey(o)
    OBVIOUS
  <2>3. PICK x : Pages!RowKey(x) = k /\ Pages!RowOf(k, F).at = <<feed[x].ts, x>>
    BY <2>1, RowIs
  <2>4. PICK y : Pages!RowKey(y) = l /\ Pages!RowOf(l, F).at = <<feed[y].ts, y>>
    BY <2>2, RowIs
  <2>5. x = y
    BY <1>2, <2>3, <2>4
  <2>6. QED
    BY <2>3, <2>4, <2>5
<1>3. f \in Injection(Marks, Pages!Rows(F))
  BY <1>1, <1>2 DEF Injection, IsInjective, Surjection
<1>4. IsFiniteSet(Pages!Rows(F))
  BY RowsPlaced DEF Placed
<1>5. Cardinality(Marks) = Cardinality(Pages!Rows(F))
  BY <1>1, <1>3, <1>4, FS_Injection
<1>6. QED
  BY <1>5, RowsAreCounted DEF Pages!RowCount

\* A page that was asked for as the events are now, before the rows that follow it.
Window(b, F, older) ==
  /\ b \in Seq(Pages!Rows(F)) /\ Len(b) = PageRows /\ Descending(b) /\ older = b[PageRows].at
  /\ \A r \in Pages!Rows(F) : \/ \E i \in DOMAIN b : b[i] = r
                              \/ Pages!Later(r.at, b[1].at) \/ Pages!Later(older, r.at)

PageOK ==
  /\ page.older \in {None} \cup Places
  /\ page.older # None => shown # <<>> /\ page.older = shown[Len(shown)].at
  /\ \A r \in steady : (\E i \in DOMAIN shown : shown[i] = r) \/ (page.older # None /\ Pages!Later(page.older, r.at))
  /\ changes = 0 => steady = Pages!Rows(filter) /\ \A i \in DOMAIN shown : shown[i] \in Pages!Rows(filter)
  /\ quiet /\ page.older # None => Window(page.rows, filter, page.older)

\* The rows shown so far descend, and whatever stayed as it was is among them or
\* follows the cursor; the page before, if nothing changed, is the last before this.
FeedInv ==
  /\ FeedOK /\ (filter = {} \/ \E s \in Labels : filter = {s}) /\ changes \in Nat
  /\ shown \in Seq(FeedRow) /\ Descending(shown)
  /\ steady \subseteq Pages!Rows(filter)
  /\ page = None => back = None
  /\ page # None => PageOK
  /\ back # None /\ page.rows # <<>> => page.newer \in Places /\ Returns(back, filter, page.newer)

\* What is asked for on unchanged events is unchanged.
LEMMA SameRows ==
  ASSUME UNCHANGED <<feed, filter>>
  PROVE  Pages!Rows(filter)' = Pages!Rows(filter)
BY DEF Pages!Rows, Pages!RowOf, Pages!RowKey, Pages!Shown

LEMMA ChangeStep ==
  ASSUME FeedInv, NEW new, Pages!Change(new), FeedOK'
  PROVE  FeedInv'
<1>1. /\ UNCHANGED <<filter, page, shown>> /\ back' = None /\ quiet' = FALSE
      /\ steady' = IF page = None THEN {} ELSE steady \cap Pages!Rows(filter)'
      /\ changes' = IF page = None THEN 0 ELSE changes + 1
  BY DEF Pages!Change
<1>2. steady' \subseteq Pages!Rows(filter)' /\ changes' \in Nat /\ (page # None => changes' # 0 /\ steady' \subseteq steady)
  BY <1>1 DEF FeedInv
<1>3. page # None => PageOK'
  BY <1>1, <1>2 DEF PageOK, FeedInv
<1>4. Descending(shown)'
  BY <1>1 DEF FeedInv, Descending
<1>5. QED
  BY <1>1, <1>2, <1>3, <1>4 DEF FeedInv

LEMMA ArriveStep ==
  ASSUME FeedInv, NEW ts \in Stamps, NEW g \in Groups \cup {OwnRow}, Pages!Arrive(ts, g)
  PROVE  FeedInv'
<1> DEFINE e == [ts |-> ts, group |-> g, status |-> CHOOSE s \in Labels : TRUE]
           new == Append(feed, e)
<1>1. Pages!Change(new) /\ feed' = new
  BY DEF Pages!Arrive, Pages!Change
<1>2. e \in [ts : Stamps, group : Groups \cup {OwnRow}, status : Labels]
  <2>1. Labels # {}
    BY FeedAssumption
  <2>2. (CHOOSE s \in Labels : TRUE) \in Labels
    BY <2>1
  <2>3. QED
    BY <2>2
<1>3. FeedOK'
  BY <1>1, <1>2, AppendProperties DEF FeedInv, FeedOK
<1>4. QED
  BY <1>1, <1>3, ChangeStep

LEMMA LabelStep ==
  ASSUME FeedInv, NEW e \in DOMAIN feed, NEW s \in Labels, Pages!Label(e, s)
  PROVE  FeedInv'
<1> DEFINE new == [feed EXCEPT ![e].status = s]
           T == [ts : Stamps, group : Groups \cup {OwnRow}, status : Labels]
<1>1. Pages!Change(new) /\ feed' = new
  BY DEF Pages!Label, Pages!Change
<1>2. feed \in Seq(T)
  BY DEF FeedInv, FeedOK
<1>3. e \in 1..Len(feed) /\ feed[e] \in T
  BY <1>2, LenProperties, ElementOfSeq
<1>4. [feed[e] EXCEPT !.status = s] \in T
  BY <1>3
<1> HIDE DEF T
<1>5. new \in Seq(T)
  BY <1>2, <1>3, <1>4, ExceptSeq
<1>6. FeedOK'
  BY <1>1, <1>5 DEF FeedOK, T
<1>7. QED
  BY <1>1, <1>6, ChangeStep

\* A page is a page, and its rows have places.
LEMMA PageIs ==
  ASSUME NEW F, NEW before, NEW p, Placed(Pages!Rows(F)), OlderOK(p, before, Beyond(F, before))
  PROVE  /\ p # None /\ p.rows \in Seq(FeedRow) /\ p.rows \in Seq(Pages!Rows(F))
         /\ DOMAIN p.rows = 1..Len(p.rows) /\ Len(p.rows) \in Nat
         /\ \A i \in DOMAIN p.rows : p.rows[i] \in Beyond(F, before) /\ p.rows[i].at \in Places
<1>1. Beyond(F, before) \subseteq Pages!Rows(F) /\ Pages!Rows(F) \subseteq FeedRow
  BY DEF Beyond, Placed
<1>2. /\ p = [rows |-> p.rows, newer |-> p.newer, older |-> p.older]
      /\ p.rows \in Seq(Beyond(F, before)) /\ p.newer \in {None} \cup Places /\ p.older \in {None} \cup Places
  BY DEF OlderOK
<1>3. DOMAIN p.rows = 1..Len(p.rows) /\ Len(p.rows) \in Nat
  BY <1>2, LenProperties
<1>4. \A i \in DOMAIN p.rows : p.rows[i] \in Beyond(F, before)
  BY <1>2, <1>3, ElementOfSeq
<1>5. p.rows \in Seq(FeedRow) /\ p.rows \in Seq(Pages!Rows(F))
  <2>n. PICK n \in Nat : n = Len(p.rows)
    BY <1>3
  <2>1. PICK f : f = p.rows /\ n = Len(f) /\ f \in Seq(Beyond(F, before))
    BY <1>2, <2>n
  <2>2. f \in [1..n -> Beyond(F, before)]
    BY <2>1
  <2>3. f \in [1..n -> Pages!Rows(F)] /\ f \in [1..n -> FeedRow]
    BY <1>1, <2>2
  <2>4. f \in Seq(Pages!Rows(F)) /\ f \in Seq(FeedRow)
    BY <2>1, <2>3, IsASeq
  <2>5. QED
    BY <2>1, <2>4
<1>6. p # None
  <2>1. p \in [rows : Seq(FeedRow), newer : {None} \cup Places, older : {None} \cup Places]
    BY <1>2, <1>5
  <2>2. None \notin [rows : Seq([at : Places, members : SUBSET Nat]), newer : {None} \cup Places,
                     older : {None} \cup Places]
    BY FeedAssumption
  <2>3. QED
    BY <2>1, <2>2 DEF FeedRow
<1>7. \A i \in DOMAIN p.rows : p.rows[i].at \in Places
  BY <1>1, <1>4 DEF FeedRow
<1>8. QED
  BY <1>3, <1>4, <1>5, <1>6, <1>7

LEMMA OpenStep ==
  ASSUME FeedInv, Pages!Open
  PROVE  FeedInv'
<1>1. PICK p : p = Pages!Page(filter, None, None)
  OBVIOUS
<1>2. /\ page = None /\ back = None /\ page' = p /\ shown' = p.rows /\ steady' = Pages!Rows(filter) /\ quiet' = TRUE
      /\ UNCHANGED <<feed, filter, back, changes>>
  BY <1>1 DEF Pages!Open, FeedInv
<1>3. Pages!Rows(filter)' = Pages!Rows(filter)
  BY <1>2, SameRows
<1>4. Placed(Pages!Rows(filter))
  BY RowsPlaced DEF FeedInv
<1>5. PICK X : X = Pages!Rows(filter)
  OBVIOUS
<1>6. Beyond(filter, None) = X
  BY <1>5 DEF Beyond
<1>7. OlderOK(p, None, Beyond(filter, None))
  BY <1>1, <1>4, OlderPage
<1>8. /\ p # None /\ p.rows \in Seq(FeedRow) /\ p.rows \in Seq(X)
      /\ DOMAIN p.rows = 1..Len(p.rows) /\ Len(p.rows) \in Nat
      /\ \A i \in DOMAIN p.rows : p.rows[i] \in X /\ p.rows[i].at \in Places
  BY <1>4, <1>5, <1>6, <1>7, PageIs
<1>9. /\ p.older \in {None} \cup Places /\ Descending(p.rows)
      /\ p.older # None => Len(p.rows) = PageRows /\ p.older = p.rows[PageRows].at
      /\ \A r \in X : (\E i \in DOMAIN p.rows : p.rows[i] = r) \/ (p.older # None /\ Pages!Later(p.older, r.at))
  BY <1>6, <1>7 DEF OlderOK
<1>10. PageRows \in Nat /\ PageRows > 0
  BY FeedAssumption
<1>11. p.older # None => Window(p.rows, filter, p.older)'
  BY <1>2, <1>3, <1>5, <1>8, <1>9 DEF Window, Descending
<1>12. p.older # None => p.rows # <<>> /\ p.older = p.rows[Len(p.rows)].at
  BY <1>8, <1>9, <1>10
<1>13. PageOK'
  BY <1>2, <1>3, <1>5, <1>8, <1>9, <1>11, <1>12 DEF PageOK
<1>14. FeedOK' /\ Descending(shown)' /\ (steady \subseteq Pages!Rows(filter))'
  BY <1>2, <1>3, <1>9 DEF FeedInv, FeedOK, Descending
<1>15. QED
  BY <1>2, <1>8, <1>13, <1>14 DEF FeedInv

LEMMA OlderStep ==
  ASSUME FeedInv, Pages!Older
  PROVE  FeedInv'
<1>1. PICK before, p, b : before = page.older /\ p = Pages!Page(filter, before, None) /\ b = page.rows
  OBVIOUS
<1>2. /\ page # None /\ before # None /\ page' = p /\ shown' = shown \o p.rows /\ quiet' = TRUE
      /\ back' = IF quiet THEN b ELSE None
      /\ UNCHANGED <<feed, filter, steady, changes>>
  BY <1>1 DEF Pages!Older
<1>3. before \in Places
  BY <1>1, <1>2 DEF FeedInv, PageOK
<1>4. Pages!Rows(filter)' = Pages!Rows(filter)
  BY <1>2, SameRows
<1>5. Placed(Pages!Rows(filter))
  BY RowsPlaced DEF FeedInv
<1>6. PICK X, H : X = Pages!Rows(filter) /\ H = Beyond(filter, before)
  OBVIOUS
<1>7. OlderOK(p, before, H)
  BY <1>1, <1>3, <1>5, <1>6, OlderPage
<1>8. /\ p # None /\ p.rows \in Seq(FeedRow) /\ p.rows \in Seq(X)
      /\ DOMAIN p.rows = 1..Len(p.rows) /\ Len(p.rows) \in Nat
      /\ \A i \in DOMAIN p.rows : p.rows[i] \in H /\ p.rows[i].at \in Places
  BY <1>5, <1>6, <1>7, PageIs
<1>9. /\ p.older \in {None} \cup Places /\ p.newer \in {None} \cup Places /\ Descending(p.rows)
      /\ p.older # None => Len(p.rows) = PageRows /\ p.older = p.rows[PageRows].at
      /\ \A r \in H : (\E i \in DOMAIN p.rows : p.rows[i] = r) \/ (p.older # None /\ Pages!Later(p.older, r.at))
      /\ p.rows # <<>> => p.newer = p.rows[1].at
  BY <1>2, <1>7 DEF OlderOK
<1>10. PageRows \in Nat /\ PageRows > 0 /\ None \notin Places
  BY FeedAssumption
<1>11. \A r \in X : r \in H <=> Pages!Later(before, r.at)
  BY <1>2, <1>6 DEF Beyond, Pages!Follows
<1>12. H \subseteq X /\ \A r \in X : r.at \in Places
  BY <1>5, <1>6 DEF Beyond, Placed, FeedRow
\* What was shown before stands before the cursor or at it, the new rows after it.
<1>13. /\ shown # <<>> /\ shown \in Seq(FeedRow) /\ Len(shown) \in Nat /\ DOMAIN shown = 1..Len(shown)
       /\ \A i \in DOMAIN shown : shown[i].at \in Places
       /\ Descending(shown) /\ before = shown[Len(shown)].at /\ Len(shown) \in DOMAIN shown
  <2>1. shown # <<>> /\ shown \in Seq(FeedRow) /\ before = shown[Len(shown)].at /\ Descending(shown)
    BY <1>1, <1>2 DEF FeedInv, PageOK
  <2>2. Len(shown) \in Nat /\ DOMAIN shown = 1..Len(shown) /\ \A i \in 1..Len(shown) : shown[i] \in FeedRow
    BY <2>1, LenProperties, ElementOfSeq
  <2>3. Len(shown) # 0
    BY <2>1, EmptySeq
  <2>4. QED
    BY <2>1, <2>2, <2>3 DEF FeedRow
<1>14. \A i \in DOMAIN shown : shown[i].at = before \/ Pages!Later(shown[i].at, before)
  BY <1>13 DEF Descending
<1>15. \A j \in DOMAIN p.rows : Pages!Later(before, p.rows[j].at)
  BY <1>8, <1>11, <1>12
<1>m. PICK m \in Nat, n \in Nat : m = Len(shown) /\ n = Len(p.rows)
  BY <1>8, <1>13
<1>16. PICK all : all = shown \o p.rows /\ m = Len(shown) /\ n = Len(p.rows)
  BY <1>m
<1>17. /\ all \in Seq(FeedRow) /\ Len(all) = m + n /\ DOMAIN all = 1..m + n
       /\ \A i \in 1..m : all[i] = shown[i]
       /\ \A i \in 1..m + n : i > m => all[i] = p.rows[i - m]
  <2>1. all \in Seq(FeedRow) /\ Len(all) = m + n
        /\ \A i \in 1..m + n : all[i] = IF i <= m THEN shown[i] ELSE p.rows[i - m]
    BY <1>8, <1>13, <1>16, ConcatProperties
  <2>2. DOMAIN all = 1..m + n
    BY <2>1, LenProperties
  <2>3. QED
    BY <2>1, <2>2
<1>18. Descending(all)
  <2>1. SUFFICES ASSUME NEW i \in 1..m + n, NEW j \in 1..m + n, i < j PROVE Pages!Later(all[i].at, all[j].at)
    BY <1>17 DEF Descending
  <2>2. CASE j <= m
    <3>1. i \in 1..m /\ j \in 1..m
      BY <2>1, <2>2
    <3>2. QED
      BY <1>13, <1>16, <1>17, <2>1, <3>1 DEF Descending
  <2>3. CASE i > m
    <3>a. i - m \in 1..n /\ j - m \in 1..n /\ i - m < j - m
      BY <2>1, <2>3
    <3>1. PICK a \in 1..n, c \in 1..n : a = i - m /\ c = j - m /\ a < c
      BY <3>a
    <3>2. all[i] = p.rows[a] /\ all[j] = p.rows[c]
      BY <1>16, <1>17, <2>1, <2>3, <3>1
    <3>3. Pages!Later(p.rows[a].at, p.rows[c].at)
      BY <1>8, <1>9, <1>16, <3>1 DEF Descending
    <3>4. QED
      BY <3>2, <3>3
  <2>4. CASE i <= m /\ j > m
    <3>1. i \in 1..m /\ j - m \in 1..n
      BY <2>1, <2>4
    <3>2. PICK u, v : u = shown[i].at /\ v = p.rows[j - m].at
      OBVIOUS
    <3>3. all[i].at = u /\ all[j].at = v
      BY <1>17, <2>4, <3>1, <3>2
    <3>4. u \in Places /\ v \in Places /\ (u = before \/ Pages!Later(u, before)) /\ Pages!Later(before, v)
      BY <1>8, <1>13, <1>14, <1>15, <1>16, <3>1, <3>2
    <3>5. Pages!Later(u, v)
      BY <1>3, <3>4, LaterOrders
    <3>6. QED
      BY <3>3, <3>5
  <2>5. QED
    BY <2>2, <2>3, <2>4
<1>19. p.older # None => all # <<>> /\ p.older = all[m + n].at
  <2>1. SUFFICES ASSUME p.older # None PROVE all # <<>> /\ p.older = all[m + n].at
    OBVIOUS
  <2>2. n = PageRows /\ p.older = p.rows[n].at
    BY <1>9, <1>16, <2>1
  <2>3. m + n \in 1..m + n /\ m + n > m /\ m + n - m = n
    BY <1>10, <2>2
  <2>4. all[m + n] = p.rows[n]
    BY <1>17, <2>3
  <2>5. QED
    BY <1>17, <2>2, <2>3, <2>4
<1>20. ASSUME NEW r \in steady
       PROVE  (\E i \in DOMAIN all : all[i] = r) \/ (p.older # None /\ Pages!Later(p.older, r.at))
  <2>1. r \in X
    BY <1>6 DEF FeedInv
  <2>2. CASE \E i \in DOMAIN shown : shown[i] = r
    <3>1. PICK i \in 1..m : shown[i] = r
      BY <1>13, <1>16, <2>2
    <3>2. i \in 1..m + n
      BY <3>1
    <3>3. QED
      BY <1>17, <3>1, <3>2
  <2>3. CASE Pages!Later(before, r.at)
    <3>1. r \in H
      BY <1>11, <2>1, <2>3
    <3>2. CASE \E i \in DOMAIN p.rows : p.rows[i] = r
      <4>1. PICK i \in 1..n : p.rows[i] = r
        BY <1>8, <1>16, <3>2
      <4>2. PICK k \in 1..m + n : k > m /\ k - m = i
        <5>1. m + i \in 1..m + n /\ m + i > m /\ m + i - m = i
          BY <1>16, <4>1
        <5>2. QED
          BY <5>1
      <4>3. all[k] = r
        BY <1>17, <4>1, <4>2
      <4>4. QED
        BY <1>17, <4>3
    <3>3. QED
      BY <1>9, <3>1, <3>2
  <2>4. QED
    BY <1>1, <1>2, <2>2, <2>3 DEF FeedInv, PageOK
<1>21. changes = 0 => steady = X /\ \A i \in DOMAIN all : all[i] \in X
  <2>1. SUFFICES ASSUME changes = 0 PROVE steady = X /\ \A i \in DOMAIN all : all[i] \in X
    OBVIOUS
  <2>2. steady = X /\ \A i \in 1..m : shown[i] \in X
    BY <1>2, <1>6, <1>13, <1>16, <2>1 DEF FeedInv, PageOK
  <2>3. ASSUME NEW i \in 1..m + n PROVE all[i] \in X
    <3>1. CASE i <= m
      BY <1>17, <2>2, <3>1
    <3>2. CASE i > m
      <4>1. i - m \in 1..n
        BY <3>2
      <4>2. QED
        BY <1>8, <1>12, <1>16, <1>17, <3>2, <4>1
    <3>3. QED
      BY <3>1, <3>2
  <2>4. QED
    BY <1>17, <2>2, <2>3
<1>22. p.older # None => Window(p.rows, filter, p.older)
  <2>1. SUFFICES ASSUME p.older # None, NEW r \in X
                 PROVE  \/ \E i \in DOMAIN p.rows : p.rows[i] = r
                        \/ Pages!Later(r.at, p.rows[1].at) \/ Pages!Later(p.older, r.at)
    BY <1>6, <1>8, <1>9 DEF Window
  <2>2. CASE r \in H
    BY <1>9, <2>2
  <2>3. CASE r \notin H
    <3>1. 1 \in DOMAIN p.rows
      BY <1>8, <1>9, <1>10, <2>1
    <3>2. PICK u, v : u = r.at /\ v = p.rows[1].at
      OBVIOUS
    <3>3. u \in Places /\ v \in Places /\ ~Pages!Later(before, u) /\ Pages!Later(before, v)
      BY <1>8, <1>11, <1>12, <1>15, <2>1, <2>3, <3>1, <3>2
    <3>4. Pages!Later(u, v)
      BY <1>3, <3>3, LaterOrders
    <3>5. QED
      BY <3>2, <3>4
  <2>4. QED
    BY <2>2, <2>3
<1>23. ASSUME back' # None, p.rows # <<>>
       PROVE  p.newer \in Places /\ Returns(b, filter, p.newer)
  <2>1. PICK c : c = p.newer
    OBVIOUS
  <2>2. Window(b, filter, before)
    BY <1>1, <1>2, <1>23, <2>1 DEF FeedInv, PageOK
  <2>3. 1 \in DOMAIN p.rows
    <3>1. Len(p.rows) # 0
      BY <1>8, <1>23, EmptySeq
    <3>2. QED
      BY <1>8, <3>1
  <2>4. c = p.rows[1].at /\ c \in Places /\ Pages!Later(before, c)
    BY <1>8, <1>9, <1>15, <1>23, <2>1, <2>3
  <2>5. /\ b \in Seq(X) /\ Len(b) = PageRows /\ Descending(b) /\ before = b[PageRows].at
        /\ \A r \in X : (\E i \in DOMAIN b : b[i] = r) \/ Pages!Later(r.at, b[1].at) \/ Pages!Later(before, r.at)
    BY <1>6, <2>2 DEF Window
  <2>6. DOMAIN b = 1..PageRows /\ \A i \in 1..PageRows : b[i] \in X /\ b[i].at \in Places
    BY <1>12, <2>5, LenProperties, ElementOfSeq
  <2>7. \A i \in 1..PageRows : b[i].at = before \/ Pages!Later(b[i].at, before)
    BY <1>10, <2>5, <2>6 DEF Descending
  <2>8. \A i \in 1..PageRows : b[i] \in X /\ Pages!Later(b[i].at, c)
    <3>1. SUFFICES ASSUME NEW i \in 1..PageRows PROVE b[i] \in X /\ Pages!Later(b[i].at, c)
      OBVIOUS
    <3>2. PICK u \in Places : u = b[i].at /\ (u = before \/ Pages!Later(u, before))
      BY <2>6, <2>7
    <3>3. Pages!Later(u, c)
      BY <1>3, <2>4, <3>2, LaterOrders
    <3>4. QED
      BY <2>6, <3>2, <3>3
  <2>9. \A i \in 1..PageRows : b[i] \in Before(filter, c)
    BY <1>6, <2>8 DEF Before
  <2>10. b \in Seq(Before(filter, c))
    <3>1. b \in [1..PageRows -> Before(filter, c)]
      BY <2>5, <2>6, <2>9
    <3>2. QED
      BY <1>10, <3>1, IsASeq
  <2>11. ASSUME NEW r \in Before(filter, c) PROVE (\E i \in DOMAIN b : b[i] = r) \/ Pages!Later(r.at, b[1].at)
    <3>1. r \in X /\ Pages!Later(r.at, c) /\ r.at \in Places
      BY <1>6, <1>12 DEF Before
    <3>2. SUFFICES ASSUME Pages!Later(before, r.at) PROVE FALSE
      BY <2>5, <3>1
    <3>3. r \in H
      BY <1>11, <3>1, <3>2
    <3>4. CASE \E i \in DOMAIN p.rows : p.rows[i] = r
      <4>1. PICK i \in DOMAIN p.rows : p.rows[i] = r
        BY <3>4
      <4>2. i = 1 \/ Pages!Later(c, r.at)
        BY <1>8, <1>9, <2>3, <2>4, <4>1 DEF Descending
      <4>3. QED
        BY <2>4, <3>1, <4>1, <4>2, LaterOrders
    <3>5. CASE p.older # None /\ Pages!Later(p.older, r.at)
      <4>1. p.older \in Places /\ PageRows \in DOMAIN p.rows /\ p.older = p.rows[PageRows].at
        BY <1>8, <1>9, <1>10, <3>5
      <4>2. p.older = c \/ Pages!Later(c, p.older)
        BY <1>8, <1>9, <1>10, <2>3, <2>4, <4>1 DEF Descending
      <4>3. QED
        BY <2>4, <3>1, <3>5, <4>1, <4>2, LaterOrders
    <3>6. QED
      BY <1>9, <3>3, <3>4, <3>5
  <2>12. Returns(b, filter, c)
    BY <2>5, <2>10, <2>11 DEF Returns
  <2>13. QED
    BY <2>1, <2>4, <2>12
<1>24. PageOK'
  <2>1. p.older # None => Window(p.rows, filter, p.older)'
    BY <1>2, <1>4, <1>22 DEF Window, Descending
  <2>2. QED
    BY <1>2, <1>4, <1>6, <1>9, <1>16, <1>17, <1>19, <1>20, <1>21, <2>1 DEF PageOK
<1>25. back' # None /\ p.rows # <<>> => p.newer \in Places /\ back' = b /\ Returns(b, filter, p.newer)'
  BY <1>2, <1>4, <1>23 DEF Returns, Before, Descending
<1>26. FeedOK' /\ Descending(shown)' /\ (steady \subseteq Pages!Rows(filter))'
  BY <1>2, <1>4, <1>16, <1>18 DEF FeedInv, FeedOK, Descending
<1>27. QED
  BY <1>2, <1>8, <1>16, <1>17, <1>24, <1>25, <1>26 DEF FeedInv

\* A row is shown once at the most.
LEMMA TimesIs ==
  ASSUME FeedInv, NEW r
  PROVE  /\ Pages!Times(r) <= 1
         /\ (\E i \in DOMAIN shown : shown[i] = r) => Pages!Times(r) = 1
<1>1. PICK m \in Nat : m = Len(shown) /\ DOMAIN shown = 1..m /\ \A i \in 1..m : shown[i].at \in Places
  <2>1. shown \in Seq(FeedRow)
    BY DEF FeedInv
  <2>2. Len(shown) \in Nat /\ DOMAIN shown = 1..Len(shown) /\ \A i \in 1..Len(shown) : shown[i] \in FeedRow
    BY <2>1, LenProperties, ElementOfSeq
  <2>3. QED
    BY <2>2 DEF FeedRow
<1>2. PICK I : I = {i \in DOMAIN shown : shown[i] = r}
  OBVIOUS
<1>3. Pages!Times(r) = Cardinality(I)
  BY <1>2, RowsAreCounted DEF Pages!Times
<1>4. \A i, j \in I : i = j
  <2>1. SUFFICES ASSUME NEW i \in 1..m, NEW j \in 1..m, shown[i] = r, shown[j] = r, i < j PROVE FALSE
    BY <1>1, <1>2
  <2>2. Pages!Later(r.at, r.at)
    BY <1>1, <2>1 DEF FeedInv, Descending
  <2>3. r.at \in Places
    BY <1>1, <2>1
  <2>4. QED
    BY <2>2, <2>3, LaterOrders
<1>5. CASE I = {}
  <2>1. Cardinality(I) = 0
    BY <1>5, FS_EmptySet
  <2>2. QED
    BY <1>2, <1>3, <1>5, <2>1
<1>6. CASE I # {}
  <2>1. PICK i : I = {i}
    BY <1>4, <1>6
  <2>2. Cardinality(I) = 1
    BY <2>1, FS_Singleton
  <2>3. QED
    BY <1>3, <2>2
<1>7. QED
  BY <1>5, <1>6

\* With nothing changed, the pages to the last are the rows that are counted.
LEMMA AllAreShown ==
  ASSUME FeedInv, page # None, page.older = None, changes = 0, filter # {}
  PROVE  Len(shown) = Pages!RowCount(CHOOSE s \in filter : TRUE)
<1>1. PICK s \in Labels : filter = {s}
  BY DEF FeedInv
<1>2. (CHOOSE u \in filter : TRUE) = s
  BY <1>1
<1>3. PICK X : X = Pages!Rows(filter)
  OBVIOUS
<1>4. Pages!RowCount(s) = Cardinality(X)
  BY <1>1, <1>3, RowCountIs DEF FeedInv
<1>5. IsFiniteSet(X)
  BY <1>3, RowsPlaced DEF FeedInv, Placed
<1>6. PICK m \in Nat : m = Len(shown) /\ DOMAIN shown = 1..m /\ \A i \in 1..m : shown[i].at \in Places
  <2>1. shown \in Seq(FeedRow)
    BY DEF FeedInv
  <2>2. Len(shown) \in Nat /\ DOMAIN shown = 1..Len(shown) /\ \A i \in 1..Len(shown) : shown[i] \in FeedRow
    BY <2>1, LenProperties, ElementOfSeq
  <2>3. QED
    BY <2>2 DEF FeedRow
<1>7. (\A r \in X : \E i \in 1..m : shown[i] = r) /\ \A i \in 1..m : shown[i] \in X
  BY <1>3, <1>6 DEF FeedInv, PageOK
<1>8. ASSUME NEW i \in 1..m, NEW j \in 1..m, shown[i] = shown[j] PROVE i = j
  <2>1. ~(i < j) /\ ~(j < i)
    BY <1>6, <1>8, LaterOrders DEF FeedInv, Descending
  <2>2. QED
    BY <2>1
<1>9. shown \in [1..m -> X]
  <2>1. shown = [i \in 1..m |-> shown[i]]
    BY <1>6 DEF FeedInv
  <2>2. QED
    BY <1>7, <2>1
<1>10. shown \in Injection(1..m, X) /\ shown \in Surjection(1..m, X)
  BY <1>7, <1>8, <1>9 DEF Injection, IsInjective, Surjection
<1>11. Cardinality(1..m) = Cardinality(X)
  BY <1>5, <1>10, FS_Injection
<1>12. Cardinality(1..m) = m
  <2>1. PICK a \in Int, b \in Int : a = 1 /\ b = m
    OBVIOUS
  <2>2. Cardinality(a..b) = IF a > b THEN 0 ELSE b - a + 1
    BY FS_Interval
  <2>3. QED
    BY <2>1, <2>2
<1>13. QED
  BY <1>2, <1>4, <1>6, <1>11, <1>12

LEMMA PagingFromInv ==
  ASSUME FeedInv
  PROVE  Pages!PagingIsComplete
<1>1. \A r \in steady : Pages!Times(r) <= 1
  BY TimesIs
<1>2. ASSUME page # None, page.older = None
      PROVE  /\ \A r \in steady : Pages!Times(r) = 1
             /\ (changes = 0 /\ filter # {}) => Len(shown) = Pages!RowCount(CHOOSE s \in filter : TRUE)
  <2>1. \A r \in steady : \E i \in DOMAIN shown : shown[i] = r
    BY <1>2 DEF FeedInv, PageOK
  <2>2. \A r \in steady : Pages!Times(r) = 1
    BY <2>1, TimesIs
  <2>3. QED
    BY <1>2, <2>2, AllAreShown
<1>3. Pages!NewerUndoesOlder
  <2>1. SUFFICES ASSUME back # None, page.rows # <<>> PROVE Pages!Page(filter, None, page.newer).rows = back
    BY DEF Pages!NewerUndoesOlder
  <2>2. page.newer \in Places /\ Returns(back, filter, page.newer)
    BY <2>1 DEF FeedInv
  <2>3. Placed(Pages!Rows(filter))
    BY RowsPlaced DEF FeedInv
  <2>4. QED
    BY <2>2, <2>3, NewerPage
<1>4. QED
  BY <1>1, <1>2, <1>3 DEF Pages!PagingIsComplete

\* Where nothing happens to the feed, all stays as it is.
LEMMA FeedStays ==
  ASSUME FeedInv, UNCHANGED feedVars
  PROVE  FeedInv'
<1>1. Pages!Rows(filter)' = Pages!Rows(filter)
  BY SameRows DEF feedVars
<1>2. UNCHANGED <<feed, filter, page, shown, steady, back, quiet, changes>>
  BY DEF feedVars
<1>3. page # None => PageOK'
  <2>1. SUFFICES ASSUME page # None PROVE PageOK'
    OBVIOUS
  <2>2. PageOK
    BY <2>1 DEF FeedInv
  <2>3. Window(page.rows, filter, page.older) => Window(page.rows, filter, page.older)'
    BY <1>1, <1>2 DEF Window, Descending
  <2>4. QED
    BY <1>1, <1>2, <2>2, <2>3 DEF PageOK
<1>4. Returns(back, filter, page.newer) => Returns(back, filter, page.newer)'
  BY <1>1, <1>2 DEF Returns, Before, Descending
<1>5. FeedOK' /\ Descending(shown)' /\ (steady \subseteq Pages!Rows(filter))'
  BY <1>1, <1>2 DEF FeedInv, FeedOK, Descending
<1>6. QED
  BY <1>2, <1>3, <1>4, <1>5 DEF FeedInv

LEMMA FeedInit ==
  ASSUME Pages!Init
  PROVE  FeedInv
<1>1. /\ feed = <<>> /\ shown = <<>> /\ page = None /\ back = None /\ changes = 0 /\ steady = {}
      /\ (filter = {} \/ \E s \in Labels : filter = {s})
  BY DEF Pages!Init
<1>2. FeedOK
  BY <1>1, EmptySeq DEF FeedOK
<1>3. shown \in Seq(FeedRow) /\ Descending(shown)
  BY <1>1, EmptySeq DEF Descending
<1>4. QED
  BY <1>1, <1>2, <1>3 DEF FeedInv

(* Who turns the pages of the event feed from the newest row to the oldest   *)
(* sees every row that stays as it was exactly once, whatever arrives late   *)
(* or is labelled in between; with nothing changed as many rows as the       *)
(* counts beside the filter say; and the page toward newer rows takes back   *)
(* the step toward older ones.  For any number of events, changes, groups    *)
(* and labels, and any length of a page.                                     *)
(* (api/app/v2/routes/events.py, feed and counts of sql/events.sql)          *)
THEOREM PagesAreComplete == ServerSpec => []PagingIsComplete
<1> DEFINE IInv == part = "feed" => FeedInv
<1>1. ServerInit => IInv
  BY FeedInit DEF ServerInit
<1>2. IInv /\ [ServerNext]_<<part, ingestVars, readVars, importVars, periodVars, evaluationVars, feedVars, floodVars, twinVars>> => IInv'
  <2>1. SUFFICES ASSUME IInv, [ServerNext]_<<part, ingestVars, readVars, importVars, periodVars, evaluationVars, feedVars, floodVars, twinVars>>,
                        part' = "feed"
                 PROVE  FeedInv'
    OBVIOUS
  <2>2. CASE part = "feed" /\ Pages!Next
    <3>1. CASE \E ts \in Stamps, g \in Groups \cup {OwnRow} : Pages!Arrive(ts, g)
      BY <2>1, <2>2, <3>1, ArriveStep
    <3>2. CASE \E e \in DOMAIN feed, s \in Labels : Pages!Label(e, s)
      BY <2>1, <2>2, <3>2, LabelStep
    <3>3. CASE Pages!Open
      BY <2>1, <2>2, <3>3, OpenStep
    <3>4. CASE Pages!Older
      BY <2>1, <2>2, <3>4, OlderStep
    <3>5. QED
      BY <2>2, <3>1, <3>2, <3>3, <3>4 DEF Pages!Next
  <2>3. CASE part = "feed" /\ UNCHANGED feedVars
    BY <2>1, <2>3, FeedStays
  <2>4. QED
    BY <2>1, <2>2, <2>3 DEF ServerNext
<1>3. IInv => PagingIsComplete
  BY PagingFromInv DEF PagingIsComplete
<1>4. QED
  BY <1>1, <1>2, <1>3, PTL DEF ServerSpec

-----------------------------------------------------------------------------
(* The rules of the detectors: folds, and times in order.                   *)

Rules == INSTANCE FloodRules

\* A fold over a finite set, one element taken out after the other, is a function.
FoldOf(h, S, A, base, pick, step) ==
  /\ h \in [SUBSET S -> A] /\ h[{}] = base
  /\ \A t \in SUBSET S : t # {} => h[t] = step[<<h[t \ {pick[t]}], pick[t]>>]

LEMMA FoldExists ==
  ASSUME NEW S, IsFiniteSet(S), NEW A, NEW base \in A,
         NEW pick, \A t \in SUBSET S : t # {} => pick[t] \in t,
         NEW step, \A a \in A, x \in S : step[<<a, x>>] \in A
  PROVE  \E h : FoldOf(h, S, A, base, pick, step)
<1> DEFINE H(n) == {t \in SUBSET S : Cardinality(t) <= n}
           Is(h, n) == /\ h \in [H(n) -> A] /\ h[{}] = base
                       /\ \A t \in H(n) : t # {} => h[t] = step[<<h[t \ {pick[t]}], pick[t]>>]
           Bad == {n \in Nat : ~\E h : Is(h, n)}
<1>1. \A t \in SUBSET S : IsFiniteSet(t) /\ Cardinality(t) \in Nat
  BY FS_Subset, FS_CardinalityType
<1>2. \A t \in SUBSET S : t # {} => /\ t \ {pick[t]} \in SUBSET S
                                   /\ Cardinality(t \ {pick[t]}) = Cardinality(t) - 1
  BY <1>1, FS_RemoveElement
<1>3. \A t \in SUBSET S : Cardinality(t) = 0 <=> t = {}
  BY <1>1, FS_EmptySet
<1>4. 0 \notin Bad
  <2>1. H(0) = {{}}
    BY <1>1, <1>3
  <2>2. Is([t \in H(0) |-> base], 0)
    BY <2>1
  <2>3. QED
    BY <2>2
<1>5. ASSUME NEW n \in Nat, n \notin Bad PROVE n + 1 \notin Bad
  <2>1. PICK h : Is(h, n)
    BY <1>5
  <2> DEFINE g == [t \in H(n + 1) |-> IF t \in H(n) THEN h[t] ELSE step[<<h[t \ {pick[t]}], pick[t]>>]]
  <2>2. ASSUME NEW t \in H(n + 1), t # {} PROVE t \ {pick[t]} \in H(n) /\ pick[t] \in S
    BY <1>1, <1>2, <2>2
  <2>3. H(n) \subseteq H(n + 1)
    BY <1>1
  <2>4. {} \in H(n)
    BY <1>1, <1>3
  <2>5. \A t \in H(n) : h[t] \in A
    BY <2>1
  <2>6. ASSUME NEW t \in H(n + 1) PROVE g[t] \in A
    <3>1. CASE t \in H(n)
      BY <2>5, <3>1
    <3>2. CASE t \notin H(n)
      <4>1. t # {}
        BY <2>4, <3>2
      <4>2. h[t \ {pick[t]}] \in A /\ pick[t] \in S
        BY <2>2, <2>5, <4>1
      <4>3. QED
        BY <3>2, <4>2
    <3>3. QED
      BY <3>1, <3>2
  <2>7. g[{}] = base
    BY <2>1, <2>3, <2>4
  <2>8. ASSUME NEW t \in H(n + 1), t # {} PROVE g[t] = step[<<g[t \ {pick[t]}], pick[t]>>]
    <3>1. t \ {pick[t]} \in H(n) /\ t \ {pick[t]} \in H(n + 1)
      BY <2>2, <2>3, <2>8
    <3>2. g[t \ {pick[t]}] = h[t \ {pick[t]}]
      BY <3>1
    <3>3. CASE t \in H(n)
      BY <2>1, <2>8, <3>2, <3>3
    <3>4. CASE t \notin H(n)
      BY <3>2, <3>4
    <3>5. QED
      BY <3>3, <3>4
  <2>9. Is(g, n + 1)
    <3>1. g = [t \in H(n + 1) |-> g[t]]
      OBVIOUS
    <3> HIDE DEF g, H
    <3>2. g \in [H(n + 1) -> A]
      BY <2>6, <3>1
    <3>3. QED
      BY <2>7, <2>8, <3>2
  <2> HIDE DEF Is
  <2>10. QED
    BY <2>9
<1> HIDE DEF Is
<1>6. \A n \in Nat : n \notin Bad
  <2> SUFFICES ASSUME Bad # {} PROVE FALSE
    OBVIOUS
  <2>1. PICK n \in Bad : \A k \in Bad : n <= k
    <3>1. Bad \in SUBSET Nat
      OBVIOUS
    <3> HIDE DEF Bad
    <3>2. QED
      BY <3>1, LeastOfSet
  <2>2. n \in Nat /\ n # 0
    BY <1>4, <2>1
  <2>3. n - 1 \in Nat /\ n - 1 + 1 = n
    BY <2>2
  <2>4. n - 1 \notin Bad
    BY <2>1, <2>2, <2>3
  <2> HIDE DEF Bad
  <2>5. QED
    BY <1>5, <2>1, <2>3, <2>4
<1>7. PICK n \in Nat : n = Cardinality(S)
  BY FS_CardinalityType
<1>8. PICK h : Is(h, n)
  BY <1>6
<1>9. H(n) = SUBSET S
  <2>1. \A t \in SUBSET S : Cardinality(t) <= n
    BY <1>7, FS_Subset
  <2>2. QED
    BY <2>1
<1>10. QED
  BY <1>8, <1>9 DEF Is, FoldOf

\* The rules count as their proofs do.
LEMMA RulesCount ==
  \A S : Rules!Cardinality(S) = Cardinality(S)
BY DEF Rules!Cardinality, Cardinality

LEMMA MaxMinAre ==
  ASSUME NEW S, S \subseteq Int, IsFiniteSet(S), S # {}
  PROVE  /\ Rules!Max(S) \in S /\ \A t \in S : t <= Rules!Max(S)
         /\ Rules!Min(S) \in S /\ \A t \in S : Rules!Min(S) <= t
<1>1. \E m \in S : \A t \in S : t <= m
  <2> DEFINE R == {p \in S \X S : p[1] < p[2]}
  <2>1. \A x, y \in S : <<x, y>> \in R <=> x < y
    OBVIOUS
  <2> HIDE DEF R
  <2>2. Orders(R, S)
    BY <2>1 DEF Orders
  <2>3. PICK m \in S : \A x \in S \ {m} : <<x, m>> \in R
    BY <2>2, LastOf
  <2>4. m \in Int /\ \A x \in S : x = m \/ x < m
    BY <2>1, <2>3
  <2>5. QED
    BY <2>4
<1>2. \E m \in S : \A t \in S : m <= t
  <2> DEFINE R == {p \in S \X S : p[2] < p[1]}
  <2>1. \A x, y \in S : <<x, y>> \in R <=> y < x
    OBVIOUS
  <2> HIDE DEF R
  <2>2. Orders(R, S)
    BY <2>1 DEF Orders
  <2>3. PICK m \in S : \A x \in S \ {m} : <<x, m>> \in R
    BY <2>2, LastOf
  <2>4. m \in Int /\ \A x \in S : x = m \/ m < x
    BY <2>1, <2>3
  <2>5. QED
    BY <2>4
<1>3. QED
  BY <1>1, <1>2 DEF Rules!Max, Rules!Min

\* 1..n has n members.
LEMMA UpTo ==
  ASSUME NEW n \in Nat
  PROVE  IsFiniteSet(1..n) /\ Cardinality(1..n) = n
<1>1. PICK a \in Int, b \in Int : a = 1 /\ b = n
  OBVIOUS
<1>2. IsFiniteSet(a..b) /\ Cardinality(a..b) = IF a > b THEN 0 ELSE b - a + 1
  BY FS_Interval
<1>3. QED
  BY <1>1, <1>2

\* Times in ascending order are a sequence of all of them.
Rising(f, n, T) ==
  /\ f \in [1..n -> T] /\ \A i, j \in 1..n : i < j => f[i] < f[j]
  /\ \A t \in T : \E i \in 1..n : f[i] = t

LEMMA AscendingIs ==
  ASSUME NEW T, T \subseteq Int, IsFiniteSet(T)
  PROVE  \E n \in Nat : n = Cardinality(T) /\ Rising(Rules!Ascending(T), n, T)
<1> DEFINE R == {p \in T \X T : p[1] < p[2]}
<1>1. \A x, y \in T : <<x, y>> \in R <=> x < y
  OBVIOUS
<1> HIDE DEF R
<1>2. Orders(R, T)
  BY <1>1 DEF Orders
<1>3. PICK n \in Nat : n = Cardinality(T)
  BY FS_CardinalityType
<1>4. PICK f \in [1..n -> T] : \A i, j \in 1..n : i < j => <<f[i], f[j]>> \in R
  BY <1>2, <1>3, SequenceOf
<1>5. \A t \in T : \E i \in 1..n : f[i] = t
  BY <1>2, <1>3, <1>4, SequenceHasAll
<1>6. \A i, j \in 1..n : i < j => f[i] < f[j]
  BY <1>1, <1>4
<1>7. \A i, j \in 1..n : f[j] <= f[i] <=> j <= i
  <2>1. SUFFICES ASSUME NEW i \in 1..n, NEW j \in 1..n PROVE f[j] <= f[i] <=> j <= i
    OBVIOUS
  <2>2. f[i] \in Int /\ f[j] \in Int
    BY <1>4
  <2>3. (i < j => f[i] < f[j]) /\ (j < i => f[j] < f[i])
    BY <1>6
  <2>4. QED
    BY <2>2, <2>3
<1>8. ASSUME NEW i \in 1..n PROVE Cardinality({u \in T : u <= f[i]}) = i
  <2>1. i \in Nat /\ 1..i \subseteq 1..n
    OBVIOUS
  <2> DEFINE B == {u \in T : u <= f[i]}
             g == [j \in 1..i |-> f[j]]
  <2>2. IsFiniteSet(B)
    BY FS_Subset
  <2>3. g \in Surjection(1..i, B) /\ g \in Injection(1..i, B)
    <3>1. \A j \in 1..i : g[j] \in B
      BY <1>4, <1>7, <2>1
    <3>2. \A b \in B : \E j \in 1..i : g[j] = b
      <4>1. SUFFICES ASSUME NEW b \in B PROVE \E j \in 1..i : g[j] = b
        OBVIOUS
      <4>2. PICK j \in 1..n : f[j] = b
        BY <1>5
      <4>3. j <= i
        BY <1>7, <4>2
      <4>4. j \in 1..i
        BY <4>3
      <4>5. QED
        BY <4>2, <4>4
    <3>3. \A j, k \in 1..i : g[j] = g[k] => j = k
      <4>1. SUFFICES ASSUME NEW j \in 1..i, NEW k \in 1..i, g[j] = g[k] PROVE j = k
        OBVIOUS
      <4>2. j \in 1..n /\ k \in 1..n /\ f[j] = f[k] /\ f[j] \in Int
        BY <1>4, <2>1, <4>1
      <4>3. (f[j] <= f[k] <=> j <= k) /\ (f[k] <= f[j] <=> k <= j)
        BY <1>7, <4>2
      <4>4. QED
        BY <4>2, <4>3
    <3>4. g = [j \in 1..i |-> g[j]]
      OBVIOUS
    <3> HIDE DEF g, B
    <3>5. QED
      BY <3>1, <3>2, <3>3, <3>4 DEF Surjection, Injection, IsInjective
  <2>4. IsFiniteSet(1..i) /\ Cardinality(1..i) = i
    BY <2>1, UpTo
  <2> HIDE DEF B, g
  <2>5. Cardinality(B) = Cardinality(1..i)
    BY <2>3, <2>4, FS_Surjection
  <2>6. QED
    BY <2>4, <2>5 DEF B
<1>9. ASSUME NEW i \in 1..n PROVE (CHOOSE t \in T : Cardinality({u \in T : u <= t}) = i) = f[i]
  <2>1. f[i] \in T /\ Cardinality({u \in T : u <= f[i]}) = i
    BY <1>4, <1>8
  <2>2. ASSUME NEW t \in T, Cardinality({u \in T : u <= t}) = i PROVE t = f[i]
    <3>1. PICK j \in 1..n : f[j] = t
      BY <1>5
    <3>2. Cardinality({u \in T : u <= t}) = j
      BY <1>8, <3>1
    <3>3. QED
      BY <2>2, <3>1, <3>2
  <2>3. QED
    BY <2>1, <2>2
<1>10. Rules!Ascending(T) = f
  <2>1. Rules!Ascending(T) = [i \in 1..Cardinality(T) |-> CHOOSE t \in T : Cardinality({u \in T : u <= t}) = i]
    BY Zenon DEF Rules!Ascending, Rules!Cardinality, Cardinality
  <2> DEFINE C(i) == CHOOSE t \in T : Cardinality({u \in T : u <= t}) = i
  <2>2. \A i \in 1..n : C(i) = f[i]
    BY <1>9
  <2>3. Rules!Ascending(T) = [i \in 1..n |-> C(i)]
    BY Zenon, <1>3, <2>1
  <2>4. f = [i \in 1..n |-> f[i]]
    BY <1>4
  <2> HIDE DEF C
  <2>5. [i \in 1..n |-> C(i)] = [i \in 1..n |-> f[i]]
    BY <2>2
  <2>6. QED
    BY Zenon, <2>3, <2>4, <2>5
<1>11. QED
  BY <1>3, <1>4, <1>5, <1>6, <1>10 DEF Rising

-----------------------------------------------------------------------------
(* Episodes: runs of times without a silence longer than the gap.           *)

\* A run is not empty, later runs are later by more than the gap, and the runs
\* hold the times told so far.
RunsOK(r, T, gap) ==
  /\ r \in Seq(SUBSET T) /\ \A i \in 1..Len(r) : r[i] # {}
  /\ \A i, j \in 1..Len(r) : i < j => \A x \in r[i], y \in r[j] : y - x > gap
  /\ \A t \in T : \E i \in 1..Len(r) : t \in r[i]

LEMMA AddIs ==
  ASSUME NEW T, NEW a \in Seq(SUBSET T), NEW t \in T, NEW gap
  PROVE  Rules!AddToEpisodes(a, t, gap) \in Seq(SUBSET T)
<1>1. a # <<>> => Len(a) \in 1..Len(a)
  BY EmptySeq, LenProperties
<1>2. Append(a, {t}) \in Seq(SUBSET T)
  BY AppendProperties
<1>3. a # <<>> => [a EXCEPT ![Len(a)] = a[Len(a)] \cup {t}] \in Seq(SUBSET T)
  <2>1. SUFFICES ASSUME a # <<>> PROVE [a EXCEPT ![Len(a)] = a[Len(a)] \cup {t}] \in Seq(SUBSET T)
    OBVIOUS
  <2>2. Len(a) \in 1..Len(a)
    BY <1>1, <2>1
  <2>3. a[Len(a)] \in SUBSET T
    BY <2>2, ElementOfSeq
  <2>4. QED
    BY <2>2, <2>3, ExceptSeq
<1>4. Rules!AddToEpisodes(a, t, gap) =
        IF a = <<>> \/ t - Rules!Max(a[Len(a)]) > gap THEN Append(a, {t})
        ELSE [a EXCEPT ![Len(a)] = a[Len(a)] \cup {t}]
  BY DEF Rules!AddToEpisodes
<1>5. QED
  BY <1>1, <1>2, <1>3, <1>4

\* One time more, later than all told so far, keeps the runs as they should be.
LEMMA AddKeeps ==
  ASSUME NEW T, T \subseteq Int, IsFiniteSet(T), NEW gap \in Nat, NEW t \in Int, \A x \in T : x < t,
         NEW a, RunsOK(a, T, gap)
  PROVE  RunsOK(Rules!AddToEpisodes(a, t, gap), T \cup {t}, gap)
<1> DEFINE U == T \cup {t}
           L == Len(a)
           far == a = <<>> \/ t - Rules!Max(a[L]) > gap
<1>1. /\ a \in Seq(SUBSET T) /\ \A i \in 1..L : a[i] # {}
      /\ \A i, j \in 1..L : i < j => \A x \in a[i], y \in a[j] : y - x > gap
      /\ \A x \in T : \E i \in 1..L : x \in a[i]
  BY DEF RunsOK
<1>2. \A i \in 1..L : a[i] \in SUBSET T
  BY <1>1, ElementOfSeq
<1>3. a \in Seq(SUBSET U) /\ L \in Nat /\ (a # <<>> => L \in 1..L)
  <2>1. a \in Seq(SUBSET U)
    BY <1>1
  <2>2. QED
    BY <1>1, <2>1, EmptySeq, LenProperties
<1>4. PICK b : b = Rules!AddToEpisodes(a, t, gap)
  OBVIOUS
<1>5. b = IF far THEN Append(a, {t}) ELSE [a EXCEPT ![L] = a[L] \cup {t}]
  BY <1>4 DEF Rules!AddToEpisodes
<1>6. b \in Seq(SUBSET U)
  BY <1>3, <1>4, AddIs
<1>7. a # <<>> => Rules!Max(a[L]) \in a[L] /\ \A x \in a[L] : x <= Rules!Max(a[L])
  <2>1. SUFFICES ASSUME a # <<>> PROVE Rules!Max(a[L]) \in a[L] /\ \A x \in a[L] : x <= Rules!Max(a[L])
    OBVIOUS
  <2>2. a[L] # {} /\ a[L] \subseteq T
    BY <1>1, <1>2, <1>3, <2>1
  <2>3. a[L] \subseteq Int /\ IsFiniteSet(a[L])
    BY <2>2, FS_Subset
  <2>4. QED
    BY <2>2, <2>3, MaxMinAre
<1>8. CASE far
  <2>1. b = Append(a, {t})
    BY <1>5, <1>8
  <2>2. Len(b) = L + 1 /\ (\A i \in 1..L : b[i] = a[i]) /\ b[L + 1] = {t}
    BY <1>3, <2>1, AppendProperties
  <2>3. \A i \in 1..Len(b) : i \in 1..L \/ i = L + 1
    BY <1>3, <2>2
  <2>4. \A i \in 1..L : \A x \in a[i] : t - x > gap
    <3>1. SUFFICES ASSUME NEW i \in 1..L, NEW x \in a[i] PROVE t - x > gap
      OBVIOUS
    <3>2. a # <<>> /\ L \in 1..L
      BY <1>3, EmptySeq
    <3>3. PICK m \in a[L] : m = Rules!Max(a[L]) /\ \A y \in a[L] : y <= m
      BY <1>7, <3>2
    <3>4. m \in Int /\ x \in Int /\ t - m > gap
      BY <1>2, <1>8, <3>2, <3>3
    <3>5. x <= m
      <4>1. CASE i = L
        BY <3>3, <4>1
      <4>2. CASE i # L
        <5>1. i < L
          BY <4>2
        <5>2. m - x > gap
          BY <1>1, <3>2, <5>1
        <5>3. QED
          BY <3>4, <5>2
      <4>3. QED
        BY <4>1, <4>2
    <3>6. QED
      BY <3>4, <3>5
  <2>5. \A i \in 1..Len(b) : b[i] # {}
    BY <1>1, <2>2, <2>3
  <2>6. ASSUME NEW i \in 1..Len(b), NEW j \in 1..Len(b), i < j, NEW x \in b[i], NEW y \in b[j] PROVE y - x > gap
    <3>1. i \in 1..L
      BY <1>3, <2>2, <2>6
    <3>2. CASE j \in 1..L
      BY <1>1, <2>2, <2>6, <3>1, <3>2
    <3>3. CASE j = L + 1
      BY <2>2, <2>4, <2>6, <3>1, <3>3
    <3>4. QED
      BY <2>3, <3>2, <3>3
  <2>7. \A x \in U : \E i \in 1..Len(b) : x \in b[i]
    <3>1. L + 1 \in 1..Len(b) /\ \A i \in 1..L : i \in 1..Len(b)
      BY <1>3, <2>2
    <3>2. ASSUME NEW x \in T PROVE \E i \in 1..Len(b) : x \in b[i]
      <4>1. PICK i \in 1..L : x \in a[i]
        BY <1>1
      <4>2. i \in 1..Len(b) /\ x \in b[i]
        BY <2>2, <3>1, <4>1
      <4>3. QED
        BY <4>2
    <3>3. t \in b[L + 1]
      BY <2>2
    <3>4. QED
      BY ONLY <3>1, <3>2, <3>3
  <2>8. QED
    BY <1>4, <1>6, <2>5, <2>6, <2>7 DEF RunsOK
<1>9. CASE ~far
  <2>1. b = [a EXCEPT ![L] = a[L] \cup {t}] /\ a # <<>> /\ L \in 1..L
    BY <1>3, <1>5, <1>9
  <2>2. DOMAIN a = 1..L
    BY <1>3, LenProperties
  <2>3. Len(b) = L /\ b[L] = a[L] \cup {t} /\ \A i \in 1..L : i # L => b[i] = a[i]
    <3>1. DOMAIN b = 1..L /\ b[L] = a[L] \cup {t} /\ \A i \in 1..L : i # L => b[i] = a[i]
      BY <2>1, <2>2
    <3>2. DOMAIN b = 1..Len(b) /\ Len(b) \in Nat
      BY <1>6, LenProperties
    <3>3. Len(b) = L
      BY <1>3, <3>1, <3>2
    <3>4. QED
      BY <3>1, <3>3
  <2>4. \A i \in 1..Len(b) : b[i] # {}
    BY <1>1, <2>3
  <2>5. ASSUME NEW i \in 1..L, NEW j \in 1..L, i < j, NEW x \in b[i], NEW y \in b[j] PROVE y - x > gap
    <3>1. i # L /\ x \in a[i]
      BY <2>3, <2>5
    <3>2. CASE y \in a[j]
      BY <1>1, <2>5, <3>1, <3>2
    <3>3. CASE y \notin a[j]
      <4>1. j = L /\ y = t
        <5>1. j = L
          BY <2>3, <2>5, <3>3
        <5>2. y \in a[L] \cup {t} /\ y \notin a[L]
          BY <2>3, <2>5, <3>3, <5>1
        <5>3. QED
          BY <5>1, <5>2
      <4>2. PICK z \in a[L] : z \in T
        BY <1>1, <1>2, <2>1
      <4>3. z - x > gap
        BY <1>1, <2>5, <3>1, <4>1, <4>2
      <4>4. x \in T
        BY <1>2, <3>1
      <4>5. x \in Int /\ z \in Int /\ z < t
        BY <4>2, <4>4
      <4>6. QED
        BY ONLY <4>1, <4>3, <4>5, gap \in Int, t \in Int
    <3>4. QED
      BY <3>2, <3>3
  <2>6. \A x \in U : \E i \in 1..Len(b) : x \in b[i]
    BY <1>1, <2>1, <2>3
  <2>7. QED
    BY <1>4, <1>6, <2>3, <2>4, <2>5, <2>6 DEF RunsOK
<1>10. QED
  BY <1>8, <1>9

\* What a time belongs to.
Folded(E, gap) == Rules!FoldLeft(LAMBDA eps, t : Rules!AddToEpisodes(eps, t, gap), <<>>, Rules!Ascending(Rules!Times(E)))

LEMMA RunsAre ==
  ASSUME NEW E, NEW T, T = Rules!Times(E), T \subseteq Int, IsFiniteSet(T), NEW gap \in Nat
  PROVE  RunsOK(Folded(E, gap), T, gap)
<1>1. PICK n \in Nat : n = Cardinality(T) /\ Rising(Rules!Ascending(T), n, T)
  BY AscendingIs
<1>2. PICK A : A = Rules!Ascending(T)
  OBVIOUS
<1>3. A \in [1..n -> T] /\ DOMAIN A = 1..n /\ (\A i, j \in 1..n : i < j => A[i] < A[j]) /\ \A t \in T : \E i \in 1..n : A[i] = t
  BY <1>1, <1>2 DEF Rising
<1> DEFINE S == 1..n
           Entry(k, s) == IF s = {} THEN <<>> ELSE Rules!AddToEpisodes(k[s \ {Rules!Max(s)}], A[Rules!Max(s)], gap)
           IsFold(k) == k = [s \in SUBSET S |-> Entry(k, s)]
           f == CHOOSE k : IsFold(k)
<1>4. Folded(E, gap) = f[S]
  <2>1. Folded(E, gap) = Rules!FoldLeft(LAMBDA eps, t : Rules!AddToEpisodes(eps, t, gap), <<>>, A)
    BY Zenon, <1>2 DEF Folded
  <2>2. Rules!FoldLeft(LAMBDA eps, t : Rules!AddToEpisodes(eps, t, gap), <<>>, A) =
          (CHOOSE k : k = [s \in SUBSET (DOMAIN A) |-> Entry(k, s)])[DOMAIN A]
    BY Zenon DEF Rules!FoldLeft, Rules!MapThenFoldSet
  <2>3. QED
    BY Zenon, <1>3, <2>1, <2>2
<1>5. \E g : IsFold(g)
  <2> DEFINE B == Seq(SUBSET T)
             pick == [s \in SUBSET S |-> Rules!Max(s)]
             step == [p \in B \X S |-> Rules!AddToEpisodes(p[1], A[p[2]], gap)]
  <2>1. \A s \in SUBSET S : s # {} => Rules!Max(s) \in s
    <3>1. SUFFICES ASSUME NEW s \in SUBSET S, s # {} PROVE Rules!Max(s) \in s
      OBVIOUS
    <3>2. IsFiniteSet(S) /\ S \subseteq Int
      BY UpTo
    <3> HIDE DEF S
    <3>4. IsFiniteSet(s) /\ s \subseteq Int
      BY <3>2, FS_Subset
    <3>3. QED
      BY <3>1, <3>4, MaxMinAre
  <2>2. \A a \in B, x \in S : Rules!AddToEpisodes(a, A[x], gap) \in B
    BY <1>3, AddIs
  <2>3. <<>> \in B
    OBVIOUS
  <2>4. IsFiniteSet(S)
    BY UpTo
  <2> HIDE DEF B, S
  <2>9. \A s \in SUBSET S : s # {} => pick[s] \in s
    BY <2>1
  <2>10. \A a \in B, x \in S : step[<<a, x>>] \in B
    BY <2>2
  <2>11. /\ \A s \in SUBSET S : pick[s] = Rules!Max(s)
         /\ \A a \in B, x \in S : step[<<a, x>>] = Rules!AddToEpisodes(a, A[x], gap)
    OBVIOUS
  <2> HIDE DEF pick, step
  <2>12. PICK h : FoldOf(h, S, B, <<>>, pick, step)
    BY <2>3, <2>4, <2>9, <2>10, FoldExists
  <2>5. /\ h \in [SUBSET S -> B] /\ h[{}] = <<>>
        /\ \A t \in SUBSET S : t # {} => h[t] = step[<<h[t \ {pick[t]}], pick[t]>>]
    BY <2>12 DEF FoldOf
  <2>6. \A s \in SUBSET S : h[s] = Entry(h, s)
    <3>1. SUFFICES ASSUME NEW s \in SUBSET S, s # {} PROVE h[s] = Entry(h, s)
      BY <2>5
    <3>2. Rules!Max(s) \in S /\ h[s \ {Rules!Max(s)}] \in B
      BY <2>1, <2>5, <3>1
    <3>3. h[s] = step[<<h[s \ {Rules!Max(s)}], Rules!Max(s)>>]
      BY <2>5, <2>11, <3>1
    <3>4. QED
      BY <2>11, <3>1, <3>2, <3>3
  <2> HIDE DEF Entry
  <2>7. h = [s \in SUBSET S |-> Entry(h, s)]
    BY <2>5, <2>6
  <2>8. QED
    BY <2>7
<1>6. IsFold(f)
  <2> HIDE DEF IsFold
  <2>1. QED
    BY <1>5
<1>7. \A s \in SUBSET S : f[s] = Entry(f, s)
  <2> HIDE DEF Entry, f
  <2>1. QED
    BY <1>6
<1> HIDE DEF f, IsFold
<1>8. f[1..0] = <<>>
  <2>1. 1..0 = {} /\ {} \in SUBSET S
    OBVIOUS
  <2>2. f[{}] = Entry(f, {})
    BY <1>7, <2>1
  <2>3. QED
    BY <2>1, <2>2
<1>9. ASSUME NEW k \in 1..n PROVE f[1..k] = Rules!AddToEpisodes(f[1..(k - 1)], A[k], gap)
  <2>1. 1..k \in SUBSET S /\ 1..k # {} /\ k \in 1..k
    OBVIOUS
  <2>2. Rules!Max(1..k) = k
    <3>1. IsFiniteSet(1..k) /\ 1..k \subseteq Int
      BY UpTo
    <3>2. Rules!Max(1..k) \in 1..k /\ k <= Rules!Max(1..k)
      BY <2>1, <3>1, MaxMinAre
    <3>3. QED
      BY <3>2
  <2>3. (1..k) \ {k} = 1..(k - 1)
    OBVIOUS
  <2>4. f[1..k] = Entry(f, 1..k)
    BY <1>7, <2>1
  <2>5. QED
    BY <2>1, <2>2, <2>3, <2>4
<1> DEFINE Told(k) == {A[i] : i \in 1..k}
           Bad == {k \in 0..n : ~RunsOK(f[1..k], Told(k), gap)}
<1>10. 0 \notin Bad
  <2>1. Told(0) = {} /\ 0 \in 0..n
    OBVIOUS
  <2>2. RunsOK(<<>>, {}, gap)
    BY EmptySeq DEF RunsOK
  <2>3. QED
    BY <1>8, <2>1, <2>2
<1>11. ASSUME NEW k \in 1..n, k - 1 \notin Bad PROVE k \notin Bad
  <2>1. k - 1 \in 0..n
    OBVIOUS
  <2>2. RunsOK(f[1..(k - 1)], Told(k - 1), gap)
    BY <1>11, <2>1
  <2>3. Told(k) = Told(k - 1) \cup {A[k]}
    <3>1. 1..k = 1..(k - 1) \cup {k}
      OBVIOUS
    <3>2. QED
      BY <3>1
  <2>4. Told(k - 1) \subseteq T /\ A[k] \in T
    BY <1>3
  <2>5. \A x \in Told(k - 1) : x < A[k]
    <3>1. SUFFICES ASSUME NEW i \in 1..(k - 1) PROVE A[i] < A[k]
      OBVIOUS
    <3>2. i \in 1..n /\ i < k
      OBVIOUS
    <3>3. QED
      BY <1>3, <3>2
  <2>6. IsFiniteSet(Told(k - 1))
    BY <2>4, FS_Subset
  <2> HIDE DEF Told
  <2>7. RunsOK(Rules!AddToEpisodes(f[1..(k - 1)], A[k], gap), Told(k - 1) \cup {A[k]}, gap)
    BY <2>2, <2>4, <2>5, <2>6, AddKeeps
  <2>8. QED
    BY <1>9, <2>3, <2>7
<1>12. Bad = {}
  <2> SUFFICES ASSUME Bad # {} PROVE FALSE
    OBVIOUS
  <2>1. PICK k \in Bad : \A j \in Bad : k <= j
    <3>1. Bad \in SUBSET Nat
      OBVIOUS
    <3> HIDE DEF Bad
    <3>2. QED
      BY <3>1, LeastOfSet
  <2>2. k \in 0..n /\ k # 0
    BY <1>10, <2>1
  <2>3. k \in 1..n /\ ~(k <= k - 1)
    BY <2>2
  <2>4. k - 1 \notin Bad
    BY <2>1, <2>3
  <2> HIDE DEF Bad
  <2>5. QED
    BY <1>11, <2>1, <2>3, <2>4
<1>13. RunsOK(f[1..n], Told(n), gap)
  <2>1. n \in 0..n
    OBVIOUS
  <2>2. QED
    BY <1>12, <2>1
<1>14. Told(n) = T
  BY <1>3
<1>15. QED
  BY <1>4, <1>13, <1>14

\* The episodes of some events: none is empty, two are further apart than the
\* gap, and every event is in one.
Merged(eps, n, E, gap) ==
  /\ DOMAIN eps = 1..n
  /\ \A i \in 1..n : eps[i] # {} /\ eps[i] \subseteq E
  /\ \A i, j \in 1..n : i < j => \A d \in eps[i], e \in eps[j] : e.ts - d.ts > gap
  /\ \A e \in E : \E i \in 1..n : e \in eps[i]

LEMMA EpisodesAre ==
  ASSUME NEW E, IsFiniteSet(E), \A e \in E : e.ts \in Int, NEW gap \in Nat
  PROVE  \E n \in Nat : Merged(Rules!BuildEpisodes(E, gap), n, E, gap)
<1>1. PICK T : T = Rules!Times(E)
  OBVIOUS
<1>2. T = {e.ts : e \in E}
  BY <1>1 DEF Rules!Times
<1>3. T \subseteq Int
  BY <1>2
<1>4. IsFiniteSet(T)
  <2> DEFINE g == [e \in E |-> e.ts]
  <2>1. g \in Surjection(E, T)
    BY <1>2 DEF Surjection
  <2>2. QED
    BY <2>1, FS_Surjection
<1>5. PICK r : r = Folded(E, gap)
  OBVIOUS
<1>6. RunsOK(r, T, gap)
  BY <1>1, <1>3, <1>4, <1>5, RunsAre
<1>7. PICK n \in Nat : n = Len(r) /\ DOMAIN r = 1..n
  BY <1>6, LenProperties DEF RunsOK
<1>8. Rules!BuildEpisodes(E, gap) = [i \in DOMAIN r |-> {e \in E : e.ts \in r[i]}]
  BY Zenon, <1>5 DEF Rules!BuildEpisodes, Folded
<1>9. PICK eps : eps = Rules!BuildEpisodes(E, gap)
  OBVIOUS
<1>10. DOMAIN eps = 1..n /\ \A i \in 1..n : eps[i] = {e \in E : e.ts \in r[i]}
  BY <1>7, <1>8, <1>9
<1>11. ASSUME NEW i \in 1..n PROVE eps[i] # {} /\ eps[i] \subseteq E
  <2>1. r[i] # {} /\ r[i] \in SUBSET T
    BY <1>6, <1>7, ElementOfSeq DEF RunsOK
  <2>2. PICK t \in r[i] : t \in T
    BY <2>1
  <2>3. PICK e \in E : e.ts = t
    BY <1>2, <2>2
  <2>4. QED
    BY <1>10, <2>2, <2>3
<1>12. ASSUME NEW i \in 1..n, NEW j \in 1..n, i < j, NEW d \in eps[i], NEW e \in eps[j] PROVE e.ts - d.ts > gap
  BY <1>6, <1>7, <1>10, <1>12 DEF RunsOK
<1>13. ASSUME NEW e \in E PROVE \E i \in 1..n : e \in eps[i]
  <2>1. PICK i \in 1..n : e.ts \in r[i]
    BY <1>2, <1>6, <1>7 DEF RunsOK
  <2>2. QED
    BY <1>10, <2>1
<1>14. QED
  BY <1>9, <1>10, <1>11, <1>12, <1>13 DEF Merged

-----------------------------------------------------------------------------
(* The sliding window of MaxInWindow: its left end never passes the right   *)
(* one, so that what it counts is a number.                                 *)
Narrowest == [left |-> 1, best |-> 0]

LEMMA SlideIs ==
  ASSUME NEW n \in Nat, NEW s \in [1..n -> Int], NEW w \in Nat, NEW i \in 1..n,
         NEW acc \in [left : Int, best : Nat], acc.left <= i
  PROVE  LET new == Rules!SlideTo(s, i, acc, w)
         IN  /\ new \in [left : Int, best : Nat] /\ new.left <= i
             /\ acc.best <= new.best /\ i - new.left + 1 <= new.best
             /\ \A a \in acc.left..i : s[i] - s[a] <= w => new.left <= a
<1>1. PICK left \in Int, best \in Nat : left = acc.left /\ best = acc.best
  OBVIOUS
<1> DEFINE K == {k \in left..i : s[i] - s[k] <= w}
           j == Rules!Min(K)
           b == Rules!Max({best, i - j + 1})
<1>2. i \in K
  BY <1>1
<1>3. K \subseteq Int /\ IsFiniteSet(K)
  <2>1. IsFiniteSet(left..i)
    BY FS_Interval
  <2>2. K \in SUBSET (left..i)
    OBVIOUS
  <2>3. QED
    BY <2>1, <2>2, FS_Subset
<1>4. j \in Int /\ j <= i /\ \A a \in left..i : s[i] - s[a] <= w => j <= a
  <2>0. \A a \in left..i : s[i] - s[a] <= w => a \in K
    OBVIOUS
  <2> HIDE DEF K
  <2>1. j \in K /\ \A a \in K : j <= a
    BY <1>2, <1>3, MaxMinAre
  <2>2. QED
    BY <1>2, <1>3, <2>0, <2>1
<1>5. b \in Nat /\ best <= b /\ i - j + 1 <= b
  <2> DEFINE c == i - j + 1
  <2>1. best \in Int /\ c \in Nat
    BY <1>4
  <2> HIDE DEF c
  <2>2. {best, c} \subseteq Int /\ {best, c} # {} /\ IsFiniteSet({best, c})
    <3>1. IsFiniteSet({best} \cup {c})
      BY FS_Singleton, FS_Union
    <3>2. {best} \cup {c} = {best, c}
      OBVIOUS
    <3>3. {best, c} \subseteq Int /\ {best, c} # {}
      BY <2>1
    <3>4. IsFiniteSet({best, c})
      BY Zenon, <3>1, <3>2
    <3>5. QED
      BY <3>3, <3>4
  <2>3. Rules!Max({best, c}) \in {best, c} /\ \A x \in {best, c} : x <= Rules!Max({best, c})
    BY <2>2, MaxMinAre
  <2>4. QED
    BY <2>1, <2>3 DEF c
<1>6. Rules!SlideTo(s, i, acc, w) = [left |-> j, best |-> b]
  BY Zenon, <1>1 DEF Rules!SlideTo
<1> HIDE DEF j, b
<1>7. PICK new : new = Rules!SlideTo(s, i, acc, w) /\ new = [left |-> j, best |-> b]
  BY <1>6
<1>8. new \in [left : Int, best : Nat] /\ new.left = j /\ new.best = b
  BY <1>4, <1>5, <1>7
<1>9. /\ new.left <= i /\ acc.best <= new.best /\ i - new.left + 1 <= new.best
      /\ \A a \in acc.left..i : s[i] - s[a] <= w => new.left <= a
  BY <1>1, <1>4, <1>5, <1>8
<1>10. QED
  BY Zenon, <1>7, <1>8, <1>9

\* The count is a fold over the places of the right end.
SlidesOver(f, s, n, w) ==
  /\ f[{}] = Narrowest
  /\ \A t \in SUBSET (1..n) : t # {} => f[t] = Rules!SlideTo(s, Rules!Max(t), f[t \ {Rules!Max(t)}], w)
  /\ \A m \in 1..(n + 1) : \A t \in SUBSET (1..n) :
       (\A i \in t : i < m) => f[t] \in [left : Int, best : Nat] /\ f[t].left <= m
  /\ Rules!MaxInWindow(s, w) = f[1..n].best

LEMMA SlideFold ==
  ASSUME NEW n \in Nat, NEW s \in [1..n -> Int], NEW w \in Nat
  PROVE  \E g : SlidesOver(g, s, n, w)
<1> DEFINE S == 1..n
           B == [left : Int, best : Nat]
           Entry(k, t) == IF t = {} THEN Narrowest ELSE Rules!SlideTo(s, Rules!Max(t), k[t \ {Rules!Max(t)}], w)
           IsFold(k) == k = [t \in SUBSET S |-> Entry(k, t)]
           f == CHOOSE k : IsFold(k)
<1>1. Rules!MaxInWindow(s, w) = f[S].best
  <2> DEFINE A == [i \in DOMAIN s |-> i]
             Mapped(k, t) == IF t = {} THEN Narrowest ELSE Rules!SlideTo(s, A[Rules!Max(t)], k[t \ {Rules!Max(t)}], w)
  <2>1. DOMAIN s = S
    OBVIOUS
  <2>2. DOMAIN A = S
    BY <2>1
  <2>3. Rules!MaxInWindow(s, w) = (CHOOSE k : k = [t \in SUBSET (DOMAIN A) |-> Mapped(k, t)])[DOMAIN A].best
    BY Zenon DEF Rules!MaxInWindow, Rules!FoldLeftDomain, Rules!FoldLeft, Rules!MapThenFoldSet, Narrowest
  <2>4. \A t \in SUBSET S : t # {} => A[Rules!Max(t)] = Rules!Max(t)
    <3>1. SUFFICES ASSUME NEW t \in SUBSET S, t # {} PROVE A[Rules!Max(t)] = Rules!Max(t)
      OBVIOUS
    <3>2. IsFiniteSet(S) /\ S \subseteq Int
      BY UpTo
    <3> HIDE DEF S
    <3>3. IsFiniteSet(t) /\ t \subseteq Int
      BY <3>2, FS_Subset
    <3>4. Rules!Max(t) \in S
      BY <3>1, <3>3, MaxMinAre
    <3>5. QED
      BY <2>1, <3>4
  <2>5. \A k, t : t \in SUBSET S => Mapped(k, t) = Entry(k, t)
    <3> HIDE DEF A
    <3>1. QED
      BY Zenon, <2>4
  <2> HIDE DEF Mapped, Entry
  <2>6. \A k : [t \in SUBSET S |-> Mapped(k, t)] = [t \in SUBSET S |-> Entry(k, t)]
    BY <2>5
  <2>7. (CHOOSE k : k = [t \in SUBSET S |-> Mapped(k, t)]) = (CHOOSE k : k = [t \in SUBSET S |-> Entry(k, t)])
    BY Zenon, <2>6
  <2>8. QED
    BY Zenon, <2>2, <2>3, <2>7
<1>2. \A t \in SUBSET S : t # {} => Rules!Max(t) \in t /\ \A i \in t : i <= Rules!Max(t)
  <2>1. SUFFICES ASSUME NEW t \in SUBSET S, t # {} PROVE Rules!Max(t) \in t /\ \A i \in t : i <= Rules!Max(t)
    OBVIOUS
  <2>2. IsFiniteSet(S) /\ S \subseteq Int
    BY UpTo
  <2> HIDE DEF S
  <2>3. IsFiniteSet(t) /\ t \subseteq Int
    BY <2>2, FS_Subset
  <2>4. QED
    BY <2>1, <2>3, MaxMinAre
<1>3. Narrowest \in B /\ Narrowest.left = 1
  BY DEF Narrowest
<1>4. \A a \in B, i \in S : a.left <= i => Rules!SlideTo(s, i, a, w) \in B /\ Rules!SlideTo(s, i, a, w).left <= i
  BY SlideIs
<1> DEFINE Below(m) == {t \in SUBSET S : \A i \in t : i < m}
\* In every fold the left end stays below the next right one.
<1>5. ASSUME NEW k, \A t \in SUBSET S : t # {} /\ k[t \ {Rules!Max(t)}] \in B /\ k[t \ {Rules!Max(t)}].left <= Rules!Max(t)
                                          => k[t] = Rules!SlideTo(s, Rules!Max(t), k[t \ {Rules!Max(t)}], w),
             k[{}] = Narrowest
      PROVE  \A m \in 1..(n + 1) : \A t \in Below(m) : k[t] \in B /\ k[t].left <= m
  <2> DEFINE Bad == {m \in 1..(n + 1) : ~\A t \in Below(m) : k[t] \in B /\ k[t].left <= m}
  <2>1. 1 \notin Bad
    <3>1. Below(1) \subseteq {{}}
      OBVIOUS
    <3>2. k[{}] \in B /\ k[{}].left <= 1
      <4> HIDE DEF B
      <4>1. QED
        BY <1>3, <1>5
    <3> HIDE DEF B, Below
    <3>3. \A t \in Below(1) : k[t] \in B /\ k[t].left <= 1
      BY <3>1, <3>2
    <3>4. QED
      BY <3>3
  <2>2. ASSUME NEW m \in 1..n, m \notin Bad PROVE m + 1 \notin Bad
    <3>1. SUFFICES ASSUME NEW t \in Below(m + 1) PROVE k[t] \in B /\ k[t].left <= m + 1
      OBVIOUS
    <3>2. m \in 1..(n + 1)
      OBVIOUS
    <3>3. \A u \in Below(m) : k[u] \in B /\ k[u].left <= m
      BY <2>2, <3>2
    <3>4. \A u : k[u] \in B => k[u].left \in Int
      OBVIOUS
    <3>5. CASE t \in Below(m)
      <4>1. k[t] \in B /\ k[t].left <= m /\ k[t].left \in Int
        BY <3>3, <3>4, <3>5
      <4> HIDE DEF B
      <4>2. QED
        BY <4>1
    <3>6. CASE t \notin Below(m)
      <4>1. t \in SUBSET S /\ t # {} /\ (\A i \in t : i < m + 1) /\ \E i \in t : ~(i < m)
        BY <3>6
      <4>2. Rules!Max(t) \in t /\ \A i \in t : i <= Rules!Max(t)
        BY <1>2, <4>1
      <4>3. \A i \in t : i \in 1..n
        BY <4>1
      <4>4. Rules!Max(t) = m
        <5>1. PICK i \in t : ~(i < m)
          BY <4>1
        <5>2. PICK x : x = Rules!Max(t)
          OBVIOUS
        <5>3. x \in t /\ i <= x
          BY <4>2, <5>2
        <5>4. i \in Int /\ x \in Int /\ x < m + 1
          BY <4>1, <4>3, <5>3
        <5>5. x = m
          BY <5>1, <5>3, <5>4
        <5>6. QED
          BY <5>2, <5>5
      <4>5. t \ {m} \in Below(m)
        <5>1. \A i \in t \ {m} : i < m
          <6>1. SUFFICES ASSUME NEW i \in t \ {m} PROVE i < m
            OBVIOUS
          <6>2. i \in Int /\ i < m + 1 /\ i # m
            BY <4>1, <4>3
          <6>3. QED
            BY <6>2
        <5>2. QED
          BY <4>1, <5>1
      <4>6. k[t \ {m}] \in B /\ k[t \ {m}].left <= m
        BY <3>3, <4>5
      <4>7. k[t] = Rules!SlideTo(s, m, k[t \ {m}], w)
        BY <1>5, <4>1, <4>4, <4>6
      <4>8. k[t] \in B /\ k[t].left <= m
        <5>1. m \in S
          OBVIOUS
        <5> HIDE DEF B, S
        <5>2. QED
          BY <1>4, <4>6, <4>7, <5>1
      <4>9. k[t].left \in Int
        BY <3>4, <4>8
      <4> HIDE DEF B
      <4>10. QED
        BY <4>8, <4>9
    <3>7. QED
      BY <3>5, <3>6
  <2> SUFFICES ASSUME Bad # {} PROVE FALSE
    BY Zenon
  <2>3. PICK m \in Bad : \A j \in Bad : m <= j
    <3>1. Bad \in SUBSET Nat
      OBVIOUS
    <3> HIDE DEF Bad
    <3>2. QED
      BY <3>1, LeastOfSet
  <2>4. m \in 1..(n + 1) /\ m # 1
    BY <2>1, <2>3
  <2>5. m - 1 \in 1..n /\ ~(m <= m - 1) /\ m - 1 + 1 = m
    BY <2>4
  <2>6. m - 1 \notin Bad
    BY <2>3, <2>5
  <2> HIDE DEF Bad
  <2>7. QED
    BY <2>2, <2>3, <2>5, <2>6
<1>6. \E g : IsFold(g)
  <2> DEFINE pick == [t \in SUBSET S |-> Rules!Max(t)]
             step == [p \in B \X S |-> IF p[1].left <= p[2] THEN Rules!SlideTo(s, p[2], p[1], w) ELSE p[1]]
  <2>1. IsFiniteSet(S)
    BY UpTo
  <2> HIDE DEF B, S
  <2>2. \A t \in SUBSET S : t # {} => pick[t] \in t
    BY <1>2
  <2>3. \A a \in B, x \in S : step[<<a, x>>] \in B
    BY <1>4
  <2>4. /\ \A t \in SUBSET S : pick[t] = Rules!Max(t)
        /\ \A a \in B, x \in S : a.left <= x => step[<<a, x>>] = Rules!SlideTo(s, x, a, w)
    OBVIOUS
  <2> HIDE DEF pick, step
  <2>5. PICK h : FoldOf(h, S, B, Narrowest, pick, step)
    BY <1>3, <2>1, <2>2, <2>3, FoldExists
  <2>6. /\ h \in [SUBSET S -> B] /\ h[{}] = Narrowest
        /\ \A t \in SUBSET S : t # {} => h[t] = step[<<h[t \ {pick[t]}], pick[t]>>]
    BY <2>5 DEF FoldOf
  <2>7. \A t \in SUBSET S : t # {} /\ h[t \ {Rules!Max(t)}] \in B /\ h[t \ {Rules!Max(t)}].left <= Rules!Max(t)
                              => h[t] = Rules!SlideTo(s, Rules!Max(t), h[t \ {Rules!Max(t)}], w)
    <3>1. SUFFICES ASSUME NEW t \in SUBSET S, t # {}, h[t \ {Rules!Max(t)}] \in B,
                          h[t \ {Rules!Max(t)}].left <= Rules!Max(t)
                   PROVE  h[t] = Rules!SlideTo(s, Rules!Max(t), h[t \ {Rules!Max(t)}], w)
      OBVIOUS
    <3>2. Rules!Max(t) \in S
      BY <1>2, <3>1
    <3>3. h[t] = step[<<h[t \ {Rules!Max(t)}], Rules!Max(t)>>]
      BY <2>4, <2>6, <3>1
    <3>4. QED
      BY <2>4, <3>1, <3>2, <3>3
  <2> DEFINE Low(m) == {t \in SUBSET S : \A i \in t : i < m}
  <2>8. \A m \in 1..(n + 1) : \A t \in Low(m) : h[t] \in B /\ h[t].left <= m
    BY <1>5, <2>6, <2>7
  <2>9. \A t \in SUBSET S : h[t] = Entry(h, t)
    <3>1. SUFFICES ASSUME NEW t \in SUBSET S, t # {} PROVE h[t] = Entry(h, t)
      BY <2>6
    <3> DEFINE m == Rules!Max(t)
    <3>2. m \in t /\ (\A i \in t : i <= m) /\ m \in 1..(n + 1) /\ \A i \in t : i \in Int
      <4>1. m \in t /\ \A i \in t : i <= m
        BY <1>2, <3>1
      <4> HIDE DEF m
      <4>2. QED
        BY <4>1 DEF S
    <3> HIDE DEF m
    <3>3. t \ {m} \in Low(m)
      BY <3>2
    <3>4. h[t \ {m}] \in B /\ h[t \ {m}].left <= m
      BY <2>8, <3>2, <3>3
    <3>5. QED
      BY <2>7, <3>1, <3>4 DEF m
  <2> HIDE DEF Entry
  <2>10. h = [t \in SUBSET S |-> Entry(h, t)]
    BY <2>6, <2>9
  <2>11. QED
    BY <2>10
<1>7. IsFold(f)
  <2> HIDE DEF IsFold
  <2>1. QED
    BY <1>6
<1>8. \A t \in SUBSET S : f[t] = Entry(f, t)
  <2> HIDE DEF Entry, f
  <2>1. QED
    BY <1>7
<1> HIDE DEF f, IsFold
<1>9. f[{}] = Narrowest
  BY <1>8
<1>10. \A t \in SUBSET S : t # {} => f[t] = Rules!SlideTo(s, Rules!Max(t), f[t \ {Rules!Max(t)}], w)
  BY Zenon, <1>8
<1>11. \A m \in 1..(n + 1) : \A t \in Below(m) : f[t] \in B /\ f[t].left <= m
  <2> HIDE DEF B, S
  <2>1. QED
    BY <1>5, <1>9, <1>10
<1>12. SlidesOver(f, s, n, w)
  BY Zenon, <1>1, <1>9, <1>10, <1>11 DEF SlidesOver
<1>13. QED
  BY <1>12

LEMMA WindowCount ==
  ASSUME NEW n \in Nat, NEW s \in [1..n -> Int], NEW w \in Nat
  PROVE  Rules!MaxInWindow(s, w) \in Nat
<1>1. PICK f : SlidesOver(f, s, n, w)
  BY SlideFold
<1>2. n + 1 \in 1..(n + 1) /\ 1..n \in SUBSET (1..n) /\ \A i \in 1..n : i < n + 1
  OBVIOUS
<1>3. f[1..n] \in [left : Int, best : Nat] /\ Rules!MaxInWindow(s, w) = f[1..n].best
  BY <1>1, <1>2 DEF SlidesOver
<1>4. QED
  BY <1>3

-----------------------------------------------------------------------------
(* Times of events: the first, the last, all in order.                      *)

LEMMA TimesAre ==
  ASSUME NEW E, IsFiniteSet(E), \A e \in E : e.ts \in Int
  PROVE  /\ IsFiniteSet(Rules!Times(E)) /\ Rules!Times(E) \subseteq Int
         /\ Rules!Times(E) = {e.ts : e \in E}
         /\ E # {} => /\ Rules!FirstTs(E) \in Int /\ Rules!LastTs(E) \in Int
                      /\ \A e \in E : Rules!FirstTs(E) <= e.ts /\ e.ts <= Rules!LastTs(E)
                      /\ \E e \in E : e.ts = Rules!FirstTs(E)
                      /\ \E e \in E : e.ts = Rules!LastTs(E)
<1>1. PICK T : T = Rules!Times(E)
  OBVIOUS
<1>2. T = {e.ts : e \in E}
  BY <1>1 DEF Rules!Times
<1>3. T \subseteq Int
  BY <1>2
<1>4. IsFiniteSet(T)
  <2> DEFINE g == [e \in E |-> e.ts]
  <2>1. g \in Surjection(E, T)
    BY <1>2 DEF Surjection
  <2>2. QED
    BY <2>1, FS_Surjection
<1>5. ASSUME E # {} PROVE /\ Rules!Min(T) \in T /\ (\A t \in T : Rules!Min(T) <= t)
                          /\ Rules!Max(T) \in T /\ (\A t \in T : t <= Rules!Max(T))
  <2>1. T # {}
    BY <1>2, <1>5
  <2>2. QED
    BY <1>3, <1>4, <2>1, MaxMinAre
<1>6. Rules!FirstTs(E) = Rules!Min(T) /\ Rules!LastTs(E) = Rules!Max(T)
  BY Zenon, <1>1 DEF Rules!FirstTs, Rules!LastTs
<1>7. QED
  BY <1>1, <1>2, <1>3, <1>4, <1>5, <1>6

\* n times of events, in order, each once for every event up to it.
Sorted(s, n, E) ==
  /\ n = Cardinality(E)
  /\ s \in [1..n -> Rules!Times(E)]
  /\ \A i, j \in 1..n : i <= j => s[i] <= s[j]
  /\ \A i \in 1..n : Cardinality({e \in E : e.ts <= s[i]}) >= i

LEMMA SortedIs ==
  ASSUME NEW E, IsFiniteSet(E), \A e \in E : e.ts \in Int
  PROVE  \E n \in Nat : Sorted(Rules!SortedTs(E), n, E)
<1>1. PICK T : T = Rules!Times(E) /\ IsFiniteSet(T) /\ T \subseteq Int /\ T = {e.ts : e \in E}
  BY TimesAre
<1>2. PICK n \in Nat : n = Cardinality(E)
  BY FS_CardinalityType
<1> DEFINE Cand(i) == {t \in T : Cardinality({e \in E : e.ts <= t}) >= i}
<1>3. Rules!SortedTs(E) = [i \in 1..n |-> Rules!Min(Cand(i))]
  BY Zenon, <1>1, <1>2 DEF Rules!SortedTs, Rules!Cardinality, Cardinality
<1>4. \A t \in T : Cardinality({e \in E : e.ts <= t}) \in Nat
  <2>1. SUFFICES ASSUME NEW t \in T PROVE Cardinality({e \in E : e.ts <= t}) \in Nat
    OBVIOUS
  <2>2. IsFiniteSet({e \in E : e.ts <= t})
    BY FS_Subset
  <2>3. QED
    BY <2>2, FS_CardinalityType
<1>5. ASSUME NEW i \in 1..n PROVE Rules!Min(Cand(i)) \in Cand(i) /\ \A t \in Cand(i) : Rules!Min(Cand(i)) <= t
  <2>1. E # {}
    BY <1>2, FS_EmptySet
  <2>2. T # {}
    BY <1>1, <2>1
  <2>3. PICK m \in T : \A t \in T : t <= m
    BY <1>1, <2>2, MaxMinAre
  <2>4. {e \in E : e.ts <= m} = E
    BY <1>1, <2>3
  <2>5. m \in Cand(i)
    BY <1>2, <2>3, <2>4
  <2>6. Cand(i) \subseteq Int /\ IsFiniteSet(Cand(i)) /\ Cand(i) # {}
    <3>1. Cand(i) \in SUBSET T
      OBVIOUS
    <3> HIDE DEF Cand
    <3>2. QED
      BY <1>1, <2>5, <3>1, FS_Subset
  <2> HIDE DEF Cand
  <2>7. QED
    BY <2>6, MaxMinAre
<1>6. ASSUME NEW i \in 1..n, NEW j \in 1..n, i <= j PROVE Rules!Min(Cand(i)) <= Rules!Min(Cand(j))
  <2>1. Cand(j) \subseteq Cand(i)
    <3>1. SUFFICES ASSUME NEW t \in Cand(j) PROVE t \in Cand(i)
      OBVIOUS
    <3>2. PICK c \in Nat : c = Cardinality({e \in E : e.ts <= t})
      BY <1>4
    <3>3. c >= j /\ t \in T
      BY <3>2
    <3>4. c >= i
      BY <1>6, <3>3
    <3>5. QED
      BY <3>2, <3>3, <3>4
  <2> HIDE DEF Cand
  <2>2. QED
    BY <1>5, <2>1
<1>7. \A i \in 1..n : Rules!Min(Cand(i)) \in T /\ Cardinality({e \in E : e.ts <= Rules!Min(Cand(i))}) >= i
  BY <1>5
<1> HIDE DEF Cand
<1>8. QED
  BY <1>1, <1>2, <1>3, <1>6, <1>7 DEF Sorted
=============================================================================
