--------------------------- MODULE OperatorProofs ---------------------------
(***************************************************************************)
(* Proofs about the parts of Operator, for every value of its constants:   *)
(* the delivery of a configuration (one try for each save, boundaries that  *)
(* tell the truth), the hop guard (one check mends the list) and the audit  *)
(* log of the dashboard's writes (it explains every cell).                 *)
(***************************************************************************)
EXTENDS Operator, FiniteSetTheorems, SequenceTheorems, WellFoundedInduction, TLAPS

-----------------------------------------------------------------------------
(* Facts about numbers and sequences.                                       *)

LEMMA MinOf ==
  ASSUME NEW S \in SUBSET Nat, S # {}
  PROVE  Delivered!Min(S) \in S /\ \A t \in S : Delivered!Min(S) <= t
<1> DEFINE less == {d \in Nat \X Nat : d[1] < d[2]}
<1>1. IsWellFoundedOn(less, Nat)
  BY NatLessThanWellFounded DEF OpToRel
<1> HIDE DEF less
<1>2. PICK u \in S : \A t \in S : ~(<<t, u>> \in less)
  BY <1>1, WFMin
<1>3. ASSUME NEW t \in S PROVE u <= t
  <2>1. t \in Nat /\ u \in Nat /\ ~(<<t, u>> \in less)
    BY <1>2
  <2>2. ~(t < u)
    BY <2>1 DEF less
  <2>3. QED
    BY <2>1, <2>2
<1>4. QED
  BY <1>3 DEF Delivered!Min

\* The instance has the module FiniteSets of its own.
LEMMA SameCardinality ==
  \A S : Delivered!Cardinality(S) = Cardinality(S)
BY DEF Delivered!Cardinality, Cardinality

LEMMA SeqExcept ==
  ASSUME NEW T, NEW s \in Seq(T), NEW i \in DOMAIN s, NEW e \in T
  PROVE  /\ [s EXCEPT ![i] = e] \in Seq(T) /\ Len([s EXCEPT ![i] = e]) = Len(s)
         /\ DOMAIN [s EXCEPT ![i] = e] = DOMAIN s
BY ExceptSeq

LEMMA MaxOf ==
  ASSUME NEW n \in Nat, NEW S \in SUBSET (1 .. n), S # {}
  PROVE  Delivered!Max(S) \in S /\ \A t \in S : Delivered!Max(S) >= t
<1> DEFINE R == {n - x : x \in S}
<1>1. R \in SUBSET Nat /\ R # {}
  <2>1. \A x \in S : n - x \in Nat
    OBVIOUS
  <2>2. QED
    BY <2>1
<1>2. PICK m \in R : \A t \in R : m <= t
  BY <1>1, MinOf
<1>3. PICK x \in S : m = n - x
  OBVIOUS
<1>4. ASSUME NEW t \in S PROVE x >= t
  <2>0. t \in 1 .. n /\ x \in 1 .. n
    OBVIOUS
  <2>1. n - t \in R /\ t \in Nat /\ x \in Nat
    BY <2>0
  <2>2. m <= n - t
    BY <1>2, <2>1
  <2>3. QED
    BY <1>3, <2>1, <2>2
<1>5. QED
  BY <1>4 DEF Delivered!Max

-----------------------------------------------------------------------------
(* ConfigDelivery: types, and what the reports in flight may say.           *)

Rows == [sha : Saved, delivered : BOOLEAN, refused : BOOLEAN, confirmed : Delivered!Moments]

PollRows == [buf : Nat, id : Nat, cfg : Delivered!Moments, sha : Saved \cup {Undelivered},
             good : BOOLEAN, there : BOOLEAN]

TypesOK ==
  /\ versions \in Seq(Rows) /\ polls \in Seq(PollRows) /\ buf \in Nat \ {0}
  /\ current \in Saved \cup {Undelivered} /\ marks \subseteq Saved
  /\ tries \in [Saved -> Nat] /\ edge \in BOOLEAN

\* The path unit has no start left for version v.
Spent(v) == served # None /\ (v < served.v \/ (v = served.v /\ ~edge))

Bad(a) == a # None /\ a.what \in {"rejected", "rolled_back", "failed"}

Closed(vs, v) == vs[v].refused \/ vs[v].confirmed # None

RefusedBefore(vs, v) == \E o \in 1 .. v - 1 : vs[o].sha = vs[v].sha /\ vs[o].refused

\* The card holds a version of the server, and its word on a retry is still
\* the one the server would give: or the same version would be written, and
\* tried, twice.
DesiredOK ==
  served # None =>
    /\ served \in Delivered!Offers /\ served.v \in DOMAIN versions
    /\ served.sha = versions[served.v].sha
    /\ served.retry <=> RefusedBefore(versions, served.v)

\* A try and its result belong to a start that is spent.
ReportsOK ==
  /\ trying # None =>
       /\ trying \in Delivered!Tries /\ Spent(trying.v) /\ trying.sha = versions[trying.v].sha
       /\ outcome # None /\ outcome.v = trying.v /\ outcome.what = "applying"
  /\ reported # None => reported \in Delivered!AppliedAs
  /\ outcome # None =>
       outcome \in Delivered!Attempts /\ Spent(outcome.v) /\ outcome.sha = versions[outcome.v].sha
  /\ edge => served # None

BadResult == Bad(outcome) /\ outcome.v = served.v

\* The heartbeat under way is about the version on the card.
RequestOK ==
  request # None =>
    /\ request \in Delivered!Beats
    /\ request.attempt # None <=> served # None
    /\ served # None => request.attempt.v = served.v /\ request.attempt.sha = served.sha
    /\ Bad(request.attempt) => BadResult

\* A refusal that is still to be handled late changes nothing of an older
\* version: it was told again before the card got the next one.
LateOK ==
  \A h \in late :
    /\ h \in Delivered!Beats
    /\ h.attempt # None => served # None /\ h.attempt.v <= served.v
    /\ Bad(h.attempt) =>
         \/ Closed(versions, h.attempt.v)
         \/ h.attempt.v = served.v /\ BadResult /\ (request # None => Bad(request.attempt))

DeliveryInv == TypesOK /\ DesiredOK /\ ReportsOK /\ RequestOK /\ LateOK

\* The saves of a configuration whose start is spent.
Used(c) == {v \in DOMAIN versions : versions[v].sha = c /\ Spent(v)}

TriesOK == \A c \in Saved : tries[c] <= Cardinality(Used(c))

\* In the first buffer the id of a poll is its place.
PollsOK == buf = 1 => \A p \in DOMAIN polls : polls[p].buf = 1 /\ polls[p].id = p

Ran(v, at) == [v |-> v, at |-> at] \in ran

\* A version ran once, under a start that is spent, and not the one being tried.
RanOK ==
  /\ \A e \in ran : /\ e \in [v : DOMAIN versions, at : DOMAIN polls] /\ Spent(e.v)
                    /\ trying # None => e.v # trying.v
  /\ \A e, f \in ran : e.v = f.v => e = f

Told(a) == a # None /\ a.what = "applied" => Ran(a.v, a.effective)

\* Whatever says that a version was applied names its first poll.
ToldOK ==
  buf = 1 =>
    /\ Told(outcome)
    /\ request # None => Told(request.attempt)
    /\ \A h \in late : Told(h.attempt)
    /\ \A v \in DOMAIN versions : versions[v].confirmed # None => Ran(v, versions[v].confirmed)
    /\ \A n \in notes : n.kind = "change" => Ran(n.v, n.at)

\* A configuration that is applied, or that a poll names, ran before.
ConfigsOK ==
  /\ reported # None => \E e \in ran : e.v = reported.v
  /\ \A p \in DOMAIN polls : polls[p].cfg # None => \E e \in ran : e.v = polls[p].cfg /\ e.at < p

LEMMA PollIdType ==
  ASSUME TypesOK
  PROVE  Delivered!LastPollId \in Nat
<1>1. Len(polls) \in Int /\ DOMAIN polls = 1 .. Len(polls)
  BY DEF TypesOK
<1>2. Delivered!IdsOf(buf) \in SUBSET (1 .. Len(polls)) /\ IsFiniteSet(1 .. Len(polls))
  BY <1>1, FS_Interval DEF Delivered!IdsOf
<1>3. IsFiniteSet(Delivered!IdsOf(buf))
  BY <1>2, FS_Subset
<1>4. QED
  BY <1>3, FS_CardinalityType, SameCardinality DEF Delivered!LastPollId

LEMMA PollAtType ==
  ASSUME TypesOK, NEW id
  PROVE  /\ Delivered!PollAt(id) \in Delivered!Moments
         /\ Delivered!PollAt(id) # None => Delivered!PollAt(id) \in DOMAIN polls /\ polls[Delivered!PollAt(id)].id = id /\ polls[Delivered!PollAt(id)].there
<1> DEFINE P == {p \in DOMAIN polls : polls[p].there /\ polls[p].id = id}
<1>1. CASE id = None \/ P = {}
  <2>1. Delivered!PollAt(id) = None
    BY <1>1 DEF Delivered!PollAt
  <2>2. QED
    BY <2>1 DEF Delivered!Moments
<1>2. CASE ~(id = None \/ P = {})
  <2>1. Delivered!PollAt(id) = Delivered!Max(P)
    BY <1>2 DEF Delivered!PollAt
  <2>2. Len(polls) \in Nat /\ P \in SUBSET (1 .. Len(polls))
    BY DEF TypesOK
  <2>3. Delivered!Max(P) \in P
    BY <1>2, <2>2, MaxOf
  <2>4. QED
    BY <2>1, <2>2, <2>3 DEF Delivered!Moments
<1>3. QED
  BY <1>1, <1>2

LEMMA HandledRow ==
  ASSUME TypesOK, NEW a \in Delivered!Attempts, Delivered!Handled(a), a.v \in DOMAIN versions, versions[a.v].sha = a.sha
  PROVE  /\ versions' = [versions EXCEPT ![a.v] =
                [sha |-> a.sha, delivered |-> TRUE,
                 refused |-> versions[a.v].refused \/ (Bad(a) /\ versions[a.v].confirmed = None),
                 confirmed |-> IF a.what = "applied" /\ a.effective # None /\ versions[a.v].confirmed = None
                               THEN Delivered!Dated(a) ELSE versions[a.v].confirmed]]
         /\ notes' = notes \cup
                (CASE a.what = "applied" /\ a.effective # None -> Delivered!Note("change", a.v, Delivered!Dated(a))
                   [] a.what = "rolled_back" /\ Delivered!PollAt(a.restored) # None -> Delivered!Note("coverage", a.v, Delivered!PollAt(a.started))
                   [] OTHER -> {})
<1>1. a.v \in Nat /\ ~(a.v > Len(versions))
  BY DEF TypesOK, Delivered!Attempts
<1>2. a # None
  BY NoneAssumption
<1>3. QED
  BY <1>1, <1>2 DEF Delivered!Handled, Bad

LEMMA HandledFacts ==
  ASSUME TypesOK, NEW a \in Delivered!Attempts \cup {None}, Delivered!Handled(a)
  PROVE  /\ versions' \in Seq(Rows) /\ Len(versions') = Len(versions) /\ DOMAIN versions' = DOMAIN versions
         /\ \A v \in DOMAIN versions :
              /\ versions'[v].sha = versions[v].sha
              /\ versions[v].refused => versions'[v].refused
              /\ versions[v].confirmed # None => versions'[v].confirmed = versions[v].confirmed
              /\ versions'[v].refused /\ ~versions[v].refused => Bad(a) /\ v = a.v /\ versions[v].confirmed = None
              /\ versions'[v].confirmed # versions[v].confirmed =>
                   a # None /\ v = a.v /\ a.what = "applied" /\ a.effective # None /\ versions'[v].confirmed = Delivered!Dated(a)
         /\ Bad(a) /\ a.v \in DOMAIN versions /\ a.sha = versions[a.v].sha =>
              versions'[a.v].refused \/ versions'[a.v].confirmed # None
         /\ \A n \in notes' : n \in notes \/ n.kind = "coverage"
              \/ (a # None /\ a.what = "applied" /\ a.effective # None /\ n.v = a.v /\ n.at = Delivered!Dated(a) /\ Delivered!Dated(a) # None)
<1>1. CASE a = None \/ a.v > Len(versions) \/ versions[a.v].sha # a.sha
  <2>1. UNCHANGED <<versions, notes>>
    BY <1>1 DEF Delivered!Handled
  <2>2. a = None \/ a.v \notin DOMAIN versions \/ versions[a.v].sha # a.sha
    BY <1>1 DEF TypesOK, Delivered!Attempts
  <2>3. QED
    BY <2>1, <2>2 DEF TypesOK, Bad
<1>2. CASE ~(a = None \/ a.v > Len(versions) \/ versions[a.v].sha # a.sha)
  <2>2. CASE TRUE
    <3>1. a \in Delivered!Attempts /\ a.v \in DOMAIN versions /\ versions[a.v].sha = a.sha
      BY <1>2, <2>2 DEF TypesOK, Delivered!Attempts
    <3>2. PICK r : r = [sha |-> a.sha, delivered |-> TRUE,
                 refused |-> versions[a.v].refused \/ (Bad(a) /\ versions[a.v].confirmed = None),
                 confirmed |-> IF a.what = "applied" /\ a.effective # None /\ versions[a.v].confirmed = None
                               THEN Delivered!Dated(a) ELSE versions[a.v].confirmed]
      OBVIOUS
    <3>3. versions' = [versions EXCEPT ![a.v] = r]
      BY <3>1, <3>2, HandledRow
    <3>4. versions[a.v] \in Rows
      BY <3>1 DEF TypesOK
    <3>5. r \in Rows
      BY <3>1, <3>2, <3>4, PollAtType DEF Rows, Delivered!Attempts, Delivered!Dated, Bad
    <3>6. versions' \in Seq(Rows) /\ Len(versions') = Len(versions) /\ DOMAIN versions' = DOMAIN versions
      BY <3>1, <3>3, <3>5, SeqExcept DEF TypesOK
    <3>7. /\ \A v \in DOMAIN versions : v # a.v => versions'[v] = versions[v]
          /\ versions'[a.v] = r
      BY <3>1, <3>3 DEF TypesOK
    <3>8. \A n \in notes' : n \in notes \/ n.kind = "coverage"
              \/ (a # None /\ a.what = "applied" /\ a.effective # None /\ n.v = a.v /\ n.at = Delivered!Dated(a) /\ Delivered!Dated(a) # None)
      <4>1. CASE a.what = "applied" /\ a.effective # None
        <5>1. notes' = notes \cup Delivered!Note("change", a.v, Delivered!Dated(a))
          BY <3>1, <4>1, HandledRow
        <5>2. QED
          BY <3>1, <4>1, <5>1, NoneAssumption DEF Delivered!Note
      <4>2. CASE ~(a.what = "applied" /\ a.effective # None)
        <5>1. notes' \subseteq notes \cup Delivered!Note("coverage", a.v, Delivered!PollAt(a.started))
          BY <3>1, <4>2, HandledRow
        <5>2. QED
          BY <5>1 DEF Delivered!Note
      <4>3. QED
        BY <4>1, <4>2
    <3>9. QED
      BY <3>1, <3>2, <3>4, <3>6, <3>7, <3>8, NoneAssumption DEF Rows, Bad
  <2>3. QED
    BY <2>2
<1>3. QED
  BY <1>1, <1>2

LEMMA NotBad ==
  ASSUME DeliveryInv, edge \/ trying # None
  PROVE  /\ ~BadResult
         /\ request # None => ~Bad(request.attempt)
         /\ \A h \in late : Bad(h.attempt) => Closed(versions, h.attempt.v)
<1>1. ~BadResult
  BY DEF DeliveryInv, ReportsOK, BadResult, Bad, Spent, Delivered!Attempts, DesiredOK, Delivered!Offers
<1>2. QED
  BY <1>1 DEF DeliveryInv, RequestOK, LateOK

LEMMA OfferedFacts ==
  ASSUME TypesOK, NEW vs \in Seq(Rows), NEW r, Delivered!Offered(vs, r) # None
  PROVE  /\ Delivered!Offered(vs, r) \in Delivered!Offers /\ Delivered!Offered(vs, r).v = Len(vs) /\ Len(vs) \in DOMAIN vs
         /\ Delivered!Offered(vs, r).sha = vs[Len(vs)].sha
         /\ Delivered!Offered(vs, r).retry <=> RefusedBefore(vs, Len(vs))
<1>1. PICK n \in Nat : n = Len(vs)
  OBVIOUS
<1>2. n # 0
  BY <1>1 DEF Delivered!Offered
<1>3. n \in DOMAIN vs /\ vs[n] \in Rows
  BY <1>1, <1>2
<1>4. PICK b \in BOOLEAN : b <=> RefusedBefore(vs, n)
  OBVIOUS
<1>5. Delivered!Offered(vs, r) = [v |-> n, sha |-> vs[n].sha, retry |-> \E o \in 1 .. n - 1 : vs[o].sha = vs[n].sha /\ vs[o].refused]
  BY <1>1 DEF Delivered!Offered
<1>6. Delivered!Offered(vs, r) = [v |-> n, sha |-> vs[n].sha, retry |-> b]
  BY <1>4, <1>5, Zenon DEF RefusedBefore
<1>7. QED
  BY <1>1, <1>2, <1>3, <1>4, <1>6 DEF Delivered!Offers, Rows

(* The answer to the request under way settles the version on the card when   *)
(* it was refused, and a delivery that differs is of a later version.         *)
LEMMA AnswerFacts ==
  ASSUME DeliveryInv, Delivered!Answer
  PROVE  /\ versions' \in Seq(Rows) /\ DOMAIN versions' = DOMAIN versions
         /\ \A v \in DOMAIN versions : versions'[v].sha = versions[v].sha /\ (Closed(versions, v) => Closed(versions', v))
         /\ Bad(request.attempt) => Closed(versions', served.v)
         /\ \/ /\ UNCHANGED <<served, edge>>
               /\ served # None => (RefusedBefore(versions', served.v) <=> RefusedBefore(versions, served.v))
            \/ /\ served' # None /\ served' \in Delivered!Offers /\ served'.v \in DOMAIN versions
               /\ served'.sha = versions'[served'.v].sha
               /\ served'.retry <=> RefusedBefore(versions', served'.v)
               /\ served # None => served.v < served'.v
               /\ edge' \in BOOLEAN
<1>0. PICK a : a = request.attempt
  OBVIOUS
<1>1. /\ request # None /\ a \in Delivered!Attempts \cup {None} /\ Delivered!Handled(a)
      /\ a # None <=> served # None
      /\ served # None => a.v = served.v /\ a.sha = served.sha
      /\ Bad(a) => a # None
  BY <1>0 DEF Delivered!Answer, DeliveryInv, RequestOK, Delivered!Beats, Bad
<1>2. TypesOK
  BY DEF DeliveryInv

<1>3. /\ versions' \in Seq(Rows) /\ Len(versions') = Len(versions) /\ DOMAIN versions' = DOMAIN versions
      /\ \A v \in DOMAIN versions :
           /\ versions'[v].sha = versions[v].sha /\ (Closed(versions, v) => Closed(versions', v))
           /\ versions[v].refused => versions'[v].refused
           /\ versions'[v].refused /\ ~versions[v].refused => Bad(a) /\ v = a.v
      /\ Bad(a) /\ a.v \in DOMAIN versions /\ a.sha = versions[a.v].sha => Closed(versions', a.v)
  BY <1>1, <1>2, HandledFacts DEF Closed
<1>4. served # None => served \in Delivered!Offers /\ served.v \in DOMAIN versions /\ served.sha = versions[served.v].sha
                        /\ (served.retry <=> RefusedBefore(versions, served.v))
  BY DEF DeliveryInv, DesiredOK
<1>5. Bad(a) => Closed(versions', served.v)
  BY <1>1, <1>3, <1>4
<1>6. ASSUME served # None PROVE RefusedBefore(versions', served.v) <=> RefusedBefore(versions, served.v)
  <2>1. \A o \in 1 .. served.v - 1 : o \in DOMAIN versions /\ o # served.v
    BY <1>2, <1>4, <1>6 DEF Delivered!Offers, TypesOK
  <2>2. \A o \in 1 .. served.v - 1 : versions'[o].sha = versions[o].sha /\ (versions'[o].refused <=> versions[o].refused)
    BY <1>1, <1>3, <1>6, <2>1
  <2>3. versions'[served.v].sha = versions[served.v].sha
    BY <1>3, <1>4, <1>6
  <2>4. QED
    BY <2>2, <2>3 DEF RefusedBefore
<1>7. CASE UNCHANGED <<served, edge>>
  BY <1>3, <1>5, <1>0, <1>6, <1>7
<1>8. CASE ~UNCHANGED <<served, edge>>
  <2>1. PICK d : d = Delivered!Offered(versions', request)
    OBVIOUS
  <2>2. Delivered!AcceptDelivery(d)
    BY <1>8, <2>1 DEF Delivered!Answer
  <2>3. d # None /\ d # served /\ served' = d /\ edge' \in {TRUE, edge}
    BY <1>8, <2>2 DEF Delivered!AcceptDelivery, Delivered!Received
  <2>4. /\ d \in Delivered!Offers /\ d.v = Len(versions') /\ Len(versions') \in DOMAIN versions'
        /\ d.sha = versions'[Len(versions')].sha
        /\ d.retry <=> RefusedBefore(versions', Len(versions'))
    BY <1>2, <1>3, <2>1, <2>3, OfferedFacts
  <2>5. ASSUME served # None PROVE served.v < d.v
    <3>1. served.v \in Nat /\ d.v \in Nat /\ served.v <= d.v
      BY <1>2, <1>3, <1>4, <2>4, <2>5 DEF TypesOK, Delivered!Offers
    <3>2. ASSUME served.v = d.v PROVE FALSE
      <4>1. d.sha = served.sha /\ (d.retry <=> served.retry)
        BY <1>3, <1>4, <1>6, <2>4, <2>5, <3>2
      <4>2. d.retry = served.retry
        BY <1>4, <2>4, <2>5, <4>1 DEF Delivered!Offers
      <4>3. d = served
        BY <1>4, <2>4, <2>5, <3>2, <4>1, <4>2 DEF Delivered!Offers
      <4>4. QED
        BY <2>3, <4>3
    <3>3. QED
      BY <3>1, <3>2
  <2>6. QED
    BY <1>2, <1>3, <1>5, <2>3, <2>4, <1>0, <2>5 DEF TypesOK
<1>9. QED
  BY <1>7, <1>8

\* What was spent stays spent.
Progress == \A v \in Nat : Spent(v) => Spent(v)'

LEMMA PollSteps ==
  ASSUME DeliveryInv, Delivered!Poll \/ Delivered!Arrive \/ Delivered!NewBuffer
  PROVE  DeliveryInv' /\ Progress
<1>1. Delivered!LastPollId \in Nat
  BY PollIdType DEF DeliveryInv
<1>2. Delivered!AppliedVersion \in Delivered!Moments
  BY DEF DeliveryInv, ReportsOK, Delivered!AppliedVersion, Delivered!AppliedAs, Delivered!Moments
<1>3. TypesOK'
  <2>1. CASE Delivered!Poll
    <3>1. PICK ok \in BOOLEAN :
            polls' = Append(polls, [buf |-> buf, id |-> Delivered!LastPollId + 1, cfg |-> Delivered!AppliedVersion,
                                    sha |-> current, good |-> ok, there |-> FALSE])
      BY <2>1 DEF Delivered!Poll
    <3>2. buf \in Nat /\ Delivered!LastPollId + 1 \in Nat /\ current \in Saved \cup {Undelivered}
      BY <1>1 DEF DeliveryInv, TypesOK
    <3>5. [buf |-> buf, id |-> Delivered!LastPollId + 1, cfg |-> Delivered!AppliedVersion,
           sha |-> current, good |-> ok, there |-> FALSE] \in PollRows
      BY <1>2, <3>2 DEF PollRows
    <3>3. polls' \in Seq(PollRows)
      BY <3>1, <3>5 DEF DeliveryInv, TypesOK
    <3>4. QED
      BY <2>1, <3>3 DEF Delivered!Poll, DeliveryInv, TypesOK
  <2>2. CASE Delivered!Arrive
    <3>1. PICK missing : missing = {p \in Delivered!IdsOf(buf) : ~polls[p].there}
      OBVIOUS
    <3>2. missing # {} /\ missing \in SUBSET Nat /\ missing \subseteq DOMAIN polls
      BY <2>2, <3>1 DEF Delivered!Arrive, Delivered!IdsOf, DeliveryInv, TypesOK
    <3>3. Delivered!Min(missing) \in DOMAIN polls
      BY <3>2, MinOf
    <3>4. PICK m \in DOMAIN polls : m = Delivered!Min(missing)
      BY <3>3
    <3>5. polls' = [polls EXCEPT ![m] = [polls[m] EXCEPT !.there = TRUE]]
      BY <2>2, <3>1, <3>4 DEF Delivered!Arrive
    <3>6. polls[m] \in PollRows
      BY DEF DeliveryInv, TypesOK
    <3>7. [polls[m] EXCEPT !.there = TRUE] \in PollRows
      BY <3>6 DEF PollRows
    <3>8. polls' \in Seq(PollRows)
      BY <3>5, <3>7, SeqExcept DEF DeliveryInv, TypesOK
    <3>9. QED
      BY <2>2, <3>8 DEF Delivered!Arrive, DeliveryInv, TypesOK
  <2>3. CASE Delivered!NewBuffer
    BY <2>3 DEF Delivered!NewBuffer, DeliveryInv, TypesOK
  <2>4. QED
    BY <2>1, <2>2, <2>3
<1>4. UNCHANGED <<versions, served, edge, reported, outcome, trying, request, late>>
  BY DEF Delivered!Poll, Delivered!Arrive, Delivered!NewBuffer
<1>5. QED
  BY <1>3, <1>4 DEF DeliveryInv, DesiredOK, ReportsOK, RequestOK, LateOK, Progress, Spent, BadResult, Bad, Closed, RefusedBefore

LEMMA SaveStep ==
  ASSUME DeliveryInv, Delivered!Save
  PROVE  DeliveryInv' /\ Progress
<1>1. PICK c \in Saved :
        versions' = Append(versions, [sha |-> c, delivered |-> FALSE, refused |-> FALSE, confirmed |-> None])
  BY DEF Delivered!Save
<1>2. versions \in Seq(Rows) /\ [sha |-> c, delivered |-> FALSE, refused |-> FALSE, confirmed |-> None] \in Rows
  BY DEF DeliveryInv, TypesOK, Rows, Delivered!Moments
<1>3. versions' \in Seq(Rows) /\ \A v \in DOMAIN versions : v \in DOMAIN versions' /\ versions'[v] = versions[v]
  BY <1>1, <1>2
<1>4. UNCHANGED <<polls, buf, current, marks, tries, served, edge, reported, outcome, trying, request, late>>
  BY DEF Delivered!Save, Delivered!sensor
<1>5. TypesOK'
  BY <1>3, <1>4 DEF DeliveryInv, TypesOK
<1>6. Progress
  BY <1>4 DEF Progress, Spent
<1>7. \A v \in Nat : Spent(v) /\ v # 0 => v \in DOMAIN versions
  BY <1>2 DEF DeliveryInv, DesiredOK, Spent, Delivered!Offers
<1>8. DesiredOK'
  <2>1. ASSUME served # None PROVE RefusedBefore(versions', served.v) <=> RefusedBefore(versions, served.v)
    <3>1. served.v \in DOMAIN versions /\ \A o \in 1 .. served.v - 1 : o \in DOMAIN versions
      BY <1>2, <2>1 DEF DeliveryInv, DesiredOK, Delivered!Offers
    <3>2. QED
      BY <1>3, <3>1 DEF RefusedBefore
  <2>2. QED
    BY <1>3, <1>4, <2>1 DEF DeliveryInv, DesiredOK
<1>9. ReportsOK'
  BY <1>3, <1>4, <1>6, <1>7 DEF DeliveryInv, ReportsOK, Progress, Delivered!Tries, Delivered!Attempts, Spent
<1>10. RequestOK'
  BY <1>4 DEF DeliveryInv, RequestOK, BadResult, Bad
<1>11. LateOK'
  <2>1. ASSUME NEW h \in late, served # None, h.attempt # None, h.attempt.v <= served.v PROVE h.attempt.v \in DOMAIN versions
    BY <1>2, <2>1 DEF DeliveryInv, LateOK, Delivered!Beats, Delivered!Attempts, DesiredOK, Delivered!Offers
  <2>2. QED
    BY <1>3, <1>4, <2>1 DEF DeliveryInv, LateOK, BadResult, Bad, Closed
<1>12. QED
  BY <1>5, <1>6, <1>8, <1>9, <1>10, <1>11 DEF DeliveryInv

LEMMA BeatStep ==
  ASSUME DeliveryInv, Delivered!Beat
  PROVE  DeliveryInv' /\ Progress
<1>1. UNCHANGED <<versions, polls, buf, current, marks, tries, served, edge, reported, outcome, trying, late>>
  BY DEF Delivered!Beat, Delivered!sensor
<1>2. TypesOK' /\ DesiredOK' /\ ReportsOK' /\ Progress
  BY <1>1 DEF DeliveryInv, TypesOK, DesiredOK, ReportsOK, Progress, Spent, RefusedBefore
<1>3. /\ served = None => Delivered!Attempt = None
      /\ served # None => Delivered!Attempt \in Delivered!Attempts /\ Delivered!Attempt # None /\ Delivered!Attempt.v = served.v /\ Delivered!Attempt.sha = served.sha
      /\ served # None /\ BadResult => Delivered!Attempt = outcome
      /\ Bad(Delivered!Attempt) => BadResult
  <2>1. CASE served = None
    <3>1. outcome = None
      BY <2>1 DEF DeliveryInv, ReportsOK, Spent
    <3>2. QED
      BY <2>1, <3>1 DEF Delivered!Attempt, Bad
  <2>2. CASE served # None /\ (outcome = None \/ <<outcome.v, outcome.sha>> # <<served.v, served.sha>>)
    <3>1. Delivered!Attempt = [v |-> served.v, sha |-> served.sha, what |-> "received",
                     started |-> None, effective |-> None, restored |-> None]
      BY <2>2 DEF Delivered!Attempt
    <3>2. ~BadResult
      <4>1. CASE outcome = None
        BY <4>1 DEF BadResult, Bad
      <4>2. CASE outcome # None
        BY <2>2, <4>2 DEF BadResult, DeliveryInv, ReportsOK, DesiredOK
      <4>3. QED
        BY <4>1, <4>2
    <3>3. QED
      BY <2>2, <3>1, <3>2, NoneAssumption DEF DeliveryInv, DesiredOK, Delivered!Offers, Delivered!Attempts, Delivered!Results, Delivered!Moments, Bad
  <2>3. CASE served # None /\ ~(outcome = None \/ <<outcome.v, outcome.sha>> # <<served.v, served.sha>>)
    <3>1. Delivered!Attempt = outcome
      BY <2>3 DEF Delivered!Attempt
    <3>2. QED
      BY <2>3, <3>1 DEF DeliveryInv, ReportsOK, BadResult
  <2>4. QED
    BY <2>1, <2>2, <2>3
<1>4. /\ request' = [applied |-> IF reported = None THEN None ELSE reported.sha, attempt |-> Delivered!Attempt]
      /\ request' \in Delivered!Beats /\ request'.attempt = Delivered!Attempt
  BY <1>3 DEF Delivered!Beat, Delivered!Beats, DeliveryInv, ReportsOK, Delivered!AppliedAs
<1>5. RequestOK'
  BY <1>1, <1>3, <1>4 DEF RequestOK, BadResult, Bad
<1>6. LateOK'
  <2>1. ASSUME NEW h \in late, h.attempt.v = served.v, BadResult, Bad(h.attempt) PROVE Bad(request'.attempt)
    BY <1>3, <1>4, <2>1 DEF DeliveryInv, LateOK, Bad, BadResult
  <2>2. QED
    BY <1>1, <2>1 DEF DeliveryInv, LateOK, BadResult, Bad
<1>7. QED
  BY <1>2, <1>5, <1>6 DEF DeliveryInv

LEMMA AnswerStep ==
  ASSUME DeliveryInv, Delivered!Answer
  PROVE  DeliveryInv' /\ Progress
<1>1. UNCHANGED <<polls, buf, reported, outcome, marks, current, trying, tries, late>> /\ request' = None /\ request # None
  BY DEF Delivered!Answer
<1>2. /\ versions' \in Seq(Rows) /\ DOMAIN versions' = DOMAIN versions
      /\ \A v \in DOMAIN versions : versions'[v].sha = versions[v].sha /\ (Closed(versions, v) => Closed(versions', v))
      /\ Bad(request.attempt) => Closed(versions', served.v)
  BY AnswerFacts
<1>3. \A v \in Nat : Spent(v) /\ v # 0 => v \in DOMAIN versions
  BY DEF DeliveryInv, TypesOK, DesiredOK, Spent, Delivered!Offers
<1>4. /\ edge' \in BOOLEAN /\ (served # None => served' # None) /\ (edge' => served' # None)
      /\ DesiredOK' /\ Progress
      /\ served # None => served.v \in Nat /\ served'.v \in Nat /\ served.v <= served'.v
  <2>1. CASE UNCHANGED <<served, edge>> /\ (served # None => (RefusedBefore(versions', served.v) <=> RefusedBefore(versions, served.v)))
    BY <1>2, <2>1 DEF DeliveryInv, TypesOK, DesiredOK, ReportsOK, Progress, Spent, Delivered!Offers
  <2>2. CASE /\ served' # None /\ served' \in Delivered!Offers /\ served'.v \in DOMAIN versions
             /\ served'.sha = versions'[served'.v].sha
             /\ served'.retry <=> RefusedBefore(versions', served'.v)
             /\ served # None => served.v < served'.v
             /\ edge' \in BOOLEAN
    <3>1. served'.v \in Nat /\ (served # None => served.v \in Nat)
      BY <2>2 DEF Delivered!Offers, DeliveryInv, DesiredOK
    <3>2. Progress
      BY <2>2, <3>1 DEF Progress, Spent
    <3>3. DesiredOK'
      BY <1>2, <2>2 DEF DesiredOK
    <3>4. QED
      BY <2>2, <3>1, <3>2, <3>3
  <2>3. QED
    BY <2>1, <2>2, AnswerFacts
<1>5. TypesOK'
  BY <1>1, <1>2, <1>4 DEF DeliveryInv, TypesOK
<1>6. ReportsOK'
  BY <1>1, <1>2, <1>3, <1>4 DEF DeliveryInv, ReportsOK, Progress, Delivered!Tries, Delivered!Attempts, Spent
<1>7. RequestOK'
  BY <1>1 DEF RequestOK
<1>8. LateOK'
  <2>1. ASSUME NEW h \in late, h.attempt # None
        PROVE  /\ served # None /\ h.attempt.v \in DOMAIN versions /\ h.attempt.v <= served'.v
               /\ Bad(h.attempt) => Closed(versions', h.attempt.v)
    <3>1. served # None /\ h.attempt.v \in Nat /\ h.attempt.v # 0 /\ h.attempt.v <= served.v
      BY <2>1 DEF DeliveryInv, LateOK, Delivered!Beats, Delivered!Attempts
    <3>2. h.attempt.v \in DOMAIN versions
      BY <3>1 DEF DeliveryInv, TypesOK, DesiredOK, Delivered!Offers
    <3>3. QED
      BY <1>1, <1>2, <1>4, <2>1, <3>1, <3>2 DEF DeliveryInv, LateOK
  <2>2. QED
    BY <1>1, <1>4, <2>1 DEF DeliveryInv, LateOK, Bad
<1>9. QED
  BY <1>4, <1>5, <1>6, <1>7, <1>8 DEF DeliveryInv

LEMMA GiveUpStep ==
  ASSUME DeliveryInv, Delivered!GiveUp
  PROVE  DeliveryInv' /\ Progress
<1>1. UNCHANGED <<versions, polls, buf, current, marks, tries, served, edge, reported, outcome, trying>>
      /\ request # None /\ request' = None /\ late' \subseteq late \cup {request}
  BY DEF Delivered!GiveUp, Delivered!sensor
<1>2. TypesOK' /\ DesiredOK' /\ ReportsOK' /\ Progress
  BY <1>1 DEF DeliveryInv, TypesOK, DesiredOK, ReportsOK, Progress, Spent, RefusedBefore
<1>3. RequestOK'
  BY <1>1 DEF RequestOK
<1>4. LateOK'
  <2>1. ASSUME NEW h \in late
        PROVE  /\ h \in Delivered!Beats
               /\ h.attempt # None => served # None /\ h.attempt.v <= served.v
               /\ Bad(h.attempt) => Closed(versions, h.attempt.v) \/ (h.attempt.v = served.v /\ BadResult)
    BY <2>1 DEF DeliveryInv, LateOK
  <2>2. /\ request \in Delivered!Beats
        /\ request.attempt # None => served # None /\ request.attempt.v <= served.v
        /\ Bad(request.attempt) => request.attempt.v = served.v /\ BadResult
    BY <1>1 DEF DeliveryInv, RequestOK, DesiredOK, Delivered!Offers, Bad
  <2>3. QED
    BY <1>1, <2>1, <2>2 DEF LateOK, BadResult, Bad
<1>5. QED
  BY <1>2, <1>3, <1>4 DEF DeliveryInv

LEMMA HandledLateStep ==
  ASSUME DeliveryInv, Delivered!HandledLate
  PROVE  DeliveryInv' /\ Progress
<1>1. PICK h \in late : Delivered!Handled(h.attempt) /\ late' = late \ {h} /\ UNCHANGED <<Delivered!sensor, request>>
  BY DEF Delivered!HandledLate
<1>2. PICK a : a = h.attempt
  OBVIOUS
<1>3. /\ a \in Delivered!Attempts \cup {None} /\ (Bad(a) => a # None)
      /\ a # None => served # None /\ a.v <= served.v
      /\ Bad(a) => Closed(versions, a.v) \/ a.v = served.v
  BY <1>2 DEF DeliveryInv, LateOK, Delivered!Beats, Bad
<1>4. /\ versions' \in Seq(Rows) /\ Len(versions') = Len(versions) /\ DOMAIN versions' = DOMAIN versions
      /\ \A v \in DOMAIN versions :
           /\ versions'[v].sha = versions[v].sha /\ (Closed(versions, v) => Closed(versions', v))
           /\ versions[v].refused => versions'[v].refused
           /\ versions'[v].refused /\ ~versions[v].refused => Bad(a) /\ v = a.v /\ ~Closed(versions, v)
  BY <1>1, <1>2, <1>3, HandledFacts DEF DeliveryInv, Closed
<1>5. UNCHANGED <<polls, buf, current, marks, tries, served, edge, reported, outcome, trying, request>>
  BY <1>1 DEF Delivered!sensor
<1>6. Progress
  BY <1>5 DEF Progress, Spent
<1>7. TypesOK'
  BY <1>4, <1>5 DEF DeliveryInv, TypesOK
<1>8. DesiredOK'
  <2>1. ASSUME served # None PROVE RefusedBefore(versions', served.v) <=> RefusedBefore(versions, served.v)
    <3>1. /\ served.v \in DOMAIN versions
          /\ \A o \in 1 .. served.v - 1 : o \in DOMAIN versions /\ o # served.v
      BY <2>1 DEF DeliveryInv, TypesOK, DesiredOK, Delivered!Offers
    <3>2. \A o \in 1 .. served.v - 1 : versions'[o].sha = versions[o].sha /\ (versions'[o].refused <=> versions[o].refused)
      BY <1>3, <1>4, <3>1
    <3>3. QED
      BY <1>4, <3>1, <3>2 DEF RefusedBefore
  <2>2. QED
    BY <1>4, <1>5, <2>1 DEF DeliveryInv, DesiredOK
<1>9. ReportsOK'
  <2>1. \A v \in Nat : Spent(v) /\ v # 0 => v \in DOMAIN versions
    BY DEF DeliveryInv, TypesOK, DesiredOK, Spent, Delivered!Offers
  <2>2. QED
    BY <1>4, <1>5, <1>6, <2>1 DEF DeliveryInv, ReportsOK, Progress, Delivered!Tries, Delivered!Attempts, Spent
<1>10. RequestOK'
  BY <1>5 DEF DeliveryInv, RequestOK, BadResult, Bad
<1>11. LateOK'
  <2>1. ASSUME NEW k \in late, k.attempt # None PROVE served # None /\ k.attempt.v \in DOMAIN versions
    <3>1. served # None /\ k.attempt.v \in Nat /\ k.attempt.v # 0 /\ k.attempt.v <= served.v
      BY <2>1 DEF DeliveryInv, LateOK, Delivered!Beats, Delivered!Attempts
    <3>2. QED
      BY <3>1 DEF DeliveryInv, TypesOK, DesiredOK, Delivered!Offers
  <2>2. QED
    BY <1>1, <1>4, <1>5, <2>1 DEF DeliveryInv, LateOK, BadResult, Bad
<1>12. QED
  BY <1>6, <1>7, <1>8, <1>9, <1>10, <1>11 DEF DeliveryInv

\* The steps of the applier.
Applier == Delivered!Skip \/ Delivered!Reject \/ Delivered!Begin \/ Delivered!Apply \/ Delivered!RollBack \/ Delivered!RolledBack \/ Delivered!Reboot

LEMMA ApplierFrame ==
  ASSUME DeliveryInv, Applier
  PROVE  /\ UNCHANGED <<versions, notes, polls, buf, served, request, late>>
         /\ edge' \in BOOLEAN /\ (edge' => edge) /\ (edge \/ trying # None)
         /\ Progress /\ DesiredOK' /\ RequestOK' /\ LateOK'
<1>1. /\ UNCHANGED <<versions, notes, polls, buf, served, request, late>>
      /\ edge' \in BOOLEAN /\ (edge' => edge) /\ (edge \/ trying # None)
  <2>1. edge \in BOOLEAN
    BY DEF DeliveryInv, TypesOK
  <2>2. CASE Delivered!Skip \/ Delivered!Reject \/ Delivered!Begin
    BY <2>1, <2>2 DEF Delivered!Skip, Delivered!Reject, Delivered!Begin, Delivered!Triggered
  <2>3. CASE Delivered!Apply
    <3>1. trying # None /\ UNCHANGED <<versions, notes, polls, buf, served, request, late, edge>>
      BY <2>3 DEF Delivered!Apply
    <3>2. QED
      BY <2>1, <3>1
  <2>4. CASE Delivered!RollBack
    BY <2>1, <2>4 DEF Delivered!RollBack
  <2>5. CASE Delivered!RolledBack
    BY <2>1, <2>5 DEF Delivered!RolledBack
  <2>7. CASE Delivered!Reboot
    BY <2>1, <2>7 DEF Delivered!Reboot
  <2>8. QED
    BY <2>2, <2>3, <2>4, <2>5, <2>7 DEF Applier
<1>2. Progress /\ DesiredOK'
  BY <1>1 DEF Progress, Spent, DeliveryInv, DesiredOK, RefusedBefore
<1>3. RequestOK' /\ LateOK'
  BY <1>1, NotBad DEF DeliveryInv, RequestOK, LateOK, Bad, Closed
<1>4. QED
  BY <1>1, <1>2, <1>3

LEMMA FirstGood ==
  ASSUME DeliveryInv, Delivered!Verified, trying # None
  PROVE  /\ Delivered!Min(Delivered!GoodPolls) \in DOMAIN polls /\ Delivered!Min(Delivered!GoodPolls) \in Nat
         /\ polls[Delivered!Min(Delivered!GoodPolls)].id \in Nat /\ polls[Delivered!Min(Delivered!GoodPolls)].buf = buf
<1>1. Delivered!GoodPolls \subseteq DOMAIN polls /\ Delivered!GoodPolls \in SUBSET Nat
  BY DEF DeliveryInv, TypesOK, Delivered!GoodPolls, Delivered!IdsOf
<1>2. Delivered!GoodPolls # {}
  BY VerifyAssumption, FS_EmptySet, SameCardinality DEF Delivered!Verified
<1>3. Delivered!Min(Delivered!GoodPolls) \in Delivered!GoodPolls
  BY <1>1, <1>2, MinOf
<1>4. PICK m \in Delivered!GoodPolls : m = Delivered!Min(Delivered!GoodPolls)
  BY <1>3
<1>5. m \in DOMAIN polls /\ m \in Nat /\ polls[m] \in PollRows /\ polls[m].buf = buf
  BY <1>1 DEF DeliveryInv, TypesOK, Delivered!GoodPolls, Delivered!IdsOf
<1>6. QED
  BY <1>4, <1>5 DEF PollRows

LEMMA ResultType ==
  ASSUME NEW t, t.v \in Nat \ {0}, t.sha \in Saved, t.started \in Delivered!Moments,
         NEW what \in Delivered!Results, NEW e \in Delivered!Moments, NEW r \in Delivered!Moments
  PROVE  /\ Delivered!Result(t, what, e, r) \in Delivered!Attempts /\ Delivered!Result(t, what, e, r) # None
         /\ Delivered!Result(t, what, e, r).v = t.v /\ Delivered!Result(t, what, e, r).sha = t.sha
         /\ Delivered!Result(t, what, e, r).what = what /\ Delivered!Result(t, what, e, r).effective = e
BY NoneAssumption DEF Delivered!Result, Delivered!Attempts

LEMMA NoTimes ==
  ASSUME NEW t, t.v \in Nat \ {0}, t.sha \in Saved, t.started \in Delivered!Moments
  PROVE  \A what \in Delivered!Results :
           /\ Delivered!Result(t, what, None, None) \in Delivered!Attempts /\ Delivered!Result(t, what, None, None) # None
           /\ Delivered!Result(t, what, None, None).v = t.v /\ Delivered!Result(t, what, None, None).sha = t.sha
           /\ Delivered!Result(t, what, None, None).what = what
<1>1. None \in Delivered!Moments
  BY DEF Delivered!Moments
<1>2. QED
  BY <1>1, ResultType

LEMMA DeliveredConfig ==
  ASSUME DeliveryInv, served # None
  PROVE  served.v \in Nat \ {0} /\ served.sha \in Saved /\ served.sha = versions[served.v].sha
BY DEF DeliveryInv, TypesOK, DesiredOK, Delivered!Offers

LEMMA SkipRejectSteps ==
  ASSUME DeliveryInv, Delivered!Skip \/ Delivered!Reject
  PROVE  DeliveryInv' /\ Progress
<1>1. /\ UNCHANGED <<versions, polls, buf, served, request, late>>
      /\ edge' \in BOOLEAN /\ Progress /\ DesiredOK' /\ RequestOK' /\ LateOK'
  BY ApplierFrame DEF Applier
<1>2. served # None /\ ~edge' /\ trying = None /\ UNCHANGED <<reported, current, trying, tries>>
  BY DEF Delivered!Skip, Delivered!Reject, Delivered!Triggered
<1>3. TypesOK'
  BY <1>1, <1>2, DeliveredConfig DEF DeliveryInv, TypesOK, Delivered!Skip, Delivered!Reject
<1>4. CASE Delivered!Skip
  <2>1. UNCHANGED outcome
    BY <1>4 DEF Delivered!Skip
  <2>2. QED
    BY <1>1, <1>2, <1>3, <2>1 DEF DeliveryInv, ReportsOK, Progress, Delivered!Attempts, Delivered!Tries
<1>5. CASE Delivered!Reject
  <2>1. PICK t : t = [v |-> served.v, sha |-> served.sha, started |-> None]
    OBVIOUS
  <2>2. outcome' = Delivered!Result(t, "rejected", None, None)
    BY <1>5, <2>1 DEF Delivered!Reject
  <2>3. t.v = served.v /\ t.sha = served.sha /\ t.started = None
    BY <2>1
  <2>4. outcome' \in Delivered!Attempts /\ outcome'.v = served.v /\ outcome'.sha = served.sha
    BY <1>2, <2>2, <2>3, NoTimes, DeliveredConfig DEF Delivered!Moments, Delivered!Results
  <2>5. QED
    BY <1>1, <1>2, <1>3, <2>4, DeliveredConfig DEF DeliveryInv, ReportsOK, Spent
<1>6. QED
  BY <1>4, <1>5

LEMMA BeginStep ==
  ASSUME DeliveryInv, Delivered!Begin
  PROVE  DeliveryInv' /\ Progress
<1>1. /\ UNCHANGED <<versions, polls, buf, served, request, late>>
      /\ edge' \in BOOLEAN /\ Progress /\ DesiredOK' /\ RequestOK' /\ LateOK'
  BY ApplierFrame DEF Applier
<1>2. served # None /\ edge' = FALSE /\ UNCHANGED reported
  BY DEF Delivered!Begin, Delivered!Triggered
<1>3. served.v \in Nat \ {0} /\ served.sha \in Saved /\ served.sha = versions[served.v].sha
  BY <1>2, DeliveredConfig
<1>4. Delivered!LastPollId \in Nat
  BY PollIdType DEF DeliveryInv
<1>5. trying' = [v |-> served.v, sha |-> served.sha, started |-> Delivered!LastPollId, prev |-> current,
                 back |-> FALSE, after |-> Delivered!LastPollId]
  BY DEF Delivered!Begin
<1>6. /\ trying' \in Delivered!Tries /\ trying'.v = served.v /\ trying'.sha = served.sha /\ trying'.started \in Delivered!Moments
  BY <1>3, <1>4, <1>5 DEF Delivered!Tries, DeliveryInv, TypesOK, Delivered!Moments
<1>7. outcome' = Delivered!Result(trying', "applying", None, None)
  BY DEF Delivered!Begin
<1>8. /\ outcome' \in Delivered!Attempts /\ outcome' # None /\ outcome'.v = served.v /\ outcome'.sha = served.sha
      /\ outcome'.what = "applying"
  BY <1>3, <1>6, <1>7, NoTimes DEF Delivered!Moments, Delivered!Results
<1>9. TypesOK'
  <2>1. current' \in Saved /\ marks' \subseteq Saved /\ tries' = [tries EXCEPT ![served.sha] = @ + 1]
    BY <1>3 DEF Delivered!Begin, DeliveryInv, TypesOK
  <2>2. tries' \in [Saved -> Nat]
    BY <1>3, <2>1 DEF DeliveryInv, TypesOK
  <2>3. QED
    BY <1>1, <2>1, <2>2 DEF DeliveryInv, TypesOK
<1>10. ReportsOK'
  BY <1>1, <1>2, <1>3, <1>6, <1>8 DEF DeliveryInv, ReportsOK, Spent
<1>11. QED
  BY <1>1, <1>9, <1>10 DEF DeliveryInv

LEMMA ApplierEnds ==
  ASSUME DeliveryInv, Delivered!Apply \/ Delivered!RollBack \/ Delivered!RolledBack \/ Delivered!Reboot
  PROVE  DeliveryInv' /\ Progress
<1>1. /\ UNCHANGED <<versions, polls, buf, served, request, late>>
      /\ edge' \in BOOLEAN /\ (edge' => edge) /\ Progress /\ DesiredOK' /\ RequestOK' /\ LateOK'
  BY ApplierFrame DEF Applier
<1>2. trying # None
  BY DEF Delivered!Apply, Delivered!RollBack, Delivered!RolledBack, Delivered!Reboot
<1>3. /\ trying \in Delivered!Tries /\ Spent(trying.v) /\ trying.sha = versions[trying.v].sha
      /\ trying.v \in Nat \ {0} /\ trying.sha \in Saved /\ trying.started \in Delivered!Moments
      /\ trying.prev \in Saved \cup {Undelivered}
  BY <1>2 DEF DeliveryInv, ReportsOK, Delivered!Tries, Delivered!Moments
<1>4. TypesOK'
  BY <1>1, <1>3 DEF Delivered!Apply, Delivered!RollBack, Delivered!RolledBack, Delivered!Reboot, DeliveryInv, TypesOK
<1>5. Spent(trying.v) /\ edge' = (edge /\ edge') /\ served' = served
  BY <1>1, <1>3 DEF DeliveryInv, TypesOK
<1>6. CASE Delivered!RollBack
  <2>1. trying' = [trying EXCEPT !.back = TRUE, !.after = Delivered!LastPollId] /\ UNCHANGED <<reported, outcome>>
    BY <1>6 DEF Delivered!RollBack
  <2>2. Delivered!LastPollId \in Nat
    BY PollIdType DEF DeliveryInv
  <2>3. trying' \in Delivered!Tries /\ trying'.v = trying.v /\ trying'.sha = trying.sha
    BY <1>3, <2>1, <2>2 DEF Delivered!Tries
  <2>4. ReportsOK'
    <3>1. /\ outcome # None /\ outcome \in Delivered!Attempts /\ outcome.v = trying.v /\ outcome.what = "applying"
          /\ outcome.sha = versions[outcome.v].sha /\ (reported # None => reported \in Delivered!AppliedAs)
      BY <1>2 DEF DeliveryInv, ReportsOK
    <3>2. served' # None /\ (trying.v < served'.v \/ (trying.v = served'.v /\ ~edge'))
      BY <1>1, <1>3 DEF Spent
    <3>3. QED
      BY <1>1, <1>3, <2>1, <2>3, <3>1, <3>2 DEF ReportsOK, Spent
  <2>5. QED
    BY <1>1, <1>4, <2>4 DEF DeliveryInv
<1>7. CASE Delivered!Apply \/ Delivered!RolledBack \/ Delivered!Reboot
  <2>1. trying' = None
    BY <1>7 DEF Delivered!Apply, Delivered!RolledBack, Delivered!Reboot
  <2>2. /\ outcome' \in Delivered!Attempts /\ outcome'.v = trying.v /\ outcome'.sha = trying.sha
        /\ reported' = reported \/ reported' = [v |-> trying.v, sha |-> trying.sha]
    <3>1. CASE Delivered!Apply
      <4>1. Delivered!Verified /\ reported' = [v |-> trying.v, sha |-> trying.sha]
            /\ outcome' = Delivered!Result(trying, "applied", polls[Delivered!Min(Delivered!GoodPolls)].id, None)
        BY <3>1 DEF Delivered!Apply
      <4>2. QED
        <5>1. PICK e \in Nat : e = polls[Delivered!Min(Delivered!GoodPolls)].id
          BY <1>2, <4>1, FirstGood
        <5>2. None \in Delivered!Moments /\ e \in Delivered!Moments /\ "applied" \in Delivered!Results
          BY DEF Delivered!Moments, Delivered!Results
        <5>3. QED
          BY <1>3, <4>1, <5>1, <5>2, ResultType
    <3>2. CASE Delivered!RolledBack
      <4>1. UNCHANGED reported
        BY <3>2 DEF Delivered!RolledBack
      <4>2. CASE outcome' = Delivered!Result(trying, "failed", None, None)
        BY <1>3, <4>1, <4>2, NoTimes DEF Delivered!Moments, Delivered!Results
      <4>3. CASE Delivered!Verified /\ outcome' = Delivered!Result(trying, "rolled_back", None, polls[Delivered!Min(Delivered!GoodPolls)].id)
        <5>1. PICK e \in Nat : e = polls[Delivered!Min(Delivered!GoodPolls)].id
          BY <1>2, <4>3, FirstGood
        <5>2. None \in Delivered!Moments /\ e \in Delivered!Moments /\ "rolled_back" \in Delivered!Results
          BY DEF Delivered!Moments, Delivered!Results
        <5>3. QED
          BY <1>3, <4>1, <4>3, <5>1, <5>2, ResultType
      <4>4. QED
        BY <3>2, <4>2, <4>3 DEF Delivered!RolledBack
    <3>3. CASE Delivered!Reboot
      <4>1. UNCHANGED reported /\ outcome' = Delivered!Result(trying, "rolled_back", None, None)
        BY <3>3 DEF Delivered!Reboot
      <4>2. QED
        BY <1>3, <4>1, NoTimes DEF Delivered!Moments, Delivered!Results
    <3>4. QED
      BY <1>7, <3>1, <3>2, <3>3
  <2>3. reported' # None => reported' \in Delivered!AppliedAs
    BY <1>3, <2>2 DEF DeliveryInv, ReportsOK, Delivered!AppliedAs
  <2>4. Spent(trying.v) /\ (served # None => served' # None)
    BY <1>1, <1>3
  <2>5. served # None /\ served' = served /\ (trying.v < served'.v \/ (trying.v = served'.v /\ ~edge'))
    BY <1>1, <1>3 DEF Spent
  <2>6. ReportsOK'
    BY <1>1, <1>3, <2>1, <2>2, <2>3, <2>5 DEF DeliveryInv, ReportsOK, Spent
  <2>7. QED
    BY <1>1, <1>4, <2>6 DEF DeliveryInv
<1>8. QED
  BY <1>6, <1>7

LEMMA DeliveryStep ==
  ASSUME DeliveryInv, Delivered!Next
  PROVE  DeliveryInv' /\ Progress
BY PollSteps, SaveStep, BeatStep, AnswerStep, GiveUpStep, HandledLateStep, SkipRejectSteps, BeginStep, ApplierEnds
   DEF Delivered!Next

-----------------------------------------------------------------------------
(* One try per save.                                                        *)

LEMMA TriesStep ==
  ASSUME DeliveryInv, TriesOK, Delivered!Next
  PROVE  TriesOK'
<1>1. DeliveryInv' /\ Progress
  BY DeliveryStep
<1>2. SUFFICES ASSUME NEW c \in Saved PROVE tries'[c] <= Cardinality(Used(c)')
  BY DEF TriesOK
<1>3. IsFiniteSet(Used(c)) /\ IsFiniteSet(Used(c)')
  <2>1. Len(versions) \in Int /\ DOMAIN versions = 1 .. Len(versions) /\ Len(versions') \in Int /\ DOMAIN versions' = 1 .. Len(versions')
    BY <1>1 DEF DeliveryInv, TypesOK
  <2>2. Used(c) \in SUBSET (1 .. Len(versions)) /\ Used(c)' \in SUBSET (1 .. Len(versions'))
    BY <2>1 DEF Used
  <2>3. QED
    BY <2>1, <2>2, FS_Interval, FS_Subset
<1>4. /\ DOMAIN versions \subseteq DOMAIN versions'
      /\ \A v \in DOMAIN versions : versions'[v].sha = versions[v].sha
  <2>1. CASE Delivered!Save
    BY <2>1 DEF Delivered!Save, DeliveryInv, TypesOK
  <2>2. CASE Delivered!Answer
    BY <2>2, AnswerFacts
  <2>3. CASE Delivered!HandledLate
    <3>1. PICK h \in late : Delivered!Handled(h.attempt)
      BY <2>3 DEF Delivered!HandledLate
    <3>2. h.attempt \in Delivered!Attempts \cup {None}
      BY DEF DeliveryInv, LateOK, Delivered!Beats
    <3>3. QED
      BY <3>1, <3>2, HandledFacts DEF DeliveryInv
  <2>4. CASE Applier
    BY <2>4, ApplierFrame
  <2>5. CASE Delivered!Poll \/ Delivered!Arrive \/ Delivered!NewBuffer \/ Delivered!Beat \/ Delivered!GiveUp
    BY <2>5 DEF Delivered!Poll, Delivered!Arrive, Delivered!NewBuffer, Delivered!Beat, Delivered!GiveUp
  <2>6. QED
    BY <2>1, <2>2, <2>3, <2>4, <2>5 DEF Delivered!Next, Applier
<1>5. Used(c) \subseteq Used(c)'
  BY <1>1, <1>4 DEF Used, Progress, DeliveryInv, TypesOK
<1>6. Cardinality(Used(c)) \in Nat /\ Cardinality(Used(c)') \in Nat /\ Cardinality(Used(c)) <= Cardinality(Used(c)')
  BY <1>3, <1>5, FS_Subset, FS_CardinalityType
<1>7. tries[c] \in Nat /\ tries'[c] \in Nat /\ tries[c] <= Cardinality(Used(c))
  BY <1>1 DEF TriesOK, DeliveryInv, TypesOK
<1>8. CASE ~(Delivered!Begin /\ served.sha = c)
  <2>1. tries'[c] = tries[c]
    <3>1. CASE Delivered!Begin
      BY <1>8, <3>1 DEF Delivered!Begin, DeliveryInv, TypesOK
    <3>2. CASE ~Delivered!Begin
      <4>1. UNCHANGED tries
        <5>1. CASE Delivered!Skip \/ Delivered!Reject \/ Delivered!RolledBack \/ Delivered!Reboot
          BY <5>1 DEF Delivered!Skip, Delivered!Reject, Delivered!RolledBack, Delivered!Reboot
        <5>2. CASE Delivered!RollBack
          BY <5>2 DEF Delivered!RollBack
        <5>3. CASE Delivered!Apply
          BY <5>3 DEF Delivered!Apply
        <5>4. CASE Delivered!Poll \/ Delivered!Arrive \/ Delivered!NewBuffer \/ Delivered!Save \/ Delivered!Beat \/ Delivered!GiveUp
          BY <5>4 DEF Delivered!Poll, Delivered!Arrive, Delivered!NewBuffer, Delivered!Save, Delivered!Beat, Delivered!GiveUp, Delivered!sensor
        <5>5. CASE Delivered!Answer \/ Delivered!HandledLate
          BY <5>5 DEF Delivered!Answer, Delivered!HandledLate, Delivered!sensor
        <5>6. QED
          BY <3>2, <5>1, <5>2, <5>3, <5>4, <5>5 DEF Delivered!Next
      <4>2. QED
        BY <4>1
    <3>3. QED
      BY <3>1, <3>2
  <2>2. QED
    BY <1>6, <1>7, <2>1
<1>9. CASE Delivered!Begin /\ served.sha = c
  <2>1. served # None /\ edge /\ ~edge' /\ UNCHANGED <<served, versions>> /\ tries'[c] = tries[c] + 1
    BY <1>9 DEF Delivered!Begin, Delivered!Triggered, DeliveryInv, TypesOK
  <2>2. PICK v : v = served.v
    OBVIOUS
  <2>3. v \in DOMAIN versions /\ versions[v].sha = c /\ v \in Nat
    BY <1>9, <2>1, <2>2 DEF DeliveryInv, DesiredOK, Delivered!Offers
  <2>4. v \notin Used(c) /\ v \in Used(c)'
    BY <2>1, <2>2, <2>3 DEF Used, Spent
  <2>5. Used(c) \cup {v} \in SUBSET Used(c)' /\ Cardinality(Used(c) \cup {v}) = Cardinality(Used(c)) + 1
    BY <1>3, <1>5, <2>4, FS_AddElement
  <2>6. Cardinality(Used(c)) + 1 <= Cardinality(Used(c)')
    BY <1>3, <2>5, FS_Subset
  <2>7. QED
    BY <1>6, <1>7, <2>1, <2>6
<1>10. QED
  BY <1>8, <1>9

LEMMA TriesMeanSaves ==
  ASSUME DeliveryInv, TriesOK
  PROVE  Delivered!OneTryPerSave
<1>1. SUFFICES ASSUME NEW c \in Saved PROVE tries[c] <= Cardinality({v \in DOMAIN versions : versions[v].sha = c})
  BY SameCardinality DEF Delivered!OneTryPerSave
<1>2. DEFINE S == {v \in DOMAIN versions : versions[v].sha = c}
<1>3. Len(versions) \in Int /\ DOMAIN versions = 1 .. Len(versions)
  BY DEF DeliveryInv, TypesOK
<1>4. S \in SUBSET (1 .. Len(versions)) /\ IsFiniteSet(1 .. Len(versions)) /\ Used(c) \in SUBSET S
  BY <1>3, FS_Interval DEF Used
<1>5. IsFiniteSet(S) /\ IsFiniteSet(Used(c))
  BY <1>4, FS_Subset
<1>6. Cardinality(Used(c)) <= Cardinality(S) /\ Cardinality(S) \in Nat /\ Cardinality(Used(c)) \in Nat
  BY <1>4, <1>5, FS_Subset, FS_CardinalityType
<1>7. tries[c] <= Cardinality(Used(c)) /\ tries[c] \in Nat
  BY DEF TriesOK, DeliveryInv, TypesOK
<1>8. QED
  BY <1>6, <1>7

-----------------------------------------------------------------------------
(* The boundaries.                                                          *)

BoundaryInv == PollsOK /\ RanOK /\ ToldOK /\ ConfigsOK

\* In the first buffer a poll's id is its place, and the server dates a report
\* by the poll it names.
LEMMA DatedTruly ==
  ASSUME DeliveryInv, BoundaryInv, buf = 1, NEW a, Delivered!PollAt(a.effective) # None
  PROVE  Delivered!Dated(a) = a.effective
<1>1. Delivered!PollAt(a.effective) \in DOMAIN polls /\ polls[Delivered!PollAt(a.effective)].id = a.effective
  BY PollAtType DEF DeliveryInv
<1>2. QED
  BY <1>1 DEF BoundaryInv, PollsOK, Delivered!Dated

LEMMA IdsAreAll ==
  ASSUME DeliveryInv, PollsOK, buf = 1
  PROVE  Delivered!LastPollId = Len(polls)
<1>1. Len(polls) \in Nat /\ DOMAIN polls = 1 .. Len(polls)
  BY DEF DeliveryInv, TypesOK
<1>2. Delivered!IdsOf(buf) = 1 .. Len(polls)
  BY <1>1 DEF Delivered!IdsOf, PollsOK
<1>3. Cardinality(1 .. Len(polls)) = IF 1 > Len(polls) THEN 0 ELSE Len(polls) - 1 + 1
  BY <1>1, FS_Interval, SMT
<1>4. QED
  BY <1>1, <1>2, <1>3, SameCardinality DEF Delivered!LastPollId

LEMMA PollsStep ==
  ASSUME DeliveryInv, PollsOK, Delivered!Next
  PROVE  PollsOK'
<1>1. SUFFICES ASSUME buf' = 1, NEW p \in DOMAIN polls' PROVE polls'[p].buf = 1 /\ polls'[p].id = p
  BY DEF PollsOK
<1>2. CASE Delivered!Poll
  <2>1. PICK ok \in BOOLEAN :
          polls' = Append(polls, [buf |-> buf, id |-> Delivered!LastPollId + 1, cfg |-> Delivered!AppliedVersion,
                                  sha |-> current, good |-> ok, there |-> FALSE])
    BY <1>2 DEF Delivered!Poll
  <2>2. PICK r : r = [buf |-> buf, id |-> Delivered!LastPollId + 1, cfg |-> Delivered!AppliedVersion,
                      sha |-> current, good |-> ok, there |-> FALSE]
    OBVIOUS
  <2>3. r.buf = buf /\ r.id = Delivered!LastPollId + 1 /\ polls' = Append(polls, r)
    BY <2>1, <2>2
  <2>4. buf = 1
    BY <1>1, <1>2 DEF Delivered!Poll
  <2>5. Delivered!LastPollId = Len(polls)
    BY <2>4, IdsAreAll
  <2>6. polls \in Seq(PollRows)
    BY DEF DeliveryInv, TypesOK
  <2>7. p \in DOMAIN polls \/ p = Len(polls) + 1
    BY <2>3, <2>6
  <2>8. CASE p \in DOMAIN polls
    BY <2>3, <2>4, <2>6, <2>8 DEF PollsOK
  <2>9. CASE p = Len(polls) + 1
    BY <2>3, <2>4, <2>5, <2>6, <2>9
  <2>10. QED
    BY <2>7, <2>8, <2>9
<1>3. CASE Delivered!Arrive
  <2>1. PICK m : polls' = [polls EXCEPT ![m] = [polls[m] EXCEPT !.there = TRUE]]
    BY <1>3 DEF Delivered!Arrive
  <2>2. p \in DOMAIN polls /\ polls[p] \in PollRows /\ buf = 1
    BY <1>1, <1>3, <2>1 DEF Delivered!Arrive, DeliveryInv, TypesOK
  <2>3. polls'[p].buf = polls[p].buf /\ polls'[p].id = polls[p].id
    BY <2>1, <2>2 DEF PollRows, DeliveryInv, TypesOK
  <2>4. QED
    BY <2>2, <2>3 DEF PollsOK
<1>4. CASE Delivered!NewBuffer
  <2>1. buf \in Nat \ {0} /\ buf' = buf + 1
    BY <1>4 DEF Delivered!NewBuffer, DeliveryInv, TypesOK
  <2>2. QED
    BY <1>1, <2>1
<1>5. CASE Applier
  BY <1>1, <1>5, ApplierFrame DEF PollsOK
<1>6. CASE Delivered!Save \/ Delivered!Beat \/ Delivered!Answer \/ Delivered!GiveUp \/ Delivered!HandledLate
  <2>1. UNCHANGED <<polls, buf>>
    BY <1>6 DEF Delivered!Save, Delivered!Beat, Delivered!Answer, Delivered!GiveUp, Delivered!HandledLate, Delivered!sensor
  <2>2. QED
    BY <1>1, <2>1 DEF PollsOK
<1>7. QED
  BY <1>2, <1>3, <1>4, <1>5, <1>6 DEF Delivered!Next, Applier

\* Only a poll adds a poll, and a poll keeps what it was made under.
LEMMA PollsKeep ==
  ASSUME DeliveryInv, Delivered!Next
  PROVE  /\ DOMAIN polls \subseteq DOMAIN polls'
         /\ \A p \in DOMAIN polls : polls'[p].cfg = polls[p].cfg
         /\ \A p \in DOMAIN polls' \ DOMAIN polls :
              Delivered!Poll /\ polls'[p].cfg = Delivered!AppliedVersion /\ p = Len(polls) + 1
<1>1. CASE Delivered!Poll
  <2>1. PICK ok \in BOOLEAN :
          polls' = Append(polls, [buf |-> buf, id |-> Delivered!LastPollId + 1, cfg |-> Delivered!AppliedVersion,
                                  sha |-> current, good |-> ok, there |-> FALSE])
    BY <1>1 DEF Delivered!Poll
  <2>2. PICK r : r = [buf |-> buf, id |-> Delivered!LastPollId + 1, cfg |-> Delivered!AppliedVersion,
                      sha |-> current, good |-> ok, there |-> FALSE]
    OBVIOUS
  <2>3. r.cfg = Delivered!AppliedVersion /\ polls' = Append(polls, r) /\ polls \in Seq(PollRows)
    BY <2>1, <2>2 DEF DeliveryInv, TypesOK
  <2>4. QED
    BY <1>1, <2>3
<1>2. CASE Delivered!Arrive
  <2>1. PICK m : polls' = [polls EXCEPT ![m] = [polls[m] EXCEPT !.there = TRUE]]
    BY <1>2 DEF Delivered!Arrive
  <2>2. DOMAIN polls' = DOMAIN polls /\ \A p \in DOMAIN polls : polls[p] \in PollRows
    BY <2>1 DEF DeliveryInv, TypesOK
  <2>3. \A p \in DOMAIN polls : polls'[p].cfg = polls[p].cfg
    BY <2>1, <2>2 DEF PollRows, DeliveryInv, TypesOK
  <2>4. QED
    BY <2>2, <2>3
<1>3. CASE Applier
  BY <1>3, ApplierFrame
<1>4. CASE Delivered!NewBuffer \/ Delivered!Save \/ Delivered!Beat \/ Delivered!Answer \/ Delivered!GiveUp \/ Delivered!HandledLate
  <2>1. UNCHANGED polls
    BY <1>4 DEF Delivered!NewBuffer, Delivered!Save, Delivered!Beat, Delivered!Answer, Delivered!GiveUp, Delivered!HandledLate, Delivered!sensor
  <2>2. QED
    BY <2>1
<1>5. QED
  BY <1>1, <1>2, <1>3, <1>4 DEF Delivered!Next, Applier

\* Only a verified apply adds to what ran and to what is applied.
LEMMA RanKeeps ==
  ASSUME DeliveryInv, Delivered!Next, ~Delivered!Apply
  PROVE  UNCHANGED <<ran, reported>> /\ (trying' # None => Delivered!Begin \/ (trying # None /\ trying'.v = trying.v))
<1>1. CASE Delivered!Begin
  BY <1>1 DEF Delivered!Begin
<1>2. CASE Delivered!Skip \/ Delivered!Reject \/ Delivered!Reboot
  BY <1>2 DEF Delivered!Skip, Delivered!Reject, Delivered!Reboot, Delivered!Triggered
<1>3. CASE Delivered!RolledBack
  BY <1>3 DEF Delivered!RolledBack
<1>4. CASE Delivered!RollBack
  <2>1. trying # None /\ trying' = [trying EXCEPT !.back = TRUE, !.after = Delivered!LastPollId] /\ UNCHANGED <<ran, reported>>
    BY <1>4 DEF Delivered!RollBack
  <2>2. trying \in Delivered!Tries
    BY <2>1 DEF DeliveryInv, ReportsOK
  <2>3. QED
    BY <2>1, <2>2 DEF Delivered!Tries
<1>5. CASE Delivered!Poll \/ Delivered!Arrive \/ Delivered!NewBuffer \/ Delivered!Save \/ Delivered!Beat \/ Delivered!GiveUp \/ Delivered!Answer \/ Delivered!HandledLate
  BY <1>5 DEF Delivered!Poll, Delivered!Arrive, Delivered!NewBuffer, Delivered!Save, Delivered!Beat, Delivered!GiveUp, Delivered!Answer, Delivered!HandledLate, Delivered!sensor
<1>6. QED
  BY <1>1, <1>2, <1>3, <1>4, <1>5 DEF Delivered!Next

\* The versions keep their places.
LEMMA VersionsKeep ==
  ASSUME DeliveryInv, Delivered!Next
  PROVE  DOMAIN versions \subseteq DOMAIN versions'
<1>1. CASE Delivered!Save
  BY <1>1 DEF Delivered!Save, DeliveryInv, TypesOK
<1>2. CASE Delivered!Answer
  BY <1>2, AnswerFacts
<1>3. CASE Delivered!HandledLate
  <2>1. PICK h \in late : Delivered!Handled(h.attempt)
    BY <1>3 DEF Delivered!HandledLate
  <2>2. h.attempt \in Delivered!Attempts \cup {None}
    BY DEF DeliveryInv, LateOK, Delivered!Beats
  <2>3. QED
    BY <2>1, <2>2, HandledFacts DEF DeliveryInv
<1>4. CASE Applier
  BY <1>4, ApplierFrame
<1>5. CASE Delivered!Poll \/ Delivered!Arrive \/ Delivered!NewBuffer \/ Delivered!Beat \/ Delivered!GiveUp
  BY <1>5 DEF Delivered!Poll, Delivered!Arrive, Delivered!NewBuffer, Delivered!Beat, Delivered!GiveUp
<1>6. QED
  BY <1>1, <1>2, <1>3, <1>4, <1>5 DEF Delivered!Next, Applier

LEMMA ApplyRan ==
  ASSUME DeliveryInv, Delivered!Apply
  PROVE  \E first \in DOMAIN polls :
           /\ polls[first].buf = buf /\ polls[first].id \in Nat
           /\ ran' = ran \cup {[v |-> trying.v, at |-> first]}
           /\ reported' = [v |-> trying.v, sha |-> trying.sha]
           /\ outcome' = Delivered!Result(trying, "applied", polls[first].id, None)
           /\ trying # None /\ trying' = None
           /\ UNCHANGED <<versions, notes, polls, buf, served, edge, request, late>>
<1>1. trying # None /\ Delivered!Verified
  BY DEF Delivered!Apply
<1>2. PICK first \in DOMAIN polls : first = Delivered!Min(Delivered!GoodPolls) /\ polls[first].buf = buf /\ polls[first].id \in Nat
  BY <1>1, FirstGood
<1>3. QED
  BY <1>1, <1>2 DEF Delivered!Apply

LEMMA RanStep ==
  ASSUME DeliveryInv, RanOK, Delivered!Next
  PROVE  RanOK' /\ ran \subseteq ran'
<1>1. Progress /\ DOMAIN versions \subseteq DOMAIN versions' /\ DOMAIN polls \subseteq DOMAIN polls'
  BY DeliveryStep, VersionsKeep, PollsKeep
<1>2. \A e \in ran : /\ e \in [v : DOMAIN versions', at : DOMAIN polls'] /\ Spent(e.v)'
                     /\ e.v \in Nat
  <2>1. ASSUME NEW e \in ran PROVE e \in [v : DOMAIN versions', at : DOMAIN polls'] /\ e.v \in Nat /\ Spent(e.v)
    BY <1>1 DEF RanOK, DeliveryInv, TypesOK
  <2>2. QED
    BY <1>1, <2>1 DEF Progress
<1>3. CASE Delivered!Apply
  <2>1. PICK first \in DOMAIN polls :
           /\ ran' = ran \cup {[v |-> trying.v, at |-> first]}
           /\ trying # None /\ trying' = None
           /\ UNCHANGED <<versions, polls, served, edge>>
    BY <1>3, ApplyRan
  <2>2. PICK f : f = [v |-> trying.v, at |-> first]
    OBVIOUS
  <2>3. Spent(trying.v) /\ trying.v \in Nat \ {0}
    BY <2>1 DEF DeliveryInv, ReportsOK, Delivered!Tries
  <2>4. trying.v \in DOMAIN versions
    BY <2>3 DEF DeliveryInv, TypesOK, DesiredOK, Delivered!Offers, Spent
  <2>5. f \in [v : DOMAIN versions', at : DOMAIN polls'] /\ f.v = trying.v /\ Spent(f.v)'
    BY <1>1, <2>1, <2>2, <2>3, <2>4 DEF Spent
  <2>6. \A e \in ran : e.v # f.v
    BY <2>1, <2>5 DEF RanOK
  <2>7. QED
    BY <1>2, <2>1, <2>2, <2>5, <2>6 DEF RanOK
<1>4. CASE ~Delivered!Apply
  <2>1. ran' = ran /\ (trying' # None => Delivered!Begin \/ (trying # None /\ trying'.v = trying.v))
    BY <1>4, RanKeeps
  <2>2. ASSUME NEW e \in ran, trying' # None PROVE e.v # trying'.v
    <3>1. CASE Delivered!Begin
      <4>1. served # None /\ edge /\ trying'.v = served.v
        BY <3>1 DEF Delivered!Begin, Delivered!Triggered
      <4>2. Spent(e.v) /\ e.v \in Nat
        BY <1>2 DEF RanOK
      <4>3. served.v \in Nat
        BY <4>1, DeliveredConfig
      <4>4. QED
        BY <4>1, <4>2, <4>3 DEF Spent
    <3>2. CASE trying # None /\ trying'.v = trying.v
      BY <3>2 DEF RanOK
    <3>3. QED
      BY <2>1, <2>2, <3>1, <3>2
  <2>3. QED
    BY <1>2, <2>1, <2>2 DEF RanOK
<1>5. QED
  BY <1>3, <1>4

LEMMA ConfigsStep ==
  ASSUME DeliveryInv, RanOK, ConfigsOK, Delivered!Next
  PROVE  ConfigsOK'
<1>1. ran \subseteq ran'
  BY RanStep
<1>2. reported' # None => \E e \in ran' : e.v = reported'.v
  <2>1. CASE Delivered!Apply
    <3>1. PICK first : ran' = ran \cup {[v |-> trying.v, at |-> first]} /\ reported' = [v |-> trying.v, sha |-> trying.sha]
      BY <2>1, ApplyRan
    <3>2. PICK f \in ran' : f = [v |-> trying.v, at |-> first]
      BY <3>1
    <3>3. f.v = reported'.v
      BY <3>1, <3>2
    <3>4. QED
      BY <3>3
  <2>2. CASE ~Delivered!Apply
    BY <1>1, <2>2, RanKeeps DEF ConfigsOK
  <2>3. QED
    BY <2>1, <2>2
<1>3. ASSUME NEW p \in DOMAIN polls', polls'[p].cfg # None PROVE \E e \in ran' : e.v = polls'[p].cfg /\ e.at < p
  <2>1. CASE p \in DOMAIN polls
    <3>1. PICK e \in ran : e.v = polls[p].cfg /\ e.at < p
      BY <1>3, <2>1, PollsKeep DEF ConfigsOK
    <3>2. QED
      BY <1>1, <2>1, <3>1, PollsKeep
  <2>2. CASE p \notin DOMAIN polls
    <3>1. Delivered!Poll /\ polls'[p].cfg = Delivered!AppliedVersion /\ p = Len(polls) + 1
      BY <2>2, PollsKeep
    <3>2. reported # None /\ polls'[p].cfg = reported.v
      BY <1>3, <3>1 DEF Delivered!AppliedVersion
    <3>3. PICK e \in ran : e.v = reported.v
      BY <3>2 DEF ConfigsOK
    <3>4. Len(polls) \in Nat /\ e.at \in 1 .. Len(polls)
      BY DEF RanOK, DeliveryInv, TypesOK
    <3>5. e.at < p
      BY <3>1, <3>4
    <3>6. QED
      BY <1>1, <3>2, <3>3, <3>5
  <2>3. QED
    BY <2>1, <2>2
<1>4. QED
  BY <1>2, <1>3 DEF ConfigsOK

LEMMA ReportsHandled ==
  ASSUME DeliveryInv, BoundaryInv, buf = 1, NEW a \in Delivered!Attempts \cup {None}, Delivered!Handled(a), Told(a)
  PROVE  /\ \A v \in DOMAIN versions' : versions'[v].confirmed # None => Ran(v, versions'[v].confirmed)
         /\ \A n \in notes' : n.kind = "change" => Ran(n.v, n.at)
<1>1. /\ DOMAIN versions' = DOMAIN versions
      /\ \A v \in DOMAIN versions :
           versions'[v].confirmed # versions[v].confirmed =>
              a # None /\ v = a.v /\ a.what = "applied" /\ versions'[v].confirmed = Delivered!Dated(a)
      /\ \A n \in notes' : n \in notes \/ n.kind = "coverage"
            \/ (a # None /\ a.what = "applied" /\ n.v = a.v /\ n.at = Delivered!Dated(a) /\ Delivered!Dated(a) # None)
  BY HandledFacts DEF DeliveryInv
<1>2. Delivered!Dated(a) # None => Delivered!Dated(a) = a.effective
  BY DatedTruly DEF Delivered!Dated
<1>3. a # None /\ a.what = "applied" /\ Delivered!Dated(a) # None => Ran(a.v, Delivered!Dated(a))
  BY <1>2 DEF Told
<1>4. QED
  BY <1>1, <1>3 DEF BoundaryInv, ToldOK

\* Nothing but the end of an apply tells of one that was verified.
LEMMA ResultsKeep ==
  ASSUME DeliveryInv, Delivered!Next, ~Delivered!Apply
  PROVE  outcome' = outcome \/ (outcome' # None => outcome'.what # "applied")
<1>1. CASE Delivered!Reject \/ Delivered!Begin
  BY <1>1 DEF Delivered!Reject, Delivered!Begin, Delivered!Result
<1>2. CASE Delivered!RolledBack
  BY <1>2 DEF Delivered!RolledBack, Delivered!Result
<1>3. CASE Delivered!Reboot
  BY <1>3 DEF Delivered!Reboot, Delivered!Result
<1>4. CASE Delivered!RollBack
  BY <1>4 DEF Delivered!RollBack
<1>5. CASE Delivered!Skip \/ Delivered!Poll \/ Delivered!Arrive \/ Delivered!NewBuffer \/ Delivered!Save \/ Delivered!Beat \/ Delivered!GiveUp \/ Delivered!Answer \/ Delivered!HandledLate
  BY <1>5 DEF Delivered!Skip, Delivered!Poll, Delivered!Arrive, Delivered!NewBuffer, Delivered!Save, Delivered!Beat, Delivered!GiveUp, Delivered!Answer, Delivered!HandledLate, Delivered!sensor
<1>6. QED
  BY <1>1, <1>2, <1>3, <1>4, <1>5 DEF Delivered!Next

LEMMA ToldStep ==
  ASSUME DeliveryInv, BoundaryInv, Delivered!Next
  PROVE  ToldOK'
<1>1. SUFFICES ASSUME buf' = 1
      PROVE  /\ Told(outcome)'
             /\ request' # None => Told(request.attempt)'
             /\ \A h \in late' : Told(h.attempt)'
             /\ \A v \in DOMAIN versions' : versions'[v].confirmed # None =>
                  [v |-> v, at |-> versions'[v].confirmed] \in ran'
             /\ \A n \in notes' : n.kind = "change" => [v |-> n.v, at |-> n.at] \in ran'
  BY DEF ToldOK, Ran
<1>2. buf = 1
  <2>1. buf \in Nat \ {0}
    BY DEF DeliveryInv, TypesOK
  <2>2. buf' = buf \/ buf' = buf + 1
    <3>1. CASE Applier
      BY <3>1, ApplierFrame
    <3>2. CASE Delivered!Poll \/ Delivered!Arrive \/ Delivered!NewBuffer \/ Delivered!Save \/ Delivered!Beat \/ Delivered!GiveUp \/ Delivered!Answer \/ Delivered!HandledLate
      BY <3>2 DEF Delivered!Poll, Delivered!Arrive, Delivered!NewBuffer, Delivered!Save, Delivered!Beat, Delivered!GiveUp, Delivered!Answer, Delivered!HandledLate, Delivered!sensor
    <3>3. QED
      BY <3>1, <3>2 DEF Delivered!Next, Applier
  <2>3. QED
    BY <1>1, <2>1, <2>2
<1>3. ran \subseteq ran'
  BY RanStep DEF BoundaryInv
<1>4. /\ Told(outcome)
      /\ request # None => Told(request.attempt)
      /\ \A h \in late : Told(h.attempt)
      /\ \A v \in DOMAIN versions : versions[v].confirmed # None => Ran(v, versions[v].confirmed)
      /\ \A n \in notes : n.kind = "change" => Ran(n.v, n.at)
  BY <1>2 DEF BoundaryInv, ToldOK
<1>5. \A a : Told(a) => (a # None /\ a.what = "applied" => [v |-> a.v, at |-> a.effective] \in ran')
  BY <1>3 DEF Told, Ran
<1>6. Told(outcome)'
  <2>1. CASE Delivered!Apply
    <3>1. PICK first \in DOMAIN polls :
            /\ polls[first].buf = buf /\ polls[first].id \in Nat
            /\ ran' = ran \cup {[v |-> trying.v, at |-> first]}
            /\ outcome' = Delivered!Result(trying, "applied", polls[first].id, None)
      BY <2>1, ApplyRan
    <3>2. polls[first].id = first
      BY <1>2 DEF BoundaryInv, PollsOK
    <3>3. outcome'.v = trying.v /\ outcome'.effective = first
      BY <3>1, <3>2 DEF Delivered!Result
    <3>4. QED
      BY <3>1, <3>3 DEF Told, Ran
  <2>2. CASE ~Delivered!Apply
    BY <1>4, <1>5, <2>2, ResultsKeep DEF Told, Ran
  <2>3. QED
    BY <2>1, <2>2
<1>7. request' # None => Told(request.attempt)'
  <2>1. CASE Delivered!Beat
    <3>1. request'.attempt = Delivered!Attempt
      BY <2>1 DEF Delivered!Beat
    <3>2. Delivered!Attempt = outcome \/ Delivered!Attempt.what = "received"
      BY DEF Delivered!Attempt
    <3>3. QED
      BY <1>4, <1>5, <3>1, <3>2 DEF Told, Ran
  <2>2. CASE ~Delivered!Beat
    <3>1. request' \in {request, None}
      <4>1. CASE Applier
        BY <4>1, ApplierFrame
      <4>2. CASE Delivered!Poll \/ Delivered!Arrive \/ Delivered!NewBuffer \/ Delivered!Save \/ Delivered!GiveUp \/ Delivered!Answer \/ Delivered!HandledLate
        BY <4>2 DEF Delivered!Poll, Delivered!Arrive, Delivered!NewBuffer, Delivered!Save, Delivered!GiveUp, Delivered!Answer, Delivered!HandledLate, Delivered!sensor
      <4>3. QED
        BY <2>2, <4>1, <4>2 DEF Delivered!Next, Applier
    <3>2. QED
      BY <1>4, <1>5, <3>1 DEF Told, Ran
  <2>3. QED
    BY <2>1, <2>2
<1>8. \A h \in late' : Told(h.attempt)'
  <2>1. \A h \in late' : h \in late \/ (request # None /\ h = request)
    <3>1. CASE Applier
      BY <3>1, ApplierFrame
    <3>2. CASE Delivered!Poll \/ Delivered!Arrive \/ Delivered!NewBuffer \/ Delivered!Save \/ Delivered!Beat \/ Delivered!GiveUp \/ Delivered!Answer \/ Delivered!HandledLate
      BY <3>2 DEF Delivered!Poll, Delivered!Arrive, Delivered!NewBuffer, Delivered!Save, Delivered!Beat, Delivered!GiveUp, Delivered!Answer, Delivered!HandledLate, Delivered!sensor
    <3>3. QED
      BY <3>1, <3>2 DEF Delivered!Next, Applier
  <2>2. QED
    BY <1>4, <1>5, <2>1 DEF Told, Ran
<1>9. /\ \A v \in DOMAIN versions' : versions'[v].confirmed # None => Ran(v, versions'[v].confirmed)
      /\ \A n \in notes' : n.kind = "change" => Ran(n.v, n.at)
  <2>1. CASE Delivered!Save
    <3>1. PICK c \in Saved : UNCHANGED notes /\
            versions' = Append(versions, [sha |-> c, delivered |-> FALSE, refused |-> FALSE, confirmed |-> None])
      BY <2>1 DEF Delivered!Save
    <3>2. \A v \in DOMAIN versions' : versions'[v].confirmed # None => v \in DOMAIN versions /\ versions'[v] = versions[v]
      BY <3>1 DEF DeliveryInv, TypesOK
    <3>3. QED
      BY <1>4, <3>1, <3>2
  <2>2. CASE Delivered!Answer
    <3>1. request # None /\ Delivered!Handled(request.attempt)
      BY <2>2 DEF Delivered!Answer
    <3>2. PICK a : a = request.attempt
      OBVIOUS
    <3>3. a \in Delivered!Attempts \cup {None} /\ Told(a) /\ Delivered!Handled(a)
      BY <1>4, <3>1, <3>2 DEF DeliveryInv, RequestOK, Delivered!Beats
    <3>4. QED
      BY <1>2, <3>3, ReportsHandled
  <2>3. CASE Delivered!HandledLate
    <3>1. PICK h \in late : Delivered!Handled(h.attempt)
      BY <2>3 DEF Delivered!HandledLate
    <3>2. PICK a : a = h.attempt
      OBVIOUS
    <3>3. a \in Delivered!Attempts \cup {None} /\ Told(a) /\ Delivered!Handled(a)
      BY <1>4, <3>1, <3>2 DEF DeliveryInv, LateOK, Delivered!Beats
    <3>4. QED
      BY <1>2, <3>3, ReportsHandled
  <2>4. CASE Applier
    BY <1>4, <2>4, ApplierFrame
  <2>5. CASE Delivered!Poll \/ Delivered!Arrive \/ Delivered!NewBuffer \/ Delivered!Beat \/ Delivered!GiveUp
    <3>1. UNCHANGED <<versions, notes>>
      BY <2>5 DEF Delivered!Poll, Delivered!Arrive, Delivered!NewBuffer, Delivered!Beat, Delivered!GiveUp
    <3>2. QED
      BY <1>4, <3>1
  <2>6. QED
    BY <2>1, <2>2, <2>3, <2>4, <2>5 DEF Delivered!Next, Applier
<1>10. \A v, at : Ran(v, at) => [v |-> v, at |-> at] \in ran'
  BY <1>3 DEF Ran
<1>11. QED
  BY <1>6, <1>7, <1>8, <1>9, <1>10

LEMMA BoundaryStep ==
  ASSUME DeliveryInv, BoundaryInv, Delivered!Next
  PROVE  BoundaryInv'
BY PollsStep, RanStep, ToldStep, ConfigsStep DEF BoundaryInv

LEMMA BoundaryInvMeans ==
  ASSUME DeliveryInv, BoundaryInv
  PROVE  Delivered!BoundariesAreTrue
<1>1. buf = 1 => /\ \A v \in DOMAIN versions : versions[v].confirmed # None => Ran(v, versions[v].confirmed)
                 /\ \A n \in notes : n.kind = "change" => Ran(n.v, n.at)
  BY DEF BoundaryInv, ToldOK
<1>2. ASSUME NEW p \in DOMAIN polls, polls[p].cfg # None
      PROVE  /\ \E e \in ran : e.v = polls[p].cfg /\ e.at < p
             /\ buf = 1 /\ polls[p].there /\ versions[polls[p].cfg].confirmed # None => versions[polls[p].cfg].confirmed < p
  <2>1. PICK e \in ran : e.v = polls[p].cfg /\ e.at < p
    BY <1>2 DEF BoundaryInv, ConfigsOK
  <2>2. e.v \in DOMAIN versions
    BY DEF BoundaryInv, RanOK
  <2>3. ASSUME buf = 1, versions[e.v].confirmed # None PROVE versions[e.v].confirmed = e.at
    <3>1. PICK f \in ran : f = [v |-> e.v, at |-> versions[e.v].confirmed]
      BY <1>1, <2>2, <2>3 DEF Ran
    <3>2. f = e
      BY <3>1 DEF BoundaryInv, RanOK
    <3>3. QED
      BY <3>1, <3>2
  <2>4. QED
    BY <2>1, <2>3
<1>3. QED
  BY <1>1, <1>2 DEF Delivered!BoundariesAreTrue, Ran

LEMMA DeliveryInit ==
  ASSUME Delivered!Init
  PROVE  DeliveryInv /\ TriesOK /\ BoundaryInv
<1>1. versions = <<>> /\ polls = <<>> /\ DOMAIN versions = {} /\ DOMAIN polls = {}
  BY DEF Delivered!Init
<1>2. TypesOK
  <2>1. versions \in Seq(Rows) /\ polls \in Seq(PollRows)
    BY <1>1
  <2>2. tries \in [Saved -> Nat]
    BY DEF Delivered!Init
  <2>3. buf = 1 /\ current = Undelivered /\ marks = {} /\ edge = FALSE
    BY DEF Delivered!Init
  <2>4. edge \in BOOLEAN
    BY <2>3
  <2>5. buf \in Nat \ {0} /\ current \in Saved \cup {Undelivered} /\ marks \subseteq Saved
    BY <2>3
  <2>6. QED
    BY <2>1, <2>2, <2>4, <2>5 DEF TypesOK
<1>3. DesiredOK /\ ReportsOK /\ RequestOK /\ LateOK
  BY DEF Delivered!Init, DesiredOK, ReportsOK, RequestOK, LateOK
<1>4. TriesOK
  <2>1. \A c : Used(c) = {}
    BY <1>1 DEF Used
  <2>2. \A c \in Saved : tries[c] = 0
    BY DEF Delivered!Init
  <2>3. \A c : Cardinality(Used(c)) = 0
    BY <2>1, FS_EmptySet
  <2>4. QED
    BY <2>2, <2>3 DEF TriesOK
<1>5. BoundaryInv
  BY <1>1 DEF Delivered!Init, BoundaryInv, PollsOK, RanOK, ToldOK, ConfigsOK, Told
<1>6. QED
  BY <1>2, <1>3, <1>4, <1>5 DEF DeliveryInv

LEMMA DeliverySteps ==
  ASSUME [OperatorNext]_<<part, vars, deliveryVars, hopVars, writeVars>>, part' = "delivery"
  PROVE  part = "delivery" /\ (Delivered!Next \/ UNCHANGED deliveryVars)
BY DEF OperatorNext, Rest

\* What the delivery keeps, whatever the part at work.
DeliverySafe == part = "delivery" => DeliveryInv /\ TriesOK /\ BoundaryInv

LEMMA DeliveryStutter ==
  ASSUME DeliveryInv, TriesOK, BoundaryInv, UNCHANGED deliveryVars
  PROVE  DeliveryInv' /\ TriesOK' /\ BoundaryInv'
<1>1. UNCHANGED <<versions, notes, polls, buf, served, edge, reported, outcome, marks, current, trying, request, late,
                  tries, ran>>
  BY DEF deliveryVars
<1>2. DeliveryInv'
  BY <1>1 DEF DeliveryInv, TypesOK, DesiredOK, ReportsOK, RequestOK, LateOK, BadResult, Bad, Closed, RefusedBefore, Spent
<1>3. TriesOK'
  BY <1>1 DEF TriesOK, Used, Spent
<1>4. BoundaryInv'
  BY <1>1 DEF BoundaryInv, PollsOK, RanOK, ToldOK, ConfigsOK, Told, Ran, Spent
<1>5. QED
  BY <1>2, <1>3, <1>4

LEMMA DeliveryKeeps ==
  OperatorSpec => []DeliverySafe
<1>1. OperatorInit => DeliverySafe
  BY DeliveryInit DEF OperatorInit, DeliverySafe
<1>2. DeliverySafe /\ [OperatorNext]_<<part, vars, deliveryVars, hopVars, writeVars>> => DeliverySafe'
  <2> SUFFICES ASSUME DeliverySafe, [OperatorNext]_<<part, vars, deliveryVars, hopVars, writeVars>>, part' = "delivery"
               PROVE  DeliveryInv' /\ TriesOK' /\ BoundaryInv'
    BY DEF DeliverySafe
  <2>1. DeliveryInv /\ TriesOK /\ BoundaryInv /\ (Delivered!Next \/ UNCHANGED deliveryVars)
    BY DeliverySteps DEF DeliverySafe
  <2>2. CASE Delivered!Next
    BY <2>1, <2>2, DeliveryStep, TriesStep, BoundaryStep
  <2>3. CASE UNCHANGED deliveryVars
    BY <2>1, <2>3, DeliveryStutter
  <2>4. QED
    BY <2>1, <2>2, <2>3
<1>3. QED
  BY <1>1, <1>2, PTL DEF OperatorSpec

(* Whatever answers are lost, repeated or late, and whatever a boot cuts     *)
(* off: a configuration is tried at most once for each time it was saved    *)
(* (config-delivery.md 5.2).                                                *)
THEOREM OneTryForEachSave ==
  OperatorSpec => []OneTryPerSave
<1>1. DeliverySafe => OneTryPerSave
  BY TriesMeanSaves DEF DeliverySafe, OneTryPerSave
<1>2. QED
  BY <1>1, DeliveryKeeps, PTL

(* In whatever order polls and reports arrive: in the first buffer, what the *)
(* server dates an apply by is the first collecting poll under it, and every *)
(* poll that names a configuration was made after its boundary.             *)
THEOREM BoundariesTellTheTruth ==
  OperatorSpec => []BoundariesAreTrue
<1>1. DeliverySafe => BoundariesAreTrue
  BY BoundaryInvMeans DEF DeliverySafe, BoundariesAreTrue
<1>2. QED
  BY <1>1, DeliveryKeeps, PTL

-----------------------------------------------------------------------------
(* The hop guard.                                                           *)

GuardOK ==
  process \in [at : {"tick", "ask", "push"}, conf : Lists \cup {OwnList}, stamp : Nat, failures : Nat]

\* A check that began after the last disturbance is about the file as it is,
\* and when it is over the source that runs has the list of the file.
CheckInv ==
  begun =>
    /\ process.at \in {"ask", "push"} => process.conf = conf /\ conf \in Lists
    /\ process.at = "tick" /\ source = "running" /\ conf \in Lists => Hop!Entries(list) = Hop!Entries(conf)

ConfOK == conf \in Lists \cup {OwnList, Missing}

HopInv == GuardOK /\ ConfOK /\ CheckInv /\ rewrites \in Nat /\ BackoffAfter \in Nat

LEMMA GuardInit == Hop!Init => HopInv
BY HopAssumption DEF Hop!Init, HopInv, GuardOK, ConfOK, CheckInv, Hop!Start

\* What the file says, for the guard: its own list when there is no list to read.
Read == IF conf = Missing THEN OwnList ELSE conf

LEMMA ReadsFile ==
  ASSUME HopInv, Hop!ReadConf
  PROVE  /\ process' \in [at : {"tick", "ask"}, conf : {Read}, stamp : Nat, failures : Nat]
         /\ process'.at = IF Read = OwnList THEN "tick" ELSE "ask"
         /\ Read \in Lists \cup {OwnList}
         /\ UNCHANGED <<conf, list, source, rewrites>>
<1>1. Read \in Lists \cup {OwnList} /\ rewrites + 1 \in Nat
  BY DEF Read, HopInv, ConfOK
<1>2. PICK at : at = IF Read = OwnList THEN "tick" ELSE "ask"
  OBVIOUS
<1>3. PICK g : g = [process EXCEPT !.conf = Read, !.stamp = rewrites + 1]
  OBVIOUS
<1>4. g \in [at : {"tick", "ask", "push"}, conf : {Read}, stamp : Nat, failures : Nat]
  BY <1>1, <1>3 DEF HopInv, GuardOK
<1>5. Hop!Configured = g
  BY <1>3 DEF Hop!Configured, Read
<1>6. process' = [g EXCEPT !.at = IF g.conf = OwnList THEN "tick" ELSE "ask"]
  BY <1>5 DEF Hop!ReadConf
<1>7. process' = [g EXCEPT !.at = at]
  BY <1>2, <1>4, <1>6
<1>8. QED
  BY <1>1, <1>2, <1>4, <1>7 DEF Hop!ReadConf, Hop!counts

LEMMA PushedType ==
  ASSUME HopInv
  PROVE  Hop!Pushed \in [at : {"tick"}, conf : {process.conf}, stamp : Nat, failures : Nat]
<1>1. PICK f : f = IF process.failures < BackoffAfter THEN process.failures + 1 ELSE process.failures
  OBVIOUS
<1>2. f \in Nat
  BY <1>1 DEF HopInv, GuardOK
<1>3. Hop!Pushed = [process EXCEPT !.at = "tick", !.failures = f]
  BY <1>1 DEF Hop!Pushed
<1>4. QED
  BY <1>2, <1>3 DEF HopInv, GuardOK

LEMMA GuardTypes ==
  ASSUME HopInv, [Hop!Next]_(Hop!vars)
  PROVE  GuardOK' /\ ConfOK' /\ (rewrites \in Nat)'
<1> USE DEF HopInv, GuardOK, ConfOK
<1>1. CASE Hop!Crash \/ Hop!Reopen \/ Hop!KismetStarts
  BY <1>1 DEF Hop!Crash, Hop!Reopen, Hop!KismetStarts, Hop!counts
<1>2. CASE Hop!Rewrite
  BY <1>2 DEF Hop!Rewrite
<1>3. CASE Hop!ReadConf
  BY <1>3, ReadsFile
<1>4. CASE Hop!Ask
  BY <1>4 DEF Hop!Ask, Hop!counts
<1>5. CASE Hop!Push
  BY <1>5, PushedType DEF Hop!Push, Hop!counts
<1>6. CASE Hop!PushFails
  BY <1>6, PushedType DEF Hop!PushFails
<1>7. CASE Hop!Stopped
  BY <1>7 DEF Hop!Stopped, Hop!Start
<1>8. CASE UNCHANGED Hop!vars
  BY <1>8 DEF Hop!vars, Hop!counts
<1>9. QED
  BY <1>1, <1>2, <1>3, <1>4, <1>5, <1>6, <1>7, <1>8 DEF Hop!Next, Hop!Guard

LEMMA CheckStep ==
  ASSUME HopInv, [Hop!Next]_(Hop!vars)
  PROVE  CheckInv'
<1> USE DEF HopInv, GuardOK, ConfOK
<1>1. CASE Hop!Crash \/ Hop!Reopen \/ Hop!KismetStarts \/ Hop!Rewrite \/ Hop!PushFails \/ Hop!Stopped
  BY <1>1 DEF Hop!Crash, Hop!Reopen, Hop!KismetStarts, Hop!Rewrite, Hop!PushFails, Hop!Stopped, CheckInv
<1>2. CASE Hop!ReadConf
  <2>1. process'.conf = Read /\ process'.at = (IF Read = OwnList THEN "tick" ELSE "ask") /\ conf' = conf
    BY <1>2, ReadsFile
  <2>2. Read = OwnList => conf \notin Lists
    BY HopAssumption DEF Read
  <2>3. Read # OwnList => conf \in Lists /\ Read = conf
    BY HopAssumption DEF Read
  <2>4. QED
    BY <2>1, <2>2, <2>3 DEF CheckInv
<1>3. CASE Hop!Ask
  <2>1. /\ UNCHANGED <<conf, list, source, begun>> /\ process.at = "ask"
        /\ process'.conf = process.conf
        /\ process'.at = IF source = "running" /\ ~Hop!SameHopList(list, process.conf)
                       THEN "push" ELSE "tick"
    BY <1>3 DEF Hop!Ask, Hop!counts
  <2>2. QED
    BY <2>1 DEF CheckInv, Hop!SameHopList
<1>4. CASE Hop!Push
  <2>1. /\ UNCHANGED <<conf, source, begun>> /\ process.at = "push"
        /\ list' = process.conf /\ process'.at = "tick"
    BY <1>4, PushedType DEF Hop!Push, Hop!counts
  <2>2. begun => list' = conf
    BY <2>1 DEF CheckInv
  <2>3. begun => Hop!Entries(list') = Hop!Entries(conf)
    BY <2>2
  <2>4. QED
    BY <2>1, <2>3 DEF CheckInv, Hop!Entries
<1>5. CASE UNCHANGED Hop!vars
  <2>1. UNCHANGED <<conf, list, source, process, begun>>
    BY <1>5 DEF Hop!vars
  <2>2. Hop!Entries(list)' = Hop!Entries(list)
    BY <2>1
  <2>3. QED
    BY <2>1, <2>2 DEF CheckInv
<1>6. QED
  BY <1>1, <1>2, <1>3, <1>4, <1>5 DEF Hop!Next, Hop!Guard

(* A step of the whole is a step of the part at work, or none.               *)
LEMMA HopSteps ==
  ASSUME [OperatorNext]_<<part, vars, deliveryVars, hopVars, writeVars>>
  PROVE  part' = part /\ (part = "hop guard" => [Hop!Next]_(Hop!vars))
BY DEF OperatorNext, Rest, hopVars, Hop!vars, Hop!counts

(* Whatever crashed, was rewritten, restarted or failed before: after one    *)
(* whole check the running source hops over the configured list.            *)
THEOREM OneCheckRestores ==
  OperatorSpec => []RestoredByOneCheck
<1> DEFINE IInv == part = "hop guard" => HopInv
<1>1. OperatorInit => IInv
  BY GuardInit DEF OperatorInit
<1>2. IInv /\ [OperatorNext]_<<part, vars, deliveryVars, hopVars, writeVars>> => IInv'
  <2> SUFFICES ASSUME IInv, [OperatorNext]_<<part, vars, deliveryVars, hopVars, writeVars>>, part' = "hop guard"
               PROVE  HopInv'
    OBVIOUS
  <2>1. HopInv /\ [Hop!Next]_(Hop!vars)
    BY HopSteps
  <2>2. GuardOK' /\ ConfOK' /\ (rewrites \in Nat)'
    BY <2>1, GuardTypes
  <2>3. CheckInv'
    BY <2>1, CheckStep
  <2>4. QED
    BY <2>1, <2>2, <2>3 DEF HopInv
<1>3. IInv => RestoredByOneCheck
  BY DEF HopInv, CheckInv, RestoredByOneCheck, Hop!RestoredByOneCheck
<1>4. QED
  BY <1>1, <1>2, <1>3, PTL DEF OperatorSpec

-----------------------------------------------------------------------------
(* OperatorWrites: the audit log.                                           *)

WriteTypes ==
  /\ db = [c \in Written!Cells |-> db[c]]
  /\ journal = [c \in Written!Cells |-> journal[c]]

WriteInv == WriteTypes /\ Written!JournalExplains

\* The cells whose history is whole, whoever overlapped.
Whole == {c \in Written!Cells : c[1] \in {"status", "config", "change"}}

(* A commit keeps the journal true, when what it writes and what it tells    *)
(* agree: on every cell if it read the present state, on the cells with a    *)
(* whole history in any case.                                               *)
LEMMA CommitExplains ==
  ASSUME WriteInv, NEW s, NEW written, NEW told, Written!Commit(s, written, told),
         ASSUME write[s].seen = db, journal = db
         PROVE  \A c \in Written!Cells : (IF c \in DOMAIN written THEN written[c] ELSE db[c])
                                           = (IF c \in DOMAIN told THEN told[c] ELSE journal[c]),
         \A c \in Whole : journal[c] = db[c] =>
           (IF c \in DOMAIN written THEN written[c] ELSE db[c]) = (IF c \in DOMAIN told THEN told[c] ELSE journal[c])
  PROVE  WriteInv'
<1>1. /\ db' = [c \in Written!Cells |-> IF c \in DOMAIN written THEN written[c] ELSE db[c]]
      /\ journal' = [c \in Written!Cells |-> IF c \in DOMAIN told THEN told[c] ELSE journal[c]]
      /\ overlapped' = (overlapped \/ write[s].seen # db)
  BY DEF Written!Commit
<1>2. WriteTypes'
  BY <1>1 DEF WriteTypes
<1>3. ASSUME ~overlapped' PROVE journal' = db'
  <2>1. write[s].seen = db /\ journal = db
    BY <1>1, <1>3 DEF WriteInv, Written!JournalExplains
  <2>2. QED
    BY <2>1, <1>1
<1>4. ASSUME NEW c \in Written!Cells, c[1] \in {"status", "config", "change"} PROVE journal'[c] = db'[c]
  <2>1. journal[c] = db[c]
    BY <1>4 DEF WriteInv, Written!JournalExplains
  <2>2. QED
    BY <2>1, <1>1, <1>4 DEF Whole
<1>5. QED
  BY <1>2, <1>3, <1>4 DEF WriteInv, Written!JournalExplains

(* A write that tells what it writes.                                       *)
LEMMA PlainCommit ==
  ASSUME WriteInv, NEW s, NEW written, Written!Commit(s, written, written)
  PROVE  WriteInv'
BY CommitExplains

LEMMA RefusalExplains ==
  ASSUME WriteInv, UNCHANGED <<db, journal, overlapped>>
  PROVE  WriteInv'
BY DEF WriteInv, WriteTypes, Written!JournalExplains

-----------------------------------------------------------------------------
(* The requests.                                                            *)

LEMMA LabelExplains ==
  ASSUME WriteInv, NEW s, Written!Label(s)
  PROVE  WriteInv'
<1> DEFINE r == write[s].body
           seen == write[s].seen
<1>1. CASE ~(r.ids \subseteq Events)
  BY <1>1, RefusalExplains DEF Written!Label, Written!Refuse
<1>2. CASE r.ids \subseteq Events
  <2>1. Written!Commit(s, Written!LabelWritten(r), Written!LabelTold(r, seen))
    BY <1>2 DEF Written!Label
  <2>2. \A c \in Whole : /\ c \in DOMAIN Written!LabelWritten(r) <=> c \in DOMAIN Written!LabelTold(r, seen)
                         /\ c \in DOMAIN Written!LabelWritten(r)
                              => Written!LabelWritten(r)[c] = Written!LabelTold(r, seen)[c]
    BY DEF Whole, Written!LabelWritten, Written!LabelTold, Written!LabelCells, Written!Status, Written!Note
  <2>3. ASSUME seen = db, journal = db, NEW c \in Written!Cells
        PROVE  (IF c \in DOMAIN Written!LabelWritten(r) THEN Written!LabelWritten(r)[c] ELSE db[c])
                 = (IF c \in DOMAIN Written!LabelTold(r, seen) THEN Written!LabelTold(r, seen)[c] ELSE journal[c])
    BY <2>3 DEF Written!LabelWritten, Written!LabelTold, Written!LabelCells, Written!Status, Written!Note
  <2>4. QED
    BY <2>1, <2>2, <2>3, CommitExplains
<1>3. QED
  BY <1>1, <1>2

LEMMA SaveExplains ==
  ASSUME WriteInv, NEW s, Written!Save(s)
  PROVE  WriteInv'
<1> DEFINE r == write[s].body
           seen == write[s].seen
           written == Written!SavedRows(r, seen)
           told == Written!Values(r, Written!Changed(r, seen))
<1>1. Written!Commit(s, written, told)
  BY DEF Written!Save
<1>2. \A c \in Whole : c \notin DOMAIN written /\ c \notin DOMAIN told
  BY DEF Whole, Written!SavedRows, Written!Values, Written!Setting
<1>3. ASSUME seen = db, journal = db, NEW c \in Written!Cells
      PROVE  (IF c \in DOMAIN written THEN written[c] ELSE db[c])
               = (IF c \in DOMAIN told THEN told[c] ELSE journal[c])
  <2>1. CASE Written!Changed(r, seen) = {}
    BY <1>3, <2>1 DEF Written!SavedRows, Written!Values, Written!Setting
  <2>2. CASE Written!Changed(r, seen) # {}
    <3>1. /\ DOMAIN written = {Written!Setting(k) : k \in DOMAIN r.new}
          /\ \A k \in DOMAIN r.new : written[Written!Setting(k)] = r.new[k]
      BY <2>2 DEF Written!SavedRows, Written!Values, Written!Setting
    <3>2. /\ DOMAIN told = {Written!Setting(k) : k \in Written!Changed(r, seen)}
          /\ \A k \in Written!Changed(r, seen) : told[Written!Setting(k)] = r.new[k]
      BY DEF Written!Values, Written!Setting
    <3>3. \A j, k : Written!Setting(j) = Written!Setting(k) => j = k
      BY DEF Written!Setting
    <3>4. \A k \in DOMAIN r.new : k \in Written!Changed(r, seen) <=> seen[Written!Setting(k)] # r.new[k]
      BY DEF Written!Changed
    <3>5. Written!Changed(r, seen) \subseteq DOMAIN r.new
      BY DEF Written!Changed
    <3> HIDE DEF written, told
    <3>6. QED
      BY <3>1, <3>2, <3>3, <3>4, <3>5, <1>3
  <2>3. QED
    BY <2>1, <2>2
<1> HIDE DEF written, told
<1>4. QED
  BY <1>1, <1>2, <1>3, CommitExplains

LEMMA ToldCells ==
  ASSUME NEW r, NEW d, NEW seen, NEW c
  PROVE  c \in DOMAIN Written!PutTold(r, d, seen)
           <=> \/ \E n \in Written!Deletes(r, seen) : c = Written!Network(n)
               \/ Written!UpdatesOf(r, Written!Updates(r, seen), c) # {}
               \/ Written!Inserts(r) # {} /\ c = Written!Network(Written!FreeId(d, seen))
<1> DEFINE A == {Written!Network(n) : n \in Written!Deletes(r, seen)}
           B == {Written!Network(r.list[i].id) : i \in Written!Updates(r, seen)}
           F == IF Written!Inserts(r) = {} THEN {} ELSE {Written!Network(Written!FreeId(d, seen))}
<1>1. DOMAIN Written!PutTold(r, d, seen) = A \cup B \cup F
  BY DEF Written!PutTold
<1>2. c \in A <=> \E n \in Written!Deletes(r, seen) : c = Written!Network(n)
  OBVIOUS
<1>3. c \in F <=> Written!Inserts(r) # {} /\ c = Written!Network(Written!FreeId(d, seen))
  OBVIOUS
<1>4. c \in B <=> Written!UpdatesOf(r, Written!Updates(r, seen), c) # {}
  BY DEF Written!UpdatesOf
<1> HIDE DEF A, B, F
<1>5. QED
  BY <1>1, <1>2, <1>3, <1>4

(* What a PUT leaves in a row and what it tells of it, when the rows it read *)
(* are the rows there are.                                                  *)
LEMMA PutCell ==
  ASSUME NEW r, NEW d, d = [c \in Written!Cells |-> d[c]], Written!Listed(r) \subseteq Written!NetworksOf(d),
         Written!Inserts(r) # {} => Written!HasFreeId(d, d), NEW c \in Written!Cells
  PROVE  Written!AfterPut(r, d, d)[c]
           = IF c \in DOMAIN Written!PutTold(r, d, d) THEN Written!PutTold(r, d, d)[c] ELSE d[c]
<1> DEFINE D == Written!Deletes(r, d)
           U == Written!Updates(r, d)
           Of == Written!UpdatesOf(r, U, c)
           free == Written!FreeId(d, d)
           left == Written!AfterDeletes(r, d, d)
           updated == Written!AfterUpdates(r, d, d, U)
<1>1. \A i \in U : r.list[i].id \in Written!NetworksOf(d) /\ r.list[i].id \notin D
  BY DEF Written!Updates, Written!Listed, Written!Deletes
<1>2. D \subseteq Written!NetworksOf(d)
  BY DEF Written!Deletes
<1>3. Written!Inserts(r) # {} => free \in Nets /\ free \notin Written!NetworksOf(d)
  BY DEF Written!HasFreeId, Written!FreeId
<1>4. \A m, n : Written!Network(m) = Written!Network(n) => m = n
  BY DEF Written!Network
<1>6. left[c] = IF \E n \in D : c = Written!Network(n) THEN None ELSE d[c]
  BY DEF Written!AfterDeletes
<1>7. updated[c] = IF Of = {} \/ left[c] = None THEN left[c] ELSE Written!RowAt(r, Written!Max(Of))
  BY DEF Written!AfterUpdates
<1>8. Written!AfterPut(r, d, d)[c] = IF Written!Inserts(r) # {} /\ c = Written!Network(free) THEN Written!Inserted(r)
                                     ELSE updated[c]
  <2>1. updated = [e \in Written!Cells |-> updated[e]]
    BY DEF Written!AfterUpdates
  <2>2. QED
    BY <2>1 DEF Written!AfterPut
<1>9. c \in DOMAIN Written!PutTold(r, d, d)
        <=> \/ \E n \in D : c = Written!Network(n)
            \/ Of # {}
            \/ Written!Inserts(r) # {} /\ c = Written!Network(free)
  BY ToldCells
<1>10. c \in DOMAIN Written!PutTold(r, d, d)
       => Written!PutTold(r, d, d)[c] = IF \E n \in D : c = Written!Network(n) THEN None
                                       ELSE IF Of # {} THEN Written!RowAt(r, Written!Max(Of)) ELSE Written!Inserted(r)
  BY DEF Written!PutTold
<1>11. Of # {} => \E n \in Written!NetworksOf(d) \ D : c = Written!Network(n)
  BY <1>1 DEF Written!UpdatesOf
<1>12. \A n \in Written!NetworksOf(d) : c = Written!Network(n) => d[c] # None
  BY DEF Written!NetworksOf
<1> HIDE DEF D, U, Of, free, left, updated
<1>13. CASE \E n \in D : c = Written!Network(n)
  <2>1. PICK n \in D : c = Written!Network(n)
    BY <1>13
  <2>2. left[c] = None /\ updated[c] = None
    BY <2>1, <1>6, <1>7
  <2>3. ~(Written!Inserts(r) # {} /\ c = Written!Network(free))
    <3>1. ASSUME c = Written!Network(free) PROVE n = free
      BY <2>1, <3>1, <1>4
    <3>2. QED
      BY <3>1, <2>1, <1>2, <1>3
  <2>4. QED
    <3>1. Written!AfterPut(r, d, d)[c] = None
      BY <2>2, <2>3, <1>8
    <3>2. c \in DOMAIN Written!PutTold(r, d, d) /\ Written!PutTold(r, d, d)[c] = None
      BY <2>1, <1>9, <1>10
    <3>3. QED
      BY <3>1, <3>2
<1>14. CASE Of # {}
  <2>1. PICK n \in Written!NetworksOf(d) \ D : c = Written!Network(n)
    BY <1>14, <1>11
  <2>2. ~(\E m \in D : c = Written!Network(m))
    BY <2>1, <1>4
  <2>3. left[c] # None
    BY <2>1, <2>2, <1>6, <1>12
  <2>4. ~(Written!Inserts(r) # {} /\ c = Written!Network(free))
    <3>1. ASSUME c = Written!Network(free) PROVE n = free
      BY <2>1, <3>1, <1>4
    <3>2. QED
      BY <3>1, <2>1, <1>3
  <2>5. QED
    <3>1. Written!AfterPut(r, d, d)[c] = Written!RowAt(r, Written!Max(Of))
      BY <1>14, <2>3, <2>4, <1>7, <1>8
    <3>2. c \in DOMAIN Written!PutTold(r, d, d) /\ Written!PutTold(r, d, d)[c] = Written!RowAt(r, Written!Max(Of))
      BY <1>14, <2>2, <1>9, <1>10
    <3>3. QED
      BY <3>1, <3>2
<1>15. CASE Of = {} /\ ~(\E n \in D : c = Written!Network(n))
  BY <1>15, <1>6, <1>7, <1>8, <1>9, <1>10
<1>16. QED
  BY <1>13, <1>14, <1>15

LEMMA PutExplains ==
  ASSUME WriteInv, NEW s, Written!PutNetworks(s)
  PROVE  WriteInv'
<1> DEFINE r == write[s].body
           seen == write[s].seen
           after == Written!AfterPut(r, db, seen)
           told == Written!PutTold(r, db, seen)
<1>1. CASE Written!Refuse(s, "404") \/ Written!Refuse(s, "409")
  BY <1>1, RefusalExplains DEF Written!Refuse
<1>2. CASE /\ Written!Listed(r) \subseteq Written!NetworksOf(seen)
           /\ Written!Inserts(r) # {} => Written!HasFreeId(db, seen)
           /\ Written!Commit(s, after, told)
  <2>1. ASSUME seen = db, journal = db, NEW c \in Written!Cells
        PROVE  (IF c \in DOMAIN after THEN after[c] ELSE db[c]) = (IF c \in DOMAIN told THEN told[c] ELSE journal[c])
    <3>1. db = [e \in Written!Cells |-> db[e]]
      BY DEF WriteInv, WriteTypes
    <3>2. after[c] = IF c \in DOMAIN told THEN told[c] ELSE db[c]
      BY <2>1, <3>1, <1>2, PutCell
    <3>3. c \in DOMAIN after
      BY DEF Written!AfterPut, Written!AfterUpdates
    <3>4. QED
      BY <3>2, <3>3, <2>1
  <2>2. ASSUME NEW c \in Whole PROVE c \in DOMAIN after /\ after[c] = db[c] /\ c \notin DOMAIN told
    <3>1. \A n : c # Written!Network(n)
      BY DEF Whole, Written!Network
    <3>2. c \notin DOMAIN told
      BY <3>1, ToldCells DEF Written!UpdatesOf
    <3>3. c \in Written!Cells
      BY DEF Whole
    <3>4. QED
      BY <3>1, <3>2, <3>3 DEF Written!AfterPut, Written!AfterUpdates, Written!AfterDeletes, Written!UpdatesOf
  <2> HIDE DEF after, told
  <2>3. QED
    BY <2>1, <2>2, <1>2, CommitExplains
<1>3. QED
  BY <1>1, <1>2 DEF Written!PutNetworks

LEMMA OtherWritesExplain ==
  ASSUME WriteInv, NEW s, Written!PostNetwork(s) \/ Written!PostSensorConfig(s)
                       \/ Written!PostHardwareChange(s) \/ Written!DeleteSensor(s)
  PROVE  WriteInv'
<1>1. CASE Written!PostNetwork(s)
  BY <1>1, PlainCommit, RefusalExplains DEF Written!PostNetwork, Written!Refuse
<1>2. CASE Written!PostSensorConfig(s)
  BY <1>2, PlainCommit, RefusalExplains DEF Written!PostSensorConfig, Written!Refuse
<1>3. CASE Written!PostHardwareChange(s)
  BY <1>3, PlainCommit, RefusalExplains DEF Written!PostHardwareChange, Written!Refuse
<1>4. CASE Written!DeleteSensor(s)
  <2>1. Written!Commit(s, Written!Gone, Written!Gone) \/ UNCHANGED <<db, journal, overlapped>>
    BY <1>4 DEF Written!DeleteSensor, Written!Refuse
  <2>2. QED
    BY <2>1, PlainCommit, RefusalExplains
<1>5. QED
  BY <1>1, <1>2, <1>3, <1>4

LEMMA AllowExplains ==
  ASSUME WriteInv, NEW s, Written!PostAllowed(s)
  PROVE  WriteInv'
<1> DEFINE r == write[s].body
           cell == Written!Network(r.id)
           written == [y \in {cell} |-> Written!Allowing(db[cell], r.bssid)]
           told == [y \in {cell} |-> Written!AllowingTold(journal[cell], r.bssid)]
<1>1. CASE Written!Refuse(s, "404")
  BY <1>1, RefusalExplains DEF Written!Refuse
<1>2. CASE write[s].seen[cell] # None /\ Written!Commit(s, written, told)
  <2>1. ASSUME write[s].seen = db, journal = db PROVE written = told
    BY <2>1, <1>2 DEF Written!AllowingTold
  <2>2. \A c \in Whole : c \notin DOMAIN written /\ c \notin DOMAIN told
    BY DEF Whole, Written!Network
  <2>3. DOMAIN written = DOMAIN told
    OBVIOUS
  <2> HIDE DEF written, told
  <2>4. QED
    BY <2>1, <2>2, <2>3, <1>2, CommitExplains
<1>3. QED
  BY <1>1, <1>2 DEF Written!PostAllowed

LEMMA UnauditedExplains ==
  ASSUME WriteInv, NEW x, NEW v, Written!Unaudited(x, v), x[1] \notin {"status", "config", "change"}
  PROVE  WriteInv'
<1>1. /\ db' = [db EXCEPT ![x] = v] /\ journal' = [journal EXCEPT ![x] = v]
      /\ overlapped' = overlapped
  BY DEF Written!Unaudited
<1>2. /\ db' = [c \in Written!Cells |-> IF c = x THEN v ELSE db[c]]
      /\ journal' = [c \in Written!Cells |-> IF c = x THEN v ELSE journal[c]]
  BY <1>1 DEF WriteInv, WriteTypes
<1>3. WriteTypes'
  BY <1>2 DEF WriteTypes
<1>4. \A c \in Whole : c \in Written!Cells /\ c # x
  BY DEF Whole
<1>5. \A c \in Whole : db'[c] = db[c] /\ journal'[c] = journal[c]
  BY <1>2, <1>4
<1>6. ~overlapped' => journal' = db'
  BY <1>1 DEF WriteInv, Written!JournalExplains
<1>7. QED
  BY <1>3, <1>5, <1>6 DEF WriteInv, Written!JournalExplains, Whole

LEMMA WriteStep ==
  ASSUME WriteInv, [Written!Next]_(Written!vars)
  PROVE  WriteInv'
<1>1. CASE UNCHANGED Written!vars
  BY <1>1, RefusalExplains DEF Written!vars
<1>2. ASSUME NEW s \in Slots, NEW r \in Requests, Written!Begin(s, r) PROVE WriteInv'
  BY <1>2, RefusalExplains DEF Written!Begin
<1>3. CASE Written!CreateToken \/ Written!Upload
  <2>1. Written!Unaudited(Written!Token, "token") \/ Written!Unaudited(Written!Sensor, "data")
    BY <1>3 DEF Written!CreateToken, Written!Upload
  <2>2. Written!Token[1] = "token" /\ Written!Sensor[1] = "sensor"
    BY DEF Written!Token, Written!Sensor
  <2>3. QED
    BY <2>1, <2>2, UnauditedExplains
<1>4. QED
  BY <1>1, <1>2, <1>3, LabelExplains, SaveExplains, PutExplains, AllowExplains, OtherWritesExplain DEF Written!Next

LEMMA WriteSteps ==
  ASSUME [OperatorNext]_<<part, vars, deliveryVars, hopVars, writeVars>>
  PROVE  part' = part /\ (part = "writes" => [Written!Next]_(Written!vars))
BY DEF OperatorNext, Rest, writeVars, Written!vars

(* As long as no two writes overlapped the audit log gives the state of every *)
(* cell; of the labels, the configurations and the hardware changes it tells   *)
(* the truth in any case, and so it does when they go with their sensor.     *)
THEOREM AuditExplains ==
  OperatorSpec => []JournalExplains
<1> DEFINE IInv == part = "writes" => WriteInv
<1>1. OperatorInit => IInv
  <2> SUFFICES ASSUME Written!Init PROVE WriteInv
    BY DEF OperatorInit
  <2>1. journal = db /\ WriteTypes
    BY DEF Written!Init, WriteTypes
  <2>2. QED
    BY <2>1 DEF WriteInv, Written!JournalExplains
<1>2. IInv /\ [OperatorNext]_<<part, vars, deliveryVars, hopVars, writeVars>> => IInv'
  BY WriteSteps, WriteStep
<1>3. IInv => JournalExplains
  BY DEF WriteInv, JournalExplains
<1>4. QED
  BY <1>1, <1>2, <1>3, PTL DEF OperatorSpec

=============================================================================
