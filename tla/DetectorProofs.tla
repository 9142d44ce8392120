--------------------------- MODULE DetectorProofs ---------------------------
(***************************************************************************)
(* Proofs about the detectors on the server.  deauth_flood, for any run of   *)
(* it over any window while alerts and polls arrive late: the rows it stores *)
(* stand one to one for episodes, each whole and graded.  evil_twin, for any *)
(* rows of its cursor: the one pass finds the deviating windows and no       *)
(* others, and a level that stays shifted is reported.                       *)
(*                                                                         *)
(* deauth_flood.  Episodes are more than the gap apart, so a window near one *)
(* that is inside another is in the same (OnePlace), and matching a finding  *)
(* with rows by overlap is matching episodes.  FloodInv: the rows stand for  *)
(* episodes of what is there and of what the run under way has read, and the *)
(* latter's have only gained since.                                          *)
(* evil_twin.  TwinInv: the rows read are in the cursor's order, the window  *)
(* in memory is the end of the readings compared so far of the device under  *)
(* way, and the deviations are those of every device's compared readings.    *)
(***************************************************************************)
EXTENDS ServerProofs

-----------------------------------------------------------------------------
(* Detections: the episodes of an access point are silent about each other. *)

\* The instance of the rules inside Flood says what the rules say.
LEMMA SameRules ==
  /\ \A S : Flood!Min(S) = Rules!Min(S) /\ Flood!Max(S) = Rules!Max(S)
  /\ \A S : Flood!Cardinality(S) = Cardinality(S)
  /\ \A E : Flood!Times(E) = Rules!Times(E)
  /\ \A E : Flood!FirstTs(E) = Rules!FirstTs(E) /\ Flood!LastTs(E) = Rules!LastTs(E)
  /\ \A E : Flood!SortedTs(E) = Rules!SortedTs(E)
  /\ \A E, gap : Flood!BuildEpisodes(E, gap) = Rules!BuildEpisodes(E, gap)
  /\ \A s, w : Flood!MaxInWindow(s, w) = Rules!MaxInWindow(s, w)
  /\ \A T : Flood!Ascending(T) = Rules!Ascending(T)
<1>1. \A S : Flood!Min(S) = Rules!Min(S) /\ Flood!Max(S) = Rules!Max(S)
  BY Zenon DEF Flood!Min, Rules!Min, Flood!Max, Rules!Max
<1>2. \A S : Flood!Cardinality(S) = Cardinality(S)
  BY Zenon DEF Flood!Cardinality, Cardinality
<1>3. \A E : Flood!Times(E) = Rules!Times(E)
  BY Zenon DEF Flood!Times, Rules!Times
<1>4. \A E : Flood!FirstTs(E) = Rules!FirstTs(E) /\ Flood!LastTs(E) = Rules!LastTs(E)
  BY Zenon DEF Flood!FirstTs, Flood!LastTs, Rules!FirstTs, Rules!LastTs, Flood!Min, Rules!Min, Flood!Max, Rules!Max,
     Flood!Times, Rules!Times
<1>5. \A E : Flood!SortedTs(E) = Rules!SortedTs(E)
  BY Zenon DEF Flood!SortedTs, Rules!SortedTs, Flood!Min, Rules!Min, Flood!Times, Rules!Times, Flood!Cardinality,
     Rules!Cardinality
<1>6. \A E, gap : Flood!BuildEpisodes(E, gap) = Rules!BuildEpisodes(E, gap)
  BY Zenon DEF Flood!BuildEpisodes, Rules!BuildEpisodes, Flood!FoldLeft, Rules!FoldLeft, Flood!MapThenFoldSet,
     Rules!MapThenFoldSet, Flood!AddToEpisodes, Rules!AddToEpisodes, Flood!Max, Rules!Max, Flood!Ascending,
     Rules!Ascending, Flood!Times, Rules!Times, Flood!Cardinality, Rules!Cardinality
<1>7. \A s, w : Flood!MaxInWindow(s, w) = Rules!MaxInWindow(s, w)
  BY Zenon DEF Flood!MaxInWindow, Rules!MaxInWindow, Flood!FoldLeftDomain, Rules!FoldLeftDomain, Flood!FoldLeft,
     Rules!FoldLeft, Flood!MapThenFoldSet, Rules!MapThenFoldSet, Flood!SlideTo, Rules!SlideTo, Flood!Max, Rules!Max,
     Flood!Min, Rules!Min
<1>8. \A T : Flood!Ascending(T) = Rules!Ascending(T)
  BY Zenon DEF Flood!Ascending, Rules!Ascending, Flood!Cardinality, Rules!Cardinality
<1>9. QED
  BY <1>1, <1>2, <1>3, <1>4, <1>5, <1>6, <1>7, <1>8

\* Two sets of events with more than the gap between them; sets of events that
\* are so, each with a first and a last one.
Apart(d, e) ==
  \/ Flood!LastTs(d) + FloodGap < Flood!FirstTs(e)
  \/ Flood!LastTs(e) + FloodGap < Flood!FirstTs(d)

Spans(d) ==
  /\ IsFiniteSet(d) /\ d # {}
  /\ Flood!FirstTs(d) \in Int /\ Flood!LastTs(d) \in Int /\ Flood!FirstTs(d) <= Flood!LastTs(d)
  /\ \A x \in d : x.ts \in Int /\ Flood!FirstTs(d) <= x.ts /\ x.ts <= Flood!LastTs(d)
  /\ \E x \in d : x.ts = Flood!FirstTs(d)
  /\ \E x \in d : x.ts = Flood!LastTs(d)

Silent(S) ==
  /\ IsFiniteSet(S)
  /\ \A d \in S : Spans(d)
  /\ \A d, e \in S : d # e => Apart(d, e)

LEMMA SpansIs ==
  ASSUME NEW d, IsFiniteSet(d), d # {}, \A x \in d : x.ts \in Int
  PROVE  Spans(d)
<1>1. PICK a, b : a = Rules!FirstTs(d) /\ b = Rules!LastTs(d)
  OBVIOUS
<1>2. /\ a \in Int /\ b \in Int
      /\ \A e \in d : a <= e.ts /\ e.ts <= b
      /\ \E e \in d : e.ts = a
      /\ \E e \in d : e.ts = b
  BY <1>1, TimesAre
<1>3. a = Flood!FirstTs(d) /\ b = Flood!LastTs(d)
  BY <1>1, SameRules
<1>4. a <= b
  BY <1>2
<1>5. QED
  BY <1>2, <1>3, <1>4 DEF Spans

\* The events of episodes built over finitely many.
LEMMA BuiltAreSilent ==
  ASSUME NEW E, IsFiniteSet(E), \A e \in E : e.ts \in Int
  PROVE  LET eps == Flood!BuildEpisodes(E, FloodGap) IN Silent({eps[i] : i \in DOMAIN eps})
<1>1. PICK eps : eps = Flood!BuildEpisodes(E, FloodGap)
  OBVIOUS
<1> DEFINE S == {eps[i] : i \in DOMAIN eps}
<1>2. FloodGap \in Nat
  BY FloodAssumption
<1>3. PICK n \in Nat : Merged(eps, n, E, FloodGap)
  BY <1>1, <1>2, EpisodesAre, SameRules
<1>4. /\ DOMAIN eps = 1..n
      /\ \A i \in 1..n : eps[i] # {} /\ eps[i] \subseteq E
      /\ \A i, j \in 1..n : i < j => \A d \in eps[i], e \in eps[j] : e.ts - d.ts > FloodGap
  BY <1>3 DEF Merged
<1>5. IsFiniteSet(S)
  <2> DEFINE g == [i \in 1..n |-> eps[i]]
  <2>1. g \in Surjection(1..n, S)
    BY <1>4 DEF Surjection
  <2>2. IsFiniteSet(1..n)
    BY UpTo
  <2> HIDE DEF g, S
  <2>3. QED
    BY <2>1, <2>2, FS_Surjection
<1>6. \A i \in 1..n : Spans(eps[i])
  <2>1. SUFFICES ASSUME NEW i \in 1..n PROVE Spans(eps[i])
    OBVIOUS
  <2>2. IsFiniteSet(eps[i])
    BY <1>4, FS_Subset
  <2>3. QED
    BY <1>4, <2>2, SpansIs
<1>7. \A i, j \in 1..n : i < j => Flood!LastTs(eps[i]) + FloodGap < Flood!FirstTs(eps[j])
  <2>1. SUFFICES ASSUME NEW i \in 1..n, NEW j \in 1..n, i < j
                 PROVE  Flood!LastTs(eps[i]) + FloodGap < Flood!FirstTs(eps[j])
    OBVIOUS
  <2>2. PICK x \in eps[i] : x.ts = Flood!LastTs(eps[i]) /\ x.ts \in Int
    BY <1>6 DEF Spans
  <2>3. PICK y \in eps[j] : y.ts = Flood!FirstTs(eps[j]) /\ y.ts \in Int
    BY <1>6 DEF Spans
  <2>4. y.ts - x.ts > FloodGap
    BY <1>4, <2>1
  <2>5. QED
    BY <1>2, <2>2, <2>3, <2>4
<1>8. \A i, j \in 1..n : eps[i] # eps[j] => Apart(eps[i], eps[j])
  <2>1. SUFFICES ASSUME NEW i \in 1..n, NEW j \in 1..n, eps[i] # eps[j] PROVE Apart(eps[i], eps[j])
    OBVIOUS
  <2>2. i < j \/ j < i
    <3>1. i # j /\ i \in Int /\ j \in Int
      BY <2>1
    <3>2. QED
      BY <3>1
  <2>3. QED
    BY <1>7, <2>2 DEF Apart
<1>9. Silent(S)
  BY <1>4, <1>5, <1>6, <1>8 DEF Silent
<1>10. QED
  BY <1>1, <1>9

\* The polls that may come, and their number.
AllPolls == {e \in FloodEvents : e.kind = "poll"}

LEMMA EventTypes ==
  /\ IsFiniteSet(FloodEvents) /\ IsFiniteSet(AllPolls) /\ Cardinality(AllPolls) \in Nat
  /\ \A e \in FloodEvents : e.ts \in Nat /\ (e.kind = "poll" => e.last \in Int)
<1>1. IsFiniteSet(FloodEvents) /\ \A e \in FloodEvents : e.ts \in Nat /\ (e.kind = "poll" => e.last \in Int)
  BY FloodAssumption
<1>2. AllPolls \in SUBSET FloodEvents
  BY DEF AllPolls
<1>3. IsFiniteSet(AllPolls)
  BY <1>1, <1>2, FS_Subset
<1>4. QED
  BY <1>1, <1>3, FS_CardinalityType

LEMMA PollsAre ==
  ASSUME NEW E, E \subseteq FloodEvents, NEW ap, NEW from \in Int, NEW to \in Int
  PROVE  /\ Flood!InRange(Flood!Polls(ap, E), from, to) \subseteq AllPolls
         /\ Cardinality(Flood!InRange(Flood!Polls(ap, E), from, to)) \in 0..Cardinality(AllPolls)
<1>1. PICK P : P = Flood!InRange(Flood!Polls(ap, E), from, to)
  OBVIOUS
<1>2. P \subseteq AllPolls
  BY <1>1 DEF Flood!InRange, Flood!Polls, Flood!OfKind, Flood!Of, AllPolls
<1>3. IsFiniteSet(P) /\ Cardinality(P) <= Cardinality(AllPolls)
  BY <1>2, EventTypes, FS_Subset
<1>4. Cardinality(P) \in Nat
  BY <1>3, FS_CardinalityType
<1>5. QED
  BY <1>1, <1>2, <1>3, <1>4, EventTypes

\* No poll tells two bursts.
LEMMA BurstsAre ==
  ASSUME NEW E, E \subseteq FloodEvents, NEW ap, NEW from \in Int, NEW to \in Int
  PROVE  LET B == Flood!BurstsOf(ap, E, from, to)
         IN  /\ IsFiniteSet(B) /\ Cardinality(B) \in 0..Cardinality(AllPolls)
             /\ \A b \in B : b.ts \in Int
<1> DEFINE P == Flood!InRange(Flood!Polls(ap, E), from, to)
           P1 == {q \in P : Flood!BurstByFrame(P, q, from)}
           P2 == {q \in P : Flood!BurstByCounter(P, q, CounterGap)}
           Mark(t) == [ap |-> ap, ts |-> t, kind |-> "burst", fromAp |-> FALSE]
           B == Flood!BurstsOf(ap, E, from, to)
<1>1. P \subseteq AllPolls /\ \A p \in AllPolls : p.last \in Int /\ p.ts \in Int
  <2>1. \A p \in AllPolls : p \in FloodEvents /\ p.kind = "poll"
    BY DEF AllPolls
  <2>2. \A p \in AllPolls : p.last \in Int /\ p.ts \in Int
    BY <2>1, EventTypes
  <2>3. QED
    BY <2>2, PollsAre
<1>2. P1 \cap P2 = {}
  BY DEF Flood!BurstByFrame, Flood!BurstByCounter
<1>3. B = {Mark(b.ts) : b \in {[ts |-> p.last, poll |-> p.ts] : p \in P1} \cup {[ts |-> p.ts, poll |-> p.ts] : p \in P2}}
  BY Zenon DEF Flood!BurstsOf, Flood!Bursts
<1> HIDE DEF P, P1, P2, B, Mark
<1>4. /\ \A b \in B : (\E p \in P1 : b = Mark(p.last)) \/ (\E p \in P2 : b = Mark(p.ts))
      /\ \A p \in P1 : Mark(p.last) \in B
      /\ \A p \in P2 : Mark(p.ts) \in B
  <2>1. PICK C : C = {[ts |-> p.last, poll |-> p.ts] : p \in P1} \cup {[ts |-> p.ts, poll |-> p.ts] : p \in P2}
    OBVIOUS
  <2>2. /\ \A c \in C : (\E p \in P1 : c.ts = p.last) \/ (\E p \in P2 : c.ts = p.ts)
        /\ \A p \in P1 : \E c \in C : c.ts = p.last
        /\ \A p \in P2 : \E c \in C : c.ts = p.ts
    <3>1. SUFFICES /\ \A p \in P1 : \E c \in C : c.ts = p.last
                   /\ \A p \in P2 : \E c \in C : c.ts = p.ts
      BY <2>1
    <3>2. ASSUME NEW p \in P1 PROVE \E c \in C : c.ts = p.last
      <4>1. [ts |-> p.last, poll |-> p.ts] \in C
        BY <2>1
      <4>2. QED
        BY <4>1
    <3>3. ASSUME NEW p \in P2 PROVE \E c \in C : c.ts = p.ts
      <4>1. [ts |-> p.ts, poll |-> p.ts] \in C
        BY <2>1
      <4>2. QED
        BY <4>1
    <3>4. QED
      BY <3>2, <3>3
  <2>3. B = {Mark(b.ts) : b \in C}
    BY Zenon, <1>3, <2>1
  <2>4. QED
    BY <2>2, <2>3
<1> DEFINE Q == P1 \cup P2
           g == [p \in Q |-> IF p \in P1 THEN Mark(p.last) ELSE Mark(p.ts)]
<1>5. Q \subseteq AllPolls
  BY <1>1 DEF P1, P2
<1>6. g \in Surjection(Q, B)
  <2>1. \A p \in Q : g[p] \in B
    BY <1>4
  <2>2. \A b \in B : \E p \in Q : g[p] = b
    BY <1>2, <1>4
  <2>3. g = [p \in Q |-> g[p]]
    OBVIOUS
  <2> HIDE DEF g, Q
  <2>4. QED
    BY <2>1, <2>2, <2>3 DEF Surjection
<1>7. IsFiniteSet(Q) /\ Cardinality(Q) <= Cardinality(AllPolls)
  BY <1>5, EventTypes, FS_Subset
<1>8. IsFiniteSet(B) /\ Cardinality(B) <= Cardinality(Q)
  <2> HIDE DEF g, Q
  <2>1. QED
    BY <1>6, <1>7, FS_Surjection
<1>9. Cardinality(B) \in Nat /\ Cardinality(Q) \in Nat /\ Cardinality(AllPolls) \in Nat
  BY <1>7, <1>8, EventTypes, FS_CardinalityType
<1>10. Cardinality(B) \in 0..Cardinality(AllPolls)
  BY <1>7, <1>8, <1>9
<1>11. \A b \in B : b.ts \in Int
  <2>1. \A t : Mark(t).ts = t
    BY DEF Mark
  <2>2. \A p \in P1 : p.last \in Int
    BY <1>1, <1>5
  <2>3. \A p \in P2 : p.ts \in Int
    BY <1>1, <1>5
  <2>4. QED
    BY <1>4, <2>1, <2>2, <2>3
<1>12. QED
  BY <1>8, <1>10, <1>11 DEF B

LEMMA EventsAre ==
  ASSUME NEW E, E \subseteq FloodEvents, NEW ap, NEW from \in Int, NEW to \in Int
  PROVE  /\ IsFiniteSet(Flood!EventsOf(ap, E, from, to))
         /\ \A e \in Flood!EventsOf(ap, E, from, to) : e.ts \in Int
<1>1. PICK B : B = Flood!BurstsOf(ap, E, from, to)
  OBVIOUS
<1>2. IsFiniteSet(B) /\ \A b \in B : b.ts \in Int
  BY <1>1, BurstsAre
<1>3. PICK A : A = {e \in Flood!InRange(Flood!Of(ap, E), from, to) : e.kind \notin {"poll", "device"}}
  OBVIOUS
<1>4. A \subseteq FloodEvents
  BY <1>3 DEF Flood!InRange, Flood!Of
<1>5. IsFiniteSet(A) /\ \A e \in A : e.ts \in Int
  BY <1>4, EventTypes, FS_Subset
<1>6. Flood!EventsOf(ap, E, from, to) = A \cup B
  BY Zenon, <1>1, <1>3 DEF Flood!EventsOf
<1>7. IsFiniteSet(A \cup B) /\ \A e \in A \cup B : e.ts \in Int
  BY <1>2, <1>5, FS_Union
<1>8. QED
  BY <1>6, <1>7
-----------------------------------------------------------------------------
(* The episodes of one access point, of a run or of everything.             *)

LEMMA EpisodesSilent ==
  ASSUME NEW E, E \subseteq FloodEvents, NEW ap, NEW w, w[1] \in Int, w[2] \in Int
  PROVE  Silent(Flood!Episodes(ap, E, w))
<1>1. PICK X : X = Flood!EventsOf(ap, E, w[1], w[2])
  OBVIOUS
<1>2. IsFiniteSet(X) /\ \A e \in X : e.ts \in Int
  BY <1>1, EventsAre
<1>3. LET eps == Flood!BuildEpisodes(X, FloodGap) IN Silent({eps[i] : i \in DOMAIN eps})
  BY <1>2, BuiltAreSilent
<1>4. Flood!Episodes(ap, E, w) =
        LET eps == Flood!BuildEpisodes(X, FloodGap) IN {eps[i] : i \in DOMAIN eps}
  BY Zenon, <1>1 DEF Flood!Episodes
<1>5. QED
  BY <1>3, <1>4

\* The end of everything is a number.
LEMMA EndIs ==
  ASSUME NEW E, E \subseteq FloodEvents
  PROVE  /\ 1 + Flood!Max({0} \cup Flood!Times(E)) \in Int
         /\ \A e \in E : 0 <= e.ts /\ e.ts < 1 + Flood!Max({0} \cup Flood!Times(E))
<1>1. IsFiniteSet(E) /\ \A e \in E : e.ts \in Nat
  BY EventTypes, FS_Subset
<1>2. PICK T : T = Rules!Times(E)
  OBVIOUS
<1>3. IsFiniteSet(T) /\ T \subseteq Int /\ T = {e.ts : e \in E}
  BY <1>1, <1>2, TimesAre
<1>4. PICK U : U = {0} \cup T
  OBVIOUS
<1>5. IsFiniteSet(U)
  BY <1>3, <1>4, FS_Singleton, FS_Union
<1>6. U \subseteq Int /\ U # {}
  BY <1>3, <1>4
<1>7. PICK m : m = Rules!Max(U)
  OBVIOUS
<1>8. m \in U /\ \A t \in U : t <= m
  BY <1>5, <1>6, <1>7, MaxMinAre
<1>9. m = Flood!Max({0} \cup Flood!Times(E))
  BY <1>2, <1>4, <1>7, SameRules
<1>10. m \in Int /\ \A e \in E : e.ts \in Nat /\ e.ts <= m
  BY <1>1, <1>3, <1>4, <1>6, <1>8
<1>11. \A e \in E : 0 <= e.ts /\ e.ts < 1 + m
  <2>1. SUFFICES ASSUME NEW e \in E PROVE 0 <= e.ts /\ e.ts < 1 + m
    OBVIOUS
  <2>2. PICK t : t = e.ts
    OBVIOUS
  <2>3. t \in Nat /\ t <= m /\ m \in Int
    BY <1>10, <2>2
  <2>4. QED
    BY <2>2, <2>3
<1>12. 1 + m \in Int
  BY <1>10
<1>13. QED
  BY Zenon, <1>9, <1>11, <1>12

LEMMA WholeSilent ==
  ASSUME NEW E, E \subseteq FloodEvents, NEW ap
  PROVE  Silent(Flood!Whole(ap, E))
<1>1. PICK w : w = <<0, 1 + Flood!Max({0} \cup Flood!Times(E))>>
  OBVIOUS
<1>2. w[1] \in Int /\ w[2] \in Int
  BY <1>1, EndIs
<1>3. Flood!Whole(ap, E) = Flood!Episodes(ap, E, w)
  BY Zenon, <1>1 DEF Flood!Whole
<1>4. QED
  BY <1>2, <1>3, EpisodesSilent

\* A window near one set and inside another of the same silent sets.
LEMMA OnePlace ==
  ASSUME NEW S, Silent(S), NEW d \in S, NEW e \in S, NEW a \in Int, NEW b \in Int, a <= b,
         Flood!FirstTs(d) <= b + FloodGap, a <= Flood!LastTs(d) + FloodGap,
         Flood!FirstTs(e) <= a, b <= Flood!LastTs(e)
  PROVE  d = e
<1>1. SUFFICES ASSUME d # e PROVE FALSE
  OBVIOUS
<1>2. Apart(d, e)
  BY <1>1 DEF Silent
<1>3. PICK d1 \in Int, d2 \in Int, e1 \in Int, e2 \in Int :
        d1 = Flood!FirstTs(d) /\ d2 = Flood!LastTs(d) /\ e1 = Flood!FirstTs(e) /\ e2 = Flood!LastTs(e)
  BY DEF Silent, Spans
<1>4. d2 + FloodGap < e1 \/ e2 + FloodGap < d1
  BY <1>2, <1>3 DEF Apart
<1>5. FloodGap \in Int /\ d1 <= b + FloodGap /\ a <= d2 + FloodGap /\ e1 <= a /\ b <= e2
  BY <1>3, FloodAssumption
<1>6. QED
  BY <1>4, <1>5

\* A larger set spans more.
LEMMA LargerSpan ==
  ASSUME NEW d, Spans(d), NEW e, Spans(e), d \subseteq e
  PROVE  Flood!FirstTs(e) <= Flood!FirstTs(d) /\ Flood!LastTs(d) <= Flood!LastTs(e)
<1>1. PICK x \in d : x.ts = Flood!FirstTs(d)
  BY DEF Spans
<1>2. PICK y \in d : y.ts = Flood!LastTs(d)
  BY DEF Spans
<1>3. x \in e /\ y \in e
  BY <1>1, <1>2
<1>4. Flood!FirstTs(e) <= x.ts /\ y.ts <= Flood!LastTs(e)
  BY <1>3 DEF Spans
<1>5. QED
  BY <1>1, <1>2, <1>4

\* A set of events that is not empty lies in one silent set at most.
LEMMA SameHolder ==
  ASSUME NEW d, Spans(d), NEW R, Silent(R), NEW e \in R, NEW f \in R, d \subseteq e, d \subseteq f
  PROVE  e = f
<1>1. Spans(e) /\ Spans(f)
  BY DEF Silent
<1>2. PICK a \in Int, b \in Int : a = Flood!FirstTs(d) /\ b = Flood!LastTs(d) /\ a <= b
  BY DEF Spans
<1>3. /\ Flood!FirstTs(e) <= a /\ b <= Flood!LastTs(e)
      /\ Flood!FirstTs(f) <= a /\ b <= Flood!LastTs(f)
  BY <1>1, <1>2, LargerSpan
<1>4. /\ Flood!FirstTs(e) <= b + FloodGap /\ a <= Flood!LastTs(e) + FloodGap
  <2>1. PICK e1 \in Int, e2 \in Int : e1 = Flood!FirstTs(e) /\ e2 = Flood!LastTs(e)
    BY <1>1 DEF Spans
  <2>2. FloodGap \in Nat /\ e1 <= a /\ b <= e2
    BY <1>3, <2>1, FloodAssumption
  <2>3. e1 <= b + FloodGap /\ a <= e2 + FloodGap
    BY <1>2, <2>2
  <2>4. QED
    BY <2>1, <2>3
<1>5. QED
  BY <1>2, <1>3, <1>4, OnePlace

-----------------------------------------------------------------------------
(* Rows and episodes.  What one table says of the episodes of E still holds *)
(* when every episode has gone into one of F, and no two into the same.     *)

One(table, E) ==
  \A ap \in FloodAps : \A r \in Flood!RowsOf(ap, table) :
    \E ep \in Flood!Whole(ap, E) :
      Flood!Within(r, ep) /\ \A q \in Flood!RowsOf(ap, table) : q.by = r.by /\ Flood!Within(q, ep) => q = r

Into(d, D, S) == \E ep \in S : d \subseteq ep /\ \A other \in D : other \subseteq ep => other = d

Stays(E, F) ==
  \A ap \in FloodAps : \A d \in Flood!Whole(ap, E) : Into(d, Flood!Whole(ap, E), Flood!Whole(ap, F))

LEMMA StaysSame ==
  ASSUME NEW E, E \subseteq FloodEvents
  PROVE  Stays(E, E)
<1>1. SUFFICES ASSUME NEW ap, NEW d \in Flood!Whole(ap, E)
               PROVE  Into(d, Flood!Whole(ap, E), Flood!Whole(ap, E))
  BY DEF Stays
<1>2. PICK D : D = Flood!Whole(ap, E)
  OBVIOUS
<1>3. Silent(D) /\ d \in D
  BY <1>2, WholeSilent
<1>4. ASSUME NEW other \in D, other \subseteq d PROVE other = d
  <2>1. Spans(other)
    BY <1>3 DEF Silent
  <2>2. other \subseteq other
    OBVIOUS
  <2>3. QED
    BY <1>3, <1>4, <2>1, <2>2, SameHolder
<1>5. QED
  BY <1>2, <1>3, <1>4 DEF Into

LEMMA StaysOn ==
  ASSUME NEW E, NEW F, NEW G, E \subseteq FloodEvents, F \subseteq FloodEvents, G \subseteq FloodEvents,
         Stays(E, F), Stays(F, G)
  PROVE  Stays(E, G)
<1>1. SUFFICES ASSUME NEW ap \in FloodAps, NEW d \in Flood!Whole(ap, E)
               PROVE  Into(d, Flood!Whole(ap, E), Flood!Whole(ap, G))
  BY DEF Stays
<1>2. PICK D, S, R : D = Flood!Whole(ap, E) /\ S = Flood!Whole(ap, F) /\ R = Flood!Whole(ap, G)
  OBVIOUS
<1>3. Silent(D) /\ Silent(S) /\ Silent(R) /\ d \in D
  BY <1>1, <1>2, WholeSilent
<1>4. (\A x \in D : Into(x, D, S)) /\ (\A x \in S : Into(x, S, R))
  BY <1>2 DEF Stays
<1>5. PICK e \in S : d \subseteq e /\ \A other \in D : other \subseteq e => other = d
  BY <1>3, <1>4 DEF Into
<1>6. PICK f \in R : e \subseteq f /\ \A other \in S : other \subseteq f => other = e
  BY <1>4 DEF Into
<1>7. ASSUME NEW other \in D, other \subseteq f PROVE other = d
  <2>1. PICK g \in S : other \subseteq g
    BY <1>4 DEF Into
  <2>2. PICK h \in R : g \subseteq h /\ \A x \in S : x \subseteq h => x = g
    BY <1>4 DEF Into
  <2>3. Spans(other) /\ other \subseteq h
    BY <1>3, <2>1, <2>2 DEF Silent
  <2>4. h = f
    BY <1>3, <1>7, <2>3, SameHolder
  <2>5. g = e
    BY <1>6, <2>2, <2>4
  <2>6. QED
    BY <1>5, <2>1, <2>5
<1>8. d \subseteq f
  BY <1>5, <1>6
<1>9. Into(d, D, R)
  BY <1>7, <1>8 DEF Into
<1>10. QED
  BY <1>2, <1>9

\* The rows of the table, finitely many.
Subjects == {"device_key", "bssid"}

FloodRow(r) ==
  /\ r \in [id : Nat, ap : FloodAps, by : Subjects, ts : Int, start : Int, end : Int, severity : {r.severity}, runs : Nat,
            status : {"open", "labelled"}]
  /\ r.start <= r.end

FloodRows(table) == IsFiniteSet(table) /\ \A r \in table : FloodRow(r)

LEMMA OneStays ==
  ASSUME NEW table, FloodRows(table), NEW E, NEW F, E \subseteq FloodEvents, F \subseteq FloodEvents,
         One(table, E), Stays(E, F)
  PROVE  One(table, F)
<1>1. SUFFICES ASSUME NEW ap \in FloodAps, NEW r \in Flood!RowsOf(ap, table)
               PROVE  \E ep \in Flood!Whole(ap, F) :
                        Flood!Within(r, ep) /\ \A q \in Flood!RowsOf(ap, table) : q.by = r.by /\ Flood!Within(q, ep) => q = r
  BY DEF One
<1>2. PICK D, S, Q : D = Flood!Whole(ap, E) /\ S = Flood!Whole(ap, F) /\ Q = Flood!RowsOf(ap, table)
  OBVIOUS
<1>3. Silent(D) /\ Silent(S)
  BY <1>2, WholeSilent
<1>4. \A q \in Q : q.start \in Int /\ q.end \in Int /\ q.start <= q.end
  BY <1>2 DEF FloodRows, FloodRow, Flood!RowsOf
<1>5. \A q \in Q : \E ep \in D : Flood!Within(q, ep) /\ \A p \in Q : p.by = q.by /\ Flood!Within(p, ep) => p = q
  BY <1>2 DEF One
<1>6. \A d \in D : Into(d, D, S)
  BY <1>2 DEF Stays
<1>7. ASSUME NEW q \in Q, NEW d, Spans(d), NEW e, Spans(e), d \subseteq e, Flood!Within(q, d) PROVE Flood!Within(q, e)
  <2>1. PICK d1 \in Int, d2 \in Int, e1 \in Int, e2 \in Int :
          d1 = Flood!FirstTs(d) /\ d2 = Flood!LastTs(d) /\ e1 = Flood!FirstTs(e) /\ e2 = Flood!LastTs(e)
    BY <1>7 DEF Spans
  <2>2. e1 <= d1 /\ d2 <= e2
    BY <1>7, <2>1, LargerSpan
  <2>3. d1 <= q.start /\ q.end <= d2 /\ q.start \in Int /\ q.end \in Int
    BY <1>4, <1>7, <2>1 DEF Flood!Within
  <2>4. e1 <= q.start /\ q.end <= e2
    BY <2>2, <2>3
  <2>5. QED
    BY <2>1, <2>4 DEF Flood!Within
<1>8. r \in Q
  BY <1>1, <1>2
<1>9. PICK ep \in D : Flood!Within(r, ep) /\ \A p \in Q : p.by = r.by /\ Flood!Within(p, ep) => p = r
  BY <1>5, <1>8
<1>10. PICK fp \in S : ep \subseteq fp /\ \A other \in D : other \subseteq fp => other = ep
  BY <1>6 DEF Into
<1>11. Spans(ep) /\ Spans(fp)
  BY <1>3 DEF Silent
<1>12. Flood!Within(r, fp)
  BY <1>7, <1>8, <1>9, <1>10, <1>11
<1>13. ASSUME NEW q \in Q, q.by = r.by, Flood!Within(q, fp) PROVE q = r
  <2>1. PICK eq \in D : Flood!Within(q, eq)
    BY <1>5
  <2>2. PICK fq \in S : eq \subseteq fq
    BY <1>6 DEF Into
  <2>3. Spans(eq) /\ Spans(fq)
    BY <1>3 DEF Silent
  <2>4. Flood!Within(q, fq)
    BY <1>7, <2>1, <2>2, <2>3
  <2>5. fp = fq
    <3>1. PICK a \in Int, b \in Int : a = q.start /\ b = q.end /\ a <= b
      BY <1>4
    <3>2. PICK p1 \in Int, p2 \in Int : p1 = Flood!FirstTs(fp) /\ p2 = Flood!LastTs(fp)
      BY <1>11 DEF Spans
    <3>3. p1 <= a /\ b <= p2 /\ Flood!FirstTs(fq) <= a /\ b <= Flood!LastTs(fq)
      BY <1>13, <2>4, <3>1, <3>2 DEF Flood!Within
    <3>4. p1 <= b + FloodGap /\ a <= p2 + FloodGap
      <4>1. FloodGap \in Nat
        BY FloodAssumption
      <4>2. QED
        BY <3>1, <3>2, <3>3, <4>1
    <3>5. QED
      BY <1>3, <3>1, <3>2, <3>3, <3>4, OnePlace
  <2>6. eq = ep
    BY <1>10, <2>2, <2>5
  <2>7. QED
    BY <1>9, <1>13, <2>1, <2>6
<1>14. QED
  BY <1>2, <1>12, <1>13

\* The episodes of everything only depend on what is of the access point.
LEMMA AllInRange ==
  ASSUME NEW E, E \subseteq FloodEvents, NEW X, X \subseteq E
  PROVE  Flood!InRange(X, 0, 1 + Flood!Max({0} \cup Flood!Times(E))) = X
<1>1. PICK m : m = 1 + Flood!Max({0} \cup Flood!Times(E))
  OBVIOUS
<1>2. \A e \in X : 0 <= e.ts /\ e.ts < m
  BY Zenon, <1>1, EndIs
<1>3. Flood!InRange(X, 0, m) = X
  BY <1>2 DEF Flood!InRange
<1>4. QED
  BY Zenon, <1>1, <1>3

LEMMA WholeOther ==
  ASSUME NEW E, E \subseteq FloodEvents, NEW x \in FloodEvents, NEW ap, ap # x.ap
  PROVE  Flood!Whole(ap, E \cup {x}) = Flood!Whole(ap, E)
<1> DEFINE End(F) == 1 + Flood!Max({0} \cup Flood!Times(F))
           Marked(P) == {[ap |-> ap, ts |-> b.ts, kind |-> "burst", fromAp |-> FALSE] : b \in
                           {[ts |-> p.last, poll |-> p.ts] : p \in {q \in P : Flood!BurstByFrame(P, q, 0)}}
                           \cup {[ts |-> p.ts, poll |-> p.ts] : p \in {q \in P : Flood!BurstByCounter(P, q, CounterGap)}}}
           Visible(X) == IF Flood!OfKind("device", X) # {} THEN Flood!OfKind("poll", X) ELSE {}
           Told(X) == {e \in X : e.kind \notin {"poll", "device"}} \cup Marked(Visible(X))
           Built(Y) == LET eps == Flood!BuildEpisodes(Y, FloodGap) IN {eps[i] : i \in DOMAIN eps}
<1>1. ASSUME NEW F, F \subseteq FloodEvents PROVE Flood!Whole(ap, F) = Built(Told(Flood!Of(ap, F)))
  <2>1. PICK e, X, P : e = End(F) /\ X = Flood!Of(ap, F) /\ P = Visible(X)
    OBVIOUS
  <2>2. X \subseteq F /\ P \subseteq F
    BY <2>1 DEF Flood!Of, Flood!OfKind
  <2>3. Flood!InRange(X, 0, e) = X /\ Flood!InRange(P, 0, e) = P
    BY Zenon, <1>1, <2>1, <2>2, AllInRange
  <2>4. Flood!Polls(ap, F) = P
    BY Zenon, <2>1 DEF Flood!Polls, Flood!Known
  <2>5. Flood!Bursts(P, 0, e, CounterGap) =
          {[ts |-> p.last, poll |-> p.ts] : p \in {q \in P : Flood!BurstByFrame(P, q, 0)}}
          \cup {[ts |-> p.ts, poll |-> p.ts] : p \in {q \in P : Flood!BurstByCounter(P, q, CounterGap)}}
    BY Zenon, <2>3 DEF Flood!Bursts
  <2>6. Flood!BurstsOf(ap, F, 0, e) = Marked(P)
    BY Zenon, <2>4, <2>5 DEF Flood!BurstsOf
  <2>7. Flood!EventsOf(ap, F, 0, e) = Told(X)
    BY Zenon, <2>1, <2>3, <2>6 DEF Flood!EventsOf
  <2> HIDE DEF Told
  <2>8. Flood!Whole(ap, F) = Flood!Episodes(ap, F, <<0, e>>)
    BY Zenon, <2>1 DEF Flood!Whole
  <2>9. <<0, e>>[1] = 0 /\ <<0, e>>[2] = e
    OBVIOUS
  <2>10. Flood!Episodes(ap, F, <<0, e>>) = Built(Flood!EventsOf(ap, F, 0, e))
    BY Zenon, <2>9 DEF Flood!Episodes
  <2>11. QED
    BY Zenon, <2>1, <2>7, <2>8, <2>10
<1>2. Flood!Of(ap, E \cup {x}) = Flood!Of(ap, E)
  BY DEF Flood!Of
<1>3. E \cup {x} \subseteq FloodEvents
  OBVIOUS
<1> HIDE DEF Told, Built
<1>4. QED
  BY Zenon, <1>1, <1>2, <1>3

\* An arrival that disturbs nothing leaves every episode whole and apart.
LEMMA ArriveStays ==
  ASSUME seen \subseteq FloodEvents, NEW x \in FloodEvents, ~Flood!Disturbs(x)
  PROVE  Stays(seen, seen \cup {x})
<1>1. SUFFICES ASSUME NEW ap \in FloodAps, NEW d \in Flood!Whole(ap, seen)
               PROVE  Into(d, Flood!Whole(ap, seen), Flood!Whole(ap, seen \cup {x}))
  BY DEF Stays
<1>2. CASE ap = x.ap
  <2> DEFINE D == Flood!Whole(x.ap, seen)
             S == Flood!Whole(x.ap, seen \cup {x})
  <2>1. ~\E c \in D : \A ep \in S : ~(c \subseteq ep) \/ \E other \in D \ {c} : other \subseteq ep
    BY Zenon DEF Flood!Disturbs
  <2>2. d \in D
    BY <1>1, <1>2
  <2> HIDE DEF D, S
  <2>3. PICK ep \in S : d \subseteq ep /\ ~\E other \in D \ {d} : other \subseteq ep
    BY <2>1, <2>2
  <2>4. Into(d, D, S)
    BY <2>3 DEF Into
  <2>5. QED
    BY Zenon, <1>2, <2>4 DEF D, S
<1>3. CASE ap # x.ap
  <2>1. Flood!Whole(ap, seen \cup {x}) = Flood!Whole(ap, seen)
    BY <1>3, WholeOther
  <2>2. Stays(seen, seen)
    BY StaysSame
  <2>3. Into(d, Flood!Whole(ap, seen), Flood!Whole(ap, seen))
    BY <2>2 DEF Stays
  <2>4. QED
    BY <2>1, <2>3
<1>4. QED
  BY <1>2, <1>3

-----------------------------------------------------------------------------
(* The sink: one finding is written.                                        *)

FloodFinding(f) ==
  /\ f \in [ap : FloodAps, by : Subjects, start : Int, end : Int, severity : {f.severity}]
  /\ f.start <= f.end

\* A finding about the episode ep.
About(f, ep) == f.start = Flood!FirstTs(ep) /\ f.end = Flood!LastTs(ep)
Exact(f, E) == \E ep \in Flood!Whole(f.ap, E) : About(f, ep)

Wrote(rest, new, t, f) ==
  /\ rest \subseteq t /\ FloodRow(new)
  /\ new.ap = f.ap /\ new.by = f.by /\ new.start = f.start /\ new.end = f.end /\ new.severity = f.severity
  /\ \/ Flood!Existing(t, f) = {} /\ rest = t
     \/ \E old \in Flood!Existing(t, f) : rest = t \ {old} /\ new.id = old.id /\ new.status = old.status

LEMMA OldIs ==
  ASSUME NEW same, IsFiniteSet(same), same # {}, \A r \in same : r.ts \in Int
  PROVE  (CHOOSE r \in same : \A q \in same : r.ts <= q.ts) \in same
<1>1. PICK T : T = {r.ts : r \in same}
  OBVIOUS
<1>2. T \subseteq Int /\ T # {}
  BY <1>1
<1>3. IsFiniteSet(T)
  <2> DEFINE g == [r \in same |-> r.ts]
  <2>1. g \in Surjection(same, T)
    BY <1>1 DEF Surjection
  <2>2. QED
    BY <2>1, FS_Surjection
<1>4. PICK m \in T : \A t \in T : m <= t
  BY <1>2, <1>3, MaxMinAre
<1>5. PICK r \in same : r.ts = m
  BY <1>1
<1>6. \A q \in same : r.ts <= q.ts
  BY <1>1, <1>4, <1>5
<1>7. QED
  BY <1>6

LEMMA WriteIs ==
  ASSUME NEW db, NEW t, t = db.rows, FloodRows(t), db.ok, NEW f, FloodFinding(f)
  PROVE  \E rest, new :
           /\ Flood!Write(db, f) = [ok |-> \A r \in rest : ~(Flood!SameSubject(r, f) /\ r.ts = f.start), rows |-> rest \cup {new}]
           /\ Wrote(rest, new, t, f)
<1>1. PICK same : same = Flood!Existing(t, f)
  OBVIOUS
<1>2. PICK old : old = (CHOOSE r \in same : \A q \in same : r.ts <= q.ts)
  OBVIOUS
<1>3. same \subseteq t /\ IsFiniteSet(t) /\ \A r \in t : FloodRow(r)
  BY <1>1 DEF Flood!Existing, FloodRows
<1>4. same # {} => old \in same
  <2>1. IsFiniteSet(same)
    BY <1>3, FS_Subset
  <2>2. \A r \in same : r.ts \in Int
    BY <1>3 DEF FloodRow
  <2>3. QED
    BY Zenon, <1>2, <2>1, <2>2, OldIs
<1>5. PICK rest : rest = IF same = {} THEN t ELSE t \ {old}
  OBVIOUS
<1>6. PICK new : new = IF same = {} THEN Flood!Stored(f, Flood!Cardinality(t) + 1, 1, "open")
                       ELSE Flood!Stored(f, old.id, old.runs + 1, old.status)
  OBVIOUS
<1>7. Flood!Write(db, f) = [ok |-> \A r \in rest : ~(Flood!SameSubject(r, f) /\ r.ts = f.start), rows |-> rest \cup {new}]
  BY Zenon, <1>1, <1>2, <1>5, <1>6 DEF Flood!Write
<1>8. /\ f.ap \in FloodAps /\ f.by \in Subjects /\ f.start \in Int /\ f.end \in Int /\ f.start <= f.end
  BY DEF FloodFinding
<1>9. ASSUME NEW id \in Nat, NEW n \in Nat, NEW label \in {"open", "labelled"}, new = Flood!Stored(f, id, n, label)
      PROVE  /\ FloodRow(new) /\ new.ap = f.ap /\ new.by = f.by /\ new.start = f.start /\ new.end = f.end /\ new.severity = f.severity
             /\ new.id = id /\ new.status = label
  BY <1>8, <1>9 DEF Flood!Stored, FloodRow
<1>10. CASE same = {}
  <2>1. Flood!Cardinality(t) + 1 \in Nat
    BY <1>3, SameRules, FS_CardinalityType
  <2>2. PICK id \in Nat : id = Flood!Cardinality(t) + 1
    BY <2>1
  <2>3. new = Flood!Stored(f, id, 1, "open")
    BY <1>6, <1>10, <2>2
  <2>4. rest = t
    BY <1>5, <1>10
  <2>5. /\ FloodRow(new) /\ new.ap = f.ap /\ new.by = f.by /\ new.start = f.start /\ new.end = f.end /\ new.severity = f.severity
    BY <1>9, <2>3
  <2>6. Wrote(rest, new, t, f)
    BY <1>1, <1>10, <2>4, <2>5 DEF Wrote
  <2>7. QED
    BY <1>7, <2>6
<1>11. CASE same # {}
  <2>1. old \in same /\ FloodRow(old)
    BY <1>3, <1>4, <1>11
  <2>2. old.id \in Nat /\ old.runs \in Nat /\ old.status \in {"open", "labelled"}
    BY <2>1 DEF FloodRow
  <2>3. PICK n \in Nat : n = old.runs + 1
    BY <2>2
  <2>4. new = Flood!Stored(f, old.id, n, old.status)
    BY <1>6, <1>11, <2>3
  <2>5. rest = t \ {old}
    BY <1>5, <1>11
  <2>6. /\ FloodRow(new) /\ new.ap = f.ap /\ new.by = f.by /\ new.start = f.start /\ new.end = f.end /\ new.severity = f.severity
        /\ new.id = old.id /\ new.status = old.status
    BY <1>9, <2>2, <2>4
  <2>7. Wrote(rest, new, t, f)
    BY <1>1, <2>1, <2>5, <2>6 DEF Wrote
  <2>8. QED
    BY <1>7, <2>7
<1>12. QED
  BY <1>10, <1>11

\* Two windows inside one episode are of one row; the rows a finding about an
\* episode is matched with are those inside it.
LEMMA MatchIs ==
  ASSUME NEW t, FloodRows(t), NEW E, E \subseteq FloodEvents, One(t, E), NEW f, FloodFinding(f),
         NEW ep \in Flood!Whole(f.ap, E), About(f, ep)
  PROVE  /\ \A r \in t : r \in Flood!Existing(t, f) <=> Flood!SameSubject(r, f) /\ Flood!Within(r, ep)
         /\ \A r, q \in t : Flood!SameSubject(r, f) /\ Flood!Within(r, ep) /\ Flood!SameSubject(q, f) /\ Flood!Within(q, ep) => q = r
<1>1. PICK S : S = Flood!Whole(f.ap, E)
  OBVIOUS
<1>2. Silent(S) /\ ep \in S
  BY <1>1, WholeSilent
<1>3. PICK e1 \in Int, e2 \in Int : e1 = f.start /\ e2 = f.end /\ e1 = Flood!FirstTs(ep) /\ e2 = Flood!LastTs(ep)
  BY DEF About, FloodFinding
<1>4. ASSUME NEW r \in t, Flood!SameSubject(r, f)
      PROVE  /\ r.start \in Int /\ r.end \in Int /\ r.start <= r.end
             /\ \E h \in S : Flood!Within(r, h) /\ \A q \in t : Flood!SameSubject(q, f) /\ Flood!Within(q, h) => q = r
  <2>1. FloodRow(r) /\ f.ap \in FloodAps
    BY DEF FloodRows, FloodFinding
  <2>2. r \in Flood!RowsOf(f.ap, t)
    BY <1>4 DEF Flood!RowsOf, Flood!SameSubject
  <2>3. PICK h \in S : Flood!Within(r, h) /\ \A q \in Flood!RowsOf(f.ap, t) : q.by = r.by /\ Flood!Within(q, h) => q = r
    BY <1>1, <2>1, <2>2 DEF One
  <2>4. \A q \in t : Flood!SameSubject(q, f) => q \in Flood!RowsOf(f.ap, t) /\ q.by = r.by
    BY <1>4 DEF Flood!RowsOf, Flood!SameSubject
  <2>5. QED
    BY <2>1, <2>3, <2>4 DEF FloodRow
<1>5. FloodGap \in Nat
  BY FloodAssumption
<1>6. ASSUME NEW r \in t, Flood!SameSubject(r, f), NEW h \in S, Flood!Within(r, h), r.end >= e1 - FloodGap, r.start <= e2 + FloodGap
      PROVE  h = ep
  <2>1. PICK a \in Int, b \in Int : a = r.start /\ b = r.end /\ a <= b
    BY <1>4, <1>6
  <2>2. Flood!FirstTs(ep) <= b + FloodGap /\ a <= Flood!LastTs(ep) + FloodGap
    BY <1>3, <1>5, <1>6, <2>1
  <2>3. Flood!FirstTs(h) <= a /\ b <= Flood!LastTs(h)
    BY <1>6, <2>1 DEF Flood!Within
  <2>4. QED
    BY <1>2, <2>1, <2>2, <2>3, OnePlace
<1>7. ASSUME NEW r \in t, Flood!SameSubject(r, f), Flood!Within(r, ep) PROVE r.end >= e1 - FloodGap /\ r.start <= e2 + FloodGap
  <2>1. PICK a \in Int, b \in Int : a = r.start /\ b = r.end /\ a <= b
    BY <1>4, <1>7
  <2>2. e1 <= a /\ b <= e2
    BY <1>3, <1>7, <2>1 DEF Flood!Within
  <2>3. b >= e1 - FloodGap /\ a <= e2 + FloodGap
    BY <1>5, <2>1, <2>2
  <2>4. QED
    BY <2>1, <2>3
<1>8. ASSUME NEW r \in t PROVE r \in Flood!Existing(t, f) <=> Flood!SameSubject(r, f) /\ Flood!Within(r, ep)
  <2>1. r \in Flood!Existing(t, f) <=> Flood!SameSubject(r, f) /\ r.end >= e1 - FloodGap /\ r.start <= e2 + FloodGap
    BY <1>3 DEF Flood!Existing
  <2>2. ASSUME Flood!SameSubject(r, f), r.end >= e1 - FloodGap, r.start <= e2 + FloodGap PROVE Flood!Within(r, ep)
    <3>1. PICK h \in S : Flood!Within(r, h)
      BY <1>4, <2>2
    <3>2. h = ep
      BY <1>6, <2>2, <3>1
    <3>3. QED
      BY <3>1, <3>2
  <2>3. QED
    BY <1>7, <2>1, <2>2
<1>9. ASSUME NEW r \in t, NEW q \in t, Flood!SameSubject(r, f), Flood!Within(r, ep), Flood!SameSubject(q, f), Flood!Within(q, ep) PROVE q = r
  <2>1. PICK h \in S : Flood!Within(r, h) /\ \A p \in t : Flood!SameSubject(p, f) /\ Flood!Within(p, h) => p = r
    BY <1>4, <1>9
  <2>2. h = ep
    BY <1>6, <1>7, <1>9, <2>1
  <2>3. Flood!Within(q, h)
    BY <1>9, <2>2
  <2>4. QED
    BY Zenon, <1>9, <2>1, <2>3
<1>10. QED
  BY <1>8, <1>9

LEMMA WriteOne ==
  ASSUME NEW t, FloodRows(t), NEW E, E \subseteq FloodEvents, One(t, E), NEW f, FloodFinding(f), Exact(f, E),
         NEW rest, NEW new, Wrote(rest, new, t, f)
  PROVE  /\ One(rest \cup {new}, E)
         /\ \A old \in Flood!Existing(t, f) : f.start <= old.start /\ old.end <= f.end
<1>1. PICK ep \in Flood!Whole(f.ap, E) : About(f, ep)
  BY DEF Exact
<1>2. /\ \A r \in t : r \in Flood!Existing(t, f) <=> Flood!SameSubject(r, f) /\ Flood!Within(r, ep)
      /\ \A r, q \in t : Flood!SameSubject(r, f) /\ Flood!Within(r, ep) /\ Flood!SameSubject(q, f) /\ Flood!Within(q, ep) => q = r
  BY <1>1, MatchIs
<1>3. rest \subseteq t /\ new.ap = f.ap /\ new.by = f.by /\ new.start = f.start /\ new.end = f.end
  BY DEF Wrote
<1>4. ASSUME NEW r \in rest PROVE ~(Flood!SameSubject(r, f) /\ Flood!Within(r, ep))
  <2>1. SUFFICES ASSUME Flood!SameSubject(r, f), Flood!Within(r, ep) PROVE FALSE
    OBVIOUS
  <2>2. r \in t /\ r \in Flood!Existing(t, f)
    BY <1>2, <1>3, <1>4, <2>1
  <2>3. PICK old \in Flood!Existing(t, f) : rest = t \ {old}
    BY <2>2 DEF Wrote
  <2>4. old \in t
    BY <2>3 DEF Flood!Existing
  <2>5. r = old
    BY <1>2, <2>1, <2>2, <2>3, <2>4
  <2>6. QED
    BY <1>4, <2>3, <2>5
<1>5. Flood!Within(new, ep)
  <2>1. PICK a \in Int, b \in Int : a = Flood!FirstTs(ep) /\ b = Flood!LastTs(ep) /\ f.start = a /\ f.end = b
    BY <1>1 DEF About, FloodFinding
  <2>2. QED
    BY <1>3, <2>1 DEF Flood!Within
<1>6. ASSUME NEW ap \in FloodAps, NEW r \in Flood!RowsOf(ap, rest \cup {new})
      PROVE  \E h \in Flood!Whole(ap, E) :
               Flood!Within(r, h) /\ \A q \in Flood!RowsOf(ap, rest \cup {new}) : q.by = r.by /\ Flood!Within(q, h) => q = r
  <2>1. r.ap = ap /\ \A q \in Flood!RowsOf(ap, rest \cup {new}) : q.ap = ap /\ (q \in rest \/ q = new)
    BY <1>6 DEF Flood!RowsOf
  <2>2. CASE r = new
    <3>1. ep \in Flood!Whole(ap, E) /\ Flood!Within(r, ep)
      BY <1>1, <1>3, <1>5, <2>1, <2>2
    <3>2. \A q \in Flood!RowsOf(ap, rest \cup {new}) : q.by = r.by /\ Flood!Within(q, ep) => q = r
      BY <1>3, <1>4, <2>1, <2>2 DEF Flood!SameSubject
    <3>3. QED
      BY <3>1, <3>2
  <2>3. CASE r \in rest
    <3>1. r \in Flood!RowsOf(ap, t)
      BY <1>3, <2>1, <2>3 DEF Flood!RowsOf
    <3>2. PICK h \in Flood!Whole(ap, E) : Flood!Within(r, h) /\ \A q \in Flood!RowsOf(ap, t) : q.by = r.by /\ Flood!Within(q, h) => q = r
      BY <3>1 DEF One
    <3>3. ASSUME NEW q \in Flood!RowsOf(ap, rest \cup {new}), q.by = r.by, Flood!Within(q, h) PROVE q = r
      <4>1. CASE q \in rest
        <5>1. q \in Flood!RowsOf(ap, t)
          BY <1>3, <2>1, <4>1 DEF Flood!RowsOf
        <5>2. QED
          BY <3>2, <3>3, <5>1
      <4>2. CASE q = new
        <5>1. ap = f.ap
          BY <1>3, <2>1, <4>2
        <5>2. PICK S : S = Flood!Whole(f.ap, E)
          OBVIOUS
        <5>3. Silent(S) /\ h \in S /\ ep \in S
          BY <1>1, <5>1, <5>2, WholeSilent
        <5>4. PICK a \in Int, b \in Int : a = f.start /\ b = f.end /\ a <= b
          BY DEF FloodFinding
        <5>5. Flood!FirstTs(h) <= a /\ b <= Flood!LastTs(h)
          BY <1>3, <3>3, <4>2, <5>4 DEF Flood!Within
        <5>6. Flood!FirstTs(ep) <= b + FloodGap /\ a <= Flood!LastTs(ep) + FloodGap
          <6>1. Flood!FirstTs(ep) = a /\ Flood!LastTs(ep) = b
            BY <1>1, <5>4 DEF About
          <6>2. a <= b + FloodGap
            BY <5>4, FloodAssumption
          <6>3. QED
            BY <6>1, <6>2
        <5>7. h = ep
          BY <5>3, <5>4, <5>5, <5>6, OnePlace
        <5>8. QED
          BY <1>3, <1>4, <2>1, <2>3, <3>2, <3>3, <4>2, <5>1, <5>7 DEF Flood!SameSubject
      <4>3. QED
        BY <2>1, <4>1, <4>2
    <3>4. QED
      BY <3>2, <3>3
  <2>4. QED
    BY <2>1, <2>2, <2>3
<1>7. ASSUME NEW old \in Flood!Existing(t, f) PROVE f.start <= old.start /\ old.end <= f.end
  <2>1. old \in t
    BY DEF Flood!Existing
  <2>2. Flood!Within(old, ep)
    BY <1>2, <2>1
  <2>3. QED
    BY <1>1, <2>2 DEF About, Flood!Within
<1>8. QED
  BY <1>6, <1>7 DEF One

\* What a sink has done so far with the table t: the rows it was given are
\* still there, wider if no episode was cut, one for an episode; and the
\* findings told so far are stored, unless the index refused one.
Kept(t, u, whole) ==
  \A r \in t : \E q \in u :
    /\ q.id = r.id /\ (r.status = "labelled" => q.status = "labelled")
    /\ whole => q.start <= r.start /\ r.end <= q.end

Holds(u, f) ==
  \E r \in Flood!RowsOf(f.ap, u) :
    r.by = f.by /\ r.start = f.start /\ r.end = f.end /\ r.severity = f.severity

\* Whom the rows are about: someone of whom the table or a finding already was.
Named(u, N) == \A r \in u : \E x \in N : x.ap = r.ap /\ x.by = r.by

Clear(f, g) == f.ap # g.ap \/ f.end + FloodGap < g.start \/ g.end + FloodGap < f.start

SinkOK(db, t, E, done, whole) ==
  /\ FloodRows(db.rows) /\ Kept(t, db.rows, whole)
  /\ whole => One(db.rows, E)
  /\ Named(db.rows, t \cup done)
  /\ db.ok => \A f \in done : Holds(db.rows, f)

LEMMA KeptOn ==
  ASSUME NEW t, NEW u, NEW v, NEW whole \in BOOLEAN, FloodRows(t), FloodRows(u), FloodRows(v),
         Kept(t, u, whole), Kept(u, v, whole)
  PROVE  Kept(t, v, whole)
<1>1. SUFFICES ASSUME NEW r \in t
               PROVE  \E q \in v : /\ q.id = r.id /\ (r.status = "labelled" => q.status = "labelled")
                                   /\ whole => q.start <= r.start /\ r.end <= q.end
  BY DEF Kept
<1>2. PICK p \in u : /\ p.id = r.id /\ (r.status = "labelled" => p.status = "labelled")
                     /\ whole => p.start <= r.start /\ r.end <= p.end
  BY DEF Kept
<1>3. PICK q \in v : /\ q.id = p.id /\ (p.status = "labelled" => q.status = "labelled")
                     /\ whole => q.start <= p.start /\ p.end <= q.end
  BY DEF Kept
<1>4. /\ r.start \in Int /\ p.start \in Int /\ q.start \in Int
      /\ r.end \in Int /\ p.end \in Int /\ q.end \in Int
  BY DEF FloodRows, FloodRow
<1>5. whole => q.start <= r.start /\ r.end <= q.end
  BY <1>2, <1>3, <1>4
<1>6. QED
  BY <1>2, <1>3, <1>5

LEMMA KeptSame ==
  ASSUME NEW t, FloodRows(t), NEW whole
  PROVE  Kept(t, t, whole)
BY DEF Kept, FloodRows, FloodRow

LEMMA WriteDoes ==
  ASSUME NEW db, NEW t, FloodRows(t), NEW E, E \subseteq FloodEvents, NEW done, NEW whole \in BOOLEAN,
         SinkOK(db, t, E, done, whole), db.ok \in BOOLEAN, NEW f, FloodFinding(f), whole => Exact(f, E),
         \A g \in done : FloodFinding(g) /\ Clear(f, g)
  PROVE  SinkOK(Flood!Write(db, f), t, E, done \cup {f}, whole)
<1>1. PICK u : u = db.rows
  OBVIOUS
<1>2. FloodRows(u) /\ Kept(t, u, whole) /\ (whole => One(u, E)) /\ (db.ok => \A g \in done : Holds(u, g))
      /\ Named(u, t \cup done)
  BY <1>1 DEF SinkOK
<1>3. CASE ~db.ok
  <2>1. Flood!Write(db, f) = db
    BY Zenon, <1>3 DEF Flood!Write
  <2>2. Named(u, t \cup (done \cup {f}))
    BY <1>2 DEF Named
  <2>3. QED
    BY <1>1, <1>2, <1>3, <2>1, <2>2 DEF SinkOK
<1>4. CASE db.ok
  <2>1. PICK rest, new : /\ Flood!Write(db, f) = [ok |-> \A r \in rest : ~(Flood!SameSubject(r, f) /\ r.ts = f.start),
                                                  rows |-> rest \cup {new}]
                         /\ Wrote(rest, new, u, f)
    BY <1>1, <1>2, <1>4, WriteIs
  <2>2. PICK v : v = rest \cup {new}
    OBVIOUS
  <2>3. /\ rest \subseteq u /\ FloodRow(new)
        /\ new.ap = f.ap /\ new.by = f.by /\ new.start = f.start /\ new.end = f.end /\ new.severity = f.severity
        /\ \/ Flood!Existing(u, f) = {} /\ rest = u
           \/ \E old \in Flood!Existing(u, f) : rest = u \ {old} /\ new.id = old.id /\ new.status = old.status
    BY <2>1 DEF Wrote
  <2>4. FloodRows(v)
    <3>1. IsFiniteSet(rest) /\ \A r \in rest : FloodRow(r)
      BY <1>2, <2>3, FS_Subset DEF FloodRows
    <3>2. IsFiniteSet(v)
      BY <2>2, <3>1, FS_AddElement
    <3>3. QED
      BY <2>2, <2>3, <3>1, <3>2 DEF FloodRows
  <2>5. whole => One(v, E) /\ \A old \in Flood!Existing(u, f) : f.start <= old.start /\ old.end <= f.end
    BY <1>2, <2>1, <2>2, WriteOne
  <2>6. Kept(u, v, whole)
    <3>1. SUFFICES ASSUME NEW r \in u
                   PROVE  \E q \in v : /\ q.id = r.id /\ (r.status = "labelled" => q.status = "labelled")
                                       /\ whole => q.start <= r.start /\ r.end <= q.end
      BY DEF Kept
    <3>2. CASE r \in rest
      <4>1. r \in v /\ r.start <= r.start /\ r.end <= r.end
        BY <1>2, <2>2, <3>2 DEF FloodRows, FloodRow
      <4>2. QED
        BY <4>1
    <3>3. CASE r \notin rest
      <4>1. r \in Flood!Existing(u, f) /\ new.id = r.id /\ new.status = r.status
        BY <2>3, <3>1, <3>3
      <4>2. new \in v
        BY <2>2
      <4>3. whole => new.start <= r.start /\ r.end <= new.end
        BY <2>3, <2>5, <4>1
      <4>4. QED
        BY <4>1, <4>2, <4>3
    <3>4. QED
      BY <3>2, <3>3
  <2>7. Kept(t, v, whole)
    BY <1>2, <2>4, <2>6, KeptOn
  <2>8. Holds(v, f)
    BY <2>2, <2>3 DEF Holds, Flood!RowsOf
  <2>9. ASSUME NEW g \in done PROVE Holds(v, g)
    <3>1. PICK r \in u : r.ap = g.ap /\ r.by = g.by /\ r.start = g.start /\ r.end = g.end /\ r.severity = g.severity
      BY <1>2, <1>4 DEF Holds, Flood!RowsOf
    <3>2. r \notin Flood!Existing(u, f)
      <4>1. PICK g1 \in Int, g2 \in Int : g1 = g.start /\ g2 = g.end
        BY DEF FloodFinding
      <4>2. PICK f1 \in Int, f2 \in Int : f1 = f.start /\ f2 = f.end
        BY DEF FloodFinding
      <4>3. f.ap # g.ap \/ f2 + FloodGap < g1 \/ g2 + FloodGap < f1
        BY <4>1, <4>2 DEF Clear
      <4>4. r \in Flood!Existing(u, f) => g.ap = f.ap /\ g2 >= f1 - FloodGap /\ g1 <= f2 + FloodGap
        BY <3>1, <4>1, <4>2 DEF Flood!Existing, Flood!SameSubject
      <4>5. FloodGap \in Int
        BY FloodAssumption
      <4>6. QED
        BY <4>3, <4>4, <4>5
    <3>3. r \in rest
      BY <2>3, <3>2
    <3>4. r \in v
      BY <2>2, <3>3
    <3>5. QED
      BY <3>1, <3>4 DEF Holds, Flood!RowsOf
  <2>10. PICK b : Flood!Write(db, f) = [ok |-> b, rows |-> v]
    BY Zenon, <2>1, <2>2
  <2>11. Flood!Write(db, f).rows = v
    BY <2>10
  <2>12. Named(v, t \cup (done \cup {f}))
    BY <1>2, <2>2, <2>3 DEF Named
  <2>13. QED
    BY <2>4, <2>5, <2>7, <2>8, <2>9, <2>11, <2>12 DEF SinkOK
<1>5. QED
  BY <1>3, <1>4

\* The states of the sink, for findings with severities of V.
RowSet(V) ==
  [id : Nat, ap : FloodAps, by : Subjects, ts : Int, start : Int, end : Int, severity : V, runs : Nat, status : {"open", "labelled"}]
Tables(V) == [ok : BOOLEAN, rows : {t \in SUBSET RowSet(V) : FloodRows(t)}]

LEMMA RowOf ==
  ASSUME NEW V, NEW r, FloodRow(r), r.severity \in V
  PROVE  r \in RowSet(V)
BY DEF FloodRow, RowSet

LEMMA WriteTyped ==
  ASSUME NEW V, NEW db \in Tables(V), NEW f, FloodFinding(f), f.severity \in V
  PROVE  Flood!Write(db, f) \in Tables(V)
<1>1. PICK u : u = db.rows
  OBVIOUS
<1>2. FloodRows(u) /\ u \subseteq RowSet(V) /\ db.ok \in BOOLEAN
  BY <1>1 DEF Tables
<1>3. CASE ~db.ok
  <2>1. Flood!Write(db, f) = db
    BY Zenon, <1>3 DEF Flood!Write
  <2>2. QED
    BY <2>1
<1>4. CASE db.ok
  <2>1. PICK rest, new : /\ Flood!Write(db, f) = [ok |-> \A r \in rest : ~(Flood!SameSubject(r, f) /\ r.ts = f.start),
                                                  rows |-> rest \cup {new}]
                         /\ Wrote(rest, new, u, f)
    BY <1>1, <1>2, <1>4, WriteIs
  <2>2. PICK v : v = rest \cup {new}
    OBVIOUS
  <2>3. PICK b : b = \A r \in rest : ~(Flood!SameSubject(r, f) /\ r.ts = f.start)
    OBVIOUS
  <2>4. b \in BOOLEAN
    BY Zenon, <2>3
  <2>5. Flood!Write(db, f) = [ok |-> b, rows |-> v]
    BY Zenon, <2>1, <2>2, <2>3
  <2>6. rest \subseteq u /\ FloodRow(new) /\ new.severity = f.severity
    BY <2>1 DEF Wrote
  <2>7. v \subseteq RowSet(V)
    <3>1. new \in RowSet(V)
      BY <2>6, RowOf
    <3>2. QED
      BY <1>2, <2>2, <2>6, <3>1
  <2>8. FloodRows(v)
    <3>1. IsFiniteSet(rest) /\ \A r \in rest : FloodRow(r)
      BY <1>2, <2>6, FS_Subset DEF FloodRows
    <3>2. IsFiniteSet(v)
      BY <2>2, <3>1, FS_AddElement
    <3>3. QED
      BY <2>2, <2>6, <3>1, <3>2 DEF FloodRows
  <2>9. PICK R : R = {t \in SUBSET RowSet(V) : FloodRows(t)}
    OBVIOUS
  <2>10. v \in R
    BY <2>7, <2>8, <2>9
  <2>11. [ok |-> b, rows |-> v] \in [ok : BOOLEAN, rows : R]
    BY Zenon, <2>4, <2>10
  <2>12. QED
    BY Zenon, <2>5, <2>9, <2>11 DEF Tables
<1>5. QED
  BY <1>2, <1>3, <1>4

\* What holds of no elements, and of some when it holds with one taken out,
\* holds of all.
LEMMA TakeOut ==
  ASSUME NEW S, IsFiniteSet(S), NEW pick, NEW Bad, Bad \subseteq SUBSET S, {} \notin Bad,
         \A s \in SUBSET S : s # {} => pick[s] \in s,
         \A s \in SUBSET S : s # {} /\ s \ {pick[s]} \notin Bad => s \notin Bad
  PROVE  Bad = {}
<1>1. SUFFICES ASSUME Bad # {} PROVE FALSE
  OBVIOUS
<1> DEFINE Sizes == {Cardinality(s) : s \in Bad}
<1>2. \A s \in SUBSET S : IsFiniteSet(s) /\ Cardinality(s) \in Nat
  BY FS_Subset, FS_CardinalityType
<1>3. PICK n \in Sizes : \A k \in Sizes : n <= k
  <2>1. Sizes \in SUBSET Nat /\ Sizes # {}
    BY <1>1, <1>2
  <2> HIDE DEF Sizes
  <2>2. QED
    BY <2>1, LeastOfSet
<1>4. PICK s \in Bad : n = Cardinality(s)
  BY <1>3
<1>5. s \in SUBSET S /\ s # {} /\ pick[s] \in s
  BY <1>4
<1>6. s \ {pick[s]} \in SUBSET S /\ Cardinality(s \ {pick[s]}) = Cardinality(s) - 1
  BY <1>2, <1>5, FS_RemoveElement
<1>7. s \ {pick[s]} \notin Bad
  <2>1. SUFFICES ASSUME s \ {pick[s]} \in Bad PROVE FALSE
    OBVIOUS
  <2>2. n <= Cardinality(s \ {pick[s]})
    BY <1>3, <2>1
  <2>3. n \in Nat
    BY <1>2, <1>4, <1>5
  <2>4. QED
    BY <1>4, <1>6, <2>2, <2>3
<1>8. QED
  BY <1>4, <1>5, <1>7

\* The findings that start at one time, written in some order.
Group(db, S) == Flood!FoldSet(LAMBDA f, d : Flood!Write(d, f), db, S)

Writable(S, V) == IsFiniteSet(S) /\ \A f \in S : FloodFinding(f) /\ f.severity \in V

\* Findings that are clear of each other and of those told before.
Lone(S, done) ==
  /\ \A f, g \in S : f # g => Clear(f, g)
  /\ \A f \in S, g \in done : Clear(f, g)

Adds(db, d, t, E, done, S, whole) ==
  /\ FloodRows(t) /\ E \subseteq FloodEvents /\ SinkOK(db, t, E, done, whole)
  /\ \A f \in S : whole => Exact(f, E)
  /\ \A g \in done : FloodFinding(g)
  /\ Lone(S, done)
  => SinkOK(d, t, E, done \cup S, whole)

LEMMA GroupIs ==
  ASSUME NEW V, NEW db \in Tables(V), NEW S, Writable(S, V)
  PROVE  /\ Group(db, S) \in Tables(V)
         /\ \A t, E, done : \A whole \in BOOLEAN : Adds(db, Group(db, S), t, E, done, S, whole)
<1> DEFINE Entry(k, s) == IF s = {} THEN db ELSE Flood!Write(k[s \ {CHOOSE x \in s : TRUE}], CHOOSE x \in s : TRUE)
           IsFold(k) == k = [s \in SUBSET S |-> Entry(k, s)]
           h == CHOOSE k : IsFold(k)
           pick == [s \in SUBSET S |-> CHOOSE x \in s : TRUE]
<1>1. Group(db, S) = h[S]
  BY Zenon DEF Group, Flood!FoldSet, Flood!MapThenFoldSet
<1>2. IsFiniteSet(S) /\ \A f \in S : FloodFinding(f) /\ f.severity \in V
  BY DEF Writable
<1>3. \A s \in SUBSET S : pick[s] = CHOOSE x \in s : TRUE
  OBVIOUS
<1>4. \A s \in SUBSET S : s # {} => pick[s] \in s
  BY <1>3
<1>5. \A k, s : s \in SUBSET S => Entry(k, s) = IF s = {} THEN db ELSE Flood!Write(k[s \ {pick[s]}], pick[s])
  <2> HIDE DEF pick
  <2>1. SUFFICES ASSUME NEW k, NEW s \in SUBSET S
                 PROVE  Entry(k, s) = IF s = {} THEN db ELSE Flood!Write(k[s \ {pick[s]}], pick[s])
    OBVIOUS
  <2>2. (CHOOSE x \in s : TRUE) = pick[s]
    BY <1>3
  <2>3. QED
    BY Zenon, <2>2
<1> HIDE DEF pick, Entry
<1>6. \E k : IsFold(k)
  <2> DEFINE B == Tables(V)
             step == [p \in B \X S |-> Flood!Write(p[1], p[2])]
  <2>1. \A a \in B, f \in S : Flood!Write(a, f) \in B
    BY <1>2, WriteTyped
  <2> HIDE DEF B
  <2>2. \A a \in B, x \in S : step[<<a, x>>] \in B /\ step[<<a, x>>] = Flood!Write(a, x)
    BY <2>1
  <2> HIDE DEF step
  <2>3. PICK k : FoldOf(k, S, B, db, pick, step)
    <3>1. db \in B
      BY DEF B
    <3>2. QED
      BY <1>2, <1>4, <2>2, <3>1, FoldExists
  <2>4. /\ k \in [SUBSET S -> B] /\ k[{}] = db
        /\ \A s \in SUBSET S : s # {} => k[s] = step[<<k[s \ {pick[s]}], pick[s]>>]
    BY <2>3 DEF FoldOf
  <2>5. \A s \in SUBSET S : k[s] = Entry(k, s)
    <3>1. SUFFICES ASSUME NEW s \in SUBSET S PROVE k[s] = Entry(k, s)
      OBVIOUS
    <3>2. CASE s = {}
      BY <1>5, <2>4, <3>2
    <3>3. CASE s # {}
      <4>1. pick[s] \in S /\ k[s \ {pick[s]}] \in B
        BY <1>4, <2>4, <3>3
      <4>2. k[s] = Flood!Write(k[s \ {pick[s]}], pick[s])
        BY <2>2, <2>4, <3>3, <4>1
      <4>3. QED
        BY <1>5, <3>3, <4>2
    <3>4. QED
      BY <3>2, <3>3
  <2>6. k = [s \in SUBSET S |-> Entry(k, s)]
    BY <2>4, <2>5
  <2>7. QED
    BY <2>6
<1>7. IsFold(h)
  <2> HIDE DEF IsFold
  <2>1. QED
    BY <1>6
<1>8. \A s \in SUBSET S : h[s] = Entry(h, s)
  <2> HIDE DEF h
  <2>1. QED
    BY <1>7
<1> HIDE DEF h, IsFold
<1>9. h[{}] = db /\ \A s \in SUBSET S : s # {} => h[s] = Flood!Write(h[s \ {pick[s]}], pick[s])
  BY <1>5, <1>8
<1>10. \A s \in SUBSET S : h[s] \in Tables(V)
  <2> DEFINE Bad == {s \in SUBSET S : h[s] \notin Tables(V)}
  <2>1. {} \notin Bad
    BY <1>9
  <2>2. ASSUME NEW s \in SUBSET S, s # {}, s \ {pick[s]} \notin Bad PROVE s \notin Bad
    <3>1. pick[s] \in S /\ s \ {pick[s]} \in SUBSET S
      BY <1>4, <2>2
    <3>2. h[s \ {pick[s]}] \in Tables(V)
      BY <2>2, <3>1
    <3>3. PICK d, f : d = h[s \ {pick[s]}] /\ f = pick[s]
      OBVIOUS
    <3>4. Flood!Write(d, f) \in Tables(V)
      BY <1>2, <3>1, <3>2, <3>3, WriteTyped
    <3>5. h[s] = Flood!Write(d, f)
      BY <1>9, <2>2, <3>3
    <3>6. QED
      BY <3>4, <3>5
  <2>3. Bad \subseteq SUBSET S
    OBVIOUS
  <2> HIDE DEF Bad
  <2>4. Bad = {}
    BY <1>2, <1>4, <2>1, <2>2, <2>3, TakeOut
  <2>5. QED
    BY <2>4 DEF Bad
<1>11. ASSUME NEW t, FloodRows(t), NEW E, E \subseteq FloodEvents, NEW done, NEW whole \in BOOLEAN,
              SinkOK(db, t, E, done, whole), \A f \in S : whole => Exact(f, E),
              \A g \in done : FloodFinding(g), Lone(S, done)
       PROVE  SinkOK(h[S], t, E, done \cup S, whole)
  <2> DEFINE Bad == {s \in SUBSET S : ~SinkOK(h[s], t, E, done \cup s, whole)}
  <2>1. {} \notin Bad
    <3>1. done \cup {} = done
      OBVIOUS
    <3>2. QED
      BY <1>9, <1>11, <3>1
  <2>2. ASSUME NEW s \in SUBSET S, s # {}, s \ {pick[s]} \notin Bad PROVE s \notin Bad
    <3>1. PICK f, u : f = pick[s] /\ u = s \ {pick[s]}
      OBVIOUS
    <3>2. f \in S /\ u \in SUBSET S /\ f \notin u /\ (done \cup u) \cup {f} = done \cup s
      BY <1>4, <2>2, <3>1
    <3>3. SinkOK(h[u], t, E, done \cup u, whole)
      BY <2>2, <3>1, <3>2
    <3>4. \A g \in done \cup u : FloodFinding(g) /\ Clear(f, g)
      BY <1>2, <1>11, <3>2 DEF Lone
    <3>5. h[u].ok \in BOOLEAN
      BY <1>10, <3>2 DEF Tables
    <3>6. PICK d : d = h[u]
      OBVIOUS
    <3>7. SinkOK(Flood!Write(d, f), t, E, (done \cup u) \cup {f}, whole)
      BY <1>2, <1>11, <3>2, <3>3, <3>4, <3>5, <3>6, WriteDoes
    <3>8. h[s] = Flood!Write(d, f)
      BY <1>9, <2>2, <3>1, <3>6
    <3>9. QED
      BY <3>2, <3>7, <3>8
  <2>3. Bad \subseteq SUBSET S
    OBVIOUS
  <2> HIDE DEF Bad
  <2>4. Bad = {}
    BY <1>2, <1>4, <2>1, <2>2, <2>3, TakeOut
  <2>5. S \notin Bad
    BY <2>4
  <2>6. QED
    BY <2>5 DEF Bad
<1>12. Group(db, S) \in Tables(V)
  <2>1. S \in SUBSET S
    OBVIOUS
  <2>2. QED
    BY <1>1, <1>10, <2>1
<1>13. \A t, E, done : \A whole \in BOOLEAN : Adds(db, h[S], t, E, done, S, whole)
  BY <1>11 DEF Adds
<1>14. QED
  BY <1>1, <1>12, <1>13

\* All findings are written, those of one start after those of an earlier one.
LEMMA SinkIs ==
  ASSUME NEW t, FloodRows(t), NEW F, IsFiniteSet(F), \A f \in F : FloodFinding(f),
         NEW E, E \subseteq FloodEvents, NEW whole \in BOOLEAN, whole => One(t, E), \A f \in F : whole => Exact(f, E),
         \A f, g \in F : f # g => Clear(f, g)
  PROVE  SinkOK(Flood!Sink(t, F), t, E, F, whole)
<1> DEFINE V == {r.severity : r \in t} \cup {f.severity : f \in F}
           T == {f.start : f \in F}
           At(x) == {f \in F : f.start = x}
           base == [ok |-> TRUE, rows |-> t]
<1>1. \A f \in F : f.severity \in V
  OBVIOUS
<1>2. base \in Tables(V)
  <2>1. \A r \in t : r.severity \in V /\ FloodRow(r)
    BY DEF FloodRows
  <2> HIDE DEF V
  <2>2. t \subseteq RowSet(V)
    BY <2>1, RowOf
  <2>3. PICK R : R = {u \in SUBSET RowSet(V) : FloodRows(u)}
    OBVIOUS
  <2>4. t \in R
    BY <2>2, <2>3
  <2>5. [ok |-> TRUE, rows |-> t] \in [ok : BOOLEAN, rows : R]
    BY Zenon, <2>4
  <2>6. QED
    BY Zenon, <2>3, <2>5 DEF Tables
<1>3. IsFiniteSet(T) /\ T \subseteq Int
  <2>1. \A f \in F : f.start \in Int
    BY DEF FloodFinding
  <2> DEFINE g == [f \in F |-> f.start]
  <2>2. g \in Surjection(F, T)
    BY DEF Surjection
  <2>3. IsFiniteSet(T)
    <3> HIDE DEF g, T
    <3>1. QED
      BY <2>2, FS_Surjection
  <2>4. QED
    BY <2>1, <2>3
<1>4. PICK A, n : A = Rules!Ascending(T) /\ n \in Nat /\ Rising(A, n, T)
  <2> HIDE DEF T
  <2>1. QED
    BY <1>3, AscendingIs
<1>5. /\ A \in [1..n -> T] /\ DOMAIN A = 1..n /\ (\A i, j \in 1..n : i < j => A[i] < A[j])
      /\ \A x \in T : \E i \in 1..n : A[i] = x
  BY <1>4 DEF Rising
<1>6. \A i, j \in 1..n : A[i] = A[j] => i = j
  <2>1. SUFFICES ASSUME NEW i \in 1..n, NEW j \in 1..n, A[i] = A[j] PROVE i = j
    OBVIOUS
  <2>2. A[i] \in Int /\ i \in Int /\ j \in Int /\ (i < j => A[i] < A[j]) /\ (j < i => A[j] < A[i])
    BY <1>3, <1>5
  <2>3. QED
    BY <2>1, <2>2
<1>7. \A x : Writable(At(x), V)
  <2>1. SUFFICES ASSUME NEW x PROVE Writable(At(x), V)
    OBVIOUS
  <2>2. IsFiniteSet(At(x)) /\ \A f \in At(x) : FloodFinding(f) /\ f.severity \in V
    <3>1. At(x) \in SUBSET F
      OBVIOUS
    <3> HIDE DEF At, V
    <3>2. QED
      BY <1>1, <3>1, FS_Subset
  <2> HIDE DEF At, V
  <2>3. QED
    BY <2>2 DEF Writable
<1> DEFINE S == 1..n
           Entry(k, s) == IF s = {} THEN base ELSE Group(k[s \ {Rules!Max(s)}], At(A[Rules!Max(s)]))
           IsFold(k) == k = [s \in SUBSET S |-> Entry(k, s)]
           h == CHOOSE k : IsFold(k)
           pick == [s \in SUBSET S |-> Rules!Max(s)]
<1>8. Flood!Sink(t, F) = h[S]
  <2>1. Flood!Ascending(T) = A
    BY Zenon, <1>4, SameRules
  <2>2. Flood!Sink(t, F) = Flood!FoldLeft(LAMBDA db, x : Group(db, At(x)), base, A)
    BY Zenon, <2>1 DEF Flood!Sink, Group
  <2>3. Flood!FoldLeft(LAMBDA db, x : Group(db, At(x)), base, A) =
          (CHOOSE k : k = [s \in SUBSET (DOMAIN A) |-> Entry(k, s)])[DOMAIN A]
    <3> HIDE DEF At, base
    <3>1. QED
      BY Zenon DEF Flood!FoldLeft, Flood!MapThenFoldSet, Flood!Max, Rules!Max
  <2>4. QED
    BY Zenon, <1>5, <2>2, <2>3
<1>9. \A s \in SUBSET S : s # {} => Rules!Max(s) \in s
  <2>1. SUFFICES ASSUME NEW s \in SUBSET S, s # {} PROVE Rules!Max(s) \in s
    OBVIOUS
  <2>2. IsFiniteSet(S) /\ S \subseteq Int
    BY <1>4, UpTo
  <2> HIDE DEF S
  <2>3. IsFiniteSet(s) /\ s \subseteq Int
    BY <2>2, FS_Subset
  <2>4. QED
    BY <2>1, <2>3, MaxMinAre
<1>10. \A s \in SUBSET S : pick[s] = Rules!Max(s)
  OBVIOUS
<1>11. IsFiniteSet(S) /\ S = 1..n
  BY <1>4, UpTo
<1> HIDE DEF V, T, At, base, S, pick, Entry
<1>12. \A k, s : s \in SUBSET S => Entry(k, s) = IF s = {} THEN base ELSE Group(k[s \ {pick[s]}], At(A[pick[s]]))
  <2>1. SUFFICES ASSUME NEW k, NEW s \in SUBSET S
                 PROVE  Entry(k, s) = IF s = {} THEN base ELSE Group(k[s \ {pick[s]}], At(A[pick[s]]))
    OBVIOUS
  <2>2. Rules!Max(s) = pick[s]
    BY <1>10
  <2>3. QED
    BY Zenon, <2>2 DEF Entry
<1>13. \E k : IsFold(k)
  <2> DEFINE B == Tables(V)
             step == [p \in B \X S |-> Group(p[1], At(A[p[2]]))]
  <2>1. \A a \in B, i \in S : Group(a, At(A[i])) \in B
    BY <1>7, GroupIs
  <2> HIDE DEF B
  <2>2. \A a \in B, i \in S : step[<<a, i>>] \in B /\ step[<<a, i>>] = Group(a, At(A[i]))
    BY <2>1
  <2> HIDE DEF step
  <2>3. PICK k : FoldOf(k, S, B, base, pick, step)
    <3>1. base \in B
      BY <1>2 DEF B
    <3>2. \A s \in SUBSET S : s # {} => pick[s] \in s
      BY <1>9, <1>10
    <3>3. QED
      BY <1>11, <2>2, <3>1, <3>2, FoldExists
  <2>4. /\ k \in [SUBSET S -> B] /\ k[{}] = base
        /\ \A s \in SUBSET S : s # {} => k[s] = step[<<k[s \ {pick[s]}], pick[s]>>]
    BY <2>3 DEF FoldOf
  <2>5. \A s \in SUBSET S : k[s] = Entry(k, s)
    <3>1. SUFFICES ASSUME NEW s \in SUBSET S PROVE k[s] = Entry(k, s)
      OBVIOUS
    <3>2. CASE s = {}
      BY <1>12, <2>4, <3>2
    <3>3. CASE s # {}
      <4>1. pick[s] \in S /\ k[s \ {pick[s]}] \in B
        BY <1>9, <1>10, <2>4, <3>3
      <4>2. k[s] = Group(k[s \ {pick[s]}], At(A[pick[s]]))
        BY <2>2, <2>4, <3>3, <4>1
      <4>3. QED
        BY <1>12, <3>3, <4>2
    <3>4. QED
      BY <3>2, <3>3
  <2>6. k = [s \in SUBSET S |-> Entry(k, s)]
    BY <2>4, <2>5
  <2>7. QED
    BY <2>6
<1>14. IsFold(h)
  <2> HIDE DEF IsFold
  <2>1. QED
    BY <1>13
<1>15. \A s \in SUBSET S : h[s] = Entry(h, s)
  <2> HIDE DEF h
  <2>1. QED
    BY <1>14
<1> HIDE DEF h, IsFold
<1>16. h[{}] = base /\ \A s \in SUBSET S : s # {} => h[s] = Group(h[s \ {pick[s]}], At(A[pick[s]]))
  BY <1>12, <1>15
<1> DEFINE Told(s) == {f \in F : \E i \in s : f.start = A[i]}
           Sound(s) == h[s] \in Tables(V) /\ SinkOK(h[s], t, E, Told(s), whole)
           Bad == {s \in SUBSET S : ~Sound(s)}
<1>17. {} \notin Bad
  <2>1. Told({}) = {}
    OBVIOUS
  <2>2. base.ok = TRUE /\ base.rows = t
    BY DEF base
  <2>3. Kept(t, t, whole)
    BY KeptSame
  <2>4. SinkOK(base, t, E, {}, whole)
    BY <2>2, <2>3 DEF SinkOK, Named
  <2>5. Sound({})
    <3> HIDE DEF Told
    <3>1. QED
      BY <1>2, <1>16, <2>1, <2>4
  <2>6. QED
    BY <2>5
<1>18. ASSUME NEW s \in SUBSET S, s # {}, s \ {pick[s]} \notin Bad PROVE s \notin Bad
  <2>1. PICK i, u : i = pick[s] /\ u = s \ {pick[s]}
    OBVIOUS
  <2>2. i \in S /\ i \in s /\ u \in SUBSET S /\ i \notin u
    BY <1>9, <1>10, <1>18, <2>1
  <2>3. PICK G, d : G = At(A[i]) /\ d = h[u]
    OBVIOUS
  <2>4. Sound(u)
    BY <1>18, <2>1, <2>2
  <2>5. Told(u) \cup G = Told(s)
    BY <2>1, <2>2, <2>3 DEF At
  <2>6. \A f \in G, g \in Told(u) : f # g
    BY <1>6, <1>11, <2>2, <2>3 DEF At
  <2>7. Lone(G, Told(u))
    <3>1. G \subseteq F /\ Told(u) \subseteq F
      BY <2>3 DEF At
    <3> HIDE DEF Told
    <3>2. QED
      BY <2>6, <3>1 DEF Lone
  <2>8. Writable(G, V)
    BY <1>7, <2>3
  <2>9. (\A f \in G : whole => Exact(f, E)) /\ \A g \in Told(u) : FloodFinding(g)
    BY <2>3 DEF At
  <2>10. h[s] = Group(d, G)
    BY <1>16, <1>18, <2>1, <2>3
  <2>11. d \in Tables(V) /\ SinkOK(d, t, E, Told(u), whole)
    BY <2>3, <2>4
  <2> HIDE DEF Told
  <2>12. Group(d, G) \in Tables(V) /\ Adds(d, Group(d, G), t, E, Told(u), G, whole)
    BY <2>8, <2>11, GroupIs
  <2>13. SinkOK(Group(d, G), t, E, Told(u) \cup G, whole)
    BY <2>7, <2>9, <2>11, <2>12 DEF Adds
  <2>14. QED
    BY <2>5, <2>10, <2>12, <2>13
<1>19. Bad = {}
  <2>1. Bad \subseteq SUBSET S
    OBVIOUS
  <2>2. \A s \in SUBSET S : s # {} => pick[s] \in s
    BY <1>9, <1>10
  <2>3. IsFiniteSet(S)
    BY <1>11
  <2>4. \A s \in SUBSET S : s # {} /\ s \ {pick[s]} \notin Bad => s \notin Bad
    BY <1>18
  <2> HIDE DEF Bad
  <2>5. QED
    BY <1>17, <2>1, <2>2, <2>3, <2>4, TakeOut
<1>20. Told(S) = F
  BY <1>5, <1>11 DEF T
<1>21. Sound(S)
  <2>1. S \in SUBSET S
    OBVIOUS
  <2> HIDE DEF Sound
  <2>2. QED
    BY <1>19, <2>1
<1>22. QED
  BY <1>8, <1>20, <1>21

-----------------------------------------------------------------------------
(* The grade: an episode that is graded is a candidate.                     *)

LEMMA Threshold ==
  ASSUME NEW cdf \in Seq(Int), NEW one \in Int, NEW alpha \in Int, NEW floor \in Int
  PROVE  /\ Flood!PoissonThreshold(cdf, one, alpha, floor) \in Int
         /\ Flood!PoissonThreshold(cdf, one, alpha, floor) >= floor
<1> DEFINE above == {x \in 0..(Len(cdf) - 1) : cdf[x + 1] > one - alpha}
           stop == IF above = {} THEN Len(cdf) - 1 ELSE Flood!Min(above)
<1>1. Flood!PoissonThreshold(cdf, one, alpha, floor) =
        IF cdf = <<>> THEN floor ELSE Flood!Max({floor, stop + 1})
  BY Zenon DEF Flood!PoissonThreshold
<1>2. Len(cdf) \in Nat
  BY LenProperties
<1>3. stop \in Int
  <2>1. CASE above = {}
    BY <1>2, <2>1
  <2>2. CASE above # {}
    <3>1. IsFiniteSet(0..(Len(cdf) - 1))
      BY <1>2, FS_Interval
    <3>2. above \in SUBSET (0..(Len(cdf) - 1)) /\ above \subseteq Int
      OBVIOUS
    <3> HIDE DEF above
    <3>3. IsFiniteSet(above)
      BY <3>1, <3>2, FS_Subset
    <3>4. Rules!Min(above) \in above
      BY <2>2, <3>2, <3>3, MaxMinAre
    <3>5. Flood!Min(above) \in Int
      BY <3>2, <3>4, SameRules
    <3>6. QED
      BY <2>2, <3>5 DEF stop
  <2>3. QED
    BY <2>1, <2>2
<1>4. Flood!Max({floor, stop + 1}) \in Int /\ Flood!Max({floor, stop + 1}) >= floor
  <2> HIDE DEF stop
  <2>1. PICK c \in Int : c = stop + 1
    BY <1>3
  <2>2. PICK S : S = {floor} \cup {c}
    OBVIOUS
  <2>3. S \subseteq Int /\ S # {} /\ floor \in S
    BY <2>2
  <2>4. IsFiniteSet(S)
    BY <2>2, FS_Singleton, FS_Union
  <2>5. Rules!Max(S) \in S /\ \A x \in S : x <= Rules!Max(S)
    BY <2>3, <2>4, MaxMinAre
  <2>6. Flood!Max(S) \in Int /\ Flood!Max(S) >= floor
    BY <2>3, <2>5, SameRules
  <2>7. S = {floor, stop + 1}
    BY <2>1, <2>2
  <2>8. QED
    BY <2>6, <2>7
<1> HIDE DEF stop
<1>5. QED
  BY <1>1, <1>4

LEMMA BaselineIs ==
  ASSUME NEW E, E \subseteq FloodEvents, NEW ap, NEW w, w[1] \in Int, w[2] \in Int
  PROVE  Flood!Baseline(ap, E, w) \in Seq(Int)
<1> DEFINE from == w[1] - Lookback
           Seen(to) == Flood!Cardinality(Flood!InRange(Flood!Polls(ap, E), from, to))
           to == IF Seen(w[1]) < MinActive THEN Flood!ScanOf(w)[2] ELSE w[1]
           counts == 0..Cardinality(AllPolls)
<1>1. from \in Int
  BY FloodAssumption
<1>2. to \in Int
  <2>1. Flood!ScanOf(w)[2] = w[2] + FloodGap
    BY DEF Flood!ScanOf
  <2>2. Flood!ScanOf(w)[2] \in Int
    BY <2>1, FloodAssumption
  <2> HIDE DEF Seen
  <2>3. QED
    BY <2>2
<1>3. Flood!Baseline(ap, E, w) = Background[<<Flood!Cardinality(Flood!BurstsOf(ap, E, from, to)), Seen(to)>>]
  BY Zenon DEF Flood!Baseline
<1> HIDE DEF to, from
<1>4. Seen(to) \in counts
  BY <1>1, <1>2, PollsAre, SameRules
<1>5. Flood!Cardinality(Flood!BurstsOf(ap, E, from, to)) \in counts
  BY <1>1, <1>2, BurstsAre, SameRules
<1>6. Background \in [counts \X counts -> Seq(Int)]
  BY FloodAssumption DEF AllPolls
<1>7. PICK x, y : x = Flood!Cardinality(Flood!BurstsOf(ap, E, from, to)) /\ y = Seen(to)
  OBVIOUS
<1> HIDE DEF counts, Seen
<1>8. Background[<<x, y>>] \in Seq(Int)
  BY <1>4, <1>5, <1>6, <1>7
<1>9. QED
  BY Zenon, <1>3, <1>7, <1>8

LEMMA BurstsCount ==
  ASSUME NEW d, Spans(d)
  PROVE  Flood!MaxBursts(d) \in Nat
<1>1. PICK B : B = Flood!OfKind("burst", d)
  OBVIOUS
<1>2. B \subseteq d
  BY <1>1 DEF Flood!OfKind
<1>3. IsFiniteSet(B) /\ \A e \in B : e.ts \in Int
  BY <1>2, FS_Subset DEF Spans
<1>4. PICK s : s = Rules!SortedTs(B)
  OBVIOUS
<1>5. PICK n \in Nat : Sorted(s, n, B)
  BY <1>3, <1>4, SortedIs
<1>6. s \in [1..n -> Int]
  <2>1. Rules!Times(B) \subseteq Int
    BY <1>3, TimesAre
  <2>2. s \in [1..n -> Rules!Times(B)]
    BY <1>5 DEF Sorted
  <2>3. QED
    BY <2>1, <2>2
<1>7. Rules!MaxInWindow(s, BurstWindow) \in Nat
  BY <1>6, FloodAssumption, WindowCount
<1>8. Flood!MaxBursts(d) = Rules!MaxInWindow(s, BurstWindow)
  BY Zenon, <1>1, <1>4, SameRules DEF Flood!MaxBursts
<1>9. QED
  BY <1>7, <1>8

LEMMA GradedIsCandidate ==
  ASSUME NEW E, E \subseteq FloodEvents, NEW ap, NEW w, w[1] \in Int, w[2] \in Int, NEW d, Spans(d),
         Flood!Assess(ap, d, E, w) # "none"
  PROVE  Flood!OfKind("alert", d) # {} \/ Flood!MaxBursts(d) >= MinBursts
<1>1. PICK limit : limit = Flood!PoissonThreshold(Flood!Baseline(ap, E, w), CdfUnit, Alpha, MinBursts)
  OBVIOUS
<1>2. Flood!OfKind("alert", d) # {} \/ Flood!MaxBursts(d) >= limit
  BY Zenon, <1>1 DEF Flood!Assess
<1>3. limit \in Int /\ limit >= MinBursts
  BY <1>1, BaselineIs, Threshold, FloodAssumption
<1>4. Flood!MaxBursts(d) \in Nat /\ MinBursts \in Int
  BY BurstsCount, FloodAssumption
<1>5. QED
  BY <1>2, <1>3, <1>4

-----------------------------------------------------------------------------
(* The findings of a run: of each access point one for each episode that is  *)
(* graded.                                                                  *)
Scanned(ap, E, w) == Flood!Episodes(ap, E, Flood!ScanOf(w))
Graded(ap, E, w) == {d \in Scanned(ap, E, w) : Flood!Candidate(d, w) /\ Flood!Assess(ap, d, E, w) # "none"}

FoundOK(F, E, w) ==
  /\ IsFiniteSet(F) /\ \A f \in F : FloodFinding(f)
  /\ \A f, g \in F : f # g => Clear(f, g)
  /\ \A f \in F : \E ep \in Scanned(f.ap, E, w) : About(f, ep)
  /\ \A f \in F : f.by = Flood!NamedBy(f.ap, E)
  /\ \A ap \in FloodAps : \A ep \in Graded(ap, E, w) :
       \E f \in F : f.ap = ap /\ About(f, ep) /\ f.severity = Flood!Assess(ap, ep, E, w)

LEMMA ScannedSilent ==
  ASSUME NEW E, E \subseteq FloodEvents, NEW ap, NEW w, w[1] \in Int, w[2] \in Int
  PROVE  Silent(Scanned(ap, E, w))
<1>1. PICK s : s = Flood!ScanOf(w)
  OBVIOUS
<1>2. s[1] = w[1] - FloodGap /\ s[2] = w[2] + FloodGap
  BY <1>1 DEF Flood!ScanOf
<1>3. s[1] \in Int /\ s[2] \in Int
  BY <1>2, FloodAssumption
<1>4. QED
  BY <1>1, <1>3, EpisodesSilent DEF Scanned

LEMMA FindingsAre ==
  ASSUME NEW E, E \subseteq FloodEvents, NEW w, w[1] \in Int, w[2] \in Int
  PROVE  FoundOK(Flood!FindingsOf(E, w), E, w)
<1> DEFINE Finding(ap, d) == [ap |-> ap, by |-> Flood!NamedBy(ap, E), start |-> Flood!FirstTs(d), end |-> Flood!LastTs(d),
                              severity |-> Flood!Assess(ap, d, E, w)]
           Found(ap) == {Finding(ap, d) : d \in Graded(ap, E, w)}
           Each == {Found(ap) : ap \in FloodAps}
           F == UNION Each
<1>1. Flood!FindingsOf(E, w) = F
  BY Zenon DEF Flood!FindingsOf, Graded, Scanned
<1>2. \A ap : Silent(Scanned(ap, E, w)) /\ Graded(ap, E, w) \subseteq Scanned(ap, E, w)
  BY ScannedSilent DEF Graded
<1>3. \A ap : \A d : /\ Finding(ap, d).ap = ap /\ Finding(ap, d).by = Flood!NamedBy(ap, E)
                     /\ About(Finding(ap, d), d)
                     /\ Finding(ap, d).severity = Flood!Assess(ap, d, E, w)
  BY DEF About
<1>4. ASSUME NEW ap \in FloodAps, NEW d \in Scanned(ap, E, w) PROVE FloodFinding(Finding(ap, d))
  <2>1. PICK a \in Int, b \in Int : a = Flood!FirstTs(d) /\ b = Flood!LastTs(d) /\ a <= b
    BY <1>2 DEF Silent, Spans
  <2>2. PICK s : s = Flood!Assess(ap, d, E, w)
    OBVIOUS
  <2>3. PICK by \in Subjects : by = Flood!NamedBy(ap, E)
    BY DEF Flood!NamedBy, Subjects
  <2>4. Finding(ap, d) = [ap |-> ap, by |-> by, start |-> a, end |-> b, severity |-> s]
    BY Zenon, <2>1, <2>2, <2>3
  <2> HIDE DEF Finding
  <2>5. QED
    BY <2>1, <2>4 DEF FloodFinding
<1> HIDE DEF Finding
<1>5. \A ap : IsFiniteSet(Found(ap))
  <2>1. SUFFICES ASSUME NEW ap PROVE IsFiniteSet(Found(ap))
    OBVIOUS
  <2>2. PICK D : D = Graded(ap, E, w)
    OBVIOUS
  <2>3. IsFiniteSet(D)
    BY <1>2, <2>2, FS_Subset DEF Silent
  <2> DEFINE g == [d \in D |-> Finding(ap, d)]
  <2>4. g \in Surjection(D, Found(ap))
    BY <2>2 DEF Surjection
  <2> HIDE DEF g, Found
  <2>5. QED
    BY <2>3, <2>4, FS_Surjection
<1>6. IsFiniteSet(F)
  <2> DEFINE g == [ap \in FloodAps |-> Found(ap)]
  <2> HIDE DEF Found
  <2>1. g \in Surjection(FloodAps, Each)
    BY DEF Surjection
  <2>2. IsFiniteSet(FloodAps)
    BY FloodAssumption
  <2>3. IsFiniteSet(Each)
    <3> HIDE DEF g, Each
    <3>1. QED
      BY <2>1, <2>2, FS_Surjection
  <2>4. \A S \in Each : IsFiniteSet(S)
    BY <1>5
  <2> HIDE DEF Each
  <2>5. QED
    BY <2>3, <2>4, FS_UNION
<1>7. \A f \in F : \E ap \in FloodAps : \E d \in Graded(ap, E, w) : f = Finding(ap, d)
  OBVIOUS
<1>8. \A ap \in FloodAps : \A d \in Graded(ap, E, w) : Finding(ap, d) \in F
  <2>1. SUFFICES ASSUME NEW ap \in FloodAps, NEW d \in Graded(ap, E, w) PROVE Finding(ap, d) \in F
    OBVIOUS
  <2>2. Finding(ap, d) \in Found(ap) /\ Found(ap) \in Each
    OBVIOUS
  <2> HIDE DEF Found, Each
  <2>3. QED
    BY <2>2
<1> HIDE DEF F, Found, Each
<1>9. \A f \in F : FloodFinding(f)
  BY <1>2, <1>4, <1>7
<1>10. ASSUME NEW f \in F, NEW g \in F, f # g PROVE Clear(f, g)
  <2>1. PICK x \in FloodAps : \E d \in Graded(x, E, w) : f = Finding(x, d)
    BY <1>7
  <2>2. PICK d \in Graded(x, E, w) : f = Finding(x, d)
    BY <2>1
  <2>3. PICK y \in FloodAps : \E e \in Graded(y, E, w) : g = Finding(y, e)
    BY <1>7
  <2>4. PICK e \in Graded(y, E, w) : g = Finding(y, e)
    BY <2>3
  <2>5. f.ap = x /\ g.ap = y /\ About(f, d) /\ About(g, e)
    BY <1>3, <2>2, <2>4
  <2>6. CASE x # y
    BY <2>5, <2>6 DEF Clear
  <2>7. CASE x = y
    <3>1. d # e
      BY <1>10, <2>2, <2>4, <2>7
    <3>2. Apart(d, e)
      BY <1>2, <2>2, <2>4, <2>7, <3>1 DEF Silent
    <3>3. QED
      BY <2>5, <3>2 DEF Apart, About, Clear
  <2>8. QED
    BY <2>6, <2>7
<1>11. ASSUME NEW f \in F PROVE \E ep \in Scanned(f.ap, E, w) : About(f, ep)
  <2>1. PICK x \in FloodAps : \E d \in Graded(x, E, w) : f = Finding(x, d)
    BY <1>7
  <2>2. PICK d \in Graded(x, E, w) : f = Finding(x, d)
    BY <2>1
  <2>3. f.ap = x /\ About(f, d)
    BY <1>3, <2>2
  <2>4. d \in Scanned(f.ap, E, w)
    BY <1>2, <2>2, <2>3
  <2>5. QED
    BY <2>3, <2>4
<1>12. ASSUME NEW ap \in FloodAps, NEW ep \in Graded(ap, E, w)
       PROVE  \E f \in F : f.ap = ap /\ About(f, ep) /\ f.severity = Flood!Assess(ap, ep, E, w)
  BY <1>3, <1>8
<1>13. \A f \in F : f.by = Flood!NamedBy(f.ap, E)
  BY <1>3, <1>7
<1>14. FoundOK(F, E, w)
  BY <1>6, <1>9, <1>10, <1>11, <1>12, <1>13 DEF FoundOK
<1>15. QED
  BY <1>1, <1>14
-----------------------------------------------------------------------------
(* The invariant: what has been written lies one to one in the episodes of   *)
(* what is there, unless one was cut or joined; and the run under way has    *)
(* whole episodes of what it had read, and these only gain.                  *)
FloodInv ==
  /\ seen \subseteq FloodEvents /\ FloodRows(detected)
  /\ bridged \in BOOLEAN /\ cut \in BOOLEAN /\ scan.on \in BOOLEAN
  /\ scan.on => /\ scan.window \in FloodWindows /\ scan.seen \subseteq FloodEvents
                /\ scan.findings = Flood!FindingsOf(scan.seen, scan.window)
  /\ ~cut /\ ~bridged => One(detected, seen)
  /\ ~cut /\ ~bridged /\ scan.on => One(detected, scan.seen) /\ Stays(scan.seen, seen)
  /\ ~cut /\ scan.on => \A ap \in FloodAps : Scanned(ap, scan.seen, scan.window) \subseteq Flood!Whole(ap, scan.seen)


LEMMA WindowIs ==
  ASSUME NEW w \in FloodWindows
  PROVE  w[1] \in Int /\ w[2] \in Int
BY FloodAssumption

LEMMA FloodInit == Flood!Init => FloodInv
<1>1. SUFFICES ASSUME Flood!Init PROVE FloodInv
  OBVIOUS
<1>2. seen = {} /\ detected = {} /\ scan = [on |-> FALSE] /\ bridged = FALSE /\ cut = FALSE
  BY Zenon, <1>1 DEF Flood!Init, Flood!Idle
<1>3. FloodRows({})
  BY FS_EmptySet DEF FloodRows
<1>4. One({}, seen)
  BY DEF One, Flood!RowsOf
<1>5. QED
  BY <1>2, <1>3, <1>4 DEF FloodInv

LEMMA FloodStays ==
  ASSUME FloodInv, UNCHANGED floodVars
  PROVE  FloodInv'
<1>1. seen' = seen /\ scan' = scan /\ bridged' = bridged /\ cut' = cut /\ detected' = detected
  BY DEF floodVars
<1>2. /\ seen \subseteq FloodEvents /\ FloodRows(detected)
      /\ bridged \in BOOLEAN /\ cut \in BOOLEAN /\ scan.on \in BOOLEAN
      /\ scan.on => /\ scan.window \in FloodWindows /\ scan.seen \subseteq FloodEvents
                    /\ scan.findings = Flood!FindingsOf(scan.seen, scan.window)
      /\ ~cut /\ ~bridged => One(detected, seen)
      /\ ~cut /\ ~bridged /\ scan.on => One(detected, scan.seen) /\ Stays(scan.seen, seen)
      /\ ~cut /\ scan.on => \A ap \in FloodAps : Scanned(ap, scan.seen, scan.window) \subseteq Flood!Whole(ap, scan.seen)
  BY DEF FloodInv
<1>3. PICK E, B, D, S, C : E = seen' /\ B = bridged' /\ D = detected' /\ S = scan' /\ C = cut'
  OBVIOUS
<1>4. /\ E \subseteq FloodEvents /\ FloodRows(D)
      /\ B \in BOOLEAN /\ C \in BOOLEAN /\ S.on \in BOOLEAN
      /\ S.on => /\ S.window \in FloodWindows /\ S.seen \subseteq FloodEvents
                 /\ S.findings = Flood!FindingsOf(S.seen, S.window)
      /\ ~C /\ ~B => One(D, E)
      /\ ~C /\ ~B /\ S.on => One(D, S.seen) /\ Stays(S.seen, E)
      /\ ~C /\ S.on => \A ap \in FloodAps : Scanned(ap, S.seen, S.window) \subseteq Flood!Whole(ap, S.seen)
  BY <1>1, <1>2, <1>3
<1>5. QED
  BY <1>3, <1>4 DEF FloodInv

LEMMA FloodArrive ==
  ASSUME FloodInv, NEW x \in FloodEvents, Flood!Arrive(x)
  PROVE  FloodInv'
<1>1. /\ seen' = seen \cup {x} /\ detected' = detected /\ scan' = scan /\ cut' = cut
  BY Zenon DEF Flood!Arrive
<1>2. bridged' = (bridged \/ Flood!Disturbs(x))
  BY Zenon DEF Flood!Arrive
<1>3. /\ seen \subseteq FloodEvents /\ FloodRows(detected)
      /\ bridged \in BOOLEAN /\ cut \in BOOLEAN /\ scan.on \in BOOLEAN
      /\ scan.on => /\ scan.window \in FloodWindows /\ scan.seen \subseteq FloodEvents
                    /\ scan.findings = Flood!FindingsOf(scan.seen, scan.window)
      /\ ~cut /\ ~bridged => One(detected, seen)
      /\ ~cut /\ ~bridged /\ scan.on => One(detected, scan.seen) /\ Stays(scan.seen, seen)
      /\ ~cut /\ scan.on => \A ap \in FloodAps : Scanned(ap, scan.seen, scan.window) \subseteq Flood!Whole(ap, scan.seen)
  BY DEF FloodInv
<1>4. seen \cup {x} \subseteq FloodEvents
  BY <1>3
<1>5. bridged' \in BOOLEAN /\ (~bridged' => ~bridged /\ ~Flood!Disturbs(x))
  BY <1>2, <1>3
<1>6. ~bridged' => Stays(seen, seen \cup {x})
  BY <1>3, <1>5, ArriveStays
<1>7. ~cut /\ ~bridged' => One(detected, seen \cup {x})
  BY <1>3, <1>4, <1>5, <1>6, OneStays
<1>8. ~cut /\ ~bridged' /\ scan.on => One(detected, scan.seen) /\ Stays(scan.seen, seen \cup {x})
  BY <1>3, <1>4, <1>5, <1>6, StaysOn
<1>9. PICK E, B, D, S, C : E = seen' /\ B = bridged' /\ D = detected' /\ S = scan' /\ C = cut'
  OBVIOUS
<1>10. /\ E \subseteq FloodEvents /\ FloodRows(D)
       /\ B \in BOOLEAN /\ C \in BOOLEAN /\ S.on \in BOOLEAN
       /\ S.on => /\ S.window \in FloodWindows /\ S.seen \subseteq FloodEvents
                  /\ S.findings = Flood!FindingsOf(S.seen, S.window)
       /\ ~C /\ ~B => One(D, E)
       /\ ~C /\ ~B /\ S.on => One(D, S.seen) /\ Stays(S.seen, E)
       /\ ~C /\ S.on => \A ap \in FloodAps : Scanned(ap, S.seen, S.window) \subseteq Flood!Whole(ap, S.seen)
  BY <1>1, <1>3, <1>4, <1>5, <1>7, <1>8, <1>9
<1>11. QED
  BY <1>9, <1>10 DEF FloodInv

LEMMA FloodAnalyse ==
  ASSUME FloodInv, NEW w \in FloodWindows, Flood!Analyse(w)
  PROVE  FloodInv'
<1>1. /\ seen' = seen /\ detected' = detected /\ bridged' = bridged
      /\ scan' = [on |-> TRUE, window |-> w, seen |-> seen, findings |-> Flood!FindingsOf(seen, w)]
  BY Zenon DEF Flood!Analyse
<1>2. PICK parts : parts = \E ap \in FloodAps : \E ep \in Scanned(ap, seen, w) : ep \notin Flood!Whole(ap, seen)
  OBVIOUS
<1>3. cut' = (cut \/ parts)
  BY Zenon, <1>2 DEF Flood!Analyse, Scanned
<1>4. parts \in BOOLEAN
  BY Zenon, <1>2
<1>5. ~parts => \A ap \in FloodAps : Scanned(ap, seen, w) \subseteq Flood!Whole(ap, seen)
  BY <1>2
<1>6. /\ seen \subseteq FloodEvents /\ FloodRows(detected)
      /\ bridged \in BOOLEAN /\ cut \in BOOLEAN
      /\ ~cut /\ ~bridged => One(detected, seen)
  BY DEF FloodInv
<1>7. Stays(seen, seen)
  BY <1>6, StaysSame
<1>8. PICK E, B, D, S, C : E = seen' /\ B = bridged' /\ D = detected' /\ S = scan' /\ C = cut'
  OBVIOUS
<1>9. S.on = TRUE /\ S.window = w /\ S.seen = seen /\ S.findings = Flood!FindingsOf(seen, w)
  BY <1>1, <1>8
<1>10. /\ E \subseteq FloodEvents /\ FloodRows(D)
       /\ B \in BOOLEAN /\ C \in BOOLEAN /\ S.on \in BOOLEAN
       /\ S.on => /\ S.window \in FloodWindows /\ S.seen \subseteq FloodEvents
                  /\ S.findings = Flood!FindingsOf(S.seen, S.window)
       /\ ~C /\ ~B => One(D, E)
       /\ ~C /\ ~B /\ S.on => One(D, S.seen) /\ Stays(S.seen, E)
       /\ ~C /\ S.on => \A ap \in FloodAps : Scanned(ap, S.seen, S.window) \subseteq Flood!Whole(ap, S.seen)
  BY <1>1, <1>3, <1>4, <1>5, <1>6, <1>7, <1>8, <1>9
<1>11. QED
  BY <1>8, <1>10 DEF FloodInv

\* A commit keeps what was there and stores what the run has found.
LEMMA CommitDoes ==
  ASSUME FloodInv, Flood!Commit
  PROVE  LET whole == ~cut /\ ~bridged
         IN  /\ FloodRows(detected') /\ Kept(detected, detected', whole)
             /\ whole => One(detected', scan.seen)
             /\ FoundOK(scan.findings, scan.seen, scan.window)
             /\ \A f \in scan.findings : Holds(detected', f)
             /\ Named(detected', detected \cup scan.findings)
<1>1. PICK F, E, w, t : F = scan.findings /\ E = scan.seen /\ w = scan.window /\ t = detected
  OBVIOUS
<1>2. PICK whole \in BOOLEAN : whole = (~cut /\ ~bridged)
  OBVIOUS
<1>3. scan.on
  BY Zenon DEF Flood!Commit
<1>4. PICK db : db = Flood!Sink(t, F)
  OBVIOUS
<1>5. db.ok /\ detected' = db.rows
  BY Zenon, <1>1, <1>4 DEF Flood!Commit
<1>6. /\ E \subseteq FloodEvents /\ FloodRows(t) /\ w \in FloodWindows /\ F = Flood!FindingsOf(E, w)
      /\ whole => One(t, E)
      /\ whole => \A ap \in FloodAps : Scanned(ap, E, w) \subseteq Flood!Whole(ap, E)
  BY <1>1, <1>2, <1>3 DEF FloodInv
<1>7. FoundOK(F, E, w)
  BY <1>6, WindowIs, FindingsAre
<1>8. /\ IsFiniteSet(F) /\ \A f \in F : FloodFinding(f)
      /\ \A f, g \in F : f # g => Clear(f, g)
      /\ \A f \in F : \E ep \in Scanned(f.ap, E, w) : About(f, ep)
  BY <1>7 DEF FoundOK
<1>9. \A f \in F : whole => Exact(f, E)
  <2>1. SUFFICES ASSUME NEW f \in F, whole PROVE Exact(f, E)
    OBVIOUS
  <2>2. f.ap \in FloodAps
    BY <1>8 DEF FloodFinding
  <2>3. QED
    BY <1>6, <1>8, <2>1, <2>2 DEF Exact
<1>10. SinkOK(db, t, E, F, whole)
  BY <1>4, <1>6, <1>8, <1>9, SinkIs
<1>11. /\ FloodRows(db.rows) /\ Kept(t, db.rows, whole)
       /\ whole => One(db.rows, E)
       /\ \A f \in F : Holds(db.rows, f)
       /\ Named(db.rows, t \cup F)
  BY <1>5, <1>10 DEF SinkOK
<1>12. QED
  BY <1>1, <1>2, <1>5, <1>7, <1>11

LEMMA FloodCommit ==
  ASSUME FloodInv, Flood!Commit
  PROVE  FloodInv'
<1>1. PICK u : u = detected'
  OBVIOUS
<1>2. FloodRows(u) /\ (~cut /\ ~bridged => One(u, scan.seen))
  BY <1>1, CommitDoes
<1>3. /\ seen' = seen /\ scan' = [on |-> FALSE] /\ bridged' = bridged /\ cut' = cut
  BY Zenon DEF Flood!Commit, Flood!Idle
<1>4. scan.on
  BY Zenon DEF Flood!Commit
<1>5. /\ seen \subseteq FloodEvents /\ bridged \in BOOLEAN /\ cut \in BOOLEAN
      /\ scan.seen \subseteq FloodEvents
      /\ ~cut /\ ~bridged => Stays(scan.seen, seen)
  BY <1>4 DEF FloodInv
<1>6. ~cut /\ ~bridged => One(u, seen)
  BY <1>2, <1>5, OneStays
<1>7. PICK E, B, S, C : E = seen' /\ B = bridged' /\ S = scan' /\ C = cut'
  OBVIOUS
<1>8. /\ E \subseteq FloodEvents /\ FloodRows(u)
      /\ B \in BOOLEAN /\ C \in BOOLEAN /\ S.on = FALSE
      /\ ~C /\ ~B => One(u, E)
  BY <1>2, <1>3, <1>5, <1>6, <1>7
<1>9. QED
  BY <1>1, <1>7, <1>8 DEF FloodInv

LEMMA FloodAbort ==
  ASSUME FloodInv, Flood!Abort
  PROVE  FloodInv'
<1>1. /\ seen' = seen /\ scan' = [on |-> FALSE] /\ bridged' = bridged /\ cut' = cut /\ detected' = detected
  BY Zenon DEF Flood!Abort, Flood!Idle
<1>2. /\ seen \subseteq FloodEvents /\ FloodRows(detected) /\ bridged \in BOOLEAN /\ cut \in BOOLEAN
      /\ ~cut /\ ~bridged => One(detected, seen)
  BY DEF FloodInv
<1>3. PICK E, B, S, C, D : E = seen' /\ B = bridged' /\ S = scan' /\ C = cut' /\ D = detected'
  OBVIOUS
<1>4. /\ E \subseteq FloodEvents /\ FloodRows(D)
      /\ B \in BOOLEAN /\ C \in BOOLEAN /\ S.on = FALSE
      /\ ~C /\ ~B => One(D, E)
  BY <1>1, <1>2, <1>3
<1>5. QED
  BY <1>3, <1>4 DEF FloodInv

\* A label changes no window.
LEMMA Relabel ==
  ASSUME NEW t, FloodRows(t), NEW r \in t, NEW u, u = (t \ {r}) \cup {[r EXCEPT !.status = "labelled"]}
  PROVE  FloodRows(u) /\ \A E : One(t, E) => One(u, E)
<1>1. PICK n : n = [r EXCEPT !.status = "labelled"]
  OBVIOUS
<1>2. FloodRow(r)
  BY DEF FloodRows
<1>3. FloodRow(n) /\ n.ap = r.ap /\ n.by = r.by /\ n.start = r.start /\ n.end = r.end
  BY <1>1, <1>2 DEF FloodRow
<1>4. u = (t \ {r}) \cup {n}
  BY <1>1
<1>5. FloodRows(u)
  <2>1. IsFiniteSet(t) /\ t \ {r} \in SUBSET t
    BY DEF FloodRows
  <2>2. IsFiniteSet(t \ {r})
    BY <2>1, FS_Subset
  <2>3. IsFiniteSet(u)
    BY <1>4, <2>2, FS_AddElement
  <2>4. QED
    BY <1>3, <1>4, <2>3 DEF FloodRows
<1>6. ASSUME NEW E, One(t, E) PROVE One(u, E)
  <2>1. SUFFICES ASSUME NEW ap \in FloodAps, NEW p \in Flood!RowsOf(ap, u)
                 PROVE  \E ep \in Flood!Whole(ap, E) :
                          Flood!Within(p, ep) /\ \A q \in Flood!RowsOf(ap, u) : q.by = p.by /\ Flood!Within(q, ep) => q = p
    BY DEF One
  <2> DEFINE Back(q) == IF q = n THEN r ELSE q
  <2>2. ASSUME NEW q \in Flood!RowsOf(ap, u)
        PROVE  /\ Back(q) \in Flood!RowsOf(ap, t) /\ Back(q).by = q.by
               /\ \A ep : Flood!Within(Back(q), ep) <=> Flood!Within(q, ep)
    <3>1. q \in u /\ q.ap = ap
      BY DEF Flood!RowsOf
    <3>2. CASE q = n
      BY <1>3, <3>1, <3>2 DEF Flood!RowsOf, Flood!Within
    <3>3. CASE q # n
      BY <1>4, <3>1, <3>3 DEF Flood!RowsOf, Flood!Within
    <3>4. QED
      BY <3>2, <3>3
  <2>3. PICK ep \in Flood!Whole(ap, E) :
          Flood!Within(Back(p), ep)
          /\ \A q \in Flood!RowsOf(ap, t) : q.by = Back(p).by /\ Flood!Within(q, ep) => q = Back(p)
    <3>1. Back(p) \in Flood!RowsOf(ap, t)
      BY <2>2
    <3> HIDE DEF Back
    <3>2. QED
      BY <1>6, <3>1 DEF One
  <2>4. Flood!Within(p, ep)
    BY <2>2, <2>3
  <2>5. ASSUME NEW q \in Flood!RowsOf(ap, u), q.by = p.by, Flood!Within(q, ep) PROVE q = p
    <3>1. Back(q) = Back(p)
      <4>1. Back(q) \in Flood!RowsOf(ap, t) /\ Back(q).by = Back(p).by /\ Flood!Within(Back(q), ep)
        BY <2>2, <2>5
      <4> HIDE DEF Back
      <4>2. QED
        BY <2>3, <4>1
    <3>2. p \in u /\ q \in u
      BY DEF Flood!RowsOf
    <3>3. (p # n => p # r) /\ (q # n => q # r)
      BY <1>4, <3>2
    <3>4. QED
      BY <3>1, <3>3
  <2>6. QED
    BY <2>4, <2>5
<1>7. QED
  BY <1>5, <1>6

LEMMA FloodLabel ==
  ASSUME FloodInv, NEW r \in detected, Flood!Label(r)
  PROVE  FloodInv'
<1>1. /\ seen' = seen /\ scan' = scan /\ bridged' = bridged /\ cut' = cut
      /\ detected' = (detected \ {r}) \cup {[r EXCEPT !.status = "labelled"]}
  BY Zenon DEF Flood!Label
<1>2. /\ seen \subseteq FloodEvents /\ FloodRows(detected)
      /\ bridged \in BOOLEAN /\ cut \in BOOLEAN /\ scan.on \in BOOLEAN
      /\ scan.on => /\ scan.window \in FloodWindows /\ scan.seen \subseteq FloodEvents
                    /\ scan.findings = Flood!FindingsOf(scan.seen, scan.window)
      /\ ~cut /\ ~bridged => One(detected, seen)
      /\ ~cut /\ ~bridged /\ scan.on => One(detected, scan.seen) /\ Stays(scan.seen, seen)
      /\ ~cut /\ scan.on => \A ap \in FloodAps : Scanned(ap, scan.seen, scan.window) \subseteq Flood!Whole(ap, scan.seen)
  BY DEF FloodInv
<1>3. PICK E, B, D, S, C : E = seen' /\ B = bridged' /\ D = detected' /\ S = scan' /\ C = cut'
  OBVIOUS
<1>4. FloodRows(D) /\ \A X : One(detected, X) => One(D, X)
  BY <1>1, <1>2, <1>3, Relabel
<1>5. /\ E \subseteq FloodEvents
      /\ B \in BOOLEAN /\ C \in BOOLEAN /\ S.on \in BOOLEAN
      /\ S.on => /\ S.window \in FloodWindows /\ S.seen \subseteq FloodEvents
                 /\ S.findings = Flood!FindingsOf(S.seen, S.window)
      /\ ~C /\ ~B => One(D, E)
      /\ ~C /\ ~B /\ S.on => One(D, S.seen) /\ Stays(S.seen, E)
      /\ ~C /\ S.on => \A ap \in FloodAps : Scanned(ap, S.seen, S.window) \subseteq Flood!Whole(ap, S.seen)
  BY <1>1, <1>2, <1>3, <1>4
<1>6. QED
  BY <1>3, <1>4, <1>5 DEF FloodInv


\* Unless a device row came after a finding, all rows and findings of an access
\* point name it the way it is named now.
NamedAs(N, E) == \A x \in N : x.by = Flood!NamedBy(x.ap, E)

NamesInv == ~renamed => NamedAs(detected, seen) /\ (scan.on => NamedAs(scan.findings, seen))

\* Only a device row of its own changes the name of an access point.
LEMMA NameStays ==
  ASSUME NEW E, NEW x, NEW ap, x.kind = "device" => x.ap # ap
  PROVE  Flood!NamedBy(ap, E \cup {x}) = Flood!NamedBy(ap, E)
<1>1. Flood!OfKind("device", Flood!Of(ap, E \cup {x})) = Flood!OfKind("device", Flood!Of(ap, E))
  BY DEF Flood!OfKind, Flood!Of
<1>2. QED
  BY <1>1 DEF Flood!NamedBy, Flood!Known

LEMMA NamesArrive ==
  ASSUME NamesInv, NEW x \in FloodEvents, Flood!Arrive(x)
  PROVE  NamesInv'
<1>1. /\ seen' = seen \cup {x} /\ detected' = detected /\ scan' = scan
      /\ renamed' = (renamed \/ (x.kind = "device" /\ Flood!FoundBefore(x.ap)))
  BY Zenon DEF Flood!Arrive
<1>2. SUFFICES ASSUME ~renamed' PROVE NamedAs(detected', seen') /\ (scan'.on => NamedAs(scan'.findings, seen'))
  BY DEF NamesInv
<1>3. ~renamed /\ ~(x.kind = "device" /\ Flood!FoundBefore(x.ap))
  BY Zenon, <1>1, <1>2
<1>4. NamedAs(detected, seen) /\ (scan.on => NamedAs(scan.findings, seen))
  BY <1>3 DEF NamesInv
<1>5. ASSUME NEW N, NamedAs(N, seen), \A y \in N : x.kind = "device" => x.ap # y.ap
      PROVE  NamedAs(N, seen \cup {x})
  BY <1>5, NameStays DEF NamedAs
<1>6. NamedAs(detected, seen \cup {x})
  <2>1. \A y \in detected : x.kind = "device" => x.ap # y.ap
    BY <1>3 DEF Flood!FoundBefore
  <2>2. QED
    BY <1>4, <1>5, <2>1
<1>7. ASSUME scan.on PROVE NamedAs(scan.findings, seen \cup {x})
  <2>1. \A y \in scan.findings : x.kind = "device" => x.ap # y.ap
    BY <1>3, <1>7 DEF Flood!FoundBefore
  <2>2. QED
    BY <1>4, <1>5, <1>7, <2>1
<1>8. QED
  BY Zenon, <1>1, <1>6, <1>7

LEMMA NamesAnalyse ==
  ASSUME FloodInv, NamesInv, NEW w \in FloodWindows, Flood!Analyse(w)
  PROVE  NamesInv'
<1>1. /\ seen' = seen /\ detected' = detected /\ renamed' = renamed
      /\ scan' = [on |-> TRUE, window |-> w, seen |-> seen, findings |-> Flood!FindingsOf(seen, w)]
  BY Zenon DEF Flood!Analyse
<1>2. PICK F : F = Flood!FindingsOf(seen, w)
  OBVIOUS
<1>3. seen \subseteq FloodEvents /\ w[1] \in Int /\ w[2] \in Int
  BY WindowIs DEF FloodInv
<1>4. NamedAs(F, seen)
  BY <1>2, <1>3, FindingsAre DEF FoundOK, NamedAs
<1>5. scan'.findings = F
  BY <1>1, <1>2
<1>6. ~renamed' => NamedAs(detected', seen') /\ NamedAs(scan'.findings, seen')
  BY Zenon, <1>1, <1>4, <1>5 DEF NamesInv
<1>7. QED
  BY <1>6 DEF NamesInv

LEMMA NamesCommit ==
  ASSUME FloodInv, NamesInv, Flood!Commit
  PROVE  NamesInv'
<1>1. seen' = seen /\ scan' = [on |-> FALSE] /\ renamed' = renamed /\ scan.on
  BY Zenon DEF Flood!Commit, Flood!Idle
<1>2. ~scan'.on
  BY <1>1
<1>3. PICK u : u = detected'
  OBVIOUS
<1>4. Named(u, detected \cup scan.findings)
  BY <1>3, CommitDoes
<1>5. ~renamed => NamedAs(u, seen)
  BY <1>1, <1>4 DEF NamesInv, NamedAs, Named
<1>6. ~renamed' => NamedAs(detected', seen')
  BY Zenon, <1>1, <1>3, <1>5
<1>7. QED
  BY Zenon, <1>2, <1>6 DEF NamesInv

LEMMA NamesKept ==
  ASSUME NamesInv, Flood!Abort \/ (\E r \in detected : Flood!Label(r)) \/ UNCHANGED floodVars, FloodInv
  PROVE  NamesInv'
<1>1. CASE Flood!Abort
  <2>1. /\ seen' = seen /\ scan' = [on |-> FALSE] /\ renamed' = renamed /\ detected' = detected
    BY Zenon, <1>1 DEF Flood!Abort, Flood!Idle
  <2>2. ~scan'.on
    BY <2>1
  <2>3. QED
    BY Zenon, <2>1, <2>2 DEF NamesInv
<1>2. CASE \E r \in detected : Flood!Label(r)
  <2>1. PICK r \in detected : Flood!Label(r)
    BY <1>2
  <2>2. /\ seen' = seen /\ scan' = scan /\ renamed' = renamed
        /\ detected' = (detected \ {r}) \cup {[r EXCEPT !.status = "labelled"]}
    BY Zenon, <2>1 DEF Flood!Label
  <2>3. FloodRow(r)
    BY DEF FloodInv, FloodRows
  <2>4. PICK n : n = [r EXCEPT !.status = "labelled"]
    OBVIOUS
  <2>5. n.ap = r.ap /\ n.by = r.by
    BY <2>3, <2>4 DEF FloodRow
  <2>6. ~renamed => NamedAs((detected \ {r}) \cup {n}, seen)
    BY <2>5 DEF NamesInv, NamedAs
  <2>7. QED
    BY Zenon, <2>2, <2>4, <2>6 DEF NamesInv
<1>3. CASE UNCHANGED floodVars
  BY Zenon, <1>3 DEF floodVars, NamesInv
<1>4. QED
  BY <1>1, <1>2, <1>3

LEMMA OneRowFromInv ==
  ASSUME FloodInv, NamesInv
  PROVE  Flood!OneRowPerEpisode
<1>1. SUFFICES ASSUME ~cut, ~bridged, NEW ap \in FloodAps, NEW r \in Flood!RowsOf(ap, detected)
               PROVE  \E ep \in Flood!Whole(ap, seen) :
                        /\ Flood!Within(r, ep)
                        /\ \A q \in Flood!RowsOf(ap, detected) :
                             Flood!Within(q, ep) => q = r \/ (renamed /\ q.by # r.by)
  BY DEF Flood!OneRowPerEpisode
<1>2. PICK ep \in Flood!Whole(ap, seen) :
        Flood!Within(r, ep) /\ \A q \in Flood!RowsOf(ap, detected) : q.by = r.by /\ Flood!Within(q, ep) => q = r
  BY <1>1 DEF FloodInv, One
<1>3. \A q \in Flood!RowsOf(ap, detected) : ~renamed => q.by = r.by
  BY <1>1 DEF NamesInv, NamedAs, Flood!RowsOf
<1>4. QED
  BY <1>2, <1>3

\* What a commit leaves in the table.
Stores ==
  /\ \A ap \in FloodAps : \A ep \in Flood!Polled(ap, scan.seen, scan.window) :
       LET w == scan.window
           severity == Flood!Assess(ap, ep, scan.seen, w)
       IN  w[1] <= Flood!FirstTs(ep) /\ Flood!LastTs(ep) < w[2] /\ severity # "none" =>
             \E r \in Flood!RowsOf(ap, detected') :
               /\ r.by = Flood!NamedBy(ap, scan.seen) /\ r.severity = severity
               /\ r.start = Flood!FirstTs(ep) /\ r.end = Flood!LastTs(ep)
  /\ \A r \in detected : \E q \in detected' :
       /\ q.id = r.id /\ (r.status = "labelled" => q.status = "labelled")
       /\ ~cut /\ ~bridged => q.start <= r.start /\ r.end <= q.end

LEMMA CommitStores ==
  ASSUME FloodInv, Flood!Commit
  PROVE  Stores
<1>1. PICK F, E, w, u : F = scan.findings /\ E = scan.seen /\ w = scan.window /\ u = detected'
  OBVIOUS
<1>2. FoundOK(F, E, w) /\ \A f \in F : Holds(u, f)
  BY <1>1, CommitDoes
<1>3. Kept(detected, u, ~cut /\ ~bridged)
  BY <1>1, CommitDoes
<1>4. scan.on
  BY Zenon DEF Flood!Commit
<1>5. E \subseteq FloodEvents /\ w \in FloodWindows
  BY <1>1, <1>4 DEF FloodInv
<1>6. w[1] \in Int /\ w[2] \in Int
  BY <1>5, WindowIs
<1>7. ASSUME NEW ap \in FloodAps, NEW ep \in Flood!Polled(ap, E, w),
             w[1] <= Flood!FirstTs(ep), Flood!LastTs(ep) < w[2], Flood!Assess(ap, ep, E, w) # "none"
      PROVE  \E r \in Flood!RowsOf(ap, u) :
               /\ r.by = Flood!NamedBy(ap, E) /\ r.severity = Flood!Assess(ap, ep, E, w)
               /\ r.start = Flood!FirstTs(ep) /\ r.end = Flood!LastTs(ep)
  <2>1. ep \in Scanned(ap, E, w)
    BY Zenon, <1>7 DEF Flood!Polled, Scanned, Flood!ScanOf
  <2>2. Spans(ep)
    BY <1>5, <1>6, <2>1, ScannedSilent DEF Silent
  <2>3. PICK a \in Int, b \in Int : a = Flood!FirstTs(ep) /\ b = Flood!LastTs(ep) /\ a <= b
    BY <2>2 DEF Spans
  <2>4. b >= w[1] /\ a < w[2]
    BY <1>6, <1>7, <2>3
  <2>5. Flood!Overlaps(ep, w)
    BY <2>3, <2>4 DEF Flood!Overlaps
  <2>6. Flood!OfKind("alert", ep) # {} \/ Flood!MaxBursts(ep) >= MinBursts
    BY <1>5, <1>6, <1>7, <2>2, GradedIsCandidate
  <2>7. Flood!Candidate(ep, w)
    BY <2>5, <2>6 DEF Flood!Candidate
  <2>8. ep \in Graded(ap, E, w)
    BY <1>7, <2>1, <2>7 DEF Graded
  <2>9. PICK f \in F : f.ap = ap /\ About(f, ep) /\ f.severity = Flood!Assess(ap, ep, E, w)
    BY <1>2, <2>8 DEF FoundOK
  <2>10. Holds(u, f)
    BY <1>2
  <2>11. f.by = Flood!NamedBy(ap, E)
    BY <1>2, <2>9 DEF FoundOK
  <2>12. QED
    BY <2>9, <2>10, <2>11 DEF Holds, About
<1>8. \A r \in detected : \E q \in u :
        /\ q.id = r.id /\ (r.status = "labelled" => q.status = "labelled")
        /\ ~cut /\ ~bridged => q.start <= r.start /\ r.end <= q.end
  BY <1>3 DEF Kept
<1>9. QED
  BY <1>1, <1>7, <1>8 DEF Stores

LEMMA FloodInvIsInvariant ==
  ServerSpec => [](part = "deauth_flood" => FloodInv /\ NamesInv)
<1> DEFINE IInv == part = "deauth_flood" => FloodInv /\ NamesInv
<1>1. ServerInit => IInv
  <2>1. Flood!Init => FloodInv /\ NamesInv
    <3>1. Flood!Init => detected = {} /\ ~scan.on
      BY DEF Flood!Init, Flood!Idle
    <3>2. QED
      BY <3>1, FloodInit DEF NamesInv, NamedAs
  <2>2. QED
    BY <2>1 DEF ServerInit
<1>2. IInv /\ [ServerNext]_<<part, ingestVars, readVars, importVars, periodVars, evaluationVars, feedVars, floodVars, twinVars>> => IInv'
  <2>1. SUFFICES ASSUME IInv, [ServerNext]_<<part, ingestVars, readVars, importVars, periodVars, evaluationVars, feedVars, floodVars, twinVars>>,
                        part' = "deauth_flood"
                 PROVE  FloodInv' /\ NamesInv'
    OBVIOUS
  <2>2. CASE part = "deauth_flood" /\ Flood!Next
    <3>1. CASE \E x \in FloodEvents : Flood!Arrive(x)
      BY <2>1, <2>2, <3>1, FloodArrive, NamesArrive
    <3>2. CASE \E w \in FloodWindows : Flood!Analyse(w)
      BY <2>1, <2>2, <3>2, FloodAnalyse, NamesAnalyse
    <3>3. CASE Flood!Commit
      BY <2>1, <2>2, <3>3, FloodCommit, NamesCommit
    <3>4. CASE Flood!Abort
      BY <2>1, <2>2, <3>4, FloodAbort, NamesKept
    <3>5. CASE \E r \in detected : Flood!Label(r)
      BY <2>1, <2>2, <3>5, FloodLabel, NamesKept
    <3>6. QED
      BY <2>2, <3>1, <3>2, <3>3, <3>4, <3>5 DEF Flood!Next
  <2>3. CASE part = "deauth_flood" /\ UNCHANGED floodVars
    BY <2>1, <2>3, FloodStays, NamesKept
  <2>4. QED
    BY <2>1, <2>2, <2>3 DEF ServerNext
<1>3. QED
  BY <1>1, <1>2, PTL DEF ServerSpec

(* As long as no run read a part of an episode and nothing late joined two or *)
(* moved a burst, the detections stand one to one for episodes: the matching  *)
(* by overlapping windows loses none and duplicates none, whatever windows   *)
(* were run, in whatever order, and whatever arrived in between; but for one  *)
(* row of each subject when the device row came after a finding.             *)
THEOREM EpisodesHaveOneRow == ServerSpec => []OneRowPerEpisode
<1>1. (part = "deauth_flood" => FloodInv /\ NamesInv) => OneRowPerEpisode
  BY OneRowFromInv DEF OneRowPerEpisode
<1>2. QED
  BY <1>1, FloodInvIsInvariant, PTL

(* When a run commits, every graded episode that lies in its window is stored *)
(* whole, about the name the run knew and with that grade, no later finding  *)
(* of the run having overwritten it; every row keeps its id and label, and   *)
(* its window never shrinks but after a cut or a joined episode.             *)
THEOREM EpisodesAreStoredWhole == ServerSpec => WholeEpisodeStored
<1> DEFINE IInv == part = "deauth_flood" => FloodInv /\ NamesInv
<1>1. ServerSpec => []IInv
  BY FloodInvIsInvariant
<1>2. ASSUME IInv, [ServerNext]_<<part, ingestVars, readVars, importVars, periodVars, evaluationVars, feedVars, floodVars, twinVars>>
      PROVE  [Flood!Commit => Stores]_(Flood!vars)
  <2>1. CASE part = "deauth_flood"
    BY <1>2, <2>1, CommitStores
  <2>2. CASE UNCHANGED floodVars
    BY <2>2 DEF floodVars, Flood!vars
  <2>3. QED
    BY <1>2, <2>1, <2>2 DEF ServerNext
<1> HIDE DEF IInv
<1>3. QED
  BY <1>1, <1>2, PTL DEF ServerSpec, WholeEpisodeStored, Flood!WholeEpisodeStored, Stores

-----------------------------------------------------------------------------
(* A set of numbers has one rising sequence, which grows at its end.        *)

LEMMA RisingOnce ==
  ASSUME NEW T, T \subseteq Int, NEW n \in Nat, NEW f, Rising(f, n, T)
  PROVE  /\ IsFiniteSet(T) /\ Cardinality(T) = n
         /\ Rules!Ascending(T) = f
<1>1. IsFiniteSet(1..n) /\ Cardinality(1..n) = n
  BY UpTo
<1>2. /\ f \in [1..n -> T] /\ \A i, j \in 1..n : i < j => f[i] < f[j]
      /\ \A t \in T : \E i \in 1..n : f[i] = t
  BY DEF Rising
<1>3. \A i, j \in 1..n : f[i] = f[j] => i = j
  <2>1. SUFFICES ASSUME NEW i \in 1..n, NEW j \in 1..n, f[i] = f[j], i # j PROVE FALSE
    OBVIOUS
  <2>2. f[i] \in Int /\ f[j] \in Int
    BY <1>2
  <2>3. i < j \/ j < i
    BY <2>1
  <2>4. QED
    BY <1>2, <2>1, <2>2, <2>3
<1>4. f \in Surjection(1..n, T) /\ f \in Injection(1..n, T)
  BY <1>2, <1>3 DEF Surjection, Injection, IsInjective
<1>5. IsFiniteSet(T) /\ Cardinality(T) = n
  BY <1>1, <1>4, FS_Surjection
<1>6. PICK g : g = Rules!Ascending(T) /\ Rising(g, n, T)
  BY <1>5, AscendingIs
<1>7. /\ g \in [1..n -> T] /\ \A i, j \in 1..n : i < j => g[i] < g[j]
      /\ \A t \in T : \E i \in 1..n : g[i] = t
  BY <1>6 DEF Rising
<1>8. \A i \in 1..n : f[i] = g[i]
  <2> DEFINE Bad == {i \in 1..n : f[i] # g[i]}
  <2>1. SUFFICES ASSUME Bad # {} PROVE FALSE
    OBVIOUS
  <2>2. PICK i \in Bad : \A j \in Bad : i <= j
    <3>1. Bad \in SUBSET Nat
      OBVIOUS
    <3> HIDE DEF Bad
    <3>2. QED
      BY <2>1, <3>1, LeastOfSet
  <2>3. i \in 1..n /\ f[i] \in T /\ g[i] \in T /\ f[i] # g[i]
    BY <1>2, <1>7, <2>2
  <2>4. PICK j \in 1..n : g[j] = f[i]
    BY <1>7, <2>3
  <2>5. PICK k \in 1..n : f[k] = g[i]
    BY <1>2, <2>3
  <2>6. ~(j < i)
    <3>1. SUFFICES ASSUME j < i PROVE FALSE
      OBVIOUS
    <3>2. f[j] = g[j]
      BY <2>2, <2>3, <2>4, <3>1
    <3>3. QED
      BY <1>3, <2>3, <2>4, <3>1, <3>2
  <2>7. ~(k < i)
    <3>1. SUFFICES ASSUME k < i PROVE FALSE
      OBVIOUS
    <3>2. f[k] = g[k] /\ g[k] < g[i]
      BY <1>7, <2>2, <2>3, <2>5, <3>1
    <3>3. g[i] \in Int
      BY <2>3
    <3>4. QED
      BY <2>5, <3>2, <3>3
  <2>8. j # i /\ k # i
    BY <2>3, <2>4, <2>5
  <2>9. i < j /\ i < k
    BY <2>3, <2>4, <2>5, <2>6, <2>7, <2>8
  <2>10. g[i] < f[i] /\ f[i] < g[i]
    BY <1>2, <1>7, <2>3, <2>4, <2>5, <2>9
  <2>11. f[i] \in Int /\ g[i] \in Int
    BY <2>3
  <2>12. QED
    BY <2>10, <2>11
<1>9. f = g
  BY <1>2, <1>7, <1>8
<1>10. QED
  BY <1>5, <1>6, <1>9

LEMMA RisingGrows ==
  ASSUME NEW T, T \subseteq Int, NEW n \in Nat, NEW f, Rising(f, n, T), NEW m \in Int, \A t \in T : t < m
  PROVE  Rising([i \in 1..(n + 1) |-> IF i <= n THEN f[i] ELSE m], n + 1, T \cup {m})
<1>1. /\ f \in [1..n -> T] /\ \A i, j \in 1..n : i < j => f[i] < f[j]
      /\ \A t \in T : \E i \in 1..n : f[i] = t
  BY DEF Rising
<1> DEFINE g == [i \in 1..(n + 1) |-> IF i <= n THEN f[i] ELSE m]
<1>2. \A i \in 1..(n + 1) : i \in 1..n \/ i = n + 1
  OBVIOUS
<1>3. (\A i \in 1..n : g[i] = f[i]) /\ g[n + 1] = m
  OBVIOUS
<1>4. DOMAIN g = 1..(n + 1) /\ g = [i \in 1..(n + 1) |-> g[i]]
  OBVIOUS
<1> HIDE DEF g
<1>5. g \in [1..(n + 1) -> T \cup {m}]
  BY <1>1, <1>2, <1>3, <1>4
<1>6. ASSUME NEW i \in 1..(n + 1), NEW j \in 1..(n + 1), i < j PROVE g[i] < g[j]
  <2>1. i \in 1..n
    BY <1>6
  <2>2. g[i] = f[i] /\ f[i] \in T
    BY <1>1, <1>3, <2>1
  <2>3. CASE j \in 1..n
    BY <1>1, <1>3, <1>6, <2>1, <2>2, <2>3
  <2>4. CASE j = n + 1
    BY <1>3, <2>2, <2>4
  <2>5. QED
    BY <1>2, <2>3, <2>4
<1>7. ASSUME NEW t \in T \cup {m} PROVE \E i \in 1..(n + 1) : g[i] = t
  <2>1. CASE t \in T
    <3>1. PICK i \in 1..n : f[i] = t
      BY <1>1, <2>1
    <3>2. i \in 1..(n + 1)
      OBVIOUS
    <3>3. QED
      BY <1>3, <3>1, <3>2
  <2>2. CASE t = m
    <3>1. n + 1 \in 1..(n + 1)
      OBVIOUS
    <3>2. QED
      BY <1>3, <2>2, <3>1
  <2>3. QED
    BY <2>1, <2>2
<1>8. QED
  BY <1>5, <1>6, <1>7 DEF Rising, g

-----------------------------------------------------------------------------
(* The rows of the cursor, in its order, and those compared of one device.  *)

TwinRows == [ap : TwinAps, ts : 0..MaxTs, rssi : Readings]

Precedes(q, r) == q.ap < r.ap \/ (q.ap = r.ap /\ q.ts < r.ts)

CursorOrder(s) == s \in Seq(TwinRows) /\ \A i, j \in 1..Len(s) : i < j => Precedes(s[i], s[j])

ComparedAt(s, ap) == {i \in 1..Len(s) : s[i].ap = ap /\ Twin!Uses(ap, s[i].ts)}

Picked(s, ap) == LET at == Rules!Ascending(ComparedAt(s, ap)) IN [k \in DOMAIN at |-> s[at[k]]]

LEMMA PickedIs ==
  ASSUME NEW s, s \in Seq(TwinRows), NEW ap, NEW f, f = Rules!Ascending(ComparedAt(s, ap))
  PROVE  \E n \in Nat : Rising(f, n, ComparedAt(s, ap)) /\ Picked(s, ap) = [k \in 1..n |-> s[f[k]]]
<1>1. PICK T : T = ComparedAt(s, ap)
  OBVIOUS
<1>2. Len(s) \in Nat
  BY LenProperties
<1>3. T \subseteq 1..Len(s)
  BY <1>1 DEF ComparedAt
<1>4. T \subseteq Int /\ IsFiniteSet(T)
  <2>1. IsFiniteSet(1..Len(s)) /\ 1..Len(s) \subseteq Int
    BY <1>2, UpTo
  <2>2. QED
    BY <1>3, <2>1, FS_Subset
<1>5. PICK n \in Nat : Rising(f, n, T)
  BY <1>1, <1>4, AscendingIs
<1>6. DOMAIN f = 1..n
  BY <1>5 DEF Rising
<1>7. Picked(s, ap) = [k \in DOMAIN f |-> s[f[k]]]
  BY Zenon DEF Picked
<1>8. QED
  BY <1>1, <1>5, <1>6, <1>7

\* What the compared readings of a device are: rows of the cursor, in order.
PickedOK(p, s, ap) ==
  /\ p \in Seq(TwinRows)
  /\ \A k \in 1..Len(p) : /\ p[k].ap = ap /\ Twin!Uses(ap, p[k].ts) /\ \E i \in 1..Len(s) : s[i] = p[k]
  /\ \A k, l \in 1..Len(p) : k < l => p[k].ts < p[l].ts

LEMMA PickedInOrder ==
  ASSUME NEW s, CursorOrder(s), NEW ap
  PROVE  PickedOK(Picked(s, ap), s, ap)
<1>1. s \in Seq(TwinRows) /\ \A i, j \in 1..Len(s) : i < j => Precedes(s[i], s[j])
  BY DEF CursorOrder
<1>3. PICK p, f : p = Picked(s, ap) /\ f = Rules!Ascending(ComparedAt(s, ap))
  OBVIOUS
<1>2. PICK n \in Nat : Rising(f, n, ComparedAt(s, ap)) /\ Picked(s, ap) = [k \in 1..n |-> s[f[k]]]
  BY <1>1, <1>3, PickedIs
<1>4. \A k \in 1..n : f[k] \in 1..Len(s) /\ s[f[k]].ap = ap /\ Twin!Uses(ap, s[f[k]].ts)
  BY <1>2 DEF Rising, ComparedAt
<1>5. \A k \in 1..n : s[f[k]] \in TwinRows
  BY <1>1, <1>4, ElementOfSeq
<1>6. p \in Seq(TwinRows) /\ Len(p) = n /\ \A k \in 1..n : p[k] = s[f[k]]
  BY <1>2, <1>3, <1>5
<1>7. ASSUME NEW k \in 1..n, NEW l \in 1..n, k < l PROVE p[k].ts < p[l].ts
  <2>1. f[k] < f[l]
    BY <1>2, <1>7 DEF Rising
  <2>2. Precedes(s[f[k]], s[f[l]])
    BY <1>1, <1>4, <2>1
  <2>3. s[f[k]].ap = s[f[l]].ap /\ s[f[k]].ap \in Int
    <3>1. s[f[k]].ap = ap /\ s[f[l]].ap = ap /\ s[f[k]] \in TwinRows
      BY <1>4, <1>5
    <3>2. s[f[k]].ap \in TwinAps
      BY <3>1 DEF TwinRows
    <3>3. TwinAps \subseteq Int
      BY TwinAssumption
    <3>4. QED
      BY <3>1, <3>2, <3>3
  <2>4. QED
    BY <1>6, <2>2, <2>3 DEF Precedes
<1>8. QED
  BY <1>3, <1>4, <1>6, <1>7 DEF PickedOK

LEMMA PickedGrows ==
  ASSUME NEW s \in Seq(TwinRows), NEW r \in TwinRows, NEW ap
  PROVE  Picked(Append(s, r), ap) =
           IF r.ap = ap /\ Twin!Uses(ap, r.ts) THEN Append(Picked(s, ap), r) ELSE Picked(s, ap)
<1>1. PICK u : u = Append(s, r)
  OBVIOUS
<1>2. PICK m \in Nat : m = Len(s)
  BY LenProperties
<1>3. u \in Seq(TwinRows) /\ Len(u) = m + 1 /\ (\A i \in 1..m : u[i] = s[i]) /\ u[m + 1] = r
  BY <1>1, <1>2, AppendProperties
<1>11. PICK f, g : f = Rules!Ascending(ComparedAt(s, ap)) /\ g = Rules!Ascending(ComparedAt(u, ap))
  OBVIOUS
<1>4. PICK n \in Nat : Rising(f, n, ComparedAt(s, ap)) /\ Picked(s, ap) = [k \in 1..n |-> s[f[k]]]
  BY <1>11, PickedIs
<1>5. PICK l \in Nat : Rising(g, l, ComparedAt(u, ap)) /\ Picked(u, ap) = [k \in 1..l |-> u[g[k]]]
  BY <1>3, <1>11, PickedIs
<1>6. \A i \in 1..(m + 1) : i \in 1..m \/ i = m + 1
  OBVIOUS
<1>7. \A k \in 1..n : f[k] \in 1..m
  BY <1>2, <1>4 DEF Rising, ComparedAt
<1>8. CASE r.ap = ap /\ Twin!Uses(ap, r.ts)
  <2>1. ComparedAt(u, ap) = ComparedAt(s, ap) \cup {m + 1}
    BY <1>2, <1>3, <1>6, <1>8 DEF ComparedAt
  <2> DEFINE h == [i \in 1..(n + 1) |-> IF i <= n THEN f[i] ELSE m + 1]
  <2>2. Rising(h, n + 1, ComparedAt(u, ap))
    <3>1. ComparedAt(s, ap) \subseteq Int /\ \A t \in ComparedAt(s, ap) : t < m + 1
      BY <1>2 DEF ComparedAt
    <3>2. Rising(h, n + 1, ComparedAt(s, ap) \cup {m + 1})
      BY <1>4, <3>1, RisingGrows
    <3> HIDE DEF h
    <3>3. QED
      BY <2>1, <3>2
  <2>3. ComparedAt(u, ap) \subseteq Int
    BY <1>3 DEF ComparedAt
  <2>4. (\A i \in 1..n : h[i] = f[i]) /\ h[n + 1] = m + 1 /\ DOMAIN h = 1..(n + 1)
    OBVIOUS
  <2> HIDE DEF h
  <2>5. g = h
    BY <1>5, <1>11, <2>2, <2>3, RisingOnce
  <2>6. l = n + 1
    <3>1. Cardinality(ComparedAt(u, ap)) = l
      BY <1>5, <2>3, RisingOnce
    <3>2. Cardinality(ComparedAt(u, ap)) = n + 1
      BY <2>2, <2>3, RisingOnce
    <3>3. QED
      BY <3>1, <3>2
  <2>7. PICK p : p = Picked(s, ap)
    OBVIOUS
  <2>8. \A k \in 1..n : s[f[k]] \in TwinRows
    BY <1>2, <1>7, ElementOfSeq
  <2>9. p \in Seq(TwinRows) /\ Len(p) = n /\ \A k \in 1..n : p[k] = s[f[k]]
    BY <1>4, <2>7, <2>8
  <2>10. PICK q : q = Append(p, r)
    OBVIOUS
  <2>11. q \in Seq(TwinRows) /\ Len(q) = n + 1 /\ (\A k \in 1..n : q[k] = p[k]) /\ q[n + 1] = r
    BY <2>9, <2>10, AppendProperties
  <2>12. PICK v : v = Picked(u, ap)
    OBVIOUS
  <2>13. v = [k \in 1..(n + 1) |-> u[h[k]]]
    BY <1>5, <2>5, <2>6, <2>12
  <2>14. ASSUME NEW k \in 1..(n + 1) PROVE v[k] = q[k]
    <3>1. CASE k \in 1..n
      BY <1>3, <1>7, <2>4, <2>9, <2>11, <2>13, <3>1
    <3>2. CASE k = n + 1
      BY <1>3, <2>4, <2>11, <2>13, <3>2
    <3>3. QED
      BY <3>1, <3>2
  <2>15. q \in [1..(n + 1) -> TwinRows]
    BY <2>11, LenProperties
  <2>16. v = q
    BY <2>13, <2>14, <2>15
  <2>17. QED
    BY <1>1, <1>8, <2>7, <2>10, <2>12, <2>16
<1>9. CASE ~(r.ap = ap /\ Twin!Uses(ap, r.ts))
  <2>1. ComparedAt(u, ap) = ComparedAt(s, ap)
    BY <1>2, <1>3, <1>6, <1>9 DEF ComparedAt
  <2>2. g = f
    BY <1>11, <2>1
  <2>3. DOMAIN f = 1..n /\ DOMAIN g = 1..l
    BY <1>4, <1>5 DEF Rising
  <2>4. \A k \in 1..n : u[f[k]] = s[f[k]]
    BY <1>3, <1>7
  <2>5. Picked(u, ap) = [k \in 1..n |-> u[f[k]]]
    BY <1>5, <2>2, <2>3
  <2>6. [k \in 1..n |-> u[f[k]]] = [k \in 1..n |-> s[f[k]]]
    BY <2>4
  <2>7. Picked(u, ap) = Picked(s, ap)
    BY <1>4, <2>5, <2>6
  <2>8. QED
    BY <1>1, <1>9, <2>7
<1>10. QED
  BY <1>8, <1>9

-----------------------------------------------------------------------------
(* The window in memory is the end of the compared readings.                *)

\* The last levels of some rows, the window that ends at one, what it shows,
\* and the deviations of a device.
Recent(p) == LET k == IF Len(p) < WindowW THEN 0 ELSE Len(p) - WindowW
             IN  [i \in 1..(Len(p) - k) |-> p[i + k].rssi]
WindowTo(p, i)   == [j \in 1..WindowW |-> p[i - WindowW + j].rssi]
Shown(p, i, ap)  == Twin!Facet(WindowTo(p, i), Baselines[ap])
Deviates(p, i, ap) == i >= WindowW /\ (Shown(p, i, ap).shift \/ Shown(p, i, ap).spread)
DeviationAt(p, i, ap) == Twin!Deviation(ap, p[i].ts, Shown(p, i, ap))
DeviationsOf(p, ap) == {DeviationAt(p, i, ap) : i \in {j \in 1..Len(p) : Deviates(p, j, ap)}}

LEMMA RecentIs ==
  ASSUME NEW p \in Seq(TwinRows)
  PROVE  /\ Recent(p) \in Seq(Readings)
         /\ Len(Recent(p)) = IF Len(p) < WindowW THEN Len(p) ELSE WindowW
         /\ \A i \in 1..Len(Recent(p)) :
              Recent(p)[i] = p[i + (IF Len(p) < WindowW THEN 0 ELSE Len(p) - WindowW)].rssi
<1>1. PICK n \in Nat : n = Len(p)
  BY LenProperties
<1>2. WindowW \in Nat
  BY TwinAssumption
<1>3. PICK k \in Nat : k = IF Len(p) < WindowW THEN 0 ELSE Len(p) - WindowW
  <2>1. n < WindowW \/ n - WindowW \in Nat
    BY <1>2
  <2>2. CASE n < WindowW
    BY <1>1, <2>2
  <2>3. CASE ~(n < WindowW)
    BY <1>1, <2>1, <2>3
  <2>4. QED
    BY <2>2, <2>3
<1>4. PICK l \in Nat : l = n - k
  BY <1>1, <1>2, <1>3
<1>5. Recent(p) = [i \in 1..l |-> p[i + k].rssi]
  BY <1>1, <1>3, <1>4 DEF Recent
<1>6. ASSUME NEW i \in 1..l PROVE p[i + k].rssi \in Readings
  <2>1. i + k \in 1..Len(p)
    BY <1>1, <1>4
  <2>2. p[i + k] \in TwinRows
    BY <2>1, ElementOfSeq
  <2>3. QED
    BY <2>2 DEF TwinRows
<1>7. Recent(p) \in Seq(Readings) /\ Len(Recent(p)) = l
  BY <1>5, <1>6
<1>8. QED
  BY <1>1, <1>2, <1>3, <1>4, <1>5, <1>7

LEMMA PushIs ==
  ASSUME NEW p \in Seq(TwinRows), NEW r \in TwinRows
  PROVE  Twin!Push(Recent(p), r.rssi) = Recent(Append(p, r))
<1>1. PICK q : q = Append(p, r)
  OBVIOUS
<1>2. PICK n \in Nat : n = Len(p)
  BY LenProperties
<1>3. q \in Seq(TwinRows) /\ Len(q) = n + 1 /\ (\A i \in 1..n : q[i] = p[i]) /\ q[n + 1] = r
  BY <1>1, <1>2, AppendProperties
<1>4. WindowW \in Nat /\ WindowW # 0 /\ r.rssi \in Readings
  <2>1. r.rssi \in Readings
    BY DEF TwinRows
  <2>2. QED
    BY <2>1, TwinAssumption
<1>5. PICK a, b : a = Recent(p) /\ b = Recent(q)
  OBVIOUS
<1>6. /\ a \in Seq(Readings) /\ Len(a) = (IF n < WindowW THEN n ELSE WindowW)
      /\ \A i \in 1..Len(a) : a[i] = p[i + (IF n < WindowW THEN 0 ELSE n - WindowW)].rssi
  BY <1>2, <1>5, RecentIs
<1>7. /\ b \in Seq(Readings) /\ Len(b) = (IF n + 1 < WindowW THEN n + 1 ELSE WindowW)
      /\ \A i \in 1..Len(b) : b[i] = q[i + (IF n + 1 < WindowW THEN 0 ELSE n + 1 - WindowW)].rssi
  BY <1>3, <1>5, RecentIs
<1>8. CASE n < WindowW
  <2>1. PICK c : c = Append(a, r.rssi)
    OBVIOUS
  <2>2. c \in Seq(Readings) /\ Len(c) = n + 1 /\ (\A i \in 1..n : c[i] = a[i]) /\ c[n + 1] = r.rssi
    BY <1>4, <1>6, <1>8, <2>1, AppendProperties
  <2>3. Len(b) = n + 1
    BY <1>4, <1>7, <1>8
  <2>4. \A i \in 1..(n + 1) : b[i] = q[i].rssi
    BY <1>4, <1>7, <1>8, <2>3
  <2>5. ASSUME NEW i \in 1..(n + 1) PROVE c[i] = b[i]
    <3>1. CASE i \in 1..n
      BY <1>3, <1>6, <1>8, <2>2, <2>4, <3>1
    <3>2. CASE i = n + 1
      BY <1>3, <2>2, <2>4, <3>2
    <3>3. QED
      BY <3>1, <3>2
  <2>6. c = b
    BY <1>7, <2>2, <2>3, <2>5, SeqEqual
  <2>7. Twin!Push(a, r.rssi) = c
    BY <1>4, <1>6, <1>8, <2>1 DEF Twin!Push
  <2>8. QED
    BY <1>1, <1>5, <2>6, <2>7
<1>9. CASE ~(n < WindowW)
  <2>1. PICK t, c : t = Tail(a) /\ c = Append(t, r.rssi)
    OBVIOUS
  <2>2. Len(a) = WindowW /\ a # <<>>
    BY <1>4, <1>6, <1>9
  <2>3. t \in Seq(Readings) /\ Len(t) = WindowW - 1 /\ \A i \in 1..(WindowW - 1) : t[i] = a[i + 1]
    BY <1>6, <2>1, <2>2, HeadTailProperties
  <2>4. WindowW - 1 \in Nat
    BY <1>4
  <2>5. c \in Seq(Readings) /\ Len(c) = WindowW /\ (\A i \in 1..(WindowW - 1) : c[i] = t[i]) /\ c[WindowW] = r.rssi
    BY <1>4, <2>1, <2>3, <2>4, AppendProperties
  <2>6. Len(b) = WindowW /\ \A i \in 1..WindowW : b[i] = q[i + (n + 1 - WindowW)].rssi
    BY <1>4, <1>7, <1>9
  <2>7. ASSUME NEW i \in 1..WindowW PROVE c[i] = b[i]
    <3>1. CASE i \in 1..(WindowW - 1)
      <4>1. c[i] = a[i + 1] /\ i + 1 \in 1..WindowW
        BY <1>4, <2>3, <2>5, <3>1
      <4>2. a[i + 1] = p[i + 1 + (n - WindowW)].rssi
        BY <1>4, <1>6, <1>9, <2>2, <4>1
      <4>3. i + (n + 1 - WindowW) \in 1..n /\ i + 1 + (n - WindowW) = i + (n + 1 - WindowW)
        BY <1>4, <1>9, <3>1
      <4>4. QED
        BY <1>3, <2>6, <4>1, <4>2, <4>3
    <3>2. CASE i = WindowW
      <4>1. i + (n + 1 - WindowW) = n + 1
        BY <1>4, <3>2
      <4>2. QED
        BY <1>3, <2>5, <2>6, <3>2, <4>1
    <3>3. QED
      BY <1>4, <3>1, <3>2
  <2>8. c = b
    BY <1>7, <2>5, <2>6, <2>7, SeqEqual
  <2>9. Twin!Push(a, r.rssi) = c
    BY <2>1, <2>2 DEF Twin!Push
  <2>10. QED
    BY <1>1, <1>5, <2>8, <2>9
<1>10. QED
  BY <1>8, <1>9

LEMMA RecentIsWindow ==
  ASSUME NEW p \in Seq(TwinRows)
  PROVE  /\ Len(Recent(p)) = WindowW <=> Len(p) >= WindowW
         /\ Len(p) >= WindowW => Recent(p) = WindowTo(p, Len(p))
<1>1. PICK n \in Nat : n = Len(p)
  BY LenProperties
<1>2. WindowW \in Nat
  BY TwinAssumption
<1>3. PICK a : a = Recent(p)
  OBVIOUS
<1>4. /\ a \in Seq(Readings) /\ Len(a) = (IF n < WindowW THEN n ELSE WindowW)
      /\ \A i \in 1..Len(a) : a[i] = p[i + (IF n < WindowW THEN 0 ELSE n - WindowW)].rssi
  BY <1>1, <1>3, RecentIs
<1>5. ASSUME n >= WindowW PROVE a = WindowTo(p, n)
  <2>1. Len(a) = WindowW /\ \A i \in 1..WindowW : a[i] = p[i + (n - WindowW)].rssi
    BY <1>2, <1>4, <1>5
  <2>2. \A i \in 1..WindowW : i + (n - WindowW) = n - WindowW + i
    BY <1>2
  <2>3. a \in [1..WindowW -> Readings]
    BY <1>4, <2>1, LenProperties
  <2>4. QED
    BY <2>1, <2>2, <2>3 DEF WindowTo
<1>6. QED
  BY <1>1, <1>2, <1>3, <1>4, <1>5

LEMMA DeviationsGrow ==
  ASSUME NEW p \in Seq(TwinRows), NEW r \in TwinRows, NEW ap
  PROVE  LET q == Append(p, r)
             stat == Twin!Facet(Recent(q), Baselines[ap])
         IN  DeviationsOf(q, ap) = DeviationsOf(p, ap) \cup
               IF Len(Recent(q)) = WindowW /\ (stat.shift \/ stat.spread) THEN {Twin!Deviation(ap, r.ts, stat)} ELSE {}
<1>1. PICK q : q = Append(p, r)
  OBVIOUS
<1>2. PICK n \in Nat : n = Len(p)
  BY LenProperties
<1>3. q \in Seq(TwinRows) /\ Len(q) = n + 1 /\ (\A i \in 1..n : q[i] = p[i]) /\ q[n + 1] = r
  BY <1>1, <1>2, AppendProperties
<1>4. WindowW \in Nat /\ WindowW # 0
  BY TwinAssumption
<1>5. ASSUME NEW i \in 1..n, i >= WindowW PROVE WindowTo(q, i) = WindowTo(p, i)
  <2>1. \A j \in 1..WindowW : i - WindowW + j \in 1..n
    BY <1>4, <1>5
  <2>2. QED
    BY <1>3, <2>1 DEF WindowTo
<1>6. ASSUME NEW i \in 1..n
      PROVE  /\ Deviates(q, i, ap) <=> Deviates(p, i, ap)
             /\ Deviates(p, i, ap) => DeviationAt(q, i, ap) = DeviationAt(p, i, ap)
  <2>1. CASE i >= WindowW
    <3>1. Shown(q, i, ap) = Shown(p, i, ap)
      BY <1>5, <2>1 DEF Shown
    <3>2. QED
      BY <1>3, <3>1 DEF Deviates, DeviationAt
  <2>2. CASE ~(i >= WindowW)
    BY <2>2 DEF Deviates
  <2>3. QED
    BY <2>1, <2>2
<1>7. PICK stat : stat = Twin!Facet(Recent(q), Baselines[ap])
  OBVIOUS
<1>8. (Len(Recent(q)) = WindowW <=> n + 1 >= WindowW) /\ (n + 1 >= WindowW => Recent(q) = WindowTo(q, n + 1))
  BY <1>3, RecentIsWindow
<1>9. n + 1 >= WindowW => Shown(q, n + 1, ap) = stat
  BY <1>7, <1>8 DEF Shown
<1>10. Deviates(q, n + 1, ap) <=> Len(Recent(q)) = WindowW /\ (stat.shift \/ stat.spread)
  <2>1. PICK l, x : l = Len(Recent(q)) /\ x = Shown(q, n + 1, ap)
    OBVIOUS
  <2>2. Deviates(q, n + 1, ap) <=> n + 1 >= WindowW /\ (x.shift \/ x.spread)
    BY <2>1 DEF Deviates
  <2>3. QED
    BY <1>8, <1>9, <2>1, <2>2
<1>11. Deviates(q, n + 1, ap) => DeviationAt(q, n + 1, ap) = Twin!Deviation(ap, r.ts, stat)
  BY <1>3, <1>9 DEF Deviates, DeviationAt
<1>12. \A i \in 1..(n + 1) : i \in 1..n \/ i = n + 1
  OBVIOUS
<1>13. PICK D : D = IF Deviates(q, n + 1, ap) THEN {Twin!Deviation(ap, r.ts, stat)} ELSE {}
  OBVIOUS
<1>14. DeviationsOf(q, ap) = DeviationsOf(p, ap) \cup D
  <2>1. ASSUME NEW d \in DeviationsOf(q, ap) PROVE d \in DeviationsOf(p, ap) \cup D
    <3>1. PICK i \in 1..(n + 1) : Deviates(q, i, ap) /\ d = DeviationAt(q, i, ap)
      BY <1>3, <2>1 DEF DeviationsOf
    <3>2. CASE i \in 1..n
      BY <1>2, <1>6, <3>1, <3>2 DEF DeviationsOf
    <3>3. CASE i = n + 1
      BY <1>11, <1>13, <3>1, <3>3
    <3>4. QED
      BY <1>12, <3>2, <3>3
  <2>2. ASSUME NEW d \in DeviationsOf(p, ap) PROVE d \in DeviationsOf(q, ap)
    <3>1. PICK i \in 1..n : Deviates(p, i, ap) /\ d = DeviationAt(p, i, ap)
      BY <1>2 DEF DeviationsOf
    <3>2. i \in 1..Len(q) /\ Deviates(q, i, ap) /\ d = DeviationAt(q, i, ap)
      BY <1>3, <1>6, <3>1
    <3>3. QED
      BY <3>2 DEF DeviationsOf
  <2>3. ASSUME NEW d \in D PROVE d \in DeviationsOf(q, ap)
    <3>1. Deviates(q, n + 1, ap) /\ d = DeviationAt(q, n + 1, ap)
      BY <1>11, <1>13
    <3>2. n + 1 \in 1..Len(q)
      BY <1>3
    <3>3. QED
      BY <3>1, <3>2 DEF DeviationsOf
  <2>4. QED
    BY <2>1, <2>2, <2>3
<1>15. D = IF Len(Recent(q)) = WindowW /\ (stat.shift \/ stat.spread) THEN {Twin!Deviation(ap, r.ts, stat)} ELSE {}
  <2>1. CASE Deviates(q, n + 1, ap)
    BY <1>10, <1>13, <2>1
  <2>2. CASE ~Deviates(q, n + 1, ap)
    BY <1>10, <1>13, <2>2
  <2>3. QED
    BY <2>1, <2>2
<1>16. QED
  BY Zenon, <1>1, <1>7, <1>14, <1>15

-----------------------------------------------------------------------------
(* The one pass over the cursor finds the deviating windows.                *)

TwinInv ==
  /\ CursorOrder(rowsRead)
  /\ group = IF rowsRead = <<>> THEN 0 ELSE rowsRead[Len(rowsRead)].ap
  /\ buf = Recent(Picked(rowsRead, group))
  /\ deviations = UNION {DeviationsOf(Picked(rowsRead, ap), ap) : ap \in TwinAps}

\* No row of a device is no compared reading.
LEMMA NonePicked ==
  ASSUME NEW s \in Seq(TwinRows), NEW ap, \A i \in 1..Len(s) : s[i].ap # ap
  PROVE  Picked(s, ap) = <<>> /\ Recent(Picked(s, ap)) = <<>>
<1>1. PICK f : f = Rules!Ascending(ComparedAt(s, ap))
  OBVIOUS
<1>2. PICK n \in Nat : Rising(f, n, ComparedAt(s, ap)) /\ Picked(s, ap) = [k \in 1..n |-> s[f[k]]]
  BY <1>1, PickedIs
<1>3. ComparedAt(s, ap) = {}
  BY DEF ComparedAt
<1>4. n = 0
  <2>1. SUFFICES ASSUME n # 0 PROVE FALSE
    OBVIOUS
  <2>2. 1 \in 1..n
    BY <2>1
  <2>3. f[1] \in {}
    BY <1>2, <1>3, <2>2 DEF Rising
  <2>4. QED
    BY <2>3
<1>5. PICK p : p = Picked(s, ap)
  OBVIOUS
<1>6. p = <<>>
  BY <1>2, <1>4, <1>5
<1>7. WindowW \in Nat /\ WindowW # 0
  BY TwinAssumption
<1>8. <<>> \in Seq(TwinRows) /\ Len(<<>>) = 0
  OBVIOUS
<1>9. Recent(<<>>) \in Seq(Readings) /\ Len(Recent(<<>>)) = 0
  <2>1. PICK e \in Seq(TwinRows) : e = <<>> /\ Len(e) = 0
    BY <1>8
  <2>2. Recent(e) \in Seq(Readings) /\ Len(Recent(e)) = IF Len(e) < WindowW THEN Len(e) ELSE WindowW
    BY RecentIs
  <2>3. QED
    BY <1>7, <2>1, <2>2
<1>10. Recent(<<>>) = <<>>
  BY <1>9, EmptySeq
<1>11. QED
  BY <1>5, <1>6, <1>10

LEMMA TwinInit == Twin!Init => TwinInv
<1>1. SUFFICES ASSUME Twin!Init PROVE TwinInv
  OBVIOUS
<1>2. rowsRead = <<>> /\ group = 0 /\ buf = <<>> /\ deviations = {}
  BY Zenon, <1>1 DEF Twin!Init
<1>3. <<>> \in Seq(TwinRows) /\ Len(<<>>) = 0
  OBVIOUS
<1>4. \A ap : Picked(<<>>, ap) = <<>> /\ Recent(Picked(<<>>, ap)) = <<>>
  <2>1. SUFFICES ASSUME NEW ap PROVE Picked(<<>>, ap) = <<>> /\ Recent(Picked(<<>>, ap)) = <<>>
    OBVIOUS
  <2>2. PICK s \in Seq(TwinRows) : s = <<>>
    BY <1>3
  <2>3. \A i \in 1..Len(s) : s[i].ap # ap
    BY <1>3, <2>2
  <2>4. Picked(s, ap) = <<>> /\ Recent(Picked(s, ap)) = <<>>
    BY <2>3, NonePicked
  <2>5. QED
    BY <2>2, <2>4
<1>5. \A ap : DeviationsOf(<<>>, ap) = {}
  BY DEF DeviationsOf
<1>6. CursorOrder(<<>>)
  BY <1>3 DEF CursorOrder
<1>7. UNION {DeviationsOf(Picked(<<>>, ap), ap) : ap \in TwinAps} = {}
  BY <1>4, <1>5
<1>8. QED
  BY <1>2, <1>4, <1>6, <1>7 DEF TwinInv

LEMMA TwinStays ==
  ASSUME TwinInv, UNCHANGED twinVars
  PROVE  TwinInv'
BY DEF TwinInv, twinVars

LEMMA TwinRow ==
  ASSUME TwinInv, NEW ap \in TwinAps, NEW ts \in 0..MaxTs, NEW rssi \in Readings, Twin!Row(ap, ts, rssi)
  PROVE  TwinInv'
<1>1. PICK s, r : s = rowsRead /\ r = [ap |-> ap, ts |-> ts, rssi |-> rssi]
  OBVIOUS
<1>2. r \in TwinRows /\ r.ap = ap /\ r.ts = ts /\ r.rssi = rssi
  BY <1>1 DEF TwinRows
<1>3. s \in Seq(TwinRows) /\ \A i, j \in 1..Len(s) : i < j => Precedes(s[i], s[j])
  BY <1>1 DEF TwinInv, CursorOrder
<1>4. PICK n \in Nat : n = Len(s)
  BY <1>3, LenProperties
<1>5. PICK u : u = Append(s, r)
  OBVIOUS
<1>6. u \in Seq(TwinRows) /\ Len(u) = n + 1 /\ (\A i \in 1..n : u[i] = s[i]) /\ u[n + 1] = r /\ u # <<>>
  BY <1>2, <1>3, <1>4, <1>5, AppendProperties
<1>7. rowsRead' = u /\ group' = ap
  BY <1>1, <1>5 DEF Twin!Row
<1>8. n # 0 => s[n].ap < ap \/ (s[n].ap = ap /\ s[n].ts < ts)
  BY <1>1, <1>3, <1>4 DEF Twin!Row, Twin!After
<1>9. \A i \in 1..n : s[i].ap \in Int /\ s[i].ts \in Int
  <2>1. SUFFICES ASSUME NEW i \in 1..n PROVE s[i].ap \in Int /\ s[i].ts \in Int
    OBVIOUS
  <2>2. s[i] \in TwinRows
    BY <1>3, <1>4, ElementOfSeq
  <2>3. TwinAps \subseteq Int /\ MaxTs \in Nat
    BY TwinAssumption
  <2>4. s[i].ap \in TwinAps /\ s[i].ts \in 0..MaxTs
    BY <2>2 DEF TwinRows
  <2>5. QED
    BY <2>3, <2>4
<1>10. ap \in Int /\ ts \in Int /\ ap # 0
  BY TwinAssumption
<1>11. \A i \in 1..n : Precedes(s[i], r) /\ s[i].ap <= s[n].ap
  <2>1. SUFFICES ASSUME NEW i \in 1..n PROVE Precedes(s[i], r) /\ s[i].ap <= s[n].ap
    OBVIOUS
  <2>2. n \in 1..n /\ (i = n \/ i < n)
    OBVIOUS
  <2>3. i = n \/ Precedes(s[i], s[n])
    BY <1>3, <1>4, <2>2
  <2>4. s[n].ap < ap \/ (s[n].ap = ap /\ s[n].ts < ts)
    BY <1>8
  <2>5. s[i].ap \in Int /\ s[i].ts \in Int /\ s[n].ap \in Int /\ s[n].ts \in Int
    BY <1>9, <2>2
  <2>6. QED
    BY <1>2, <1>10, <2>3, <2>4, <2>5 DEF Precedes
<1>12. CursorOrder(u)
  <2>1. ASSUME NEW i \in 1..(n + 1), NEW j \in 1..(n + 1), i < j PROVE Precedes(u[i], u[j])
    <3>1. i \in 1..n /\ (j \in 1..n \/ j = n + 1)
      BY <2>1
    <3>2. QED
      BY <1>3, <1>4, <1>6, <1>11, <2>1, <3>1
  <2>2. QED
    BY <1>6, <2>1 DEF CursorOrder
<1>13. PICK p, q : p = Picked(s, ap) /\ q = Picked(u, ap)
  OBVIOUS
<1>14. p \in Seq(TwinRows)
  BY <1>1, <1>13, PickedInOrder DEF TwinInv, PickedOK
<1>15. q = IF Twin!Uses(ap, ts) THEN Append(p, r) ELSE p
  BY <1>2, <1>3, <1>5, <1>13, PickedGrows
<1>16. PICK old : old = IF group = ap THEN buf ELSE <<>>
  OBVIOUS
<1>17. old = Recent(p)
  <2>1. CASE group = ap
    BY <1>1, <1>13, <1>16, <2>1 DEF TwinInv
  <2>2. CASE group # ap
    <3>1. \A i \in 1..n : s[i].ap # ap
      <4>1. SUFFICES ASSUME NEW i \in 1..n PROVE s[i].ap # ap
        OBVIOUS
      <4>2. s # <<>>
        BY <1>4
      <4>3. group = s[n].ap
        BY <1>1, <1>4, <4>2 DEF TwinInv
      <4>4. n # 0 /\ n \in 1..n
        OBVIOUS
      <4>5. s[n].ap < ap
        BY <1>8, <2>2, <4>3, <4>4
      <4>6. s[i].ap <= s[n].ap /\ s[i].ap \in Int /\ s[n].ap \in Int
        BY <1>9, <1>11, <4>4
      <4>7. QED
        BY <1>10, <4>5, <4>6
    <3>2. Recent(p) = <<>>
      BY <1>3, <1>4, <1>13, <3>1, NonePicked
    <3>3. QED
      BY <1>16, <2>2, <3>2
  <2>3. QED
    BY <2>1, <2>2
<1>18. PICK new, stat : new = Twin!Push(old, rssi) /\ stat = Twin!Facet(new, Baselines[ap])
  OBVIOUS
<1>19. /\ buf' = IF Twin!Uses(ap, ts) THEN new ELSE old
       /\ deviations' = IF Twin!Uses(ap, ts) /\ Len(new) = WindowW /\ (stat.shift \/ stat.spread)
                        THEN deviations \cup {Twin!Deviation(ap, ts, stat)} ELSE deviations
  BY Zenon, <1>16, <1>18 DEF Twin!Row
<1>20. new = Recent(Append(p, r))
  BY <1>2, <1>14, <1>17, <1>18, PushIs
<1>21. buf' = Recent(q)
  BY <1>15, <1>17, <1>19, <1>20
<1>22. \A a \in TwinAps : a # ap => Picked(u, a) = Picked(s, a)
  BY <1>2, <1>3, <1>5, PickedGrows
<1>23. PICK D : D = IF Twin!Uses(ap, ts) /\ Len(new) = WindowW /\ (stat.shift \/ stat.spread)
                    THEN {Twin!Deviation(ap, ts, stat)} ELSE {}
  OBVIOUS
<1>24. deviations' = deviations \cup D
  <2>1. CASE Twin!Uses(ap, ts) /\ Len(new) = WindowW /\ (stat.shift \/ stat.spread)
    BY <1>19, <1>23, <2>1
  <2>2. CASE ~(Twin!Uses(ap, ts) /\ Len(new) = WindowW /\ (stat.shift \/ stat.spread))
    BY <1>19, <1>23, <2>2
  <2>3. QED
    BY <2>1, <2>2
<1>25. DeviationsOf(q, ap) = DeviationsOf(p, ap) \cup D
  <2>1. CASE Twin!Uses(ap, ts)
    <3>1. PICK v : v = Append(p, r)
      OBVIOUS
    <3>2. DeviationsOf(v, ap) = DeviationsOf(p, ap) \cup
            IF Len(Recent(v)) = WindowW /\ (Twin!Facet(Recent(v), Baselines[ap]).shift \/ Twin!Facet(Recent(v), Baselines[ap]).spread)
            THEN {Twin!Deviation(ap, r.ts, Twin!Facet(Recent(v), Baselines[ap]))} ELSE {}
      BY Zenon, <1>2, <1>14, <3>1, DeviationsGrow
    <3>3. stat = Twin!Facet(Recent(v), Baselines[ap]) /\ new = Recent(v) /\ q = v
      BY <1>15, <1>18, <1>20, <2>1, <3>1
    <3>4. DeviationsOf(v, ap) = DeviationsOf(p, ap) \cup
            IF Len(new) = WindowW /\ (stat.shift \/ stat.spread) THEN {Twin!Deviation(ap, r.ts, stat)} ELSE {}
      BY Zenon, <3>2, <3>3
    <3>5. D = IF Len(new) = WindowW /\ (stat.shift \/ stat.spread) THEN {Twin!Deviation(ap, r.ts, stat)} ELSE {}
      BY <1>2, <1>23, <2>1
    <3>6. QED
      BY <3>3, <3>4, <3>5
  <2>2. CASE ~Twin!Uses(ap, ts)
    BY <1>15, <1>23, <2>2
  <2>3. QED
    BY <2>1, <2>2
<1>26. deviations = UNION {DeviationsOf(Picked(s, a), a) : a \in TwinAps}
  BY <1>1 DEF TwinInv
<1>27. deviations' = UNION {DeviationsOf(Picked(u, a), a) : a \in TwinAps}
  <2>1. ASSUME NEW d \in deviations' PROVE d \in UNION {DeviationsOf(Picked(u, a), a) : a \in TwinAps}
    <3>1. CASE d \in D
      BY <1>13, <1>25, <3>1
    <3>2. CASE d \in deviations
      <4>1. PICK a \in TwinAps : d \in DeviationsOf(Picked(s, a), a)
        BY <1>26, <3>2
      <4>2. CASE a = ap
        BY <1>13, <1>25, <4>1, <4>2
      <4>3. CASE a # ap
        BY <1>22, <4>1, <4>3
      <4>4. QED
        BY <4>2, <4>3
    <3>3. QED
      BY <1>24, <2>1, <3>1, <3>2
  <2>2. ASSUME NEW a \in TwinAps, NEW d \in DeviationsOf(Picked(u, a), a) PROVE d \in deviations'
    <3>1. CASE a = ap
      <4>1. d \in DeviationsOf(p, ap) \/ d \in D
        BY <1>13, <1>25, <2>2, <3>1
      <4>2. d \in DeviationsOf(p, ap) => d \in deviations
        BY <1>13, <1>26
      <4>3. QED
        BY <1>24, <4>1, <4>2
    <3>2. CASE a # ap
      BY <1>22, <1>24, <1>26, <2>2, <3>2
    <3>3. QED
      BY <3>1, <3>2
  <2>3. QED
    BY <2>1, <2>2
<1>28. group' = IF u = <<>> THEN 0 ELSE u[Len(u)].ap
  BY <1>2, <1>6, <1>7
<1>29. QED
  <2>1. PICK v, g, b, d : v = rowsRead' /\ g = group' /\ b = buf' /\ d = deviations'
    OBVIOUS
  <2>2. /\ CursorOrder(v) /\ g = (IF v = <<>> THEN 0 ELSE v[Len(v)].ap)
        /\ b = Recent(Picked(v, g)) /\ d = UNION {DeviationsOf(Picked(v, a), a) : a \in TwinAps}
    BY <1>7, <1>12, <1>13, <1>21, <1>27, <1>28, <2>1
  <2>3. QED
    BY <2>1, <2>2 DEF TwinInv

LEMMA TwinInvIsInvariant ==
  ServerSpec => [](part = "evil_twin" => TwinInv)
<1> DEFINE IInv == part = "evil_twin" => TwinInv
<1>1. ServerInit => IInv
  BY TwinInit DEF ServerInit
<1>2. IInv /\ [ServerNext]_<<part, ingestVars, readVars, importVars, periodVars, evaluationVars, feedVars, floodVars, twinVars>> => IInv'
  <2>1. SUFFICES ASSUME IInv, [ServerNext]_<<part, ingestVars, readVars, importVars, periodVars, evaluationVars, feedVars, floodVars, twinVars>>,
                        part' = "evil_twin"
                 PROVE  TwinInv'
    OBVIOUS
  <2>2. CASE part = "evil_twin" /\ Twin!Next
    BY <2>1, <2>2, TwinRow DEF Twin!Next
  <2>3. CASE part = "evil_twin" /\ UNCHANGED twinVars
    BY <2>1, <2>3, TwinStays
  <2>4. QED
    BY <2>1, <2>2, <2>3 DEF ServerNext
<1>3. QED
  BY <1>1, <1>2, PTL DEF ServerSpec

-----------------------------------------------------------------------------
(* What the one pass found is what the windows of the definition show.      *)

\* The instance of the rules inside Twin says what the rules say.
LEMMA TwinRules ==
  /\ \A S : Twin!Min(S) = Rules!Min(S) /\ Twin!Max(S) = Rules!Max(S)
  /\ \A S : Twin!Cardinality(S) = Cardinality(S)
  /\ \A E : Twin!FirstTs(E) = Rules!FirstTs(E) /\ Twin!LastTs(E) = Rules!LastTs(E)
  /\ \A E : Twin!SortedTs(E) = Rules!SortedTs(E)
  /\ \A E, gap : Twin!BuildEpisodes(E, gap) = Rules!BuildEpisodes(E, gap)
  /\ \A s, w : Twin!MaxInWindow(s, w) = Rules!MaxInWindow(s, w)
  /\ \A T : Twin!Ascending(T) = Rules!Ascending(T)
<1>1. \A S : Twin!Min(S) = Rules!Min(S) /\ Twin!Max(S) = Rules!Max(S)
  BY Zenon DEF Twin!Min, Rules!Min, Twin!Max, Rules!Max
<1>2. \A S : Twin!Cardinality(S) = Cardinality(S)
  BY Zenon DEF Twin!Cardinality, Cardinality
<1>3. \A E : Twin!FirstTs(E) = Rules!FirstTs(E) /\ Twin!LastTs(E) = Rules!LastTs(E)
  BY Zenon DEF Twin!FirstTs, Twin!LastTs, Rules!FirstTs, Rules!LastTs, Twin!Min, Rules!Min, Twin!Max, Rules!Max,
     Twin!Times, Rules!Times
<1>4. \A E : Twin!SortedTs(E) = Rules!SortedTs(E)
  BY Zenon DEF Twin!SortedTs, Rules!SortedTs, Twin!Min, Rules!Min, Twin!Times, Rules!Times, Twin!Cardinality,
     Rules!Cardinality
<1>5. \A E, gap : Twin!BuildEpisodes(E, gap) = Rules!BuildEpisodes(E, gap)
  BY Zenon DEF Twin!BuildEpisodes, Rules!BuildEpisodes, Twin!FoldLeft, Rules!FoldLeft, Twin!MapThenFoldSet,
     Rules!MapThenFoldSet, Twin!AddToEpisodes, Rules!AddToEpisodes, Twin!Max, Rules!Max, Twin!Ascending,
     Rules!Ascending, Twin!Times, Rules!Times, Twin!Cardinality, Rules!Cardinality
<1>6. \A s, w : Twin!MaxInWindow(s, w) = Rules!MaxInWindow(s, w)
  BY Zenon DEF Twin!MaxInWindow, Rules!MaxInWindow, Twin!FoldLeftDomain, Rules!FoldLeftDomain, Twin!FoldLeft,
     Rules!FoldLeft, Twin!MapThenFoldSet, Rules!MapThenFoldSet, Twin!SlideTo, Rules!SlideTo, Twin!Max, Rules!Max,
     Twin!Min, Rules!Min
<1>7. \A T : Twin!Ascending(T) = Rules!Ascending(T)
  BY Zenon DEF Twin!Ascending, Rules!Ascending, Twin!Cardinality, Rules!Cardinality
<1>8. QED
  BY <1>1, <1>2, <1>3, <1>4, <1>5, <1>6, <1>7

LEMMA ComparedIs ==
  ASSUME CursorOrder(rowsRead), NEW ap
  PROVE  Twin!Compared(ap) = Picked(rowsRead, ap)
<1>1. PICK s \in Seq(TwinRows) : s = rowsRead
  BY DEF CursorOrder
<1>2. DOMAIN s = 1..Len(s)
  BY LenProperties
<1>3. {i \in DOMAIN rowsRead : rowsRead[i].ap = ap /\ Twin!Uses(ap, rowsRead[i].ts)} = ComparedAt(rowsRead, ap)
  BY <1>1, <1>2 DEF ComparedAt
<1>4. PICK at : at = Rules!Ascending(ComparedAt(rowsRead, ap)) /\ at = Twin!Ascending(ComparedAt(rowsRead, ap))
  BY TwinRules
<1>5. Twin!Compared(ap) = [k \in DOMAIN at |-> rowsRead[at[k]]]
  BY Zenon, <1>3, <1>4 DEF Twin!Compared
<1>6. Picked(rowsRead, ap) = [k \in DOMAIN at |-> rowsRead[at[k]]]
  BY Zenon, <1>4 DEF Picked
<1>7. QED
  BY <1>5, <1>6

\* The windows of some rows by definition.
Windowing(s, ap) ==
  LET ends == {i \in DOMAIN s : i >= WindowW}
      stat(i) == Twin!Facet(SubSeq(Twin!LevelsOf(s), i - WindowW + 1, i), Baselines[ap])
  IN  {Twin!Deviation(ap, s[i].ts, stat(i)) : i \in {j \in ends : stat(j).shift \/ stat(j).spread}}

LEMMA WindowingIs ==
  ASSUME NEW s \in Seq(TwinRows), NEW ap
  PROVE  Windowing(s, ap) = DeviationsOf(s, ap)
<1>1. WindowW \in Nat /\ WindowW # 0
  BY TwinAssumption
<1>2. PICK n \in Nat : n = Len(s) /\ DOMAIN s = 1..n
  BY LenProperties
<1>3. ASSUME NEW i \in 1..n, i >= WindowW
      PROVE  SubSeq(Twin!LevelsOf(s), i - WindowW + 1, i) = WindowTo(s, i)
  <2>1. PICK l : l = Twin!LevelsOf(s)
    OBVIOUS
  <2>2. l = [j \in 1..n |-> s[j].rssi]
    BY <1>2, <2>1 DEF Twin!LevelsOf
  <2>3. ASSUME NEW j \in (i - WindowW + 1)..i PROVE l[j] \in Readings
    <3>1. j \in 1..n
      BY <1>1, <1>3
    <3>2. s[j] \in TwinRows
      BY <1>2, <3>1, ElementOfSeq
    <3>3. QED
      BY <2>2, <3>1, <3>2 DEF TwinRows
  <2>4. PICK a : a = i - WindowW + 1 /\ a \in Int
    BY <1>1
  <2>5. PICK w : w = SubSeq(l, a, i)
    OBVIOUS
  <2>6. w \in Seq(Readings) /\ Len(w) = (IF a <= i THEN i - a + 1 ELSE 0) /\ \A j \in 1..(i - a + 1) : w[j] = l[a + j - 1]
    BY <2>3, <2>4, <2>5, SubSeqProperties
  <2>7. i - a + 1 = WindowW /\ a <= i
    BY <1>1, <2>4
  <2>8. Len(w) = WindowW /\ \A j \in 1..WindowW : w[j] = l[a + j - 1]
    BY <2>6, <2>7
  <2>9. \A j \in 1..WindowW : a + j - 1 \in 1..n /\ a + j - 1 = i - WindowW + j
    BY <1>1, <1>3, <2>4
  <2>10. \A j \in 1..WindowW : w[j] = s[i - WindowW + j].rssi
    BY <2>2, <2>8, <2>9
  <2>11. w \in [1..WindowW -> Readings]
    BY <2>6, <2>8, LenProperties
  <2>12. w = WindowTo(s, i)
    BY <2>10, <2>11 DEF WindowTo
  <2>13. QED
    BY <2>1, <2>4, <2>5, <2>12
<1> DEFINE ends == {i \in DOMAIN s : i >= WindowW}
           stat(i) == Twin!Facet(SubSeq(Twin!LevelsOf(s), i - WindowW + 1, i), Baselines[ap])
<1>4. \A i \in ends : stat(i) = Shown(s, i, ap)
  BY <1>2, <1>3 DEF Shown
<1>5. \A i : i \in ends <=> i \in 1..n /\ i >= WindowW
  BY <1>2
<1>6. Windowing(s, ap) = {Twin!Deviation(ap, s[i].ts, stat(i)) : i \in {j \in ends : stat(j).shift \/ stat(j).spread}}
  BY Zenon DEF Windowing
<1> HIDE DEF stat, ends
<1>7. \A i : i \in {j \in ends : stat(j).shift \/ stat(j).spread} <=> i \in {j \in 1..Len(s) : Deviates(s, j, ap)}
  BY <1>2, <1>4, <1>5 DEF Deviates
<1>8. \A i \in {j \in ends : stat(j).shift \/ stat(j).spread} :
        Twin!Deviation(ap, s[i].ts, stat(i)) = DeviationAt(s, i, ap)
  BY <1>4 DEF DeviationAt
<1>9. QED
  BY <1>6, <1>7, <1>8 DEF DeviationsOf

LEMMA StreamingFromInv == TwinInv => Twin!StreamingIsWindowing
<1>1. SUFFICES ASSUME TwinInv PROVE Twin!StreamingIsWindowing
  OBVIOUS
<1>2. \A ap \in TwinAps : Windowing(Twin!Compared(ap), ap) = DeviationsOf(Picked(rowsRead, ap), ap)
  <2>1. SUFFICES ASSUME NEW ap \in TwinAps
                 PROVE  Windowing(Twin!Compared(ap), ap) = DeviationsOf(Picked(rowsRead, ap), ap)
    OBVIOUS
  <2>2. Twin!Compared(ap) = Picked(rowsRead, ap)
    BY <1>1, ComparedIs DEF TwinInv
  <2>3. Picked(rowsRead, ap) \in Seq(TwinRows)
    BY <1>1, PickedInOrder DEF TwinInv, PickedOK
  <2>4. QED
    BY <2>2, <2>3, WindowingIs
<1>3. deviations = UNION {Windowing(Twin!Compared(ap), ap) : ap \in TwinAps}
  BY <1>1, <1>2 DEF TwinInv
<1>4. QED
  BY Zenon, <1>3 DEF Twin!StreamingIsWindowing, Windowing

\* Each deviation is a window of some device's compared readings.
LEMMA DeviationIs ==
  ASSUME TwinInv, NEW d \in deviations
  PROVE  \E ap \in TwinAps : \E i \in 1..Len(Picked(rowsRead, ap)) :
           /\ d.ap = ap /\ d.ts = Picked(rowsRead, ap)[i].ts /\ d.ts \in 0..MaxTs
           /\ Deviates(Picked(rowsRead, ap), i, ap) /\ d = DeviationAt(Picked(rowsRead, ap), i, ap)
<1>1. PICK ap \in TwinAps : d \in DeviationsOf(Picked(rowsRead, ap), ap)
  BY DEF TwinInv
<1>2. PICK p : p = Picked(rowsRead, ap)
  OBVIOUS
<1>3. p \in Seq(TwinRows)
  BY <1>2, PickedInOrder DEF TwinInv, PickedOK
<1>4. PICK i \in 1..Len(p) : Deviates(p, i, ap) /\ d = DeviationAt(p, i, ap)
  BY <1>1, <1>2 DEF DeviationsOf
<1>5. d.ap = ap /\ d.ts = p[i].ts
  BY <1>4 DEF DeviationAt, Twin!Deviation
<1>6. p[i] \in TwinRows
  BY <1>3, <1>4, ElementOfSeq
<1>7. QED
  BY <1>2, <1>4, <1>5, <1>6 DEF TwinRows

-----------------------------------------------------------------------------
(* Medians of windows in which all readings but one at the most are equal.  *)

AllButOne(w, n, c) == \A i, j \in 1..n : w[i] # c /\ w[j] # c => i = j

LEMMA MostlyKth ==
  ASSUME NEW n \in Nat, n >= 3, NEW w \in [1..n -> Int], NEW c \in Int, AllButOne(w, n, c), NEW k \in 2..(n - 1)
  PROVE  Twin!Kth(w, k) = c
<1> DEFINE Upto(x) == {i \in 1..n : w[i] <= x}
           Cand == {x \in {w[i] : i \in 1..n} : Cardinality(Upto(x)) >= k}
<1>1. Twin!Kth(w, k) = Rules!Min(Cand)
  <2>1. Twin!Range(w) = {w[i] : i \in 1..n}
    BY DEF Twin!Range
  <2>2. Twin!Kth(w, k) = Twin!Min({x \in Twin!Range(w) : Twin!Cardinality({i \in DOMAIN w : w[i] <= x}) >= k})
    BY Zenon DEF Twin!Kth
  <2>3. DOMAIN w = 1..n
    OBVIOUS
  <2>4. \A S : Twin!Cardinality(S) = Cardinality(S)
    BY TwinRules
  <2>5. {x \in Twin!Range(w) : Twin!Cardinality({i \in DOMAIN w : w[i] <= x}) >= k} = Cand
    BY <2>1, <2>3, <2>4
  <2> HIDE DEF Cand
  <2>6. QED
    BY <2>2, <2>5, TwinRules
<1>2. IsFiniteSet(1..n) /\ Cardinality(1..n) = n
  BY UpTo
<1>3. PICK a \in 1..n : w[a] = c
  <2>1. 1 \in 1..n /\ 2 \in 1..n
    OBVIOUS
  <2>2. w[1] = c \/ w[2] = c
    BY <2>1 DEF AllButOne
  <2>3. QED
    BY <2>1, <2>2
<1>4. \A x : IsFiniteSet(Upto(x)) /\ Cardinality(Upto(x)) \in Nat
  <2>1. SUFFICES ASSUME NEW x PROVE IsFiniteSet(Upto(x)) /\ Cardinality(Upto(x)) \in Nat
    OBVIOUS
  <2>2. Upto(x) \subseteq 1..n
    OBVIOUS
  <2> HIDE DEF Upto
  <2>3. QED
    BY <1>2, <2>2, FS_Subset, FS_CardinalityType
<1>5. Cardinality(Upto(c)) >= n - 1
  <2>1. CASE \E b \in 1..n : w[b] # c
    <3>1. PICK b \in 1..n : w[b] # c
      BY <2>1
    <3>2. (1..n) \ {b} \subseteq Upto(c)
      <4>1. \A i \in (1..n) \ {b} : w[i] = c
        BY <3>1 DEF AllButOne
      <4>2. QED
        BY <4>1
    <3>3. IsFiniteSet((1..n) \ {b}) /\ Cardinality((1..n) \ {b}) = n - 1
      BY <1>2, <3>1, FS_RemoveElement
    <3> HIDE DEF Upto
    <3>4. Cardinality((1..n) \ {b}) <= Cardinality(Upto(c))
      BY <1>4, <3>2, FS_Subset
    <3>5. QED
      BY <1>4, <3>3, <3>4
  <2>2. CASE ~\E b \in 1..n : w[b] # c
    <3>1. Upto(c) = 1..n
      BY <2>2
    <3> HIDE DEF Upto
    <3>2. QED
      BY <1>2, <3>1
  <2>3. QED
    BY <2>1, <2>2
<1>6. c \in Cand
  <2>1. PICK z \in Nat : z = Cardinality(Upto(c))
    BY <1>4
  <2>2. z >= k
    BY <1>5, <2>1
  <2>3. QED
    BY <1>3, <2>1, <2>2
<1>7. ASSUME NEW x \in Cand PROVE c <= x
  <2>1. SUFFICES ASSUME x < c PROVE FALSE
    OBVIOUS
  <2>2. x \in Int
    OBVIOUS
  <2>3. \A i \in Upto(x) : i \in 1..n /\ w[i] # c
    BY <2>1, <2>2
  <2>4. \A i, j \in Upto(x) : i = j
    BY <2>3 DEF AllButOne
  <2> HIDE DEF Upto
  <2>5. Cardinality(Upto(x)) <= 1
    <3>1. CASE Upto(x) = {}
      BY <3>1, FS_EmptySet
    <3>2. CASE Upto(x) # {}
      <4>1. PICK i \in Upto(x) : Upto(x) = {i}
        BY <2>4, <3>2
      <4>2. Cardinality({i}) = 1
        BY FS_Singleton
      <4>3. QED
        BY <4>1, <4>2
    <3>3. QED
      BY <3>1, <3>2
  <2>6. Cardinality(Upto(x)) >= k /\ Cardinality(Upto(x)) \in Nat
    BY <1>4
  <2>7. QED
    BY <2>5, <2>6
<1>8. Cand \subseteq Int /\ IsFiniteSet(Cand)
  <2> DEFINE V == {w[i] : i \in 1..n}
             g == [i \in 1..n |-> w[i]]
  <2>1. g \in Surjection(1..n, V)
    BY DEF Surjection
  <2>2. V \subseteq Int
    OBVIOUS
  <2>3. Cand \subseteq V
    OBVIOUS
  <2> HIDE DEF V, g, Cand
  <2>4. IsFiniteSet(V)
    BY <1>2, <2>1, FS_Surjection
  <2>5. QED
    BY <2>2, <2>3, <2>4, FS_Subset
<1> HIDE DEF Cand
<1>9. Rules!Min(Cand) \in Cand /\ \A x \in Cand : Rules!Min(Cand) <= x
  BY <1>6, <1>8, MaxMinAre
<1>10. PICK z : z = Rules!Min(Cand)
  OBVIOUS
<1>11. z \in Int /\ z <= c /\ c <= z
  BY <1>6, <1>7, <1>8, <1>9, <1>10
<1>12. QED
  BY <1>1, <1>10, <1>11

LEMMA MostlyMid2 ==
  ASSUME NEW n \in Nat, n >= 3, NEW w \in [1..n -> Int], Len(w) = n, NEW c \in Int, AllButOne(w, n, c)
  PROVE  Twin!Mid2(w) = 2 * c
<1>1. (n + 1) \div 2 \in 2..(n - 1) /\ n \div 2 + 1 \in 2..(n - 1)
  OBVIOUS
<1>2. Twin!Kth(w, (n + 1) \div 2) = c /\ Twin!Kth(w, n \div 2 + 1) = c
  BY <1>1, MostlyKth
<1>3. Twin!Mid2(w) = c + c
  BY <1>2 DEF Twin!Mid2
<1>4. QED
  BY <1>3

\* Windows of three readings and more, and thresholds above zero.
Sensible == WindowW >= 3 /\ ShiftFloor > 0 /\ SpreadFloor > 0

LEMMA QuietWindow ==
  ASSUME Sensible, NEW m, m.median \in Int, m.sd \in Int,
         NEW w \in Seq(Readings), Len(w) = WindowW, AllButOne(w, WindowW, m.median)
  PROVE  ~Twin!Facet(w, m).shift /\ ~Twin!Facet(w, m).spread
<1>1. PICK n \in Nat, c \in Int : n = WindowW /\ c = m.median
  BY TwinAssumption
<1>2. n >= 3 /\ ShiftFloor > 0 /\ SpreadFloor > 0
  BY <1>1 DEF Sensible
<1>3. w \in [1..n -> Int]
  BY <1>1, LenProperties, TwinAssumption
<1>4. PICK mid2 : mid2 = Twin!Mid2(w) /\ mid2 = 2 * c
  BY <1>1, <1>2, <1>3, MostlyMid2
<1>5. \A x \in Int : Twin!Abs(x) \in Int
  BY DEF Twin!Abs
<1>6. Twin!Abs(0) = 0
  BY DEF Twin!Abs
<1>7. PICK v : v = [i \in DOMAIN w |-> Twin!Abs(2 * w[i] - mid2)]
  OBVIOUS
<1>8. v = [i \in 1..n |-> Twin!Abs(2 * w[i] - mid2)]
  BY <1>3, <1>7
<1>9. \A i \in 1..n : v[i] = Twin!Abs(2 * w[i] - 2 * c) /\ v[i] \in Int
  <2>1. SUFFICES ASSUME NEW i \in 1..n PROVE v[i] = Twin!Abs(2 * w[i] - 2 * c) /\ v[i] \in Int
    OBVIOUS
  <2>2. v[i] = Twin!Abs(2 * w[i] - 2 * c)
    BY <1>4, <1>8
  <2>3. w[i] \in Int
    BY <1>3
  <2>4. 2 * w[i] - 2 * c \in Int
    BY <2>3
  <2>5. QED
    BY <1>5, <2>2, <2>4
<1>10. v \in [1..n -> Int]
  BY <1>8, <1>9
<1>11. Len(v) = n
  BY <1>8
<1>12. \A i \in 1..n : w[i] = c => v[i] = 0
  <2>1. SUFFICES ASSUME NEW i \in 1..n, w[i] = c PROVE v[i] = 0
    OBVIOUS
  <2>2. 2 * w[i] - 2 * c = 0
    BY <2>1
  <2>3. QED
    BY <1>6, <1>9, <2>2
<1>13. AllButOne(v, n, 0)
  BY <1>1, <1>12 DEF AllButOne
<1>14. Twin!Mid2(v) = 0
  BY <1>2, <1>10, <1>11, <1>13, MostlyMid2
<1>15. PICK a, b : a = Twin!Max2(ShiftK * Twin!Sigma(m), ShiftFloor) /\ b = Twin!Max2(SpreadK * Twin!Sigma(m), SpreadFloor)
  OBVIOUS
<1>16. a \in Int /\ a > 0 /\ b \in Int /\ b > 0
  <2>1. ShiftK \in Int /\ SpreadK \in Int /\ ShiftFloor \in Int /\ SpreadFloor \in Int /\ SdFloor \in Int
    BY TwinAssumption
  <2>2. \A x, y \in Int : Twin!Max2(x, y) \in Int /\ Twin!Max2(x, y) >= y
    BY DEF Twin!Max2
  <2>3. Twin!Sigma(m) \in Int
    BY <2>1, <2>2 DEF Twin!Sigma
  <2>4. ShiftK * Twin!Sigma(m) \in Int /\ SpreadK * Twin!Sigma(m) \in Int
    BY <2>1, <2>3
  <2>5. a \in Int /\ a >= ShiftFloor /\ b \in Int /\ b >= SpreadFloor
    BY <1>15, <2>1, <2>2, <2>4
  <2>6. QED
    BY <1>2, <2>1, <2>5
<1>17. PICK d2 : d2 = mid2 - 2 * m.median /\ d2 = 0
  BY <1>1, <1>4
<1>18. Twin!Facet(w, m) = [dev2 |-> d2, shift |-> Twin!Abs(d2) >= 2 * a, spread |-> Twin!Mid2(v) >= 4 * b]
  BY Zenon, <1>4, <1>7, <1>15, <1>17 DEF Twin!Facet
<1>19. ~(Twin!Abs(d2) >= 2 * a) /\ ~(Twin!Mid2(v) >= 4 * b)
  BY <1>6, <1>14, <1>16, <1>17
<1>20. PICK s, t : s = (Twin!Abs(d2) >= 2 * a) /\ t = (Twin!Mid2(v) >= 4 * b)
  OBVIOUS
<1>21. Twin!Facet(w, m) = [dev2 |-> d2, shift |-> s, spread |-> t]
  BY <1>18, <1>20
<1>22. Twin!Facet(w, m).shift = s /\ Twin!Facet(w, m).spread = t
  BY <1>21
<1>23. QED
  BY Zenon, <1>19, <1>20, <1>22

LEMMA AtMostOne ==
  ASSUME NEW S, IsFiniteSet(S), Twin!Cardinality(S) <= 1, NEW a \in S, NEW b \in S
  PROVE  a = b
<1>1. Cardinality(S) \in Nat /\ Cardinality(S) <= 1
  BY TwinRules, FS_CardinalityType
<1>2. SUFFICES ASSUME a # b PROVE FALSE
  OBVIOUS
<1>3. IsFiniteSet(S \ {a}) /\ Cardinality(S \ {a}) = Cardinality(S) - 1
  BY FS_RemoveElement
<1>4. b \in S \ {a}
  BY <1>2
<1>5. Cardinality(S \ {a}) # 0
  BY <1>3, <1>4, FS_EmptySet
<1>6. Cardinality(S \ {a}) \in Nat
  BY <1>3, FS_CardinalityType
<1>7. QED
  BY <1>1, <1>3, <1>5, <1>6

LEMMA OneNoisyFromInv == Sensible /\ TwinInv => Twin!OneNoisyPollNeverFires
<1>1. SUFFICES ASSUME Sensible, TwinInv, NEW ap \in Twin!Baselined,
                      Twin!Cardinality({i \in DOMAIN Twin!Compared(ap) : Twin!Compared(ap)[i].rssi # Baselines[ap].median}) <= 1,
                      NEW d \in deviations, d.ap = ap
               PROVE  FALSE
  BY Zenon DEF Twin!OneNoisyPollNeverFires
<1>18. CursorOrder(rowsRead)
  BY <1>1 DEF TwinInv
<1>2. PICK p : p = Picked(rowsRead, ap) /\ p = Twin!Compared(ap)
  BY <1>18, ComparedIs
<1>3. p \in Seq(TwinRows)
  <2>1. PickedOK(Picked(rowsRead, ap), rowsRead, ap)
    BY <1>18, PickedInOrder
  <2>2. Picked(rowsRead, ap) \in Seq(TwinRows)
    BY Zenon, <2>1 DEF PickedOK
  <2>3. QED
    BY Zenon, <1>2, <2>2
<1>4. PICK n \in Nat : n = Len(p) /\ DOMAIN p = 1..n
  BY <1>3, LenProperties
<1>5. PICK i \in 1..n : Deviates(p, i, ap)
  BY <1>1, <1>2, <1>4, DeviationIs
<1>6. PICK c : c = Baselines[ap].median
  OBVIOUS
<1>7. PICK S : S = {j \in 1..n : p[j].rssi # c}
  OBVIOUS
<1>8. IsFiniteSet(S) /\ Twin!Cardinality(S) <= 1
  <2>1. S \subseteq 1..n /\ IsFiniteSet(1..n)
    BY <1>7, UpTo
  <2>2. S = {j \in DOMAIN Twin!Compared(ap) : Twin!Compared(ap)[j].rssi # Baselines[ap].median}
    BY <1>2, <1>4, <1>6, <1>7
  <2>3. QED
    BY <1>1, <2>1, <2>2, FS_Subset
<1>9. \A j, k \in 1..n : p[j].rssi # c /\ p[k].rssi # c => j = k
  BY <1>7, <1>8, AtMostOne
<1>10. WindowW \in Nat /\ i >= WindowW
  BY <1>5, TwinAssumption DEF Deviates
<1>11. PICK w : w = WindowTo(p, i)
  OBVIOUS
<1>12. \A j \in 1..WindowW : w[j] = p[i - WindowW + j].rssi /\ i - WindowW + j \in 1..n
  BY <1>10, <1>11 DEF WindowTo
<1>13. w \in Seq(Readings) /\ Len(w) = WindowW
  <2>1. \A j \in 1..WindowW : w[j] \in Readings
    <3>1. SUFFICES ASSUME NEW j \in 1..WindowW PROVE w[j] \in Readings
      OBVIOUS
    <3>2. p[i - WindowW + j] \in TwinRows
      BY <1>3, <1>4, <1>12, ElementOfSeq
    <3>3. QED
      BY <1>12, <3>2 DEF TwinRows
  <2>2. w = [j \in 1..WindowW |-> w[j]]
    BY <1>11 DEF WindowTo
  <2>3. QED
    BY <1>10, <2>1, <2>2
<1>14. AllButOne(w, WindowW, c)
  <2>1. SUFFICES ASSUME NEW j \in 1..WindowW, NEW k \in 1..WindowW, w[j] # c, w[k] # c PROVE j = k
    BY DEF AllButOne
  <2>2. i - WindowW + j = i - WindowW + k
    BY <1>9, <1>12, <2>1
  <2>3. QED
    BY <1>10, <2>2
<1>15. Baselines[ap].median \in Int /\ Baselines[ap].sd \in Int
  BY <1>1, TwinAssumption DEF Twin!Baselined
<1>16. ~Twin!Facet(w, Baselines[ap]).shift /\ ~Twin!Facet(w, Baselines[ap]).spread
  BY <1>1, <1>6, <1>13, <1>14, <1>15, QuietWindow
<1>17. QED
  BY <1>5, <1>11, <1>16 DEF Deviates, Shown

-----------------------------------------------------------------------------
(* The guard's binary search finds a change near a deviation if there is one. *)

LEMMA BisectIs ==
  ASSUME NEW T, T \subseteq Int, NEW n \in Nat, NEW f, Rising(f, n, T), NEW x \in Int
  PROVE  \E c \in 0..n : Twin!Bisect(f, x) = c + 1 /\ \A i \in 1..n : f[i] < x <=> i <= c
<1>1. f \in [1..n -> T] /\ \A i, j \in 1..n : i < j => f[i] < f[j]
  BY DEF Rising
<1>2. PICK S : S = {i \in 1..n : f[i] < x}
  OBVIOUS
<1>3. Twin!Bisect(f, x) = Cardinality(S) + 1
  <2>1. {i \in DOMAIN f : f[i] < x} = S
    BY <1>1, <1>2
  <2>2. QED
    BY Zenon, <2>1, TwinRules DEF Twin!Bisect
<1>4. CASE S = {}
  <2>1. Cardinality(S) = 0
    BY <1>4, FS_EmptySet
  <2>2. Twin!Bisect(f, x) = 0 + 1 /\ 0 \in 0..n
    BY <1>3, <2>1
  <2>3. \A i \in 1..n : ~(f[i] < x) /\ ~(i <= 0)
    BY <1>2, <1>4
  <2>4. QED
    BY Zenon, <2>2, <2>3
<1>5. CASE S # {}
  <2>1. S \subseteq 1..n /\ S \subseteq Int /\ IsFiniteSet(S)
    BY <1>2, UpTo, FS_Subset
  <2>2. PICK c \in 1..n : c \in S /\ \A k \in S : k <= c
    BY <1>5, <2>1, MaxMinAre
  <2>3. \A i \in 1..n : f[i] < x <=> i <= c
    <3>1. SUFFICES ASSUME NEW i \in 1..n PROVE f[i] < x <=> i <= c
      OBVIOUS
    <3>2. f[i] \in Int /\ f[c] \in Int /\ f[c] < x
      BY <1>1, <1>2, <2>2
    <3>3. f[i] < x => i <= c
      BY <1>2, <2>2
    <3>4. i < c => f[i] < f[c]
      BY <1>1
    <3>5. i <= c => f[i] < x
      BY <3>2, <3>4
    <3>6. QED
      BY <3>3, <3>5
  <2>4. S = 1..c
    BY <1>2, <2>2, <2>3
  <2>5. Cardinality(S) = c
    BY <2>2, <2>4, UpTo
  <2>6. QED
    BY <1>3, <2>2, <2>3, <2>5
<1>6. QED
  BY <1>4, <1>5

LEMMA NearIs ==
  ASSUME NEW T, T \subseteq Int, IsFiniteSet(T), NEW d, d.ts \in Int, NEW g \in Int
  PROVE  Twin!NearChange(d, Twin!Ascending(T), g) <=> \E t \in T : Twin!Abs(t - d.ts) <= g
<1>1. PICK f : f = Twin!Ascending(T)
  OBVIOUS
<1>2. PICK n \in Nat : Rising(f, n, T)
  BY <1>1, AscendingIs, TwinRules
<1>3. PICK x \in Int : x = d.ts - g
  OBVIOUS
<1>4. PICK c \in 0..n : Twin!Bisect(f, x) = c + 1 /\ \A i \in 1..n : f[i] < x <=> i <= c
  BY <1>2, <1>3, BisectIs
<1>5. f \in [1..n -> T] /\ (\A i, j \in 1..n : i < j => f[i] < f[j]) /\ \A t \in T : \E i \in 1..n : f[i] = t
  BY <1>2 DEF Rising
<1>6. Len(f) = n
  BY <1>5
<1>7. Twin!NearChange(d, f, g) <=> c + 1 <= n /\ f[c + 1] <= d.ts + g
  BY <1>3, <1>4, <1>6 DEF Twin!NearChange
<1>8. ASSUME NEW t \in T PROVE Twin!Abs(t - d.ts) <= g <=> ~(t < x) /\ t <= d.ts + g
  BY <1>3 DEF Twin!Abs
<1>9. ASSUME c + 1 <= n, f[c + 1] <= d.ts + g
      PROVE  \E t \in T : Twin!Abs(t - d.ts) <= g
  <2>1. c + 1 \in 1..n /\ ~(c + 1 <= c)
    BY <1>9
  <2>2. f[c + 1] \in T /\ ~(f[c + 1] < x)
    BY <1>4, <1>5, <2>1
  <2>3. QED
    BY <1>8, <1>9, <2>2
<1>10. ASSUME NEW t \in T, Twin!Abs(t - d.ts) <= g
       PROVE  c + 1 <= n /\ f[c + 1] <= d.ts + g
  <2>1. PICK k \in 1..n : f[k] = t
    BY <1>5
  <2>2. ~(t < x) /\ t <= d.ts + g
    BY <1>8, <1>10
  <2>3. ~(k <= c)
    BY <1>4, <2>1, <2>2
  <2>4. c + 1 \in 1..n /\ (c + 1 = k \/ c + 1 < k)
    BY <2>3
  <2>5. f[c + 1] \in Int /\ f[k] \in Int /\ (c + 1 < k => f[c + 1] < f[k])
    BY <1>5, <2>4
  <2>6. QED
    BY <2>1, <2>2, <2>4, <2>5
<1>11. QED
  BY <1>1, <1>7, <1>9, <1>10

LEMMA GuardFromInv == TwinInv => Twin!GuardIsExact
<1>1. SUFFICES ASSUME TwinInv, NEW changing \in {d.ap : d \in deviations}, NEW times \in SUBSET (0..MaxTs),
                      NEW guard \in 1..2
               PROVE  LET changesOf == [ap \in TwinAps |-> Twin!Ascending(IF ap = changing THEN times ELSE {})]
                      IN  Twin!ChannelGuard(deviations, changesOf, guard) =
                            {d \in deviations : d.ap = changing => \A t \in times : Twin!Abs(t - d.ts) > guard}
  BY Zenon DEF Twin!GuardIsExact
<1> DEFINE changesOf == [ap \in TwinAps |-> Twin!Ascending(IF ap = changing THEN times ELSE {})]
<1>2. ASSUME NEW d \in deviations
      PROVE  ~Twin!NearChange(d, changesOf[d.ap], guard)
               <=> (d.ap = changing => \A t \in times : Twin!Abs(t - d.ts) > guard)
  <2>1. d.ap \in TwinAps /\ d.ts \in 0..MaxTs
    BY <1>1, DeviationIs
  <2>2. PICK T : T = IF d.ap = changing THEN times ELSE {}
    OBVIOUS
  <2>3. changesOf[d.ap] = Twin!Ascending(T)
    BY <2>1, <2>2
  <2>4. T \subseteq 0..MaxTs /\ T \subseteq Int /\ IsFiniteSet(T)
    <3>1. T \subseteq 0..MaxTs
      BY <2>2
    <3>2. MaxTs \in Int
      BY TwinAssumption
    <3>3. IsFiniteSet(0..MaxTs)
      BY <3>2, FS_Interval
    <3>4. T \subseteq Int
      BY <3>1
    <3>5. QED
      BY Zenon, <3>1, <3>3, <3>4, FS_Subset
  <2>5. d.ts \in Int /\ guard \in Int
    BY <2>1
  <2>6. Twin!NearChange(d, Twin!Ascending(T), guard) <=> \E t \in T : Twin!Abs(t - d.ts) <= guard
    BY <2>4, <2>5, NearIs
  <2>7. \A t \in T : t - d.ts \in Int /\ (Twin!Abs(t - d.ts) <= guard <=> ~(Twin!Abs(t - d.ts) > guard))
    BY <2>4, <2>5 DEF Twin!Abs
  <2>8. QED
    BY Zenon, <2>2, <2>3, <2>6, <2>7
<1>3. Twin!ChannelGuard(deviations, changesOf, guard) = {d \in deviations : ~Twin!NearChange(d, changesOf[d.ap], guard)}
  <2> HIDE DEF changesOf
  <2>1. ~(guard <= 0)
    OBVIOUS
  <2>2. QED
    BY Zenon, <2>1 DEF Twin!ChannelGuard
<1> HIDE DEF changesOf
<1>4. Twin!ChannelGuard(deviations, changesOf, guard) =
        {d \in deviations : d.ap = changing => \A t \in times : Twin!Abs(t - d.ts) > guard}
  BY <1>2, <1>3
<1>5. QED
  BY <1>4 DEF changesOf

\* EvilTwin: what the one pass finds, whatever the rows, is the deviating
\* windows of every device's own compared readings; one outlier makes none; and
\* the guard's search drops the deviations near a channel change, no others. The
\* window has at least three readings and the floors are above zero.
THEOREM DeviationsAreRight == Sensible => (ServerSpec => []DeviationsAreTrue)
<1>1. Sensible /\ (part = "evil_twin" => TwinInv) => DeviationsAreTrue
  <2>1. SUFFICES ASSUME Sensible, TwinInv PROVE Twin!DeviationsAreTrue
    BY DEF DeviationsAreTrue
  <2>2. QED
    BY Zenon, <2>1, StreamingFromInv, OneNoisyFromInv, GuardFromInv DEF Twin!DeviationsAreTrue
<1>2. SUFFICES ASSUME Sensible PROVE ServerSpec => []DeviationsAreTrue
  OBVIOUS
<1>3. (part = "evil_twin" => TwinInv) => DeviationsAreTrue
  BY <1>1, <1>2
<1>4. QED
  BY <1>3, TwinInvIsInvariant, PTL

-----------------------------------------------------------------------------
(* The sliding window counts whatever lies within its width.                *)

LEMMA MaxUpTo ==
  ASSUME NEW i \in Nat, i # 0
  PROVE  Rules!Max(1..i) = i /\ (1..i) \ {i} = 1..(i - 1)
<1>1. IsFiniteSet(1..i) /\ 1..i \subseteq Int /\ i \in 1..i
  BY UpTo
<1>2. PICK m : m = Rules!Max(1..i)
  OBVIOUS
<1>3. m \in 1..i /\ i <= m
  BY <1>1, <1>2, MaxMinAre
<1>4. m = i
  BY <1>3
<1>5. QED
  BY <1>2, <1>4

LEMMA WindowReach ==
  ASSUME NEW n \in Nat, NEW s \in [1..n -> Int], NEW w \in Nat, \A i, j \in 1..n : i <= j => s[i] <= s[j],
         NEW a \in 1..n, s[n] - s[a] <= w
  PROVE  n - a + 1 <= Rules!MaxInWindow(s, w)
<1>1. PICK f : SlidesOver(f, s, n, w)
  BY SlideFold
<1> DEFINE B == [left : Int, best : Nat]
           F(i) == f[1..i]
<1>2. ASSUME NEW i \in 0..n PROVE F(i) \in B /\ F(i).left <= i + 1
  <2>1. i + 1 \in 1..(n + 1) /\ 1..i \in SUBSET (1..n) /\ \A k \in 1..i : k < i + 1
    OBVIOUS
  <2>2. QED
    BY <1>1, <2>1 DEF SlidesOver
<1>3. ASSUME NEW i \in 1..n PROVE F(i) = Rules!SlideTo(s, i, F(i - 1), w)
  <2>1. Rules!Max(1..i) = i /\ (1..i) \ {i} = 1..(i - 1)
    BY MaxUpTo
  <2>2. 1..i \in SUBSET (1..n) /\ 1..i # {}
    <3>1. i \in 1..i /\ \A k \in 1..i : k \in 1..n
      OBVIOUS
    <3>2. QED
      BY <3>1
  <2>3. f[1..i] = Rules!SlideTo(s, Rules!Max(1..i), f[(1..i) \ {Rules!Max(1..i)}], w)
    BY <1>1, <2>2 DEF SlidesOver
  <2>4. QED
    BY Zenon, <2>1, <2>3
<1>4. \A i \in 0..n : F(i).left \in Int /\ F(i).best \in Nat /\ F(i).left <= i + 1
  <2>1. \A i \in 0..n : F(i) \in B /\ F(i).left <= i + 1
    BY <1>2
  <2> HIDE DEF F
  <2>2. QED
    BY <2>1
<1>5. ASSUME NEW i \in 1..n
      PROVE  /\ i - F(i).left + 1 <= F(i).best
             /\ \A c \in F(i - 1).left..i : s[i] - s[c] <= w => F(i).left <= c
  <2>1. i - 1 \in 0..n /\ i - 1 + 1 = i
    OBVIOUS
  <2>2. PICK acc : acc = F(i - 1)
    OBVIOUS
  <2>3. acc \in B /\ acc.left <= i
    BY <1>2, <2>1, <2>2
  <2>4. PICK new : new = Rules!SlideTo(s, i, acc, w) /\ new = F(i)
    BY <1>3, <2>2
  <2>5. i - new.left + 1 <= new.best /\ \A c \in acc.left..i : s[i] - s[c] <= w => new.left <= c
    BY <2>3, <2>4, SlideIs
  <2> HIDE DEF F
  <2>6. QED
    BY Zenon, <2>2, <2>4, <2>5
<1> HIDE DEF F
\* As long as the right end is within the width of a, the left end is not past a.
<1> DEFINE Bad == {i \in 0..n : a <= i /\ ~(F(i).left <= a)}
<1>6. Bad = {}
  <2> SUFFICES ASSUME Bad # {} PROVE FALSE
    BY Zenon
  <2>1. PICK i \in Bad : \A j \in Bad : i <= j
    <3>1. Bad \in SUBSET Nat
      OBVIOUS
    <3> HIDE DEF Bad
    <3>2. QED
      BY <3>1, LeastOfSet
  <2>2. i \in 1..n /\ a <= i /\ ~(F(i).left <= a) /\ i - 1 \in 0..n /\ ~(i <= i - 1)
    BY <2>1
  <2>3. F(i - 1).left \in Int
    BY <1>4, <2>2
  <2>4. s[i] - s[a] <= w
    <3>1. s[i] <= s[n] /\ s[i] \in Int /\ s[a] \in Int /\ s[n] \in Int
      BY <2>2
    <3>2. QED
      BY <3>1
  <2>5. F(i - 1).left <= a
    <3>1. CASE a = i
      <4>1. F(i - 1).left <= (i - 1) + 1
        BY <1>4, <2>2
      <4>2. QED
        BY <2>2, <2>3, <3>1, <4>1
    <3>2. CASE a # i
      <4>1. a <= i - 1
        BY <2>2, <3>2
      <4>2. i - 1 \notin Bad
        BY <2>1, <2>2
      <4>3. QED
        BY <2>2, <4>1, <4>2
    <3>3. QED
      BY <3>1, <3>2
  <2>6. a \in F(i - 1).left..i
    BY <2>2, <2>3, <2>5
  <2>7. F(i).left <= a
    BY <1>5, <2>2, <2>4, <2>6
  <2>8. QED
    BY <2>2, <2>7
<1>7. n \in 0..n /\ n \in 1..n /\ a <= n
  OBVIOUS
<1>8. F(n).left <= a
  BY <1>6, <1>7
<1>9. n - F(n).left + 1 <= F(n).best /\ F(n).left \in Int /\ F(n).best \in Nat
  BY <1>4, <1>5, <1>7
<1>10. Rules!MaxInWindow(s, w) = F(n).best
  BY <1>1 DEF SlidesOver, F
<1>11. QED
  BY <1>8, <1>9, <1>10

\* The last of some events, within the width of the window, are all counted.
LEMMA LastCounted ==
  ASSUME NEW E, IsFiniteSet(E), \A e \in E : e.ts \in Int, NEW w \in Nat,
         NEW L \in SUBSET E, L # {}, NEW x \in Int, NEW y \in Int, y - x <= w,
         \A e \in L : x <= e.ts, \A e \in E : e.ts <= y
  PROVE  Cardinality(L) <= Rules!MaxInWindow(Rules!SortedTs(E), w)
<1>1. PICK s : s = Rules!SortedTs(E)
  OBVIOUS
<1>2. PICK n \in Nat : Sorted(s, n, E)
  BY <1>1, SortedIs
<1>3. /\ n = Cardinality(E) /\ s \in [1..n -> Rules!Times(E)]
      /\ \A i, j \in 1..n : i <= j => s[i] <= s[j]
      /\ \A i \in 1..n : Cardinality({e \in E : e.ts <= s[i]}) >= i
  BY <1>2 DEF Sorted
<1>4. Rules!Times(E) = {e.ts : e \in E}
  BY TimesAre
<1>5. s \in [1..n -> Int] /\ \A i \in 1..n : s[i] <= y
  BY <1>3, <1>4
<1>6. IsFiniteSet(L) /\ IsFiniteSet(E \ L)
  BY FS_Subset
<1>7. PICK p \in Nat : p = Cardinality(L) /\ p # 0
  BY <1>6, FS_CardinalityType, FS_EmptySet
<1>8. Cardinality(E \ L) = n - p /\ p <= n
  <2>1. E = L \cup (E \ L) /\ L \cap (E \ L) = {}
    OBVIOUS
  <2>2. Cardinality(L \cup (E \ L)) = Cardinality(L) + Cardinality(E \ L) - Cardinality(L \cap (E \ L))
    BY <1>6, FS_Union
  <2>3. Cardinality({}) = 0
    BY FS_EmptySet
  <2>4. Cardinality(E \ L) \in Nat
    BY <1>6, FS_CardinalityType
  <2>5. PICK u : u = E \ L
    OBVIOUS
  <2>6. Cardinality(L \cup u) = n /\ Cardinality(L \cap u) = 0
    BY <1>3, <2>1, <2>3, <2>5
  <2>7. Cardinality(L \cup u) = Cardinality(L) + Cardinality(u) - Cardinality(L \cap u) /\ Cardinality(u) \in Nat
    BY <2>2, <2>4, <2>5
  <2>8. QED
    BY <1>7, <2>5, <2>6, <2>7
<1>9. PICK a \in 1..n : a = n - p + 1
  BY <1>7, <1>8
<1>10. x <= s[a]
  <2> SUFFICES ASSUME s[a] < x PROVE FALSE
    BY <1>5
  <2>1. PICK C : C = {e \in E : e.ts <= s[a]}
    OBVIOUS
  <2>2. C \subseteq E \ L
    <3>1. SUFFICES ASSUME NEW e \in C, e \in L PROVE FALSE
      BY <2>1
    <3>2. e.ts <= s[a] /\ x <= e.ts /\ e.ts \in Int /\ s[a] \in Int
      BY <1>5, <2>1, <3>1
    <3>3. QED
      BY <3>2
  <2>3. Cardinality(C) <= Cardinality(E \ L) /\ IsFiniteSet(C)
    BY <1>6, <2>2, FS_Subset
  <2>4. Cardinality(C) \in Nat
    BY <2>3, FS_CardinalityType
  <2>5. Cardinality(C) >= a
    BY <1>3, <2>1
  <2>6. QED
    BY <1>8, <1>9, <2>3, <2>4, <2>5
<1>11. s[n] - s[a] <= w
  <2>1. n \in 1..n
    OBVIOUS
  <2>2. s[n] <= y /\ s[n] \in Int /\ s[a] \in Int
    BY <1>5, <2>1
  <2>3. QED
    BY <1>10, <2>2
<1>12. n - a + 1 <= Rules!MaxInWindow(s, w)
  BY <1>3, <1>5, <1>11, WindowReach
<1>13. n - a + 1 = p
  BY <1>7, <1>9
<1>14. QED
  BY <1>1, <1>7, <1>12, <1>13

-----------------------------------------------------------------------------
(* A window whose readings are all a threshold above the baseline.          *)

LEMMA KthAtLeast ==
  ASSUME NEW n \in Nat, NEW w \in [1..n -> Int], NEW c \in Int, \A i \in 1..n : c <= w[i], NEW k \in 1..n
  PROVE  Twin!Kth(w, k) \in Int /\ c <= Twin!Kth(w, k)
<1> DEFINE V == {w[i] : i \in 1..n}
           Upto(x) == {i \in 1..n : w[i] <= x}
           Cand == {x \in V : Cardinality(Upto(x)) >= k}
<1>1. Twin!Kth(w, k) = Rules!Min(Cand)
  <2>1. Twin!Range(w) = V
    BY DEF Twin!Range
  <2>2. Twin!Kth(w, k) = Twin!Min({x \in Twin!Range(w) : Twin!Cardinality({i \in DOMAIN w : w[i] <= x}) >= k})
    BY Zenon DEF Twin!Kth
  <2>3. DOMAIN w = 1..n
    OBVIOUS
  <2>4. \A S : Twin!Cardinality(S) = Cardinality(S)
    BY TwinRules
  <2>5. {x \in Twin!Range(w) : Twin!Cardinality({i \in DOMAIN w : w[i] <= x}) >= k} = Cand
    BY <2>1, <2>3, <2>4
  <2> HIDE DEF Cand
  <2>6. QED
    BY <2>2, <2>5, TwinRules
<1>2. IsFiniteSet(1..n) /\ Cardinality(1..n) = n
  BY UpTo
<1>3. IsFiniteSet(V) /\ V \subseteq Int /\ V # {}
  <2> DEFINE g == [i \in 1..n |-> w[i]]
  <2>1. g \in Surjection(1..n, V)
    BY DEF Surjection
  <2>2. V \subseteq Int /\ w[k] \in V
    OBVIOUS
  <2> HIDE DEF V, g
  <2>3. QED
    BY <1>2, <2>1, <2>2, FS_Surjection
<1>4. PICK m \in V : \A x \in V : x <= m
  <2> HIDE DEF V
  <2>1. QED
    BY <1>3, MaxMinAre
<1>5. Upto(m) = 1..n
  <2>1. \A i \in 1..n : w[i] <= m
    BY <1>4
  <2>2. QED
    BY <2>1
<1>6. m \in Cand
  <2> HIDE DEF Upto, V
  <2>1. Cardinality(Upto(m)) = n
    BY Zenon, <1>2, <1>5
  <2>2. Cardinality(Upto(m)) >= k
    BY <2>1
  <2>3. QED
    BY <1>4, <2>2
<1>7. Cand \subseteq V /\ Cand \subseteq Int /\ IsFiniteSet(Cand)
  <2>1. Cand \in SUBSET V
    OBVIOUS
  <2> HIDE DEF Cand, V
  <2>2. QED
    BY <1>3, <2>1, FS_Subset
<1>8. \A x \in V : x \in Int /\ c <= x
  OBVIOUS
<1> HIDE DEF Cand, V
<1>9. Rules!Min(Cand) \in Cand
  BY <1>6, <1>7, MaxMinAre
<1>10. QED
  BY <1>1, <1>7, <1>8, <1>9

LEMMA Mid2IsInt ==
  ASSUME NEW n \in Nat, n # 0, NEW w \in [1..n -> Int], Len(w) = n
  PROVE  Twin!Mid2(w) \in Int
<1> DEFINE V == {w[i] : i \in 1..n}
           g == [i \in 1..n |-> w[i]]
<1>1. g \in Surjection(1..n, V)
  BY DEF Surjection
<1>2. V \subseteq Int /\ w[1] \in V
  OBVIOUS
<1>3. \A i \in 1..n : w[i] \in V
  OBVIOUS
<1> HIDE DEF V, g
<1>4. IsFiniteSet(V)
  BY <1>1, UpTo, FS_Surjection
<1>5. PICK c \in Int : \A x \in V : c <= x
  BY <1>2, <1>4, MaxMinAre
<1>6. \A i \in 1..n : c <= w[i]
  BY <1>3, <1>5
<1>7. (n + 1) \div 2 \in 1..n /\ n \div 2 + 1 \in 1..n
  OBVIOUS
<1>8. PICK k, l : k = Twin!Kth(w, (n + 1) \div 2) /\ l = Twin!Kth(w, n \div 2 + 1)
  OBVIOUS
<1>9. k \in Int /\ l \in Int
  BY <1>6, <1>7, <1>8, KthAtLeast
<1>10. Twin!Mid2(w) = k + l
  BY Zenon, <1>8 DEF Twin!Mid2
<1>11. QED
  BY <1>9, <1>10

\* It shows a shift, upwards.
LEMMA ShiftSeen ==
  ASSUME NEW m, m.median \in Int, m.sd \in Int, NEW n \in Nat, n # 0, NEW w \in [1..n -> Int], Len(w) = n,
         \A j \in 1..n : w[j] - m.median > Twin!Max2(ShiftK * Twin!Sigma(m), ShiftFloor)
  PROVE  Twin!Facet(w, m).shift /\ Twin!Facet(w, m).dev2 > 0
<1>1. PICK a : a = Twin!Max2(ShiftK * Twin!Sigma(m), ShiftFloor)
  OBVIOUS
<1>2. a \in Int /\ a >= 0
  <2>1. ShiftK \in Int /\ ShiftFloor \in Int /\ ShiftFloor >= 0 /\ SdFloor \in Int
    BY TwinAssumption
  <2>2. \A x, y \in Int : Twin!Max2(x, y) \in Int /\ Twin!Max2(x, y) >= y
    BY DEF Twin!Max2
  <2>3. Twin!Sigma(m) \in Int
    BY <2>1, <2>2 DEF Twin!Sigma
  <2>4. ShiftK * Twin!Sigma(m) \in Int
    BY <2>1, <2>3
  <2>5. PICK x : x = ShiftK * Twin!Sigma(m) /\ x \in Int
    BY <2>4
  <2>6. a = Twin!Max2(x, ShiftFloor)
    BY Zenon, <1>1, <2>5
  <2>7. a \in Int /\ a >= ShiftFloor
    BY <2>1, <2>2, <2>5, <2>6
  <2>8. QED
    BY <2>1, <2>7
<1>3. PICK c \in Int : c = m.median + a + 1
  BY <1>2
<1>4. PICK mid2 : mid2 = Twin!Mid2(w)
  OBVIOUS
<1>5. mid2 \in Int /\ mid2 >= 2 * c
  <2>1. (n + 1) \div 2 \in 1..n /\ n \div 2 + 1 \in 1..n
    OBVIOUS
  <2>2. \A j \in 1..n : c <= w[j]
    BY <1>1, <1>2, <1>3
  <2>3. PICK k, l : k = Twin!Kth(w, (n + 1) \div 2) /\ l = Twin!Kth(w, n \div 2 + 1)
    OBVIOUS
  <2>4. k \in Int /\ c <= k /\ l \in Int /\ c <= l
    BY <2>1, <2>2, <2>3, KthAtLeast
  <2>5. mid2 = Twin!Kth(w, (Len(w) + 1) \div 2) + Twin!Kth(w, Len(w) \div 2 + 1)
    BY Zenon, <1>4 DEF Twin!Mid2
  <2>6. mid2 = k + l
    BY Zenon, <2>3, <2>5
  <2>7. QED
    BY <2>4, <2>6
<1>6. PICK d2 : d2 = mid2 - 2 * m.median
  OBVIOUS
<1>7. Twin!Abs(d2) >= 2 * a /\ d2 > 0
  <2>1. d2 \in Int /\ d2 >= 2 * a /\ d2 > 0
    <3>1. PICK y \in Int : y = m.median /\ c = y + a + 1 /\ d2 = mid2 - 2 * y
      BY <1>3, <1>6
    <3>2. mid2 \in Int /\ a \in Int /\ mid2 >= 2 * c
      BY <1>2, <1>5
    <3>3. \A v, z \in Int : z >= 2 * (v + a + 1) => z - 2 * v >= 2 * a + 2 /\ z - 2 * v \in Int
      BY <3>2
    <3>4. mid2 >= 2 * (y + a + 1)
      BY <3>1, <3>2
    <3>5. d2 >= 2 * a + 2 /\ d2 \in Int
      BY <3>1, <3>2, <3>3, <3>4
    <3>6. QED
      BY <1>2, <3>5
  <2>2. Twin!Abs(d2) \in Int /\ Twin!Abs(d2) >= d2
    BY <2>1 DEF Twin!Abs
  <2>3. QED
    BY <1>2, <2>1, <2>2
<1>8. PICK b : b = Twin!Mid2([i \in DOMAIN w |-> Twin!Abs(2 * w[i] - mid2)])
  OBVIOUS
<1>9. PICK t : t = (b >= 4 * Twin!Max2(SpreadK * Twin!Sigma(m), SpreadFloor))
  OBVIOUS
<1>10. PICK u : u = (Twin!Abs(d2) >= 2 * a)
  OBVIOUS
<1>11. Twin!Facet(w, m) = [dev2 |-> d2, shift |-> u, spread |-> t]
  BY Zenon, <1>1, <1>4, <1>6, <1>8, <1>9, <1>10 DEF Twin!Facet
<1>12. Twin!Facet(w, m).shift = u /\ Twin!Facet(w, m).dev2 = d2
  BY <1>11
<1>13. QED
  BY Zenon, <1>7, <1>10, <1>12

-----------------------------------------------------------------------------
(* A level that stays shifted deviates in one long episode.                 *)

LEMMA OwnDeviations ==
  ASSUME TwinInv, NEW ap \in TwinAps
  PROVE  {d \in deviations : d.ap = ap} = DeviationsOf(Picked(rowsRead, ap), ap)
<1>1. \A a : \A d \in DeviationsOf(Picked(rowsRead, a), a) : d.ap = a
  BY DEF DeviationsOf, DeviationAt, Twin!Deviation
<1>2. deviations = UNION {DeviationsOf(Picked(rowsRead, a), a) : a \in TwinAps}
  BY DEF TwinInv
<1>3. ASSUME NEW d \in deviations, d.ap = ap PROVE d \in DeviationsOf(Picked(rowsRead, ap), ap)
  BY <1>1, <1>2, <1>3
<1>4. ASSUME NEW d \in DeviationsOf(Picked(rowsRead, ap), ap) PROVE d \in deviations /\ d.ap = ap
  BY <1>1, <1>2
<1>5. QED
  BY <1>3, <1>4

\* The last of the compared readings of a device deviate, at the regular pace.
Shifted(p, ap) ==
  /\ Persistence <= Len(p)
  /\ \A k \in (Len(p) - Persistence + 1)..Len(p) : Deviates(p, k, ap)
  /\ \A k \in (Len(p) - Persistence + 2)..Len(p) : p[k].ts - p[k - 1].ts <= TwinGap
  /\ p[Len(p)].ts - p[Len(p) - Persistence + 1].ts <= PersistWindow
  /\ DeviationAt(p, Len(p), ap).dev2 > 0

LEMMA DevIsInt ==
  ASSUME TwinInv, NEW d \in deviations
  PROVE  d.dev2 \in Int /\ d.ts \in Int
<1>1. PICK ap, p, i : /\ p = Picked(rowsRead, ap) /\ i \in 1..Len(p) /\ d = DeviationAt(p, i, ap)
                      /\ Deviates(p, i, ap) /\ d.ts \in 0..MaxTs
  BY DeviationIs
<1>2. PickedOK(p, rowsRead, ap)
  BY <1>1, PickedInOrder DEF TwinInv
<1>3. p \in Seq(TwinRows) /\ Twin!Uses(ap, p[i].ts)
  BY <1>1, <1>2 DEF PickedOK
<1>4. PICK n \in Nat, W \in Nat : n = Len(p) /\ W = WindowW /\ W # 0
  BY <1>3, LenProperties, TwinAssumption
<1>5. i \in 1..n /\ i >= W
  BY <1>1, <1>4 DEF Deviates
<1>6. PICK w : w = WindowTo(p, i)
  OBVIOUS
<1>7. w = [j \in 1..W |-> p[i - W + j].rssi]
  BY <1>4, <1>6 DEF WindowTo
<1>8. \A j \in 1..W : w[j] \in Int
  <2>1. SUFFICES ASSUME NEW j \in 1..W PROVE w[j] \in Int
    OBVIOUS
  <2>2. PICK k \in 1..n : k = i - W + j
    BY <1>5
  <2>3. p[k] \in TwinRows
    BY <1>3, <1>4, ElementOfSeq
  <2>4. p[k].rssi \in Int
    BY <2>3, TwinAssumption DEF TwinRows
  <2>5. QED
    BY <1>7, <2>2, <2>4
<1>9. w \in [1..W -> Int] /\ Len(w) = W
  BY <1>7, <1>8
<1>10. Twin!Mid2(w) \in Int
  BY <1>4, <1>9, Mid2IsInt
<1>11. PICK m : m = Baselines[ap]
  OBVIOUS
<1>12. m.median \in Int
  BY <1>3, <1>11, TwinAssumption DEF Twin!Uses, Twin!Baselined
<1>13. PICK mid2 : mid2 = Twin!Mid2(w)
  OBVIOUS
<1>14. Twin!Facet(w, m).dev2 = mid2 - 2 * m.median
  BY <1>13 DEF Twin!Facet
<1>15. d.dev2 = Twin!Facet(w, m).dev2
  BY <1>1, <1>6, <1>11 DEF DeviationAt, Shown, Twin!Deviation
<1>16. QED
  BY <1>1, <1>10, <1>12, <1>13, <1>14, <1>15

\* The episode of a device that ends at a time and is long enough; it holds a
\* rise, and every deviation of the device between its ends.
Reported(ep, ap, ts) ==
  /\ ep \in Twin!Episodes(deviations)
  /\ ep # {} /\ \A d \in ep : d.ap = ap
  /\ ep \subseteq deviations /\ IsFiniteSet(ep)
  /\ \E d \in ep : d.dev2 > 0
  /\ \A d \in deviations : d.ap = ap /\ Twin!FirstTs(ep) <= d.ts /\ d.ts <= Twin!LastTs(ep) => d \in ep
  /\ Twin!LastTs(ep) = ts
  /\ Twin!InWindow(ep, 0, MaxTs + 1) /\ Twin!Persistent(ep)

LEMMA ShiftedIsReported ==
  ASSUME TwinInv, NEW ap \in TwinAps, NEW p, p = Picked(rowsRead, ap), Shifted(p, ap)
  PROVE  \E ep : Reported(ep, ap, p[Len(p)].ts)
<1>1. PICK P \in Nat, gap \in Nat, w \in Nat : P = Persistence /\ P # 0 /\ gap = TwinGap /\ w = PersistWindow
  BY TwinAssumption
<1>2. PICK n \in Nat : n = Len(p) /\ P <= n
  <2>1. p \in Seq(TwinRows)
    BY PickedInOrder DEF TwinInv, PickedOK
  <2>2. Len(p) \in Nat
    BY <2>1, LenProperties
  <2>3. QED
    BY <1>1, <2>2 DEF Shifted
<1>3. /\ \A k \in 1..n : p[k] \in TwinRows
      /\ \A k, l \in 1..n : k < l => p[k].ts < p[l].ts
  <2>1. PickedOK(p, rowsRead, ap)
    BY PickedInOrder DEF TwinInv
  <2>2. QED
    BY <1>2, <2>1, ElementOfSeq DEF PickedOK
<1>4. /\ \A k \in (n - P + 1)..n : Deviates(p, k, ap)
      /\ \A k \in (n - P + 2)..n : p[k].ts - p[k - 1].ts <= gap
      /\ p[n].ts - p[n - P + 1].ts <= w
  BY <1>1, <1>2 DEF Shifted
<1>5. MaxTs \in Nat /\ \A k \in 1..n : p[k].ts \in 0..MaxTs
  BY <1>3, TwinAssumption DEF TwinRows
<1> DEFINE D(k) == DeviationAt(p, k, ap)
<1>6. \A k \in 1..n : D(k).ts = p[k].ts /\ D(k).ap = ap
  BY DEF DeviationAt, Twin!Deviation
<1>7. PICK E : E = DeviationsOf(p, ap)
  OBVIOUS
<1>8. E = {D(k) : k \in {j \in 1..n : Deviates(p, j, ap)}}
  BY <1>2, <1>7 DEF DeviationsOf
<1>9. \A k \in (n - P + 1)..n : k \in 1..n /\ D(k) \in E
  BY <1>1, <1>2, <1>4, <1>8
<1>10. \A e \in E : \E k \in 1..n : e = D(k)
  BY <1>8
<1>11. IsFiniteSet(E)
  <2> DEFINE J == {j \in 1..n : Deviates(p, j, ap)}
             g == [j \in J |-> D(j)]
  <2>1. J \subseteq 1..n /\ IsFiniteSet(1..n)
    BY UpTo
  <2>2. E = {D(j) : j \in J}
    BY <1>8
  <2> HIDE DEF D, J
  <2>3. g \in Surjection(J, E)
    BY <2>2 DEF Surjection
  <2> HIDE DEF g
  <2>4. IsFiniteSet(J)
    BY <2>1, FS_Subset
  <2>5. QED
    BY <2>3, <2>4, FS_Surjection
<1> HIDE DEF D
<1>12. PICK y : y = p[n].ts /\ y \in 0..MaxTs
  BY <1>1, <1>2, <1>5
<1>13. ASSUME NEW e \in E PROVE e.ts \in 0..MaxTs /\ e.ts \in Int /\ e.ts <= y /\ e.ap = ap
  <2>1. PICK k \in 1..n : e = D(k)
    BY <1>10
  <2>2. e.ts = p[k].ts /\ e.ap = ap /\ p[k].ts \in 0..MaxTs
    BY <1>5, <1>6, <2>1
  <2>3. k = n \/ (k < n /\ n \in 1..n)
    OBVIOUS
  <2>4. p[k].ts <= y
    BY <1>3, <1>12, <2>2, <2>3
  <2>5. QED
    BY <2>2, <2>4
<1>14. PICK eps : eps = Rules!BuildEpisodes(E, gap)
  OBVIOUS
<1>15. PICK m \in Nat : Merged(eps, m, E, gap)
  BY <1>11, <1>13, <1>14, EpisodesAre
<1>16. /\ DOMAIN eps = 1..m
       /\ \A i \in 1..m : eps[i] # {} /\ eps[i] \subseteq E
       /\ \A i, j \in 1..m : i < j => \A d \in eps[i], e \in eps[j] : e.ts - d.ts > gap
       /\ \A e \in E : \E i \in 1..m : e \in eps[i]
  BY <1>15 DEF Merged
<1>17. n \in 1..n /\ n \in (n - P + 1)..n
  BY <1>1, <1>2
<1>18. PICK q \in 1..m : D(n) \in eps[q]
  BY <1>9, <1>16, <1>17
<1> DEFINE Out == {i \in 0..(P - 1) : D(n - i) \notin eps[q]}
<1>19. Out = {}
  <2> SUFFICES ASSUME Out # {} PROVE FALSE
    BY Zenon
  <2>1. PICK i \in Out : \A j \in Out : i <= j
    <3>1. Out \in SUBSET Nat
      OBVIOUS
    <3> HIDE DEF Out
    <3>2. QED
      BY <3>1, LeastOfSet
  <2>2. i \in 0..(P - 1) /\ D(n - i) \notin eps[q]
    BY <2>1
  <2>3. i # 0
    BY <1>18, <2>2
  <2>4. i - 1 \in 0..(P - 1) /\ ~(i <= i - 1)
    BY <2>2, <2>3
  <2>5. i - 1 \notin Out
    BY <2>1, <2>4
  <2>6. D(n - (i - 1)) \in eps[q]
    BY <2>4, <2>5
  <2>7. PICK k \in 1..n : k = n - i /\ k + 1 = n - (i - 1) /\ k + 1 \in 1..n /\ k \in (n - P + 1)..n
                          /\ k + 1 \in (n - P + 2)..n
    BY <1>2, <2>2, <2>3
  <2>8. PICK d, e : d = D(k) /\ e = D(k + 1)
    OBVIOUS
  <2>9. d \in E /\ d \notin eps[q] /\ e \in eps[q]
    BY <1>9, <2>2, <2>6, <2>7, <2>8
  <2>10. d.ts \in Int /\ e.ts \in Int /\ e.ts - d.ts <= gap /\ d.ts < e.ts
    <3>1. d.ts = p[k].ts /\ e.ts = p[k + 1].ts
      BY <1>6, <2>7, <2>8
    <3>2. p[k + 1].ts - p[(k + 1) - 1].ts <= gap /\ (k + 1) - 1 = k
      BY <1>4, <2>7
    <3>3. p[k].ts < p[k + 1].ts /\ p[k].ts \in Int /\ p[k + 1].ts \in Int
      BY <1>3, <1>5, <2>7
    <3>4. QED
      BY <3>1, <3>2, <3>3
  <2>11. PICK j \in 1..m : d \in eps[j]
    BY <1>16, <2>9
  <2>12. j < q \/ q < j
    <3>1. j # q
      BY <2>9, <2>11
    <3>2. QED
      BY <3>1
  <2>13. CASE j < q
    <3>1. e.ts - d.ts > gap
      BY <1>16, <2>9, <2>11, <2>13
    <3>2. QED
      BY <2>10, <3>1
  <2>14. CASE q < j
    <3>1. d.ts - e.ts > gap
      BY <1>16, <2>9, <2>11, <2>14
    <3>2. QED
      BY <2>10, <3>1
  <2>15. QED
    BY <2>12, <2>13, <2>14
<1>20. PICK ep : ep = eps[q]
  OBVIOUS
<1>21. ep # {} /\ ep \subseteq E /\ IsFiniteSet(ep)
  BY <1>11, <1>16, <1>20, FS_Subset
<1>22. \A e \in ep : e.ts \in Int /\ e.ts <= y /\ e.ap = ap /\ e.ts <= MaxTs /\ 0 <= e.ts
  BY <1>13, <1>21
<1>23. D(n) \in ep /\ D(n).ts = y
  BY <1>6, <1>12, <1>17, <1>18, <1>20
<1>24. Twin!LastTs(ep) = y /\ Twin!InWindow(ep, 0, MaxTs + 1)
  <2>1. PICK a, b : a = Rules!FirstTs(ep) /\ b = Rules!LastTs(ep)
    OBVIOUS
  <2>2. a \in Int /\ b \in Int /\ (\A e \in ep : a <= e.ts /\ e.ts <= b) /\ \E e \in ep : e.ts = b
    BY <1>21, <1>22, <2>1, TimesAre
  <2>3. b = y
    BY <1>12, <1>22, <1>23, <2>2
  <2>4. a < MaxTs + 1 /\ b >= 0
    BY <1>5, <1>12, <1>23, <2>2, <2>3
  <2>5. QED
    BY <2>1, <2>3, <2>4, TwinRules DEF Twin!InWindow
<1>25. Twin!Persistent(ep)
  <2> DEFINE g == [i \in 1..P |-> D(n - P + i)]
             Late == {g[i] : i \in 1..P}
  <2>1. ASSUME NEW i \in 1..P PROVE n - P + i \in 1..n /\ n - P + i \in (n - P + 1)..n /\ g[i] \in ep
                                    /\ g[i].ts = p[n - P + i].ts
    <3>1. PICK k \in 0..(P - 1) : k = P - i
      OBVIOUS
    <3>2. n - k = n - P + i /\ n - P + i \in 1..n /\ n - P + i \in (n - P + 1)..n
      BY <1>2, <3>1
    <3>3. D(n - k) \in ep
      BY <1>19, <1>20
    <3>4. QED
      BY <1>6, <3>2, <3>3
  <2>2. \A i, j \in 1..P : i < j => g[i].ts < g[j].ts
    <3>1. SUFFICES ASSUME NEW i \in 1..P, NEW j \in 1..P, i < j PROVE g[i].ts < g[j].ts
      OBVIOUS
    <3> HIDE DEF g
    <3>2. p[n - P + i].ts < p[n - P + j].ts
      BY <1>3, <2>1, <3>1
    <3>3. QED
      BY <2>1, <3>2
  <2>3. \A i \in 1..P : g[i].ts \in Int
    BY <1>22, <2>1
  <2>4. g \in [1..P -> Late]
    OBVIOUS
  <2>5. Late \in SUBSET ep
    BY <2>1
  <2>6. 1 \in 1..P
    BY <1>1
  <2>7. g[1] \in Late
    BY <2>6
  <2>8. \A e \in Late : \E i \in 1..P : e = g[i]
    OBVIOUS
  <2> HIDE DEF g, Late
  <2>9. g \in Injection(1..P, Late)
    <3>1. ASSUME NEW i \in 1..P, NEW j \in 1..P, g[i] = g[j] PROVE i = j
      BY <2>2, <2>3, <3>1
    <3>2. QED
      BY <2>4, <3>1 DEF Injection, IsInjective
  <2>10. IsFiniteSet(Late)
    BY <1>21, <2>5, FS_Subset
  <2>11. Cardinality(1..P) <= Cardinality(Late) /\ Cardinality(1..P) = P
    BY <2>9, <2>10, FS_Injection, UpTo
  <2>12. PICK x \in Int : x = p[n - P + 1].ts /\ x = g[1].ts /\ y - x <= w
    BY <1>4, <1>12, <2>1, <2>3, <2>6
  <2>13. \A e \in Late : x <= e.ts
    <3>1. SUFFICES ASSUME NEW i \in 1..P PROVE x <= g[i].ts
      BY <2>8
    <3>2. i = 1 \/ 1 < i
      OBVIOUS
    <3>3. QED
      BY <2>2, <2>3, <2>6, <2>12, <3>2
  <2>14. Late # {}
    BY <2>7
  <2>15. y \in Int
    BY <1>12
  <2>16. \A e \in ep : e.ts \in Int /\ e.ts <= y
    BY <1>22
  <2>17. Cardinality(Late) <= Rules!MaxInWindow(Rules!SortedTs(ep), w)
    BY <1>21, <2>5, <2>12, <2>13, <2>14, <2>15, <2>16, LastCounted
  <2>18. PICK c, z : c = Cardinality(Late) /\ z = Rules!MaxInWindow(Rules!SortedTs(ep), w)
    OBVIOUS
  <2>19. c \in Nat /\ P <= c /\ c <= z
    BY <2>10, <2>11, <2>17, <2>18, FS_CardinalityType
  <2>20. z \in Int
    <3>1. PICK l \in Nat : Sorted(Rules!SortedTs(ep), l, ep)
      BY <1>21, <2>16, SortedIs
    <3>2. Rules!SortedTs(ep) \in [1..l -> Int]
      <4>1. Rules!Times(ep) \subseteq Int
        BY <1>21, <2>16, TimesAre
      <4>2. QED
        BY <3>1, <4>1 DEF Sorted
    <3>3. QED
      BY <2>18, <3>2, WindowCount
  <2>21. z >= P
    BY <2>19, <2>20
  <2>22. QED
    BY <1>1, <2>18, <2>21, TwinRules DEF Twin!Persistent
<1>26. ep \in Twin!Episodes(deviations)
  <2>1. {d \in deviations : d.ap = ap} = E
    BY <1>7, OwnDeviations
  <2>2. eps = Twin!BuildEpisodes({d \in deviations : d.ap = ap}, TwinGap)
    BY <1>1, <1>14, <2>1, TwinRules
  <2>3. ep \in {eps[i] : i \in DOMAIN eps}
    BY <1>16, <1>18, <1>20
  <2> DEFINE Of(a) == LET x == Twin!BuildEpisodes({d \in deviations : d.ap = a}, TwinGap) IN {x[i] : i \in DOMAIN x}
  <2>4. ep \in Of(ap)
    BY Zenon, <2>2, <2>3
  <2>5. Twin!Episodes(deviations) = UNION {Of(a) : a \in TwinAps}
    BY Zenon DEF Twin!Episodes
  <2> HIDE DEF Of
  <2>6. QED
    BY <2>4, <2>5
<1>27. ep \subseteq deviations /\ IsFiniteSet(ep) /\ \A d \in deviations : d.ap = ap => d \in E
  BY <1>7, <1>21, OwnDeviations
<1>28. D(n).dev2 > 0
  BY <1>2 DEF Shifted, D
<1>29. ASSUME NEW e \in E, Twin!FirstTs(ep) <= e.ts, e.ts <= Twin!LastTs(ep) PROVE e \in ep
  <2>1. PICK a, b : a = Rules!FirstTs(ep) /\ b = Rules!LastTs(ep)
    OBVIOUS
  <2>2. PICK x \in ep, z \in ep : x.ts = a /\ z.ts = b
    BY <1>21, <1>22, <2>1, TimesAre
  <2>3. x.ts \in Int /\ z.ts \in Int /\ e.ts \in Int /\ x.ts <= e.ts /\ e.ts <= z.ts
    BY <1>13, <1>22, <1>29, <2>1, <2>2, TwinRules
  <2>4. PICK j \in 1..m : e \in eps[j]
    BY <1>16
  <2>5. ~(j < q)
    <3>1. SUFFICES ASSUME j < q PROVE FALSE
      OBVIOUS
    <3>2. x.ts - e.ts > gap
      BY <1>16, <1>20, <2>2, <2>4, <3>1
    <3>3. QED
      BY <2>3, <3>2
  <2>6. ~(q < j)
    <3>1. SUFFICES ASSUME q < j PROVE FALSE
      OBVIOUS
    <3>2. e.ts - z.ts > gap
      BY <1>16, <1>20, <2>2, <2>4, <3>1
    <3>3. QED
      BY <2>3, <3>2
  <2>7. j = q
    BY <2>5, <2>6
  <2>8. QED
    BY <1>20, <2>4, <2>7
<1>30. QED
  BY <1>2, <1>12, <1>21, <1>22, <1>23, <1>24, <1>25, <1>26, <1>27, <1>28, <1>29 DEF Reported

\* The tail of the definition, and what it says of the compared readings.
TailOf(s, n) == IF Len(s) < n THEN <<>> ELSE SubSeq(s, Len(s) - n + 1, Len(s))

\* What is told of the device: up to the time, and in the right direction.
Told(f, ap, ts) == f.ap = ap /\ f.end = ts /\ (f.direction = "stronger" \/ Twin!Outweighed(f))

LevelStays(s, ap) ==
  LET n    == WindowW + Persistence - 1
      tail == TailOf(s, n)
      m    == Baselines[ap]
  IN  /\ tail # <<>>
      /\ \A i \in DOMAIN tail : tail[i].rssi - m.median > Twin!Max2(ShiftK * Twin!Sigma(m), ShiftFloor)
      /\ \A i \in 2..Len(tail) : tail[i].ts - tail[i - 1].ts <= TwinGap
      /\ tail # <<>> => tail[n].ts - tail[WindowW].ts <= PersistWindow

LEMMA LevelStaysIsShifted ==
  ASSUME TwinInv, NEW ap \in Twin!Baselined, NEW p, p = Picked(rowsRead, ap), LevelStays(p, ap)
  PROVE  /\ ap \in TwinAps /\ Shifted(p, ap)
         /\ TailOf(p, WindowW + Persistence - 1)[WindowW + Persistence - 1] = p[Len(p)]
<1>1. PICK P \in Nat, W \in Nat : P = Persistence /\ P # 0 /\ W = WindowW /\ W # 0
  BY TwinAssumption
<1>2. PICK n \in Nat : n = W + P - 1 /\ n # 0 /\ W <= n
  BY <1>1
<1>3. PICK t, m : t = TailOf(p, n) /\ m = Baselines[ap]
  OBVIOUS
<1>4. /\ t # <<>>
      /\ \A i \in DOMAIN t : t[i].rssi - m.median > Twin!Max2(ShiftK * Twin!Sigma(m), ShiftFloor)
      /\ \A i \in 2..Len(t) : t[i].ts - t[i - 1].ts <= TwinGap
      /\ t[n].ts - t[W].ts <= PersistWindow
  <2>1. n = WindowW + Persistence - 1
    BY <1>1, <1>2
  <2>2. t = TailOf(p, WindowW + Persistence - 1)
    BY <1>3, <2>1
  <2>3. QED
    BY Zenon, <1>1, <1>3, <2>1, <2>2 DEF LevelStays
<1>5. PickedOK(p, rowsRead, ap)
  BY PickedInOrder DEF TwinInv
<1>6. p \in Seq(TwinRows)
  BY <1>5 DEF PickedOK
<1>7. PICK L \in Nat : L = Len(p) /\ DOMAIN p = 1..L
  BY <1>6, LenProperties
<1>8. n <= L
  BY <1>3, <1>4, <1>7 DEF TailOf
<1>9. t = SubSeq(p, L - n + 1, L)
  BY <1>3, <1>7, <1>8 DEF TailOf
<1>10. Len(t) = n /\ DOMAIN t = 1..n /\ \A i \in 1..n : t[i] = p[L - n + i]
  <2>1. PICK a \in 1..(L + 1) : a = L - n + 1
    BY <1>2, <1>8
  <2>2. ASSUME NEW j \in a..L PROVE p[j] \in TwinRows
    <3>1. j \in 1..Len(p)
      BY <1>7
    <3>2. QED
      BY <1>6, <3>1, ElementOfSeq
  <2>3. t \in Seq(TwinRows) /\ Len(t) = (IF a <= L THEN L - a + 1 ELSE 0) /\ \A j \in 1..(L - a + 1) : t[j] = p[a + j - 1]
    BY <1>9, <2>1, <2>2, SubSeqProperties
  <2>4. L - a + 1 = n /\ a <= L /\ \A j \in 1..n : a + j - 1 = L - n + j
    BY <1>2, <2>1
  <2>5. Len(t) = n /\ \A j \in 1..n : t[j] = p[L - n + j]
    BY <2>3, <2>4
  <2>6. QED
    BY <2>3, <2>5, LenProperties
<1>11. \A k \in (L - n + 1)..L : k \in 1..L /\ k - (L - n) \in 1..n /\ p[k] = t[k - (L - n)]
  <2>1. SUFFICES ASSUME NEW k \in (L - n + 1)..L PROVE k \in 1..L /\ k - (L - n) \in 1..n /\ p[k] = t[k - (L - n)]
    OBVIOUS
  <2>2. k \in 1..L /\ k - (L - n) \in 1..n /\ L - n + (k - (L - n)) = k
    BY <1>2, <1>8
  <2>3. QED
    BY <1>10, <2>2
<1>12. ap \in TwinAps
  <2>1. 1 \in 1..n /\ L \in 1..Len(p)
    BY <1>2, <1>7, <1>8
  <2>2. p[L].ap = ap
    BY <1>5, <2>1 DEF PickedOK
  <2>3. p[L] \in TwinRows
    BY <1>6, <2>1, ElementOfSeq
  <2>4. QED
    BY <2>2, <2>3 DEF TwinRows
<1>13. m.median \in Int /\ m.sd \in Int
  BY <1>3, TwinAssumption DEF Twin!Baselined
<1>14. ASSUME NEW k \in (L - P + 1)..L PROVE Deviates(p, k, ap) /\ DeviationAt(p, k, ap).dev2 > 0
  <2>1. PICK w : w = WindowTo(p, k)
    OBVIOUS
  <2>2. \A j \in 1..W : k - W + j \in (L - n + 1)..L
    BY <1>1, <1>2, <1>8
  <2>3. w = [j \in 1..W |-> p[k - W + j].rssi]
    BY <1>1, <2>1 DEF WindowTo
  <2>4. ASSUME NEW j \in 1..W
        PROVE  w[j] \in Int /\ w[j] - m.median > Twin!Max2(ShiftK * Twin!Sigma(m), ShiftFloor)
    <3>1. PICK x : x = k - W + j /\ x \in (L - n + 1)..L /\ w[j] = p[x].rssi
      BY <2>2, <2>3
    <3>2. x \in 1..Len(p)
      BY <1>7, <1>11, <3>1
    <3>3. p[x] \in TwinRows
      BY <1>6, <3>2, ElementOfSeq
    <3>4. p[x].rssi \in Int
      BY <3>3, TwinAssumption DEF TwinRows
    <3>5. PICK i \in 1..n : p[x] = t[i]
      BY <1>11, <3>1
    <3>6. QED
      BY <1>4, <1>10, <3>1, <3>4, <3>5
  <2>5. w \in [1..W -> Int] /\ Len(w) = W
    <3>1. \A j \in 1..W : w[j] \in Int
      BY <2>4
    <3>2. w \in [1..W -> Int]
      BY <2>3, <3>1
    <3>3. Len(w) = W
      BY <1>1, <2>3
    <3>4. QED
      BY <3>2, <3>3
  <2>6. Twin!Facet(w, m).shift /\ Twin!Facet(w, m).dev2 > 0
    BY <1>1, <1>13, <2>4, <2>5, ShiftSeen
  <2>7. k >= WindowW
    BY <1>1, <1>2, <1>8
  <2>8. DeviationAt(p, k, ap).dev2 > 0
    BY <1>3, <2>1, <2>6 DEF DeviationAt, Shown, Twin!Deviation
  <2>9. QED
    BY <1>3, <2>1, <2>6, <2>7, <2>8 DEF Deviates, Shown
<1>15. ASSUME NEW k \in (L - P + 2)..L PROVE p[k].ts - p[k - 1].ts <= TwinGap
  <2>1. k \in (L - n + 1)..L /\ k - 1 \in (L - n + 1)..L /\ k - (L - n) \in 2..n /\ (k - 1) - (L - n) = (k - (L - n)) - 1
    BY <1>1, <1>2, <1>8
  <2>2. PICK i \in 2..n : i = k - (L - n) /\ p[k] = t[i] /\ p[k - 1] = t[i - 1]
    BY <1>11, <2>1
  <2>3. QED
    BY <1>4, <1>10, <2>2
<1>16. t[n] = p[L] /\ t[W] = p[L - P + 1]
  <2>1. n \in 1..n /\ W \in 1..n /\ L - n + n = L /\ L - n + W = L - P + 1
    BY <1>1, <1>2
  <2>2. QED
    BY <1>10, <2>1
<1>17. P <= L /\ L \in (L - P + 1)..L
  BY <1>1, <1>2, <1>8
<1>18. Shifted(p, ap)
  BY <1>1, <1>4, <1>7, <1>14, <1>15, <1>16, <1>17 DEF Shifted
<1>19. QED
  BY <1>1, <1>2, <1>3, <1>7, <1>12, <1>16, <1>18

\* The direction of an episode with a rise: up, or down with a drop in it that no
\* rise exceeds.
LEMMA DirectionIs ==
  ASSUME NEW ep, IsFiniteSet(ep), \A d \in ep : d.ts \in Int /\ d.dev2 \in Int, \E d \in ep : d.dev2 > 0
  PROVE  \/ Twin!Direction(ep) = "stronger"
         \/ \E d \in ep : d.dev2 < 0 /\ \A e \in ep : e.dev2 <= -d.dev2
<1>1. PICK x \in ep : x.dev2 > 0
  OBVIOUS
<1>2. \A e \in ep : Twin!Abs(e.dev2) \in Int /\ e.dev2 <= Twin!Abs(e.dev2)
  BY DEF Twin!Abs
<1> DEFINE V == {Twin!Abs(e.dev2) : e \in ep}
           g == [e \in ep |-> Twin!Abs(e.dev2)]
<1>3. g \in Surjection(ep, V)
  BY DEF Surjection
<1>4. V \subseteq Int /\ V # {} /\ \A v \in V : \E e \in ep : v = Twin!Abs(e.dev2)
  BY <1>1, <1>2
<1>5. \A e \in ep : Twin!Abs(e.dev2) \in V
  OBVIOUS
<1> HIDE DEF V, g
<1>6. IsFiniteSet(V)
  BY <1>3, FS_Surjection
<1>7. PICK v \in V : \A u \in V : u <= v
  BY <1>4, <1>6, MaxMinAre
<1>8. PICK Top : Top = {d \in ep : \A e \in ep : Twin!Abs(e.dev2) <= Twin!Abs(d.dev2)}
  OBVIOUS
<1>9. Top # {} /\ Top \subseteq ep /\ IsFiniteSet(Top)
  <2>1. PICK d \in ep : v = Twin!Abs(d.dev2)
    BY <1>4, <1>7
  <2>2. d \in Top
    BY <1>5, <1>7, <1>8, <2>1
  <2>3. Top \in SUBSET ep
    BY <1>8
  <2>4. QED
    BY <2>2, <2>3, FS_Subset
<1>10. \E d \in Top : \A e \in Top : d.ts <= e.ts
  <2>1. \A d \in Top : d.ts \in Int
    BY <1>9
  <2>2. PICK y \in Top : y.ts = Rules!FirstTs(Top)
    BY <1>9, <2>1, TimesAre
  <2>3. \A e \in Top : y.ts <= e.ts
    BY <1>9, <2>1, <2>2, TimesAre
  <2>4. QED
    BY <2>3
<1>11. PICK p : p = Twin!Earliest(Top)
  OBVIOUS
<1>12. p \in Top
  BY <1>10, <1>11 DEF Twin!Earliest
<1>13. Twin!Peak2(ep) = p.dev2
  BY Zenon, <1>8, <1>11 DEF Twin!Peak2
<1>14. p \in ep /\ \A e \in ep : Twin!Abs(e.dev2) <= Twin!Abs(p.dev2)
  BY <1>8, <1>12
<1>15. CASE p.dev2 > 0
  BY <1>13, <1>15 DEF Twin!Direction
<1>16. CASE ~(p.dev2 > 0)
  <2>1. Twin!Abs(p.dev2) = -p.dev2
    BY <1>14, <1>16 DEF Twin!Abs
  <2>2. \A e \in ep : e.dev2 <= -p.dev2
    BY <1>2, <1>14, <2>1
  <2>3. p.dev2 < 0
    BY <1>1, <1>14, <2>2
  <2>4. QED
    BY <1>14, <2>2, <2>3
<1>17. QED
  BY <1>15, <1>16

\* A reported episode is a finding, and raises those under its name.
LEMMA ReportedIsFound ==
  ASSUME TwinInv, NEW ep, NEW ap, NEW ts, Reported(ep, ap, ts)
  PROVE  /\ \E f \in Twin!FindingsB(deviations, 0, MaxTs + 1) : Told(f, ap, ts)
         /\ \A f \in Twin!FindingsA(deviations, 0, MaxTs + 1) : f.ssid = Twin!SsidOf(ap) => f.raised
<1>1. /\ ep \in Twin!Episodes(deviations) /\ ep # {} /\ (\A d \in ep : d.ap = ap)
      /\ Twin!LastTs(ep) = ts /\ Twin!InWindow(ep, 0, MaxTs + 1) /\ Twin!Persistent(ep)
  BY DEF Reported
<1>2. Twin!ApOf(ep) = ap
  <2>1. (CHOOSE d \in ep : TRUE) \in ep
    BY <1>1
  <2>2. QED
    BY <1>1, <2>1 DEF Twin!ApOf
<1>3. PICK from, to : from = 0 /\ to = MaxTs + 1
  OBVIOUS
<1>4. \E f \in Twin!FindingsB(deviations, from, to) : Told(f, ap, ts)
  <2>1. PICK f : f = [ap |-> Twin!ApOf(ep), start |-> Twin!FirstTs(ep), end |-> Twin!LastTs(ep),
                      direction |-> Twin!Direction(ep), severity |-> Twin!GradeB(ep, Twin!CorroboratedA(ep))]
    OBVIOUS
  <2>2. Told(f, ap, ts)
    <3>1. f.ap = ap /\ f.end = ts /\ f.start = Twin!FirstTs(ep) /\ f.direction = Twin!Direction(ep)
      BY <1>1, <1>2, <2>1
    <3>2. /\ ep \subseteq deviations /\ IsFiniteSet(ep) /\ \E d \in ep : d.dev2 > 0
          /\ \A d \in deviations : d.ap = ap /\ Twin!FirstTs(ep) <= d.ts /\ d.ts <= Twin!LastTs(ep) => d \in ep
      BY DEF Reported
    <3>3. \A d \in ep : d.ts \in Int /\ d.dev2 \in Int
      BY <3>2, DevIsInt
    <3>4. ASSUME Twin!Direction(ep) # "stronger" PROVE Twin!Outweighed(f)
      <4>1. PICK d \in ep : d.dev2 < 0 /\ \A e \in ep : e.dev2 <= -d.dev2
        BY <3>2, <3>3, <3>4, DirectionIs
      <4>2. PICK span : span = {e \in deviations : e.ap = f.ap /\ f.start <= e.ts /\ e.ts <= f.end}
        OBVIOUS
      <4>3. d \in span
        <5>1. Rules!FirstTs(ep) <= d.ts /\ d.ts <= Rules!LastTs(ep)
          BY <3>2, <3>3, TimesAre
        <5>2. f.start <= d.ts /\ d.ts <= f.end /\ d.ap = f.ap
          BY <1>1, <3>1, <5>1, TwinRules
        <5>3. QED
          BY <3>2, <4>2, <5>2
      <4>4. \A e \in span : e \in ep
        BY <1>1, <3>1, <3>2, <4>2
      <4>5. QED
        BY Zenon, <4>1, <4>2, <4>3, <4>4 DEF Twin!Outweighed
    <3>5. QED
      BY Zenon, <3>1, <3>4 DEF Told
  <2>3. ep \in {e \in Twin!Episodes(deviations) : Twin!InWindow(e, from, to) /\ Twin!Persistent(e)}
    BY <1>1, <1>3
  <2>4. f \in Twin!FindingsB(deviations, from, to)
    BY Zenon, <2>1, <2>3 DEF Twin!FindingsB
  <2>5. QED
    BY <2>2, <2>4
<1>5. ASSUME NEW f \in Twin!FindingsA(deviations, from, to), f.ssid = Twin!SsidOf(ap) PROVE f.raised
  <2>1. PICK eps : eps = {e \in Twin!Episodes(deviations) : Twin!InWindow(e, from, to)}
    OBVIOUS
  <2>2. PICK u : f = [ap |-> u[1].ap, ssid |-> u[2], severity |-> Twin!GradeA(u[1], u[2], Twin!CorroboratedB(u, eps)),
                      raised |-> Twin!CorroboratedB(u, eps)]
    BY Zenon, <2>1 DEF Twin!FindingsA
  <2>3. PICK s, r : s = Twin!GradeA(u[1], u[2], Twin!CorroboratedB(u, eps)) /\ r = Twin!CorroboratedB(u, eps)
    OBVIOUS
  <2>4. f = [ap |-> u[1].ap, ssid |-> u[2], severity |-> s, raised |-> r]
    BY Zenon, <2>2, <2>3
  <2>5. f.ssid = u[2] /\ f.raised = r
    BY <2>4
  <2>6. ep \in eps
    BY <1>1, <1>3, <2>1
  <2>7. u[2] = Twin!SsidOf(Twin!ApOf(ep))
    BY <1>2, <1>5, <2>5
  <2>8. Twin!CorroboratedB(u, eps)
    BY Zenon, <2>6, <2>7 DEF Twin!CorroboratedB
  <2>9. QED
    BY Zenon, <2>3, <2>5, <2>8
<1>6. QED
  BY Zenon, <1>3, <1>4, <1>5

LEMMA ShiftFiresFromInv == TwinInv => Twin!SustainedShiftFires
<1> DEFINE n == WindowW + Persistence - 1
           tail(ap) == TailOf(Twin!Compared(ap), n)
<1>1. SUFFICES ASSUME TwinInv, NEW ap \in Twin!Baselined, LevelStays(Twin!Compared(ap), ap)
               PROVE  /\ \E f \in Twin!FindingsB(deviations, 0, MaxTs + 1) : Told(f, ap, tail(ap)[n].ts)
                      /\ \A f \in Twin!FindingsA(deviations, 0, MaxTs + 1) : f.ssid = Twin!SsidOf(ap) => f.raised
  BY Zenon DEF Twin!SustainedShiftFires, LevelStays, TailOf, Told
<1>2. PICK p : p = Picked(rowsRead, ap) /\ p = Twin!Compared(ap)
  BY <1>1, ComparedIs DEF TwinInv
<1>3. ap \in TwinAps /\ Shifted(p, ap) /\ tail(ap)[n] = p[Len(p)]
  BY <1>1, <1>2, LevelStaysIsShifted
<1>4. PICK ep : Reported(ep, ap, p[Len(p)].ts)
  BY <1>1, <1>2, <1>3, ShiftedIsReported
<1>5. PICK ts : ts = p[Len(p)].ts /\ ts = tail(ap)[n].ts
  BY Zenon, <1>3
<1>6. /\ \E f \in Twin!FindingsB(deviations, 0, MaxTs + 1) : Told(f, ap, ts)
      /\ \A f \in Twin!FindingsA(deviations, 0, MaxTs + 1) : f.ssid = Twin!SsidOf(ap) => f.raised
  <2>1. Reported(ep, ap, ts)
    BY Zenon, <1>4, <1>5
  <2>2. QED
    BY <1>1, <2>1, ReportedIsFound
<1> HIDE DEF tail, n
<1>7. QED
  BY Zenon, <1>5, <1>6

\* EvilTwin: a level that stays more than a threshold above the baseline for as
\* many readings as a window and a detection take, at the regular pace, is
\* reported, whatever came before, as stronger unless a drop in the same episode
\* outweighs its rises, and raises the unknown addresses under its name.
THEOREM ShiftsAreReported == ServerSpec => []SustainedShiftFires
<1>1. (part = "evil_twin" => TwinInv) => SustainedShiftFires
  BY ShiftFiresFromInv DEF SustainedShiftFires
<1>2. QED
  BY <1>1, TwinInvIsInvariant, PTL
=============================================================================
