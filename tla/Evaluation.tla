----------------------------- MODULE Evaluation -----------------------------
(***************************************************************************)
(* The evaluation of a detector against staged attacks                      *)
(* (server/evaluation): the log of trials (groundtruth.py) is joined with    *)
(* the detections of the campaign, read from the database or from a         *)
(* detector's --json dump (__main__.py), into recall, strays and false       *)
(* positives (metrics.py).  A behaviour is a campaign: trials are staged,    *)
(* detections turn up; what the report says is a function of the two.        *)
(***************************************************************************)
EXTENDS Integers, Sequences, FiniteSetsExt

CONSTANTS
    Times, Bssids,
    Durations,      \* of a trial
    Kinds,          \* what is staged: [type, attack, target]
    Type,           \* the detector that is evaluated
    Pre, Post,      \* MATCH_SLACK_PRE, MATCH_SLACK_POST
    Guard,          \* FP_GUARD
    EvalFrom, EvalTo, Edge,     \* --from, --to, _EDGE
    MaxTrials, MaxDetections,   \* (bounds)
    None

VARIABLES
    source,         \* where the detections come from: "database" or "json"
    trials,         \* [id, start, stop, type, attack, target]
    detections      \* [id, bssid, dated]

vars == <<source, trials, detections>>

-----------------------------------------------------------------------------
(* groundtruth.py *)

\* load_trials() refuses a trial that does not last, an attack on nobody and an
\* id it has seen.
Valid(t) == t.start < t.stop /\ (t.attack => t.target # None) /\ \A s \in trials : s.id # t.id

\* The trials of the detector, in the order of their starts, then of their ids.
Own == {t \in trials : t.type = Type}
Before(s, t) == s.start < t.start \/ (s.start = t.start /\ s.id < t.id)
Ordered == CHOOSE log \in [1..Cardinality(Own) -> Own] : \A i, j \in DOMAIN log : i < j => Before(log[i], log[j])

\* overlaps(): each trial against the next one.
Overlaps(log) == {i \in 2..Len(log) : log[i].start < log[i - 1].stop}

-----------------------------------------------------------------------------
(* metrics.py *)

\* The earliest dated evidence: window start, first alert or first burst.
EarliestTs(d) == IF d.dated = {} THEN None ELSE Min(d.dated)

MatchTrial(t, d) ==
    /\ t.target # None /\ d.bssid = t.target
    /\ EarliestTs(d) # None /\ EarliestTs(d) \in t.start - Pre..t.stop + Post

Targets == {t.target : t \in Own} \ {None}
Matches(t) == {d \in detections : MatchTrial(t, d)}
MatchedIds == {d.id : d \in UNION {Matches(t) : t \in Own}}

\* As NearAnyTrial without the guard band.
NearAnyTrialOnly(ts) == \E t \in Own : ts \in t.start..t.stop
NearAnyTrial(ts) == \E t \in Own : ts \in t.start - Guard..t.stop + Guard

\* What is matched by its id is done with; the rest is a stray on a target or,
\* if it is dated and far from every trial, a false positive.
Unmatched == {d \in detections : d.id \notin MatchedIds}
Strays == {d \in Unmatched : d.bssid \in Targets}
FalsePositives == {d \in Unmatched \ Strays : EarliestTs(d) # None /\ ~NearAnyTrial(EarliestTs(d))}

Attacks == {t \in trials : t.attack}

\* What is read of the database: the detections from an hour before the window to
\* an hour after it, the polls of the window.  With a dump no polls are read.
InWindow == {ts \in Times : EvalFrom <= ts /\ ts < EvalTo}
Fetched  == {ts \in Times : EvalFrom - Edge <= ts /\ ts < EvalTo + Edge}
Polls    == IF source = "database" THEN InWindow ELSE {}

\* clean_hours(): the polls that the rate of false positives is divided by, far
\* from the attacks of every detector's trials.
CleanPolls == {ts \in Polls : \A t \in Attacks : ts \notin t.start - Guard..t.stop + Guard}

-----------------------------------------------------------------------------
Init == source \in {"database", "json"} /\ trials = {} /\ detections = {}

Stage(id, start, duration, kind) ==
    LET t == [id |-> id, start |-> start, stop |-> start + duration, type |-> kind.type, attack |-> kind.attack,
              target |-> kind.target]
    IN  /\ Valid(t)
        /\ trials' = trials \cup {t}
        /\ UNCHANGED <<source, detections>>

\* The id of a row; a dump of a dry run has no ids, and the report reads 0.
IdOf(n) == IF source = "json" THEN 0 ELSE n

Detect(bssid, dated) ==
    LET d == [id |-> IdOf(Cardinality(detections) + 1), bssid |-> bssid, dated |-> dated]
    IN  /\ Cardinality(detections) < MaxDetections /\ (source = "database" => dated \subseteq Fetched)
        /\ detections' = detections \cup {d}
        /\ UNCHANGED <<source, trials>>

Next ==
    \/ \E id \in 1..MaxTrials, start \in Times, duration \in Durations, kind \in Kinds : Stage(id, start, duration, kind)
    \/ \E bssid \in Bssids, dated \in {{}} \cup {{ts} : ts \in Times} : Detect(bssid, dated)

Spec == Init /\ [][Next]_vars

-----------------------------------------------------------------------------
(* Properties *)

Spaced == \A s, t \in Own : s # t => t.start - s.stop > Pre + Post \/ s.start - t.stop > Pre + Post

(* The report is honest (evaluation/README.md "Matching").  With spaced trials a
   detection belongs to one trial at most, and is then no false positive; a log
   that hides an ambiguity is reported, though overlaps() looks at neighbours
   only; every false positive of the window is in the hours that the rate divides
   by, and without control windows each organic detection of those hours is
   counted.  For both the trials must be the detector's own: the hours leave out
   every attack, the count only the detector's; and the detections must come from
   the database: a dump has no hours, and in the dump of a dry run all ids are 0,
   so that one match hides every false positive.  What the count has beyond the
   hours is fetched from the edges: evaluate() calls its false positives
   "in-window" (metrics.py:179) and cuts none of them. *)
ReportIsHonest ==
    /\ Spaced => \A d \in detections : Cardinality({t \in Own : d \in Matches(t)}) <= 1
    /\ \A t \in Own : Matches(t) \cap FalsePositives = {}
    /\ (Overlaps(Ordered) = {}) <=> (\A s, t \in Own : s # t => s.stop <= t.start \/ t.stop <= s.start)
    /\ (trials = Own /\ source = "database") =>
         /\ \A d \in FalsePositives : EarliestTs(d) \in CleanPolls \cup (Fetched \ InWindow)
         /\ trials = Attacks =>
              \A d \in detections : (d.bssid \notin Targets /\ EarliestTs(d) \in CleanPolls) => d \in FalsePositives

=============================================================================
