------------------------------ MODULE SendLoop ------------------------------
(***************************************************************************)
(* The uploader's loop (uploader.py: tick(), send_batch(), send_heartbeat(), *)
(* Backoff) against the limits of the server (ingest/validate.py): how large *)
(* a batch may be and when the next request goes out.  The uploader halves   *)
(* its polls per batch when the compressed payload exceeds its own limit or  *)
(* the server answers 413, and tries again at once; after any other refusal  *)
(* it waits, longer each time, and retries unchanged.  Heartbeats have waits *)
(* of their own.  A round is the batches it can send, then a heartbeat if    *)
(* nothing was answered for HEARTBEAT_S, then a sleep of WATCH_S.            *)
(*                                                                         *)
(* A request takes one unit of time, as does CATCHUP_PAUSE_S.  Also here:    *)
(* the text of the last answer, which the next heartbeat quotes in full and   *)
(* the server limits too.  What a batch holds and what a lost answer does:    *)
(* LiveUpload.tla.  Batches without polls, and a buffer the collector has    *)
(* not made yet, are left out.                                              *)
(***************************************************************************)
EXTENDS Integers, Sequences, FiniteSetsExt, SequencesExt

CONSTANTS
    Sizes,          \* what a poll may weigh: [bytes, json, rows]
    Backlog,        \* polls that wait at a time (a bound)
    CatchUp,        \* CATCHUP_POLLS
    MaxBatchBytes,  \* the uploader's limit on the compressed payload
    MaxBody,        \* the server's
    MaxJson,        \* on the inflated one
    MaxRows, MaxPolls,
    Base,           \* the first wait, 5 s
    HeartbeatS,      \* HEARTBEAT_S
    BackoffMax,     \* BACKOFF_MAX_S
    Watch,          \* WATCH_S
    Fault           \* the sleep after a round that raised, 10 s

VARIABLES
    pending,        \* the polls behind the cursor, oldest first
    maxPolls,       \* polls of the next batch
    lastResult,     \* "short" or "long": the text of the last answer
    phase,          \* "cursor" (there is none yet), "batches" or "beat"
    wait, nominal,  \* Backoff of the batches: what is left of the wait, and what it was before it was drawn
    hbWait, hbNominal, \* and of the heartbeats
    silent,         \* time since the last contact, up to HeartbeatS
    left            \* ghost: by when the server must hear from the sensor again

vars == <<pending, maxPolls, lastResult, phase, wait, nominal, hbWait, hbNominal, silent, left>>

-----------------------------------------------------------------------------
(* Sizes *)

\* What the first n pending polls weigh.
Weight(n, what) == FoldLeft(LAMBDA sum, p : sum + p[what], 0, SubSeq(pending, 1, Min({n, Len(pending)})))

\* As Half, but the limit starts again with every batch.
HalfForgets(n) == CatchUp
\* Halving, once and until the payload fits or one poll is left.
Half(n) == Max({1, n \div 2})
Closed(S) == \A m \in S : Half(m) \in S
Halvings(n) == {m \in 1..n : \A S \in SUBSET (1..n) : (n \in S /\ Closed(S)) => m \in S}
Shrunk(n) == Max({m \in Halvings(n) : Weight(m, "bytes") <= MaxBatchBytes} \cup {1})

\* The server: the body is decoded, then the tables, then the heartbeat.
TooLarge(n) == Weight(n, "bytes") > MaxBody \/ Weight(n, "json") > MaxJson
TooMany(n) == Weight(n, "rows") > MaxRows \/ n > MaxPolls
Verdict(n) ==
    IF TooLarge(n) THEN "413" ELSE IF TooMany(n) \/ lastResult = "long" THEN "422" ELSE "200"

-----------------------------------------------------------------------------
(* Times *)

Later(t, by) == Max({0, t - by})

\* Backoff.fail(): the nominal wait doubles up to the cap, and the wait is drawn
\* from four to six fifths of it.
Longer(before, cap) == Min({cap, IF before = 0 THEN Base ELSE 2 * before})
Delays(length) == ((4 * length + 4) \div 5)..((6 * length + 4) \div 5)

\* How long a round keeps from the next: 413 until one poll is left, then sleep.
Round == 2 * (Cardinality(Halvings(CatchUp)) - 1) + Watch

Pass(by) ==
    /\ wait' = Later(wait, by) /\ hbWait' = Later(hbWait, by)
    /\ silent' = Min({HeartbeatS, silent + by}) /\ left' = Max({-1, left - by})

\* contact(): an answer 200.  The wait after a heartbeat that failed goes on.
Contact(by) ==
    /\ silent' = Min({HeartbeatS, by - 1}) /\ left' = Max({left - by, HeartbeatS + Round})

-----------------------------------------------------------------------------
(* The loop *)

Init ==
    /\ pending \in BoundedSeq(Sizes, Backlog) /\ maxPolls = CatchUp /\ lastResult = "short"
    /\ phase \in {"cursor", "batches"} /\ wait = 0 /\ nominal = 0 /\ hbWait = 0 /\ hbNominal = 0
    /\ silent = HeartbeatS /\ left = Round

\* The next round.
Again == phase' = IF phase = "cursor" THEN "cursor" ELSE "batches"

\* After a round the process sleeps; a poll may have arrived by the next one.
Arrive == \/ UNCHANGED pending
          \/ Len(pending) < Backlog /\ \E p \in Sizes : pending' = Append(pending, p)

Batch ==
    /\ phase = "batches" /\ wait = 0 /\ pending # <<>>
    /\ LET n == Shrunk(maxPolls)
           verdict == Verdict(n)
       IN  \/ /\ verdict = "200"
              /\ pending' = SubSeq(pending, n + 1, Len(pending))
              /\ maxPolls' = CatchUp /\ lastResult' = "short" /\ wait' = 0 /\ nominal' = 0
              /\ hbWait' = Later(hbWait, 2) /\ Contact(2)
              /\ phase' = IF pending' = <<>> THEN "beat" ELSE "batches"
              /\ UNCHANGED hbNominal
           \/ /\ verdict = "413"
              /\ maxPolls' = Half(n) /\ lastResult' = "short" /\ Pass(2)
              /\ UNCHANGED <<pending, phase, nominal, hbNominal>>
           \/ /\ verdict = "422"
              /\ nominal' = Longer(nominal, BackoffMax) /\ wait' \in Delays(nominal') /\ maxPolls' = n /\ lastResult' = "short"
              /\ hbWait' = Later(hbWait, 1) /\ silent' = Min({HeartbeatS, silent + 1}) /\ left' = Max({-1, left - 1})
              /\ phase' = "beat" /\ UNCHANGED <<pending, hbNominal>>

\* No answer, or one of another kind, with a text of any length: 5xx; a refused
\* token waits for the longest time, the rate limit for the first one at least,
\* and 409 for the next round.
BatchFails ==
    /\ phase = "batches" /\ wait = 0 /\ pending # <<>>
    /\ maxPolls' = Shrunk(maxPolls) /\ lastResult' \in {"short", "long"}
    /\ \/ /\ nominal' = Longer(nominal, BackoffMax)
          /\ \E delay \in Delays(nominal') : wait' \in {delay, Max({delay, BackoffMax}), Max({delay, Base})}
       \/ wait' = Watch /\ UNCHANGED nominal
    /\ hbWait' = Later(hbWait, 1) /\ silent' = Min({HeartbeatS, silent + 1}) /\ left' = Max({-1, left - 1})
    /\ phase' = "beat" /\ UNCHANGED <<pending, hbNominal>>

NoBatch ==
    /\ phase = "batches" /\ (wait > 0 \/ pending = <<>>) /\ phase' = "beat"
    /\ UNCHANGED <<pending, maxPolls, lastResult, wait, nominal, hbWait, hbNominal, silent, left>>

\* ensure_cursor() asks the server with a heartbeat; while it fails the round
\* ends there.
Due == hbWait = 0 /\ (phase = "cursor" \/ (phase = "beat" /\ silent >= HeartbeatS))

Beat ==
    /\ Due /\ lastResult = "short"
    /\ LET took == IF phase = "cursor" THEN 1 ELSE 1 + Watch
       IN  Contact(took) /\ wait' = Later(wait, took)
    /\ hbNominal' = 0 /\ hbWait' = 0 /\ phase' = "batches"
    /\ Arrive /\ UNCHANGED <<maxPolls, lastResult, nominal>>

BeatFails ==
    /\ Due
    /\ lastResult' \in (IF lastResult = "long" THEN {"short"} ELSE {"short", "long"})
    /\ hbNominal' = Longer(hbNominal, HeartbeatS)
    /\ \E delay \in Delays(hbNominal') : hbWait' = Later(delay, Watch)
    /\ wait' = Later(wait, 1 + Watch) /\ silent' = Min({HeartbeatS, silent + 1 + Watch})
    /\ left' = Max({left - 1 - Watch, (6 * HeartbeatS) \div 5 + Round})
    /\ Again /\ Arrive /\ UNCHANGED <<maxPolls, nominal>>

NoBeat ==
    /\ phase \in {"cursor", "beat"} /\ ~Due
    /\ Pass(Watch) /\ Again
    /\ Arrive /\ UNCHANGED <<maxPolls, lastResult, nominal, hbNominal>>

\* A round that raises ends there, and the process sleeps longer.
Raise ==
    /\ wait' = Later(wait, Fault + Watch) /\ hbWait' = Later(hbWait, Fault + Watch)
    /\ silent' = Min({HeartbeatS, silent + Fault + Watch}) /\ left' = Max({left, Round})
    /\ Again /\ Arrive /\ UNCHANGED <<maxPolls, lastResult, nominal, hbNominal>>

\* A process that starts again: waits and limits are forgotten, and contact was
\* never made.
Restart ==
    /\ maxPolls' = CatchUp /\ lastResult' = "short" /\ wait' = 0 /\ nominal' = 0 /\ hbWait' = 0 /\ hbNominal' = 0
    /\ silent' = HeartbeatS /\ left' = Max({left, Round}) /\ Again /\ UNCHANGED pending

Next == Batch \/ BatchFails \/ NoBatch \/ Beat \/ BeatFails \/ NoBeat \/ Raise \/ Restart

Spec == Init /\ [][Next]_vars

-----------------------------------------------------------------------------
(* Properties *)

OneFits(p) == p.bytes <= Min({MaxBody, MaxBatchBytes}) /\ p.json <= MaxJson

(* docs/live-upload.md 4.4 "413: halve, retry at once" and tick(): whatever the
   answers to the batches are, the server hears from the sensor again within
   HEARTBEAT_S of the last contact and six fifths of it of the last heartbeat
   that failed, plus one round (which begins anew when it raises or the process
   starts again) - or the oldest poll alone is too large: then, and only then,
   the tries at once go on for ever and no heartbeat is sent. *)
SilenceIsShort == left < 0 => pending # <<>> /\ ~OneFits(Head(pending))

=============================================================================
