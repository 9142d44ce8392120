---------------------------- MODULE IngestService ----------------------------
(***************************************************************************)
(* The two ingest routes as requests that run at the same time in the      *)
(* api's thread pool: connection, authentication, token bucket, the        *)
(* verdict on the payload, the merge semaphore, one transaction.  What     *)
(* they share is the row of the sensor in sensor_status (locked by the     *)
(* SELECT ... FOR UPDATE that reads it, if there is a row to lock), the    *)
(* stall events, the adapter record, and in memory the buckets and the     *)
(* failed authentications of a client address.                             *)
(*                                                                         *)
(* Sources: server/api/app/ingest/routes.py, stalls.py, ratelimit.py,      *)
(* heartbeat.py, tokens.py, sql/ingest.sql and the pool of app/db.py.      *)
(*                                                                         *)
(* The rows of a batch, its uploads record and its gaps are LiveUpload's;  *)
(* the configuration report is ConfigDelivery's.  All requests come from   *)
(* one client address, as sensors behind one router do.                    *)
(***************************************************************************)
EXTENDS Integers, Sequences, FiniteSets, FiniteSetsExt

CONSTANTS
  Sensors, Slots,     \* the sensors; the threads that serve requests
  PoolSize,           \* db.pool max_size
  Payloads,           \* what a request may be: [route, auth, verdict, seq, risk, adapter]
  None,               \* NULL
  RejectCount, AuthFailCount, Persist,   \* stalls.py
  Rate, Burst,        \* BATCHES: tokens per tick, size
  FailLimit, FailSpan, Block,            \* FAILS
  MaxRequests, MaxNow \* bounds: requests started, ticks of the clock

VARIABLES
  now,       \* the server's clock (wall and monotonic)
  slot,      \* the request each thread serves
  merging,   \* the slot that holds MERGE, or None
  status,    \* sensor_status, None where a sensor never had contact
  lock,      \* the slot that holds the row lock of a sensor's status row
  open,      \* the types of the sensor's open stall events
  adapter,   \* sensor_adapters: [usb, mac]
  bounds,    \* number of hardware_change boundaries of the sensor
  bucket,    \* BATCHES: tokens and the time of the last call
  fails, blocked, \* FAILS
  started,   \* requests started so far
  log,       \* history: what was committed on a sensor's status row, in order
  raced      \* history: a sensor's row was read before it existed and written after

memory == <<bucket, fails, blocked>>
vars == <<now, slot, merging, status, lock, open, adapter, bounds, memory, started, log, raced>>

(* The batches, and the rows of sensor_status.                              *)
Batches == {p.seq : p \in Payloads}
Stalls == [rejectSeq : Batches \cup {None}, rejectSince : Nat \cup {None}, rejects : Nat,
           authSince : Nat \cup {None}, authFails : Nat]
Statuses == [lastSeq : Batches \cup {None}, stall : Stalls]

Idle == [stage |-> "idle"]

(* The request as it goes on: its stage, the time of its route, the status   *)
(* row that it read.                                                        *)
At(q, stage, at, st) ==
  [stage |-> stage, at |-> at, st |-> st, sensor |-> q.sensor, route |-> q.route, auth |-> q.auth,
   verdict |-> q.verdict, seq |-> q.seq, risk |-> q.risk, adapter |-> q.adapter]

(* A connection is checked out from authentication to the answer; a batch   *)
(* that waits for MERGE keeps its own.                                      *)
Connected == {r \in Slots : slot[r].stage \notin {"idle", "queued"}}

Goto(r, stage)  == slot' = [slot EXCEPT ![r] = At(slot[r], stage, slot[r].at, slot[r].st)]
Answered(r)     == slot' = [slot EXCEPT ![r] = Idle]

-----------------------------------------------------------------------------
(* stalls.py: the next state of the stall fields.                           *)

Stall(seq, since, rejects, authSince, authFails) ==
  [rejectSeq |-> seq, rejectSince |-> since, rejects |-> rejects, authSince |-> authSince, authFails |-> authFails]

ClearStall == Stall(None, None, 0, None, 0)

StallOf(st) == IF st = None THEN ClearStall ELSE st.stall

(* As if a refusal of another batch counted on.                             *)
AfterAnyReject(s, seq, at) ==
  IF s.rejectSince # None THEN Stall(s.rejectSeq, s.rejectSince, s.rejects + 1, s.authSince, s.authFails)
    ELSE Stall(seq, at, 1, s.authSince, s.authFails)

AfterReject(s, seq, at) ==
  IF s.rejectSeq = seq /\ s.rejectSince # None
    THEN Stall(seq, s.rejectSince, s.rejects + 1, s.authSince, s.authFails)
    ELSE Stall(seq, at, 1, s.authSince, s.authFails)

RejectPersists(s, at) == s.rejects >= RejectCount /\ at - s.rejectSince >= Persist

AfterAuthFail(s, at) ==
  IF s.authSince = None THEN Stall(s.rejectSeq, s.rejectSince, s.rejects, at, 1)
                        ELSE Stall(s.rejectSeq, s.rejectSince, s.rejects, s.authSince, s.authFails + 1)

AuthFailPersists(s, at) == s.authFails >= AuthFailCount /\ at - s.authSince >= Persist

AfterAccept(s) == ClearStall

AfterAuthOk(s) == Stall(s.rejectSeq, s.rejectSince, s.rejects, None, 0)

-----------------------------------------------------------------------------
(* ratelimit.py.  The time is read before the lock is taken, so a call may  *)
(* bring an older time than the one before it.                              *)

Refilled(b, t) == Min({Burst, b.tokens + (t - b.last) * Rate})

Known(b, t) == IF b = None THEN [tokens |-> Burst, last |-> t] ELSE b

Allow(b, t) ==
  LET tokens == Refilled(Known(b, t), t)
  IN  [ok |-> tokens >= 1, to |-> [tokens |-> IF tokens >= 1 THEN tokens - 1 ELSE tokens, last |-> t]]

Failed(f, t) == Append(SelectSeq(f, LAMBDA x : t - x < FailSpan), t)

(* The address is blocked, and its failures are forgotten.                  *)
FailNow(t) ==
  LET recent == Failed(fails, t)
  IN  IF Len(recent) >= FailLimit THEN fails' = <<>> /\ blocked' = t + Block
                                  ELSE fails' = recent /\ UNCHANGED blocked

IsBlocked(t) == blocked # None /\ t < blocked

-----------------------------------------------------------------------------
(* heartbeat.py: the adapter check.                                         *)

Fields == {"usb", "mac"}

AdapterAction(old, new) ==
  LET differs == \E k \in Fields : new[k] # None /\ old[k] # None /\ old[k] # new[k]
      fills   == \E k \in Fields : new[k] # None /\ old[k] = None
  IN  IF differs THEN "change" ELSE IF fills THEN "fill" ELSE "none"

(* As if a fill replaced the whole record.                                  *)
AdapterReplaced(old, new) == IF AdapterAction(old, new) = "none" THEN old ELSE new

AdapterNext(old, new) ==
  CASE AdapterAction(old, new) = "none"   -> old
    [] AdapterAction(old, new) = "fill"   -> [k \in Fields |-> IF old[k] = None THEN new[k] ELSE old[k]]
    [] AdapterAction(old, new) = "change" -> new

-----------------------------------------------------------------------------
(* A request arrives.                                                       *)

Request(p, s) ==
  [stage |-> "queued", at |-> None, st |-> None, sensor |-> s, route |-> p.route, auth |-> p.auth,
   verdict |-> p.verdict, seq |-> p.seq, risk |-> p.risk, adapter |-> p.adapter]

(* A blocked address is answered 429 before anything else.                  *)
Arrive(r, s, p) ==
  /\ slot[r] = Idle /\ started < MaxRequests
  /\ started' = started + 1
  /\ IF IsBlocked(now) THEN UNCHANGED slot ELSE slot' = [slot EXCEPT ![r] = Request(p, s)]
  /\ blocked' = IF IsBlocked(now) THEN blocked ELSE None
  /\ UNCHANGED <<now, merging, status, lock, open, adapter, bounds, bucket, fails, log, raced>>

(* db.pool.connection(), and _authenticate: an unknown token is only        *)
(* counted against the address, a wrong secret also against its sensor, a   *)
(* revoked token only against its sensor.  The route's time is taken when   *)
(* it starts, the bucket's before its lock.                                 *)
Authenticate(r) ==
  /\ slot[r].stage = "queued"
  /\ Cardinality(Connected) < PoolSize
  /\ IF slot[r].auth = "unknown"
       THEN Answered(r)                                                     \* 401
       ELSE slot' = [slot EXCEPT ![r] = At(slot[r], IF slot[r].auth = "good" THEN "limit" ELSE "read", now, None)]
  /\ IF slot[r].auth \in {"unknown", "wrong"} THEN FailNow(now) ELSE UNCHANGED <<fails, blocked>>
  /\ UNCHANGED <<now, merging, status, lock, open, adapter, bounds, bucket, started, log, raced>>

(* The dashboard's requests hold connections as well.                       *)
PoolTimeout(r) ==
  /\ slot[r].stage = "queued"
  /\ Answered(r)                                                           \* 503
  /\ UNCHANGED <<now, merging, status, lock, open, adapter, bounds, memory, started, log, raced>>

(* The bucket of the sensor, then the verdict on the payload.  Heartbeats   *)
(* have a bucket of their own, left out here.                               *)
Limit(r) ==
  LET s == slot[r].sensor
      a == Allow(bucket[s], slot[r].at)
  IN  /\ slot[r].stage = "limit"
      /\ IF slot[r].route = "batch"
           THEN bucket' = [bucket EXCEPT ![s] = a.to]
           ELSE UNCHANGED bucket
      /\ CASE slot[r].route = "batch" /\ ~a.ok                        -> Answered(r)  \* 429
           [] slot[r].verdict = "unreadable"                    -> Answered(r)  \* 400, 413
           [] slot[r].route = "heartbeat" /\ slot[r].verdict = "invalid" -> Answered(r)  \* 422
           [] slot[r].route = "batch" /\ a.ok /\ slot[r].verdict = "valid" -> Goto(r, "merge")
           [] OTHER                                                       -> Goto(r, "read")
      /\ UNCHANGED <<now, merging, status, lock, open, adapter, bounds, fails, blocked, started, log, raced>>

Acquire(r) ==
  /\ slot[r].stage = "merge"
  /\ \/ merging = None /\ merging' = r /\ Goto(r, "read")
     \/ merging # None /\ Answered(r) /\ UNCHANGED merging         \* MERGE_WAIT_S: 429
  /\ UNCHANGED <<now, status, lock, open, adapter, bounds, memory, started, log, raced>>

-----------------------------------------------------------------------------
(* The transaction: status_get reads and locks the row, the rest commits.   *)

Lockable(r, s) == status[s] = None \/ lock[s] = None

Read(r) ==
  LET s == slot[r].sensor
  IN  /\ slot[r].stage = "read" /\ Lockable(r, s)
      /\ slot' = [slot EXCEPT ![r] = At(slot[r], "write", slot[r].at, status[s])]
      /\ lock' = IF status[s] = None THEN lock ELSE [lock EXCEPT ![s] = r]
      /\ UNCHANGED <<now, merging, status, open, adapter, bounds, memory, started, log, raced>>

Release(r) ==
  /\ lock' = [s \in Sensors |-> IF lock[s] = r THEN None ELSE lock[s]]
  /\ merging' = IF merging = r THEN None ELSE merging

(* lock_timeout, statement_timeout, an import that holds the merge's lock.  *)
RollBack(r) ==
  /\ slot[r].stage \in {"read", "write"}
  /\ Answered(r) /\ Release(r)
  /\ UNCHANGED <<now, status, open, adapter, bounds, memory, started, log, raced>>

Opened(s, kind, persists) == IF persists THEN open[s] \cup {kind} ELSE open[s]

Note(s, entry) == log' = [log EXCEPT ![s] = Append(@, entry)]

(* _rejected and _auth_failed: the stall fields only.  A sensor that never  *)
(* had contact has no row.                                                  *)
Stalled(r, next, persists, entry) ==
  LET s == slot[r].sensor
  IN  /\ IF slot[r].st = None
           THEN UNCHANGED <<status, open, log>>
           ELSE /\ status' = [status EXCEPT ![s] = [lastSeq |-> status[s].lastSeq, stall |-> next]]
                /\ open' = [open EXCEPT ![s] = Opened(s, entry.what, persists)]
                /\ Note(s, entry)
      /\ UNCHANGED <<adapter, bounds, raced>>

Rejected(r) ==
  LET next == AfterReject(StallOf(slot[r].st), slot[r].seq, slot[r].at)
  IN  slot[r].auth = "good" /\ slot[r].verdict = "invalid"
      /\ Stalled(r, next, RejectPersists(next, slot[r].at),
                 [what |-> "upload_rejected", seq |-> slot[r].seq, at |-> slot[r].at])

AuthFailed(r) ==
  LET next == AfterAuthFail(StallOf(slot[r].st), slot[r].at)
  IN  slot[r].auth \in {"wrong", "revoked"}
      /\ Stalled(r, next, AuthFailPersists(next, slot[r].at),
                 [what |-> "upload_unauthorized", seq |-> None, at |-> slot[r].at])

(* _heartbeat: the adapter and the retention event.                         *)
Beat(r, left) ==
  LET s == slot[r].sensor
      a == slot[r].adapter
  IN  /\ adapter' = [adapter EXCEPT ![s] = AdapterNext(@, a)]
      /\ bounds' = [bounds EXCEPT ![s] = IF AdapterAction(adapter[s], a) = "change" THEN @ + 1 ELSE @]
      /\ open' = [open EXCEPT ![s] = IF slot[r].risk THEN left \cup {"upload_retention_risk"}
                                                    ELSE left \ {"upload_retention_risk"}]

Status(st, isBatch, seq, stall) ==
  [lastSeq |-> IF isBatch THEN seq ELSE IF st = None THEN None ELSE st.lastSeq, stall |-> stall]

(* The upsert of the status row waits for a row lock of another request.    *)
Contact(r) ==
  LET s == slot[r].sensor
      isBatch == slot[r].route = "batch"
      stall   == StallOf(slot[r].st)
  IN  /\ slot[r].auth = "good" /\ slot[r].verdict = "valid"
      /\ lock[s] \in {None, r}
      /\ Beat(r, open[s] \ (IF isBatch THEN {"upload_rejected", "upload_unauthorized"} ELSE {"upload_unauthorized"}))
      /\ status' = [status EXCEPT ![s] =
                      Status(slot[r].st, isBatch, slot[r].seq, IF isBatch THEN AfterAccept(stall) ELSE AfterAuthOk(stall))]
      /\ raced' = IF slot[r].st = None /\ status[s] # None THEN raced \cup {s} ELSE raced
      /\ Note(s, [what |-> slot[r].route, seq |-> slot[r].seq, at |-> slot[r].at,
                  risk |-> slot[r].risk, adapter |-> slot[r].adapter, bounds |-> bounds'[s]])

Commit(r) ==
  /\ slot[r].stage = "write"
  /\ Rejected(r) \/ AuthFailed(r) \/ Contact(r)
  /\ Answered(r) /\ Release(r)
  /\ UNCHANGED <<now, memory, started>>

Tick ==
  /\ now < MaxNow /\ now' = now + 1
  /\ UNCHANGED <<slot, merging, status, lock, open, adapter, bounds, memory, started, log, raced>>

-----------------------------------------------------------------------------
Init ==
  /\ now = 0 /\ slot = [r \in Slots |-> Idle] /\ merging = None
  /\ status = [s \in Sensors |-> None] /\ lock = [s \in Sensors |-> None]
  /\ open = [s \in Sensors |-> {}]
  /\ adapter = [s \in Sensors |-> [k \in Fields |-> None]] /\ bounds = [s \in Sensors |-> 0]
  /\ bucket = [s \in Sensors |-> None] /\ fails = <<>> /\ blocked = None
  /\ started = 0 /\ log = [s \in Sensors |-> <<>>] /\ raced = {}

Next ==
  \/ Tick
  \/ \E r \in Slots :
       \/ \E s \in Sensors, p \in Payloads : Arrive(r, s, p)
       \/ Authenticate(r) \/ PoolTimeout(r) \/ Limit(r) \/ Acquire(r)
       \/ Read(r) \/ Commit(r) \/ RollBack(r)

Spec == Init /\ [][Next]_vars

-----------------------------------------------------------------------------
(* Properties.                                                              *)

(* The places of a sensor's history that are of these kinds.                *)
Told(L, kinds) == {i \in DOMAIN L : L[i].what \in kinds}

(* Where a history has a heartbeat, alone or in a batch.                    *)
Contacts(L) == Told(L, {"batch", "heartbeat"})

(* The places of a kind after the last one that ends such a stall.          *)
Since(L, kind, ends) == {i \in Told(L, {kind}) : \A j \in Told(L, ends) : j < i}

(* Nothing at these places before i is of the same batch without another    *)
(* one in between.                                                          *)
Begins(L, P, i) == \A p \in P : p < i => \E q \in P : p <= q /\ q < i /\ L[q].seq # L[i].seq

(* The places have a run of n or more of one batch, from its first on, that *)
(* spans the time after which a stall is an event.                          *)
Persisted(L, P, n) ==
  \E i, j \in P :
    LET run == {k \in P : i <= k /\ k <= j}
    IN  /\ Begins(L, P, i) /\ \A k \in run : L[k].seq = L[i].seq
        /\ Cardinality(run) >= n /\ L[j].at - L[i].at >= Persist

AtRisk(L) == \E i \in Contacts(L) : L[i].risk /\ \A j \in Contacts(L) : j <= i

(* The open events of a sensor say what its requests went through: a batch  *)
(* refused again and again over ten minutes since the last accepted one, a  *)
(* token that failed since the last good one, the retention risk of its     *)
(* newest heartbeat - however the requests overlapped (stalls.py:1-12), but *)
(* for the first contact, when there is no row to lock.                     *)
EventsTellTheStalls ==
  \A s \in Sensors \ raced :
    LET L == log[s]
    IN  /\ "upload_rejected" \in open[s] <=> Persisted(L, Since(L, "upload_rejected", {"batch"}), RejectCount)
        /\ "upload_unauthorized" \in open[s] <=>
             Persisted(L, Since(L, "upload_unauthorized", {"batch", "heartbeat"}), AuthFailCount)
        /\ "upload_retention_risk" \in open[s] <=> AtRisk(L)

Contradict(a, b) == a # None /\ b # None /\ a # b

(* Two reports that contradict each other on the adapter have a boundary    *)
(* between them, however partial the reports are (heartbeat.py:28-35).      *)
BoundaryBetweenAdapters ==
  \A s \in Sensors \ raced :
    \A i, j \in Contacts(log[s]) :
      i < j /\ (\E k \in Fields : Contradict(log[s][i].adapter[k], log[s][j].adapter[k]))
        => log[s][j].bounds > log[s][i].bounds
=============================================================================
