----------------------------- MODULE ReadCache -----------------------------
(***************************************************************************)
(* What the dashboard's read endpoints remember, and the versions that are *)
(* meant to tell them when to forget: the tag of a response, the bodies    *)
(* kept under (URL, tag), the access points kept per account and the copy  *)
(* a browser shows again on a 304.                                         *)
(*                                                                         *)
(* Sources: server/api/app/cache.py, v2/respcache.py, v2/apcache.py,       *)
(* v2/deps.py (get_account, etag, respond, write_tx), v2/sql/context.sql.  *)
(*                                                                         *)
(* An operator's write counts accounts.write_version up when it commits.   *)
(* A refresh or a detector stamps the row it writes with the time it       *)
(* began, and commits later.  A body is what its queries saw: how many     *)
(* writes and how many changes of each row.                                *)
(***************************************************************************)
EXTENDS Integers, Sequences, FiniteSets, FiniteSetsExt, SequencesExt

CONSTANTS
  Slots,      \* requests served at a time, threads of the one worker
  Summaries,  \* rows a refresh stamps: sensor_summary.refreshed_at
  Events,     \* rows a detector stamps: detections.updated_at
  List,       \* the page that reads the kept access points
  Feed,       \* a page that does not
  None,
  MaxBytes,   \* V2_CACHE_BYTES
  Share,      \* a body over MaxBytes \div Share is not kept, 4 in the code
  MaxSize, MaxEdits, MaxBegun, MaxAsked  \* bounds

VARIABLES
  edits,   \* accounts.write_version
  rows,    \* the stamped rows: [stamp, n]
  begun,   \* stamped transactions under way: [row, stamp]
  clock,   \* the last stamp
  lru,     \* the kept bodies, oldest first: [page, tag, seen, size]
  bytes,   \* LRU.bytes
  kept,    \* _entries[account]: [key, seen]
  copy,    \* per page, what the browser shows: [tag, seen]
  slot,    \* the requests
  asked,   \* how many there were, for the bound
  overtaken  \* history: some change committed after one that began later

vars == <<edits, rows, begun, clock, lru, bytes, kept, copy, slot, asked, overtaken>>

Pages == {List, Feed}
Rows  == Summaries \cup Events

Now == [edits |-> edits, n |-> [r \in Rows |-> rows[r].n]]

Newest(R) == Max({rows[r].stamp : r \in R})

(* As if the events' part were left out.                                    *)
TagWithoutEvents == <<Newest(Summaries), edits, 0>>

(* v2_etag, without the epoch of the page's buckets.                        *)
Tag == <<Newest(Summaries), edits, Newest(Events)>>

(* As if the kept access points were only a refresh's.                      *)
KeyOfRefresh(tag) == <<tag[1], 0>>

KeyOf(tag) == <<tag[1], tag[2]>>

-----------------------------------------------------------------------------
(* LRU.                                                                     *)

Hit(p, t) == {i \in DOMAIN lru : lru[i].page = p /\ lru[i].tag = t}

(* The entry moves to the end.                                              *)
Touched(i) == Append(RemoveAt(lru, i), lru[i])

Sizes(items) == FoldLeft(LAMBDA total, item : total + item.size, 0, items)

(* The entry the body takes the place of is popped first.                   *)
Kept(item) ==
  LET same == Hit(item.page, item.tag)
      i    == CHOOSE j \in same : TRUE
  IN  IF same = {} THEN [items |-> Append(lru, item), bytes |-> bytes + item.size]
      ELSE [items |-> Append(RemoveAt(lru, i), item), bytes |-> bytes - lru[i].size + item.size]

(* The oldest go until the rest fit.                                        *)
Evicted(st) ==
  LET fits == {k \in 0 .. Len(st.items) :
                 k = Len(st.items) \/ st.bytes - Sizes(SubSeq(st.items, 1, k)) <= MaxBytes}
      k    == Min(fits)
  IN  [items |-> SubSeq(st.items, k + 1, Len(st.items)), bytes |-> st.bytes - Sizes(SubSeq(st.items, 1, k))]

Put(item) ==
  IF item.size > MaxBytes \div Share THEN [items |-> lru, bytes |-> bytes] ELSE Evicted(Kept(item))

-----------------------------------------------------------------------------
(* Writers.                                                                 *)

(* write_tx: the rows, their audit rows and the version, in one commit.     *)
Edit ==
  /\ edits < MaxEdits
  /\ edits' = edits + 1
  /\ UNCHANGED <<rows, begun, clock, lru, bytes, kept, copy, slot, asked, overtaken>>

(* now() and v_now are taken when the transaction begins.                   *)
Begin ==
  /\ clock < MaxBegun
  /\ clock' = clock + 1
  /\ \E r \in Rows : begun' = begun \cup {[row |-> r, stamp |-> clock']}
  /\ UNCHANGED <<edits, rows, lru, bytes, kept, copy, slot, asked, overtaken>>

Commit ==
  \E c \in begun :
    LET part == IF c.row \in Events THEN Events ELSE Summaries
    IN  /\ begun' = begun \ {c}
        /\ rows' = [rows EXCEPT ![c.row] = [stamp |-> c.stamp, n |-> @.n + 1]]
        /\ overtaken' = (overtaken \/ c.stamp < Newest(part))
        /\ UNCHANGED <<edits, clock, lru, bytes, kept, copy, slot, asked>>

-----------------------------------------------------------------------------
(* A request.                                                               *)

At(stage, page, tag, start, aps, seen) ==
  [at |-> stage, page |-> page, tag |-> tag, start |-> start, aps |-> aps, seen |-> seen]

Idle == At("idle", None, None, None, None, None)

Step(s, r) == slot' = [slot EXCEPT ![s] = r]

(* get_account: the versions, in a transaction of their own.                *)
Account(s) ==
  /\ slot[s].at \in {"idle", "done"} /\ asked < MaxAsked
  /\ asked' = asked + 1
  /\ \E p \in Pages : Step(s, At("etag", p, Tag, Now, None, None))
  /\ UNCHANGED <<edits, rows, begun, clock, lru, bytes, kept, copy, overtaken>>

Done(s, seen) == Step(s, At("done", None, None, slot[s].start, None, seen))

Current(r) == copy[r.page] # None /\ copy[r.page].tag = r.tag

(* deps.etag: a 304 when the browser's copy is current.                     *)
NotModified(s) ==
  /\ slot[s].at = "etag" /\ Current(slot[s])
  /\ Done(s, copy[slot[s].page].seen)
  /\ UNCHANGED <<edits, rows, begun, clock, lru, bytes, kept, copy, asked, overtaken>>

Answer(s, seen) ==
  /\ Done(s, seen)
  /\ copy' = [copy EXCEPT ![slot[s].page] = [tag |-> slot[s].tag, seen |-> seen]]

(* respcache.lookup: this URL was answered under this tag before, or not.   *)
Lookup(s) ==
  LET r == slot[s]
  IN  /\ r.at = "etag" /\ ~Current(r)
      /\ \/ \E i \in Hit(r.page, r.tag) : Answer(s, lru[i].seen) /\ lru' = Touched(i)
         \/ /\ Hit(r.page, r.tag) = {}
            /\ Step(s, [r EXCEPT !.at = IF r.page = List THEN "aps" ELSE "body"])
            /\ UNCHANGED <<lru, copy>>
      /\ UNCHANGED <<edits, rows, begun, clock, bytes, kept, asked, overtaken>>

(* account_aps: the kept rows, when their key is this request's, or the     *)
(* rows of now, which replace them after the query.                         *)
Aps(s) ==
  LET r   == slot[s]
      hit == kept # None /\ kept.key = KeyOf(r.tag)
  IN  /\ r.at = "aps"
      /\ Step(s, IF hit THEN At("body", r.page, r.tag, r.start, kept.seen, None)
                 ELSE At("keep", r.page, r.tag, r.start, Now, None))
      /\ UNCHANGED <<edits, rows, begun, clock, lru, bytes, kept, copy, asked, overtaken>>

Keep(s) ==
  /\ slot[s].at = "keep"
  /\ kept' = [key |-> KeyOf(slot[s].tag), seen |-> slot[s].aps]
  /\ Step(s, [slot[s] EXCEPT !.at = "body"])
  /\ UNCHANGED <<edits, rows, begun, clock, lru, bytes, copy, asked, overtaken>>

(* The endpoint's queries.  What a page says of an access point is as old   *)
(* as the kept rows.                                                        *)
Older(a, b) ==
  [edits |-> Min({a.edits, b.edits}),
   n |-> [r \in Rows |-> IF r \in Summaries THEN Min({a.n[r], b.n[r]}) ELSE b.n[r]]]

Body(s) ==
  LET r == slot[s]
  IN  /\ r.at = "body"
      /\ Step(s, At("render", r.page, r.tag, r.start, None, IF r.page = List THEN Older(r.aps, Now) ELSE Now))
      /\ UNCHANGED <<edits, rows, begun, clock, lru, bytes, kept, copy, asked, overtaken>>

(* respond: the body is kept and sent.                                      *)
Render(s) ==
  /\ slot[s].at = "render"
  /\ \E size \in 1 .. MaxSize :
       LET st == Put([page |-> slot[s].page, tag |-> slot[s].tag, seen |-> slot[s].seen, size |-> size])
       IN  lru' = st.items /\ bytes' = st.bytes
  /\ Answer(s, slot[s].seen)
  /\ UNCHANGED <<edits, rows, begun, clock, kept, asked, overtaken>>

-----------------------------------------------------------------------------
Init ==
  /\ edits = 0 /\ rows = [r \in Rows |-> [stamp |-> 0, n |-> 0]] /\ begun = {} /\ clock = 0
  /\ lru = <<>> /\ bytes = 0 /\ kept = None /\ copy = [p \in Pages |-> None]
  /\ slot = [s \in Slots |-> Idle] /\ asked = 0 /\ overtaken = FALSE

Request(s) ==
  \/ Account(s) \/ NotModified(s) \/ Lookup(s) \/ Aps(s) \/ Keep(s) \/ Body(s) \/ Render(s)

Next == Edit \/ Begin \/ Commit \/ \E s \in Slots : Request(s)

Spec == Init /\ [][Next]_vars

-----------------------------------------------------------------------------
(* Properties.                                                              *)

AtLeast(a, b) == a.edits >= b.edits /\ \A r \in Rows : a.n[r] >= b.n[r]

(* A page opened after an operator's write was answered shows the write,    *)
(* whichever of the three caches answers and whatever requests ran beside   *)
(* it: "every ETag of the account changes with it" (deps.write_tx).         *)
EditsAreSeen ==
  \A s \in Slots : slot[s].at = "done" => slot[s].seen.edits >= slot[s].start.edits

(* And it shows every change of a refresh or a detector committed before    *)
(* it was opened, as long as such changes commit in the order they began    *)
(* in: what the tag, made of their newest stamp, takes for granted.         *)
FreshWhenOrdered ==
  \A s \in Slots : slot[s].at = "done" /\ ~overtaken => AtLeast(slot[s].seen, slot[s].start)
=============================================================================
