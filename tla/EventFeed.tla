------------------------------ MODULE EventFeed ------------------------------
(***************************************************************************)
(* The event feed of the dashboard (api/app/v2/routes/events.py, feed and   *)
(* counts of sql/events.sql).  Repeated events of low severity share a row, *)
(* a row stands where its newest event does, and a client turns the pages   *)
(* with cursors that are the (ts, id) of a row.  Between two pages events    *)
(* arrive, also with old times (a sensor's backlog), and operators label    *)
(* events, which moves them to other rows and moves the rows themselves.    *)
(***************************************************************************)
EXTENDS Integers, Sequences, FiniteSets, SequencesExt

CONSTANTS
    Ids,            \* event ids, given in the order of arrival: 1..n
    Stamps,         \* times
    Groups,         \* <<sensor, kind, type, network, severity, day>> of a repeated event
    Own,            \* the group of an event that has its own row
    Statuses,
    Limit,          \* rows of a page
    MaxChanges,     \* arrivals and labels after the first page (a bound)
    None

VARIABLES
    events,         \* id |-> [ts, group, status]
    filter,         \* the statuses asked for; {}: all
    page,           \* the page on the screen: [rows, newer, older], or None
    shown,          \* the rows of the pages since the first one, older and older
    steady,         \* the rows that have not changed since the first page
    back,           \* the rows of the page before, if nothing changed since
    quiet,          \* nothing changed since the page was asked for
    changes

vars == <<events, filter, page, shown, steady, back, quiet, changes>>

Later(p, q) == p[1] > q[1] \/ (p[1] = q[1] /\ p[2] > q[2])

-----------------------------------------------------------------------------
(* The queries *)

\* The row an event is shown in.
RowKey(e) == IF events[e].group = Own THEN <<e>> ELSE <<events[e].group, events[e].status>>

Shown(statuses) == {e \in DOMAIN events : statuses = {} \/ events[e].status \in statuses}

\* A row stands at its newest event.
RowOf(key, statuses) ==
    LET members == {e \in Shown(statuses) : RowKey(e) = key}
        lead == CHOOSE e \in members : \A o \in members : o = e \/ Later(<<events[e].ts, e>>, <<events[o].ts, o>>)
    IN  [at |-> <<events[lead].ts, lead>>, members |-> members]

Rows(statuses) == {RowOf(key, statuses) : key \in {RowKey(e) : e \in Shown(statuses)}}

\* counts: the feed rows of each status.
RowCount(status) == Cardinality({RowKey(e) : e \in Shown({status})})

\* As Follows, but rows of one time are not told apart.
FollowsByTime(at, cursor) == at[1] < cursor[1]
Follows(at, cursor) == Later(cursor, at)

\* Rows, newest first.
InOrder(S) == CHOOSE list \in [1..Cardinality(S) -> S] : \A i, j \in DOMAIN list : i < j => Later(list[i].at, list[j].at)

\* One row more than the page in the direction of travel, newest first.
Fetched(statuses, before, after) ==
    LET hits == {r \in Rows(statuses) : (before = None \/ Follows(r.at, before)) /\ (after = None \/ Later(r.at, after))}
        sorted == InOrder(hits)
        n == Len(sorted)
    IN  IF n <= Limit THEN sorted
        ELSE IF after = None THEN SubSeq(sorted, 1, Limit + 1) ELSE SubSeq(sorted, n - Limit, n)

Page(statuses, before, after) ==
    LET fetched == Fetched(statuses, before, after)
        more == Len(fetched) > Limit
        rows == IF ~more THEN fetched ELSE IF after # None THEN Tail(fetched) ELSE Front(fetched)
    IN  [rows |-> rows,
         newer |-> IF rows = <<>> THEN before
                   ELSE IF before # None \/ (after # None /\ more) THEN Head(rows).at ELSE None,
         older |-> IF rows = <<>> THEN after
                   ELSE IF after # None \/ more THEN Last(rows).at ELSE None]

-----------------------------------------------------------------------------
Init ==
    /\ events = <<>> /\ filter \in {{}} \cup {{s} : s \in Statuses}
    /\ page = None /\ shown = <<>> /\ steady = {} /\ back = None /\ quiet = TRUE /\ changes = 0

\* Whatever changes the events; the rows that stay as they were are steady.
Change(new) ==
    /\ events' = new /\ UNCHANGED <<filter, page, shown>>
    /\ steady' = IF page = None THEN {} ELSE steady \cap Rows(filter)'
    /\ back' = None /\ quiet' = FALSE /\ changes' = IF page = None THEN 0 ELSE changes + 1
    /\ page # None => changes < MaxChanges

\* An event of any time: a sensor may upload an old one.
Arrive(ts, g) ==
    /\ Len(events) + 1 \in Ids
    /\ Change(Append(events, [ts |-> ts, group |-> g, status |-> CHOOSE s \in Statuses : TRUE]))

Label(e, status) ==
    /\ events[e].status # status
    /\ Change([events EXCEPT ![e].status = status])

Open ==
    /\ page = None
    /\ page' = Page(filter, None, None)
    /\ shown' = page'.rows /\ steady' = Rows(filter) /\ quiet' = TRUE
    /\ UNCHANGED <<events, filter, back, changes>>

Older ==
    /\ page # None /\ page.older # None
    /\ page' = Page(filter, page.older, None)
    /\ shown' = shown \o page'.rows /\ back' = (IF quiet THEN page.rows ELSE None) /\ quiet' = TRUE
    /\ UNCHANGED <<events, filter, steady, changes>>

Next ==
    \/ \E ts \in Stamps, g \in Groups \cup {Own} : Arrive(ts, g)
    \/ \E e \in DOMAIN events, s \in Statuses : Label(e, s)
    \/ Open \/ Older

Spec == Init /\ [][Next]_vars

-----------------------------------------------------------------------------
(* Properties *)

Times(row) == Cardinality({i \in DOMAIN shown : shown[i] = row})

\* The page that "newer" leads back to is the one that "older" left, unless the
\* older page is empty (its cursor then skips the row it names).
NewerUndoesOlder ==
    (back # None /\ page.rows # <<>>) => Page(filter, None, page.newer).rows = back

(* Who pages from the newest row to the oldest sees every row that stays as it
   was exactly once, whatever arrives or is labelled in between, with ties of
   time and grouped rows; if nothing changes, as many rows as the counts beside
   the filter say; and every step can be taken back. *)
PagingIsComplete ==
    /\ \A row \in steady : Times(row) <= 1
    /\ (page # None /\ page.older = None) =>
          /\ \A row \in steady : Times(row) = 1
          /\ (changes = 0 /\ filter # {}) => Len(shown) = RowCount(CHOOSE s \in filter : TRUE)
    /\ NewerUndoesOlder

=============================================================================
