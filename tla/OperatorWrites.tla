--------------------------- MODULE OperatorWrites ---------------------------
(***************************************************************************)
(* The writes of the dashboard's operators (api/app/v2/routes: settings,    *)
(* events, aps) as the database sees them.  Every write is one transaction  *)
(* at READ COMMITTED (deps.write_tx): it reads the rows it is about to      *)
(* change, decides, writes, and adds to audit_log what it believes it       *)
(* changed.  A row it writes is locked until it commits, so its statements  *)
(* after the read are one step here; between the read and that step another *)
(* operator, or the sensor's upload, may commit.                            *)
(*                                                                         *)
(* The journal is what audit_log says of each cell when it is read from the *)
(* start: the table behind the label history and the thesis' evaluation.   *)
(***************************************************************************)
EXTENDS Integers, FiniteSetsExt

CONSTANTS
    Requests,       \* request bodies that pass the parse_*() functions
    Slots,          \* requests the api works on at the same time
    Events, Keys,   \* events; settings, AP classifications and notes, sensor details
    Nets,           \* network ids
    Versions,       \* versions of a sensor's capture configuration
    Dates,          \* dates of a sensor's hardware changes
    MaxRequests,    \* (a bound)
    None

VARIABLES
    db,             \* the committed value of every cell
    journal,        \* the value audit_log gives it
    slot,           \* per request at work: its body and the rows it read
    begun,          \* requests begun
    overlapped,     \* one request read before another's commit and wrote after it
    answers         \* per slot, the answer to the last request

vars == <<db, journal, slot, begun, overlapped, answers>>

Status(e) == <<"status", e>>
Note(e) == <<"note", e>>
Setting(k) == <<"setting", k>>
Network(n) == <<"network", n>>
Config(v) == <<"config", v>>
Change(t) == <<"change", t>>
Sensor == <<"sensor", "s">>
Token == <<"token", "s">>

\* The rows that go with the sensor.
Own == {Config(v) : v \in Versions} \cup {Change(t) : t \in Dates} \cup {Token}

Cells == {Status(e) : e \in Events} \cup {Note(e) : e \in Events} \cup {Setting(k) : k \in Keys}
         \cup {Network(n) : n \in Nets} \cup Own \cup {Sensor}

Net(name, allowed) == [ssid |-> name, allowed |-> allowed]

Init ==
    /\ db = [c \in Cells |->
               CASE c[1] = "status" -> "open" [] c[1] = "note" -> None [] c[1] = "setting" -> 0
                 [] c = Network(1) -> Net("a", {}) [] c = Network(2) -> Net("b", {})
                 [] c = Sensor -> "empty" [] OTHER -> None]
    /\ journal = db
    /\ slot = [s \in Slots |-> None] /\ begun = 0 /\ overlapped = FALSE /\ answers = [s \in Slots |-> None]

-----------------------------------------------------------------------------
(* write_tx *)

\* The request's first statement, which sees what is committed.
Begin(s, r) ==
    /\ slot[s] = None /\ begun < MaxRequests
    /\ slot' = [slot EXCEPT ![s] = [body |-> r, seen |-> db]]
    /\ begun' = begun + 1
    /\ UNCHANGED <<db, journal, overlapped, answers>>

At(s, kind) == slot[s] # None /\ slot[s].body.kind = kind

\* The rest of it: what it writes, and what it tells audit_log.
Commit(s, written, told) ==
    /\ db' = [c \in Cells |-> IF c \in DOMAIN written THEN written[c] ELSE db[c]]
    /\ journal' = [c \in Cells |-> IF c \in DOMAIN told THEN told[c] ELSE journal[c]]
    /\ overlapped' = (overlapped \/ slot[s].seen # db)
    /\ slot' = [slot EXCEPT ![s] = None] /\ answers' = [answers EXCEPT ![s] = "ok"]
    /\ UNCHANGED begun

Refuse(s, status) ==
    /\ slot' = [slot EXCEPT ![s] = None] /\ answers' = [answers EXCEPT ![s] = status]
    /\ UNCHANGED <<db, journal, begun, overlapped>>

-----------------------------------------------------------------------------
(* events.py: one label for the given events, an audit row for each.  A label
   without a note keeps the stored note; the audit row repeats the note that
   was read. *)

LabelCells(r) == {Status(e) : e \in r.ids} \cup {Note(e) : e \in r.ids}

LabelWritten(r) ==
    [c \in IF r.note = None THEN {Status(e) : e \in r.ids} ELSE LabelCells(r) |->
       IF c[1] = "status" THEN r.status ELSE r.note]

LabelTold(r, seen) ==
    [c \in LabelCells(r) |-> IF c[1] = "status" THEN r.status ELSE IF r.note = None THEN seen[c] ELSE r.note]

Label(s) ==
    /\ At(s, "label")
    /\ LET r == slot[s].body
       IN  IF r.ids \subseteq Events THEN Commit(s, LabelWritten(r), LabelTold(r, slot[s].seen)) ELSE Refuse(s, "404")

-----------------------------------------------------------------------------
(* settings.py and aps.py: a form that saves all its fields when one differs
   from what was read, and audits those that do. *)

Changed(r, seen) == {k \in DOMAIN r.new : seen[Setting(k)] # r.new[k]}

Values(r, ks) == [c \in {Setting(k) : k \in ks} |-> r.new[c[2]]]

SavedRows(r, seen) == Values(r, IF Changed(r, seen) = {} THEN {} ELSE DOMAIN r.new)

Save(s) ==
    /\ At(s, "save")
    /\ LET r == slot[s].body
       IN  Commit(s, SavedRows(r, slot[s].seen), Values(r, Changed(r, slot[s].seen)))

-----------------------------------------------------------------------------
(* settings.py, networks.  A network's name is unique in the account after
   every statement. *)

NetworksOf(d) == {n \in Nets : d[Network(n)] # None}
UniqueNames(d) == \A m, n \in NetworksOf(d) : m # n => d[Network(m)].ssid # d[Network(n)].ssid

\* The statements of a PUT, in their order: deletes, updates, inserts.  An update
\* of a row another request deleted finds nothing, and of two updates of a row
\* the later place of the list wins.
RowAt(r, i) == Net(r.list[i].ssid, r.list[i].allowed)
Listed(r) == {r.list[i].id : i \in DOMAIN r.list} \ {None}
Deletes(r, seen) == NetworksOf(seen) \ Listed(r)
Updates(r, seen) == {i \in DOMAIN r.list : r.list[i].id # None /\ seen[Network(r.list[i].id)] # RowAt(r, i)}
UpdatesOf(r, places, c) == {i \in places : c = Network(r.list[i].id)}
Inserts(r) == {i \in DOMAIN r.list : r.list[i].id = None}
Inserted(r) == RowAt(r, CHOOSE i \in Inserts(r) : TRUE)

HasFreeId(d, seen) == \E n \in Nets : n \notin NetworksOf(d) \cup NetworksOf(seen) /\ journal[Network(n)] = None
FreeId(d, seen) == CHOOSE n \in Nets : n \notin NetworksOf(d) \cup NetworksOf(seen) /\ journal[Network(n)] = None

AfterDeletes(r, d, seen) ==
    [c \in Cells |-> IF \E n \in Deletes(r, seen) : c = Network(n) THEN None ELSE d[c]]

\* The rows after the updates at these places of the list.
AfterUpdates(r, d, seen, places) ==
    LET left == AfterDeletes(r, d, seen)
    IN  [c \in Cells |-> IF UpdatesOf(r, places, c) = {} \/ left[c] = None THEN left[c]
                         ELSE RowAt(r, Max(UpdatesOf(r, places, c)))]

AfterPut(r, d, seen) ==
    LET updated == AfterUpdates(r, d, seen, Updates(r, seen))
    IN  IF Inserts(r) = {} THEN updated ELSE [updated EXCEPT ![Network(FreeId(d, seen))] = Inserted(r)]

NoNameTaken(r, d, seen) ==
    /\ \A k \in Updates(r, seen) : UniqueNames(AfterUpdates(r, d, seen, {i \in Updates(r, seen) : i <= k}))
    /\ UniqueNames(AfterPut(r, d, seen))

\* Only the rows of the list are audited, not those it lacks.
PutToldListed(r, d, seen) ==
    [c \in {Network(r.list[i].id) : i \in Updates(r, seen)} |-> RowAt(r, Max(UpdatesOf(r, Updates(r, seen), c)))]

\* The audit rows follow the list, whatever the statements found.
PutTold(r, d, seen) ==
    [c \in {Network(n) : n \in Deletes(r, seen)} \cup {Network(r.list[i].id) : i \in Updates(r, seen)}
           \cup (IF Inserts(r) = {} THEN {} ELSE {Network(FreeId(d, seen))}) |->
       IF \E n \in Deletes(r, seen) : c = Network(n) THEN None
       ELSE IF UpdatesOf(r, Updates(r, seen), c) # {} THEN RowAt(r, Max(UpdatesOf(r, Updates(r, seen), c)))
       ELSE Inserted(r)]

PutNetworks(s) ==
    /\ At(s, "put networks")
    /\ LET r == slot[s].body
           seen == slot[s].seen
       IN  IF ~(Listed(r) \subseteq NetworksOf(seen)) THEN Refuse(s, "404")
           ELSE /\ Inserts(r) # {} => HasFreeId(db, seen)
                /\ IF NoNameTaken(r, db, seen) THEN Commit(s, AfterPut(r, db, seen), PutTold(r, db, seen))
                   ELSE Refuse(s, "409")

\* One new network; "add to allowed" appends to the row as it is then, and the
\* answer is read after the commit (a network that is gone by then is an error).
PostNetwork(s) ==
    /\ At(s, "post network")
    /\ HasFreeId(db, slot[s].seen)
    /\ LET cell == Network(FreeId(db, slot[s].seen))
           x == Net(slot[s].body.ssid, {})
       IN  IF UniqueNames([db EXCEPT ![cell] = x]) THEN Commit(s, [y \in {cell} |-> x], [y \in {cell} |-> x])
           ELSE Refuse(s, "409")

Allowing(v, b) == IF v = None THEN None ELSE [v EXCEPT !.allowed = @ \cup {b}]
AllowingTold(v, b) == IF v = None THEN "allowed although gone" ELSE Allowing(v, b)

PostAllowed(s) ==
    /\ At(s, "allow")
    /\ LET r == slot[s].body
           cell == Network(r.id)
       IN  IF slot[s].seen[cell] = None THEN Refuse(s, "404")
           ELSE Commit(s, [y \in {cell} |-> Allowing(db[cell], r.bssid)], [y \in {cell} |-> AllowingTold(journal[cell], r.bssid)])

-----------------------------------------------------------------------------
(* settings.py, sensors *)

\* A new version of the capture configuration: the greatest one that the insert
\* saw, plus one.  Two that saw the same collide in the primary key: a 500.
Latest(d) == LET used == {v \in Versions : d[Config(v)] # None}
             IN  IF used = {} THEN 0 ELSE CHOOSE v \in used : \A w \in used : w <= v

PostSensorConfig(s) ==
    /\ At(s, "config")
    /\ LET v == Latest(slot[s].seen) + 1
           one == [c \in {Config(v)} |-> slot[s].body.sha]
       IN  IF slot[s].seen[Sensor] = None THEN Refuse(s, "404")
           ELSE /\ v \in Versions
                /\ IF db[Sensor] # None /\ db[Config(v)] = None THEN Commit(s, one, one) ELSE Refuse(s, "500")

\* A dated entry of the sensor's history.
PostHardwareChange(s) ==
    /\ At(s, "change")
    /\ LET cell == Change(slot[s].body.at)
           one == [c \in {cell} |-> "hardware_change"]
       IN  IF slot[s].seen[Sensor] = None THEN Refuse(s, "404")
           ELSE IF db[Sensor] = None THEN Refuse(s, "500")
           ELSE IF db[cell] # None THEN Refuse(s, "409")
           ELSE Commit(s, one, one)

\* A sensor is deleted when no table has data of it, and its own rows go with it:
\* all that are there by then.  A row that refers to the sensor and arrives after
\* that - data, or one of its own - makes the foreign key refuse the delete.
Gone == [c \in Own \cup {Sensor} |-> None]

DeleteSensor(s) ==
    /\ At(s, "delete sensor")
    /\ LET seen == slot[s].seen
           arrived == \E c \in Own : db[c] # seen[c]
       IN  IF seen[Sensor] = None THEN Refuse(s, "404")
           ELSE IF seen[Sensor] = "data" THEN Refuse(s, "409")
           ELSE \/ db[Sensor] # "data" /\ Commit(s, Gone, Gone)
                \/ (db[Sensor] \in {None, "data"} \/ arrived) /\ Refuse(s, "500")

-----------------------------------------------------------------------------
(* What no audit row is for: a token by hand (ops/sensor_token.sh), and the   *)
(* sensor's first upload with it (the ingest routes).                         *)

Unaudited(c, v) ==
    /\ db' = [db EXCEPT ![c] = v] /\ journal' = [journal EXCEPT ![c] = v]
    /\ UNCHANGED <<slot, begun, overlapped, answers>>

CreateToken == db[Sensor] # None /\ db[Token] = None /\ Unaudited(Token, "token")

Upload == db[Sensor] = "empty" /\ db[Token] # None /\ Unaudited(Sensor, "data")

Next ==
    \/ \E s \in Slots, r \in Requests : Begin(s, r)
    \/ \E s \in Slots : Label(s) \/ Save(s) \/ PutNetworks(s) \/ PostNetwork(s) \/ PostAllowed(s)
                        \/ PostSensorConfig(s) \/ PostHardwareChange(s) \/ DeleteSensor(s)
    \/ CreateToken \/ Upload

Spec == Init /\ [][Next]_vars

-----------------------------------------------------------------------------
(* Properties *)

(* Read from the start, the audit log gives the state of every cell - labels
   with their notes, settings, networks, a sensor with its configurations and
   hardware changes until it is deleted with them - as long as no two writes
   overlapped.  Two that do leave a log that does not explain the state: the
   audit row repeats what was read, not what was overwritten; but the last
   label in an event's history is the label it has even then, and the capture
   configurations and hardware changes are all accounted for. *)
JournalExplains ==
    /\ ~overlapped => journal = db
    /\ \A c \in Cells : c[1] \in {"status", "config", "change"} => journal[c] = db[c]

=============================================================================
