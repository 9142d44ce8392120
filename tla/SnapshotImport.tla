--------------------------- MODULE SnapshotImport ----------------------------
(***************************************************************************)
(* Loading a copy of the sensor's buffer into the server's database: the    *)
(* recovery path beside the live upload.  export_snapshot.py copies the     *)
(* buffer, import_snapshot.py writes one SQL stream, psql executes it: the  *)
(* load in one transaction, then the rollups in another.  The stream may    *)
(* end anywhere - a value that is no MAC address, a lost connection, a       *)
(* killed program - while the live ingest merges batches of the same sensor *)
(* and the refresher takes the marks that merges leave.                     *)
(*                                                                         *)
(* A poll is its time; a row of any other table is its table and its         *)
(* device.  ingest_merge() is one step (LiveUpload.tla and Refresher.tla     *)
(* treat what it does with the sensor's own batches).                       *)
(***************************************************************************)
EXTENDS Integers, FiniteSets, FiniteSetsExt

CONSTANTS
    Times,          \* the times of polls
    Aps, Clients,   \* devices with and without evidence of an access point
    Written,        \* store.SCHEMA_VERSION: what the collector writes today
    Accepted,       \* EXPECTED_SCHEMA_VERSIONS
    MaxImports, MaxBatches   \* (bounds)

VARIABLES
    db,             \* committed: [polls, rows, clients, uploads]; clients: asked for once
    mark,           \* ingest_state.dirty_from; NoMark is NULL
    rollups,        \* the polls that the rollup tables show
    load,           \* the importer: [at, copy, clients, staged, from]
    job,            \* the refresher: [at, from]
    imports, batches

vars == <<db, mark, rollups, load, job, imports, batches>>

NoMark == Max(Times) + 1
Least(S) == Min(S \cup {NoMark})

ClientTables == {"associations", "client_bssids", "probes"}
DeviceTables == {"devices", "device_freq_hist"}
SeriesTables == {"observations", "load_samples", "device_config_history"}
Row(table, device) == [table |-> table, device |-> device]

NoCopy == [version |-> Written, polls |-> {}, rows |-> {}, bad |-> FALSE]
NoLoad == [at |-> "none", copy |-> NoCopy, clients |-> FALSE, staged |-> {}, from |-> NoMark]

Init ==
    /\ db = [polls |-> {}, rows |-> {}, clients |-> FALSE, uploads |-> 0]
    /\ mark = NoMark /\ rollups = {} /\ load = NoLoad /\ job = [at |-> "none", from |-> NoMark]
    /\ imports = 0 /\ batches = 0

-----------------------------------------------------------------------------
(* export_snapshot.py *)

\* What the buffer may hold of its devices: an access point in every table of
\* access points, a client in the tables of clients, its observations and, when
\* it was typed ap once, none of the configuration any more.
BufferRows == {Row(t, d) : t \in DeviceTables \cup SeriesTables, d \in Aps}
              \cup {Row(t, d) : t \in DeviceTables \cup ClientTables \cup {"observations"}, d \in Clients}

\* A consistent copy: VACUUM INTO reads in one transaction.  Bad: one value that
\* should be a MAC address is not.
Copies == [version : Accepted \cup {Written}, polls : {P \in SUBSET Times : P # {}}, rows : {BufferRows}, bad : BOOLEAN]

\* open_snapshot(): another version ends the program before anything is written.
Begin(copy, withClients) ==
    /\ load.at \in {"none", "failed", "done", "refused"} /\ imports < MaxImports
    /\ imports' = imports + 1
    /\ load' = [NoLoad EXCEPT !.at = IF copy.version \in Accepted THEN "copy" ELSE "refused",
                              !.copy = copy, !.clients = withClients]
    /\ UNCHANGED <<db, mark, rollups, job, batches>>

-----------------------------------------------------------------------------
(* The stream, as psql executes it *)

\* TABLES: observations and load samples of access points only; without
\* --with-client-tables no client table and no device that is a client.
Staged(copy, withClients) ==
    {r \in copy.rows :
        /\ r.table \in {"observations", "load_samples"} => r.device \in Aps
        /\ withClients \/ r.table \notin ClientTables
        /\ withClients \/ r.table \notin DeviceTables \/ r.device \in Aps}

\* COPY into the staging tables.  A value that is no MAC address ends its COPY
\* and aborts the transaction (emit_abort()).
CopyTables ==
    /\ load.at = "copy"
    /\ load' = IF load.copy.bad THEN [load EXCEPT !.at = "failed"]
               ELSE [load EXCEPT !.at = "merge", !.staged = Staged(load.copy, load.clients)]
    /\ UNCHANGED <<db, mark, rollups, job, imports, batches>>

\* ingest_merge('snapshot') takes the sensor's merge lock and keeps it up to the
\* end of the transaction: no live batch is merged meanwhile.
Merge ==
    /\ load.at = "merge"
    /\ load' = [load EXCEPT !.at = "commit", !.from = Least(load.copy.polls \ db.polls)]
    /\ UNCHANGED <<db, mark, rollups, job, imports, batches>>

MergeLocked == load.at = "commit"

\* Rows whose device is on the server; a client's never, but for a snapshot.
Joined(staged, known) == {r \in staged : r.table \in DeviceTables \cup ClientTables \/ r.device \in known}

MarkAfter(from, inserted) == IF inserted THEN Min({mark, from}) ELSE mark
\* Without the mark, which the importer's own refresh would make up for.
MarkLeft(from, inserted) == mark
MarkOfImport(from, inserted) == MarkAfter(from, inserted)

Commit ==
    /\ load.at = "commit"
    /\ LET known == {r.device : r \in {x \in load.staged \cup db.rows : x.table = "devices"}}
           rows == Joined(load.staged, known)
       IN  /\ db' = [polls |-> db.polls \cup load.copy.polls, rows |-> db.rows \cup rows,
                     clients |-> db.clients \/ load.clients, uploads |-> db.uploads + 1]
           /\ mark' = MarkOfImport(load.from, ~(load.copy.polls \subseteq db.polls /\ rows \subseteq db.rows))
    /\ load' = [load EXCEPT !.at = "refresh"]
    /\ UNCHANGED <<rollups, job, imports, batches>>

\* refresh_rollups(): the hours from the mark on; everything the first time.
Refreshed(from) == {t \in rollups : t < from} \cup {t \in db.polls : t >= from \/ rollups = {}}

\* Its own transaction, after the vacuum; one refresh per sensor at a time.
RefreshAfterImport ==
    /\ load.at = "refresh"
    /\ rollups' = Refreshed(load.from)
    /\ load' = [load EXCEPT !.at = "done"]
    /\ UNCHANGED <<db, mark, job, imports, batches>>

\* Anything ends the stream: an open transaction is rolled back.
Fail ==
    /\ load.at \in {"copy", "merge", "commit", "refresh"}
    /\ load' = [load EXCEPT !.at = "failed"]
    /\ UNCHANGED <<db, mark, rollups, job, imports, batches>>

-----------------------------------------------------------------------------
(* The live ingest and the refresher *)

Ingest(t) ==
    /\ ~MergeLocked /\ batches < MaxBatches /\ t \notin db.polls
    /\ batches' = batches + 1
    /\ db' = [db EXCEPT !.polls = @ \cup {t}] /\ mark' = MarkAfter(t, TRUE)
    /\ UNCHANGED <<rollups, load, job, imports>>

Take ==
    /\ job.at = "none" /\ mark # NoMark
    /\ job' = [at |-> "taken", from |-> mark] /\ mark' = NoMark
    /\ UNCHANGED <<db, rollups, load, imports, batches>>

Refresh ==
    /\ job.at = "taken"
    /\ rollups' = Refreshed(job.from) /\ job' = [at |-> "none", from |-> NoMark]
    /\ UNCHANGED <<db, mark, load, imports, batches>>

Next ==
    \/ \E c \in Copies, w \in BOOLEAN : Begin(c, w)
    \/ CopyTables \/ Merge \/ Commit \/ RefreshAfterImport \/ Fail
    \/ \E t \in Times : Ingest(t)
    \/ Take \/ Refresh

Spec == Init /\ [][Next]_vars

-----------------------------------------------------------------------------
(* Properties *)

(* An import that ends after its COMMIT and before its refresh of the rollups,
   and one that overlaps the refresher's, leave no poll out of the dashboard for
   good: each is in the rollups, or at or after a mark that somebody will take. *)
CommittedIsCovered == \A t \in db.polls : t \in rollups \/ t >= mark \/ t >= job.from

=============================================================================
