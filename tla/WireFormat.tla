----------------------------- MODULE WireFormat -----------------------------
(***************************************************************************)
(* The contract between two programs that share no code: what the          *)
(* collector makes of a value Kismet sends (collector/shape.py), what       *)
(* SQLite and the uploader make of that (collector/store.py,                *)
(* uploader/batch.py), and whether the server takes it                      *)
(* (ingest/validate.py).  A batch with one value the server does not take  *)
(* is refused as a whole and sent again unchanged, so one bad value stops   *)
(* the upload.                                                              *)
(*                                                                         *)
(* A behaviour is the life of one value of one column, from Kismet's JSON   *)
(* to the server's verdict, or of one field of a heartbeat.  Integer types  *)
(* keep their widths, scaled down; a text is its length and its form.       *)
(***************************************************************************)
EXTENDS Integers

CONSTANTS Int2, Int4, Int8,     \* the least value of each integer type is -n, the greatest n - 1
          MinTs, Now, Future,   \* validate.MIN_TS, the server's clock, FUTURE_S
          Short, Long           \* lengths of text: the server's limit, and of the longest answer

VARIABLES column, value, at

vars == <<column, value, at>>

-----------------------------------------------------------------------------
(* Values *)

Null == [k |-> "null"]
Whole(n) == [k |-> "int", n |-> n]
Frac(n) == [k |-> "frac", n |-> n]              \* between n and n + 1
Text(len, form) == [k |-> "text", n |-> len, form |-> form]
Bool(b) == [k |-> "bool", n |-> IF b THEN 1 ELSE 0]
IsNum(v) == v.k \in {"int", "frac"}

(* shape.py: one coercion per kind of field; 0 is Kismet's "no data".       *)
AsText(v) == IF v.k = "text" THEN v ELSE Null
Nonempty(v) == IF v.k = "text" /\ v.n > 0 THEN v ELSE Null
Mac(v) == IF v.k = "text" /\ v.n > 0 /\ v.form # "zero" THEN v ELSE Null
Num(v) == IF IsNum(v) THEN v ELSE Null
Positive(v) == IF IsNum(v) /\ v # Whole(0) THEN v ELSE Null
CounterKept(v) == Num(v)                         \* Counter, without int()
Counter(v) == IF IsNum(v) THEN Whole(v.n) ELSE Null
UnixTs(v) == IF IsNum(v) /\ v # Whole(0) THEN Whole(v.n) ELSE Null
Flag(v) == Whole(IF IsNum(v) /\ v # Whole(0) THEN 1 ELSE 0)

\* The adapter's clamp values are readings at or below a floor, not levels.
Floors == {-4, -3}
Dbm(v) == IF IsNum(v) /\ v # Whole(0) /\ v.n \notin Floors THEN Whole(v.n) ELSE Null
DbmFloor(v) == IF IsNum(v) /\ v # Whole(0) /\ v.n \in Floors THEN Whole(1) ELSE Null

TypeOf(v) == IF v.k = "text" THEN v ELSE Text(7, "unknown")
ChannelText(v) == IF v.k = "text" THEN Nonempty(v)
                  ELSE IF IsNum(v) /\ v # Whole(0) THEN Text(3, "plain") ELSE Null
OrUnknown(v) == IF Nonempty(v) # Null THEN v ELSE Text(7, "plain")
HashOf(v) == IF v.k \in {"int", "text"} /\ v.n # 0 THEN Text(9, "plain") ELSE Text(45, "sha1")

-----------------------------------------------------------------------------
(* Columns *)

\* What Kismet sends for a field: 0 when the device does not have it.
Wholes(S) == {Whole(n) : n \in S}
Fracs(S) == {Frac(n) : n \in S}
Texts(S) == {Text(n, "plain") : n \in S}
Missing == Whole(0)
Counts == Wholes(0..Int4 - 1)
Wide == Wholes(0..2 * Int8 - 1)                  \* an unsigned 64-bit field
Times == Wholes(MinTs..Now)
Names == {Missing} \cup Texts(0..Short)
Macs == {Missing, Text(17, "mac"), Text(17, "zero")}
Levels == Wholes(-Int2..0)                       \* the radio's level is negative and one byte
Flags == Wholes({0, 1})

Column(name, raw, shape(_), kind, required) ==
    [name |-> name, shaped |-> [v \in raw |-> shape(v)], kind |-> kind, required |-> required]

\* The columns an AP's rows fill from Kismet: devices and observations.
DeviceColumns == {
    Column("device_key", Texts(1..Short), Nonempty, "text", TRUE),
    Column("mac", {Text(17, "mac")}, Mac, "mac", TRUE),
    Column("type", Names, TypeOf, "text", TRUE),
    Column("manuf", Names, Nonempty, "text", FALSE),
    Column("first_seen", Times, Positive, "ts", TRUE),
    Column("last_seen", Times, Positive, "ts", TRUE),
    Column("ssid", Names, AsText, "text", FALSE),
    Column("cloaked", Flags, Flag, "flag", FALSE),
    Column("crypt", Names, Nonempty, "text", FALSE),
    Column("crypt_bits", Wide, Counter, "bigint", FALSE),
    Column("mfp_sup", Flags, Flag, "flag", FALSE),
    Column("mfp_req", Flags, Flag, "flag", FALSE),
    Column("adv_channel", Names, Nonempty, "text", FALSE),
    Column("ht_mode", Names, Nonempty, "text", FALSE),
    Column("beacon_rate", Counts, Positive, "int", FALSE),
    Column("country", Names, Nonempty, "text", FALSE),
    Column("cur_n_clients", Counts, Counter, "int", FALSE),
    Column("cur_qbss_stations", Counts, Counter, "int", FALSE),
    Column("cur_util_pct", Counts \cup Fracs(0..Int4 - 1), Num, "real", FALSE)}

ObservationColumns == {
    Column("rssi", Levels, Dbm, "small", FALSE),
    Column("rssi_floor", Levels, DbmFloor, "flag", FALSE),
    Column("pk_total", Wide \cup Fracs(0..Int4 - 1), Counter, "bigint", FALSE),
    Column("disconnects", Counts, Counter, "int", FALSE),
    Column("disconnects_last", {Missing} \cup Times, UnixTs, "ts", FALSE),
    Column("bss_timestamp", Wide, Positive, "bigint", FALSE),
    Column("packets", Wide \cup Fracs(0..Int4 - 1), Counter, "bigint", TRUE)}

AlertColumns == {
    Column("hash", Counts \cup Texts(0..Short), HashOf, "text", TRUE),
    Column("alert_ts", Times \cup Fracs(MinTs..Now), Num, "tsf", FALSE),
    Column("header", Names, OrUnknown, "text", TRUE),
    Column("severity", Wholes(0..Int2 - 1), Counter, "small", FALSE),
    Column("source_mac", Macs, Mac, "mac", FALSE),
    Column("channel", Counts \cup Fracs({1}) \cup Texts(0..Short), ChannelText, "text", FALSE),
    Column("freq_khz", Counts, Positive, "int", FALSE),
    Column("text", Names, AsText, "text", FALSE)}

\* A heartbeat's fields, as uploader.heartbeat() and sensorinfo fill them.
Same(v) == v
PollOk(v) == IF v = Null THEN Null ELSE Bool(v.n = 1)
HeartbeatColumns == {
    Column("sensor_ts", Wholes({Now}) \cup Fracs({Now}), Same, "num", TRUE),
    Column("boot_id", {Text(36, "uuid")}, Same, "uuid", FALSE),
    Column("uptime_s", {Null} \cup Fracs(0..Now), Same, "num", FALSE),
    Column("rtt_ms", {Null} \cup Counts, Same, "integer", FALSE),
    Column("last_poll_ok", {Null} \cup Flags, PollOk, "bool", FALSE),
    Column("buffer_bytes", Counts, Positive, "integer", FALSE),
    Column("last_result", Texts(0..Long), Same, "text", FALSE),
    Column("usb_id", {Null, Text(9, "usb")}, Same, "usb", FALSE),
    Column("adapter_mac", {Null, Text(17, "mac")}, Same, "mac", FALSE)}

Columns == DeviceColumns \cup ObservationColumns \cup AlertColumns \cup HeartbeatColumns

-----------------------------------------------------------------------------
(* The server's verdict *)

Width(kind) == CASE kind = "small" -> Int2 [] kind = "int" -> Int4 [] OTHER -> Int8

Fits(kind, v) ==
    CASE kind \in {"small", "int", "bigint"} -> v.k = "int" /\ v.n \in -Width(kind)..Width(kind) - 1
      [] kind = "flag" -> v.k \in {"bool", "int"} /\ v.n \in {0, 1}
      [] kind \in {"real", "num"} -> IsNum(v)
      [] kind = "integer" -> v.k = "int"
      [] kind = "bool" -> v.k = "bool"
      [] kind = "ts" -> v.k = "int" /\ v.n \in MinTs..Now + Future
      [] kind = "tsf" -> IsNum(v) /\ v.n \in MinTs..Now + Future
      [] kind \in {"mac", "uuid", "usb"} -> v.k = "text" /\ v.form = kind
      [] OTHER -> v.k = "text" /\ v.n <= Short

Accepted(c, v) == IF v = Null THEN ~c.required ELSE Fits(c.kind, v)

-----------------------------------------------------------------------------
(* The life of a value *)

Init ==
    column \in Columns /\ value \in DOMAIN column.shaped /\ at = "kismet"

Shape ==
    /\ at = "kismet"
    /\ value' = column.shaped[value] /\ at' = "shaped"
    /\ UNCHANGED column

\* SQLite has no integer beyond 64 bits: the driver raises OverflowError and
\* write_poll() rolls the whole poll back.  poll_once() catches KismetError alone,
\* around Kismet's answers (collector.py:156-170) and not around write_poll()
\* (:191), so the collector ends; systemd starts it again, and it reads the same
\* devices from the last stored poll.
Overflows(v) == v.k = "int" /\ v.n \notin -Int8..Int8 - 1

Store ==
    /\ at = "shaped"
    /\ at' = IF Overflows(value) THEN "collector ended" ELSE "stored"
    /\ UNCHANGED <<column, value>>

Validate ==
    /\ at = "stored"
    /\ at' = IF Accepted(column, value) THEN "accepted" ELSE "refused"
    /\ UNCHANGED <<column, value>>

Next == Shape \/ Store \/ Validate

Spec == Init /\ [][Next]_vars

-----------------------------------------------------------------------------
(* Properties *)

(* Whatever Kismet sends, the server takes what comes of it, or the collector
   ended before it was stored; and of its own heartbeat it takes all but a last_result
   that quotes a long answer, which nobody shortens (see SendLoop.tla). *)
ShapedIsAccepted ==
    at = "refused" => column.name = "last_result" /\ value.n > Short

=============================================================================
