------------------------------- MODULE HopGuard -------------------------------
(***************************************************************************)
(* The hop guard (sensor/hop_guard.py) against Kismet and everything that   *)
(* rewrites kismet_site.conf.  When the capture helper crashes, Kismet      *)
(* opens the source again with the first entry of its list only; the guard  *)
(* compares the live list with the configured one every few seconds and     *)
(* pushes the configured one.  It reads the file, asks Kismet and pushes in  *)
(* three steps, between which the file may be rewritten, Kismet restarted    *)
(* and the helper crash again; and a push may fail, or be done although its *)
(* answer is lost.  Kismet is external: it keeps a list pushed over REST.   *)
(***************************************************************************)
EXTENDS Naturals, Sequences, SequencesExt

CONSTANTS
    Lists,          \* the explicit hop lists that kismet_site.conf may hold
    OwnList, Missing,  \* no channels= option: Kismet's own list; no readable file
    MaxRewrites, MaxCrashes, MaxFaults, MaxStops,   \* (bounds)
    BackoffAfter    \* BACKOFF_AFTER

VARIABLES
    conf,           \* kismet_site.conf: a list, OwnList or Missing
    list,           \* Kismet's live hop list
    source,         \* "running"; "down" after a crash; "off" while Kismet restarts
    guard,          \* [at, conf, known, failures] of the guard's process
    rewrites, crashes, faults, stops,
    begun           \* history: a check began after whatever went wrong last

counts == <<rewrites, crashes, faults, stops>>
vars == <<conf, list, source, guard, counts, begun>>

Start == [at |-> "tick", conf |-> OwnList, stamp |-> 0, failures |-> 0]

Init ==
    /\ conf \in Lists \cup {OwnList} /\ list = (IF conf = OwnList THEN <<>> ELSE conf)
    /\ source = "running" /\ guard = Start
    /\ rewrites = 0 /\ crashes = 0 /\ faults = 0 /\ stops = 0 /\ begun = FALSE

-----------------------------------------------------------------------------
(* Kismet, and who rewrites its file *)

\* A capture helper dies; its source is opened again, from a definition that
\* lost the quotes around the list.  An autodetected list (here: no list) survives.
Crash ==
    /\ source = "running" /\ crashes < MaxCrashes
    /\ source' = "down" /\ crashes' = crashes + 1
    /\ begun' = FALSE /\ UNCHANGED <<conf, list, guard, rewrites, faults, stops>>

Reopen ==
    /\ source = "down"
    /\ source' = "running" /\ list' = IF list = <<>> THEN list ELSE <<Head(list)>>
    /\ begun' = FALSE /\ UNCHANGED <<conf, guard, counts>>

\* The installer or the configuration applier writes the file and restarts
\* Kismet, which reads it at its start.
Rewrite ==
    /\ rewrites < MaxRewrites /\ source # "off"
    /\ conf' \in (Lists \cup {OwnList, Missing}) \ {conf}
    /\ source' = "off" /\ rewrites' = rewrites + 1
    /\ begun' = FALSE /\ UNCHANGED <<list, guard, crashes, faults, stops>>

\* Kismet shuffles the order of a list.
KismetStarts ==
    /\ source = "off"
    /\ source' = "running"
    /\ list' \in IF conf \in Lists THEN {conf, Reverse(conf)} ELSE {<<>>}
    /\ begun' = FALSE /\ UNCHANGED <<conf, guard, counts>>

-----------------------------------------------------------------------------
(* The guard *)

\* As Configured, but the file is parsed once.
ConfiguredOnce == IF guard.stamp = 0 THEN [guard EXCEPT !.conf = IF conf = Missing THEN OwnList ELSE conf, !.stamp = 1]
                  ELSE guard

\* configured(): the file is parsed again when it changed.
Configured == [guard EXCEPT !.conf = IF conf = Missing THEN OwnList ELSE conf, !.stamp = rewrites + 1]

Entries(l) == [e \in ToSet(l) |-> Len(SelectSeq(l, LAMBDA x : x = e))]

SameHopList(live, configured) == Entries(live) = Entries(configured)

ReadConf ==
    /\ guard.at = "tick"
    /\ LET g == Configured
       IN  guard' = [g EXCEPT !.at = IF g.conf = OwnList THEN "tick" ELSE "ask"]
    /\ begun' = TRUE /\ UNCHANGED <<conf, list, source, counts>>

\* Datasources cannot be read, or the source does not run: next tick.
Ask ==
    /\ guard.at = "ask"
    /\ guard' = [guard EXCEPT
         !.at = IF source = "running" /\ ~SameHopList(list, guard.conf) THEN "push" ELSE "tick",
         !.failures = IF source = "running" /\ SameHopList(list, guard.conf) THEN 0 ELSE @]
    /\ UNCHANGED <<conf, list, source, counts, begun>>

\* The attempt counts as a failure until a later check sees the list in place.
Pushed == [guard EXCEPT !.at = "tick", !.failures = IF @ < BackoffAfter THEN @ + 1 ELSE @]

Push ==
    /\ guard.at = "push" /\ source = "running"
    /\ list' = guard.conf /\ guard' = Pushed
    /\ UNCHANGED <<conf, source, counts, begun>>

\* Kismet or its source is gone, or the request fails; without an answer it may
\* have been done.
PushFails ==
    /\ guard.at = "push"
    /\ IF source = "running" THEN faults < MaxFaults /\ faults' = faults + 1 /\ list' \in {list, guard.conf}
                             ELSE UNCHANGED <<faults, list>>
    /\ guard' = Pushed
    /\ begun' = FALSE /\ UNCHANGED <<conf, source, rewrites, crashes, stops>>

\* The applier stops the unit while it works, systemd starts it again: the
\* process forgets what it read.
Stopped ==
    /\ stops < MaxStops /\ guard # Start
    /\ guard' = Start /\ stops' = stops + 1
    /\ begun' = FALSE /\ UNCHANGED <<conf, list, source, rewrites, crashes, faults>>

Guard == ReadConf \/ Ask \/ Push \/ PushFails

Next == Crash \/ Reopen \/ Rewrite \/ KismetStarts \/ Guard \/ Stopped

Spec == Init /\ [][Next]_vars

-----------------------------------------------------------------------------
(* Properties *)

(* Crashes, restarts, rewritten files, a guard started anew and failed pushes in
   any order: one whole check after the last of them leaves the source on the
   configured list, also when a push of the old list was under way, and the hours
   on channel 1 of wifi-sensor/docs/findings.md section 7 do not come back. *)
RestoredByOneCheck ==
    (begun /\ guard.at = "tick" /\ source = "running" /\ conf \in Lists) => Entries(list) = Entries(conf)

=============================================================================
