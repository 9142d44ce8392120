---------------------------- MODULE ConfigApply -----------------------------
(***************************************************************************)
(* Applying a delivered capture configuration on the sensor.  The uploader *)
(* writes desired.json; a path unit starts the applier (one at a time: it  *)
(* holds a lock), which replaces two configuration files one after the     *)
(* other, restarts what reads them and lets the collector's polls decide:  *)
(* either the configuration is kept, or the last good pair of files comes  *)
(* back.  attempt.json says that an apply is under way; at boot, before    *)
(* Kismet, the recover unit undoes what it finds there.                    *)
(*                                                                         *)
(* Sources: wifi-sensor/sensor/config_apply.py, the wifi-sensor-config-*   *)
(* units and accept_delivery() of wifi-sensor/uploader/configsync.py.      *)
(*                                                                         *)
(* Every durable write is a step; the power may fail, and the process may  *)
(* be killed, between any two of them.  A configuration stands for its     *)
(* hash: the version number travels with it and decides nothing here.  The *)
(* content of a file is the configuration it was written from.             *)
(***************************************************************************)
EXTENDS Naturals

CONSTANTS
  Configs,    \* configurations, by hash
  Installed,  \* the one the installer wrote
  ListOf,     \* the hop list of a configuration
  PollOf,     \* the poll interval of a configuration
  None,       \* no configuration, no file
  MaxDeliveries, \* bound: writes of desired.json
  MaxCuts        \* bound: runs cut short and file operations failing

ASSUME BoundsAssumption == MaxDeliveries \in Nat /\ MaxCuts \in Nat
ASSUME ConfigsAssumption ==
  Installed \in Configs /\ None \notin Configs
  /\ DOMAIN ListOf = Configs /\ DOMAIN PollOf = Configs

Files   == {"site", "coll"}     \* kismet_site.conf, collector.conf
Results == {"applying", "applied", "rejected", "rolled_back", "failed"}

VARIABLES
  live,       \* the two configuration files
  good,       \* last-good/: their last good copies
  applied,    \* applied.json
  attempt,    \* attempt.json
  result,     \* result.json: [sha, is], or None
  refused,    \* refused/: a marker for each refused hash
  desired,    \* desired.json: [sha, retry], or None
  trig,       \* the path unit has a start of the applier pending
  kismet,     \* the hop list Kismet runs
  collector,  \* the poll interval the collector runs
  guard,      \* the hop guard's unit is active
  job,        \* the applier, or the recover unit
  verified,   \* history: pairs of files that verified (and the installer's)
  tried,      \* history: tried, and neither verified nor retried since
  torn,       \* history: the delicate places where a run was cut short
  deliveries, \* writes of desired.json so far
  cuts        \* cuts so far

settled == <<live, good, applied>>
running == <<kismet, collector, guard>>
counts  == <<deliveries, cuts>>
vars == <<settled, attempt, result, refused, desired, trig, running, job, verified, tried, torn,
          deliveries, cuts>>

Both(c) == [f \in Files |-> c]

Idle == [at |-> "idle", doing |-> "none", sha |-> None, repoll |-> FALSE, outcome |-> "none"]
Off  == [Idle EXCEPT !.at = "off"]

Places == {"idle", "off", "start", "checked", "keepSite", "keepColl", "attempt", "announce", "pause",
           "site", "coll", "kismet", "collector", "verify", "refuse", "applied", "clear", "report", "resume"}
Jobs == [at: Places, doing: {"none", "apply", "rollback", "recover"}, sha: Configs \cup {None},
         repoll: BOOLEAN, outcome: Results \cup {"none"}]

Go(from, to) == job.at = from /\ job' = [job EXCEPT !.at = to]

\* A run is cut short, or a file operation fails: at most MaxCuts times.
Cut(really) ==
  /\ really => cuts < MaxCuts
  /\ cuts' = IF really THEN cuts + 1 ELSE cuts

\* Booting: neither the uploader, nor Kismet, nor the collector runs.
Booting == job.at \in {"off", "start"} \/ job.doing = "recover"

-----------------------------------------------------------------------------
(* Delivery.                                                               *)

\* The uploader writes desired.json.  An edge seen while the applier runs may
\* be lost: PathChanged= is not looked at again when the service ends.
Deliver(c, r) ==
  /\ ~Booting
  /\ deliveries < MaxDeliveries /\ deliveries' = deliveries + 1
  /\ desired' = [sha |-> c, retry |-> r]
  /\ trig' \in IF job = Idle THEN {TRUE} ELSE {TRUE, trig}
  /\ UNCHANGED <<settled, attempt, result, refused, running, job, verified, tried, torn, cuts>>

\* The running configuration, or a refused one without a retry.
Settled ==
  desired.sha = applied \/ (desired.sha \in refused /\ ~desired.retry)

NothingToDo ==
  /\ job = Idle /\ trig /\ Settled
  /\ trig' = FALSE
  /\ UNCHANGED <<settled, attempt, result, refused, desired, running, job, verified, tried, torn, counts>>

\* A retry removes the marker before anything else is known.
Begin ==
  /\ job = Idle /\ trig /\ ~Settled
  /\ trig' = FALSE
  /\ refused' = refused \ {desired.sha}
  /\ tried' = IF desired.sha \in refused THEN tried \ {desired.sha} ELSE tried
  /\ job' = [Idle EXCEPT !.at = "checked", !.doing = "apply", !.sha = desired.sha]
  /\ UNCHANGED <<settled, attempt, result, desired, running, verified, torn, counts>>

\* Kismet is silent or its source is down; or the rules refuse the
\* configuration, and its hash gets a marker.
Reject ==
  /\ job.at = "checked"
  /\ \E next \in {"report", "refuse"} :
       job' = [job EXCEPT !.at = next, !.outcome = "rejected"]
  /\ UNCHANGED <<settled, attempt, result, refused, desired, trig, running, verified, tried, torn, counts>>

\* Faulty variant: the running files become the last good ones before every attempt.
AcceptAndKeep ==
  /\ job.at = "checked"
  /\ job' = [job EXCEPT !.at = "keepSite",
                        !.repoll = PollOf[live["coll"]] # PollOf[job.sha]]
  /\ UNCHANGED <<settled, attempt, result, refused, desired, trig, running, verified, tried, torn, counts>>

Accept ==
  /\ job.at = "checked"
  /\ job' = [job EXCEPT !.at = IF good["site"] = None THEN "keepSite" ELSE "attempt",
                        !.repoll = PollOf[live["coll"]] # PollOf[job.sha]]
  /\ UNCHANGED <<settled, attempt, result, refused, desired, trig, running, verified, tried, torn, counts>>

WriteAttempt ==
  /\ Go("attempt", "announce")
  /\ attempt' = job.sha
  /\ tried' = tried \cup {job.sha}
  /\ UNCHANGED <<settled, result, refused, desired, trig, running, verified, torn, counts>>

Announce ==
  /\ Go("announce", "pause")
  /\ result' = [sha |-> job.sha, is |-> "applying"]
  /\ UNCHANGED <<settled, attempt, refused, desired, trig, running, verified, tried, torn, counts>>

\* A systemctl call that fails is logged, and nothing else.
PauseGuard ==
  /\ Go("pause", "site")
  /\ guard' \in {guard, FALSE}
  /\ UNCHANGED <<settled, attempt, result, refused, desired, trig, kismet, collector, verified, tried, torn, counts>>

-----------------------------------------------------------------------------
(* Writing, restarting, verifying: of the candidate when applying, of the  *)
(* last good files in a rollback and - writing only - at boot.             *)

Source(f) == IF job.doing = "apply" THEN job.sha ELSE good[f]

Readable == \A f \in Files : Source(f) # None

WriteSite ==
  /\ Go("site", "coll") /\ Readable
  /\ live' = [live EXCEPT !["site"] = Source("site")]
  /\ UNCHANGED <<good, applied, attempt, result, refused, desired, trig, running, verified, tried, torn, counts>>

WriteColl ==
  /\ Go("coll", IF job.doing = "recover" THEN "refuse" ELSE "kismet")
  /\ live' = [live EXCEPT !["coll"] = Source("coll")]
  /\ UNCHANGED <<good, applied, attempt, result, refused, desired, trig, running, verified, tried, torn, counts>>

\* A restart that fails decides nothing: the old process may go on.
RestartKismet ==
  /\ Go("kismet", IF job.repoll THEN "collector" ELSE "verify")
  /\ kismet' \in {kismet, ListOf[live["site"]]}
  /\ UNCHANGED <<settled, attempt, result, refused, desired, trig, collector, guard, verified, tried, torn, counts>>

RestartCollector ==
  /\ Go("collector", "verify")
  /\ collector' \in {collector, PollOf[live["coll"]]}
  /\ UNCHANGED <<settled, attempt, result, refused, desired, trig, kismet, guard, verified, tried, torn, counts>>

\* What the polls can show: the live hop list is the file's, and the polls
\* come at the file's interval.  The dwell time does not show in them.
Collecting ==
  kismet = ListOf[live["site"]] /\ collector = PollOf[live["coll"]]

ApplyVerified ==
  /\ job.at = "verify" /\ job.doing = "apply" /\ Collecting
  /\ verified' = verified \cup {live}
  /\ tried' = tried \ {job.sha}
  /\ job' = [job EXCEPT !.at = "applied", !.outcome = "applied"]
  /\ UNCHANGED <<settled, attempt, result, refused, desired, trig, running, torn, counts>>

RollbackVerified ==
  /\ job.at = "verify" /\ job.doing = "rollback" /\ Collecting
  /\ verified' = verified \cup {live}
  /\ job' = [job EXCEPT !.at = "clear", !.outcome = "rolled_back"]
  /\ UNCHANGED <<settled, attempt, result, refused, desired, trig, running, tried, torn, counts>>

-----------------------------------------------------------------------------
(* What becomes of it.                                                     *)

\* The deadline passes without the polls, or a step raises.
ApplyFails ==
  /\ job.doing = "apply" /\ job.at \in {"site", "coll", "kismet", "collector", "verify"}
  /\ job' = [job EXCEPT !.at = "refuse", !.doing = "rollback"]
  /\ UNCHANGED <<settled, attempt, result, refused, desired, trig, running, verified, tried, torn, counts>>

\* The same in the rollback: its attempt is over all the same, even when the
\* last good files could not be read or written.
RollbackFails ==
  /\ job.doing = "rollback" /\ job.at \in {"site", "coll", "kismet", "collector", "verify"}
  /\ job' = [job EXCEPT !.at = "clear", !.outcome = "failed"]
  /\ Cut(job.at \in {"site", "coll"} /\ Readable)
  /\ torn' = torn \cup (IF job.at \in {"site", "coll"} THEN {"unrestored"} ELSE {})
  /\ UNCHANGED <<settled, attempt, result, refused, desired, trig, running, verified, tried, deliveries>>

\* Faulty variant: what verified does not become the last good pair.
RecordAppliedOnly ==
  /\ Go("applied", "clear")
  /\ applied' = job.sha
  /\ UNCHANGED <<live, good, attempt, result, refused, desired, trig, running, verified, tried, torn, counts>>

RecordApplied ==
  /\ Go("applied", "keepSite")
  /\ applied' = job.sha
  /\ UNCHANGED <<live, good, attempt, result, refused, desired, trig, running, verified, tried, torn, counts>>

\* keep_last_good(): before the first attempt, and after each verified one.
KeepSite ==
  /\ Go("keepSite", "keepColl")
  /\ good' = [good EXCEPT !["site"] = live["site"]]
  /\ UNCHANGED <<live, applied, attempt, result, refused, desired, trig, running, verified, tried, torn, counts>>

KeepColl ==
  /\ Go("keepColl", IF job.outcome = "applied" THEN "clear" ELSE "attempt")
  /\ good' = [good EXCEPT !["coll"] = live["coll"]]
  /\ UNCHANGED <<live, applied, attempt, result, refused, desired, trig, running, verified, tried, torn, counts>>

\* Faulty variant: a rollback leaves no marker.
RefuseRejectedOnly ==
  /\ Go("refuse", CASE job.doing = "rollback" -> "site"
                    [] job.doing = "recover" -> "clear"
                    [] OTHER -> "report")
  /\ refused' = IF job.doing = "apply" THEN refused \cup {job.sha} ELSE refused
  /\ UNCHANGED <<settled, attempt, result, desired, trig, running, verified, tried, torn, counts>>

\* The marker comes first in a rollback and last at boot.
Refuse ==
  /\ Go("refuse", CASE job.doing = "rollback" -> "site"
                    [] job.doing = "recover" -> "clear"
                    [] OTHER -> "report")
  /\ refused' = refused \cup {job.sha}
  /\ UNCHANGED <<settled, attempt, result, desired, trig, running, verified, tried, torn, counts>>

\* Faulty variant: a boot that undid an attempt does not report it.
ClearAttemptQuietly ==
  /\ Go("clear", IF job.doing = "recover" THEN "start" ELSE "report")
  /\ attempt' = None
  /\ UNCHANGED <<settled, result, refused, desired, trig, running, verified, tried, torn, counts>>

ClearAttempt ==
  /\ Go("clear", "report")
  /\ attempt' = None
  /\ UNCHANGED <<settled, result, refused, desired, trig, running, verified, tried, torn, counts>>

Report ==
  /\ job.at = "report"
  /\ result' = [sha |-> job.sha, is |-> job.outcome]
  /\ job' = IF job.outcome = "rejected" THEN Idle
            ELSE [job EXCEPT !.at = IF job.doing = "recover" THEN "start" ELSE "resume"]
  /\ UNCHANGED <<settled, attempt, refused, desired, trig, running, verified, tried, torn, counts>>

ResumeGuard ==
  /\ job.at = "resume" /\ job' = Idle
  /\ guard' \in {guard, TRUE}
  /\ UNCHANGED <<settled, attempt, result, refused, desired, trig, kismet, collector, verified, tried, torn, counts>>

-----------------------------------------------------------------------------
(* Cut short.                                                              *)

\* The last good pair is half replaced; or the apply is on record, and its
\* attempt or its report is not.
Delicate ==
  {p \in {job.at} : \/ p = "keepColl"
                    \/ p \in {"keepSite", "clear"} /\ job.outcome = "applied"
                    \/ p = "report" /\ job.outcome # "rejected"}

\* The attempt stays on record while the machine runs on.
Stranded == IF attempt # None THEN {"stranded"} ELSE {}

\* Killed - the unit's time is up, say - or raising before the guard stopped.
Killed ==
  /\ job.doing \in {"apply", "rollback"}
  /\ job' = Idle
  /\ Cut(TRUE)
  /\ torn' = torn \cup Delicate \cup Stranded
  /\ UNCHANGED <<settled, attempt, result, refused, desired, trig, running, verified, tried, deliveries>>

\* A step outside the inner "try" raises: the guard is started, no more.
Raises ==
  /\ job.at \in {"applied", "keepSite", "keepColl", "refuse", "clear", "report"}
  /\ job.doing = "rollback" \/ job.outcome = "applied"
  /\ job' = [job EXCEPT !.at = "resume"]
  /\ Cut(TRUE)
  /\ torn' = torn \cup Delicate \cup Stranded
  /\ UNCHANGED <<settled, attempt, result, refused, desired, trig, running, verified, tried, deliveries>>

\* The power fails or the machine restarts.
Reboot ==
  /\ job.at # "off" /\ job' = Off
  /\ Cut(TRUE)
  /\ torn' = torn \cup Delicate
  /\ trig' = FALSE
  /\ UNCHANGED <<settled, attempt, result, refused, desired, running, verified, tried, deliveries>>

Recover ==
  /\ job = Off
  /\ job' = IF attempt = None THEN [Off EXCEPT !.at = "start"]
            ELSE [at |-> "site", doing |-> "recover", sha |-> attempt, repoll |-> FALSE, outcome |-> "rolled_back"]
  /\ UNCHANGED <<settled, attempt, result, refused, desired, trig, running, verified, tried, torn, counts>>

\* The last good files cannot be read or written: reported, attempt kept.
RecoverFails ==
  /\ job.doing = "recover" /\ job.at \in {"site", "coll"}
  /\ job' = [job EXCEPT !.at = "report", !.outcome = "failed"]
  /\ Cut(Readable)
  /\ torn' = torn \cup {"unrestored"}
  /\ UNCHANGED <<settled, attempt, result, refused, desired, trig, running, verified, tried, deliveries>>

\* Any other error ends the unit; it never holds the boot up.
RecoverRaises ==
  /\ job.doing = "recover" /\ Go(job.at, "start") /\ job.at \in {"refuse", "clear", "report"}
  /\ Cut(TRUE)
  /\ torn' = torn \cup Delicate \cup Stranded
  /\ UNCHANGED <<settled, attempt, result, refused, desired, trig, running, verified, tried, deliveries>>

\* Kismet and the collector start on the files.
Start ==
  /\ job.at = "start" /\ job' = Idle
  /\ kismet' = ListOf[live["site"]] /\ collector' = PollOf[live["coll"]] /\ guard' = TRUE
  /\ UNCHANGED <<settled, attempt, result, refused, desired, trig, verified, tried, torn, counts>>

\* Kismet is restarted by the watchdog, or gets the file's list from the hop
\* guard; the collector is restarted by systemd: at any time.
Respawn ==
  /\ ~Booting
  /\ \/ kismet' = ListOf[live["site"]] /\ UNCHANGED collector
     \/ collector' = PollOf[live["coll"]] /\ UNCHANGED kismet
  /\ UNCHANGED <<settled, attempt, result, refused, desired, trig, guard, job, verified, tried, torn, counts>>

-----------------------------------------------------------------------------

Init ==
  /\ live = Both(Installed) /\ good = Both(None)
  /\ applied = None /\ attempt = None /\ result = None /\ refused = {}
  /\ desired = None /\ trig = FALSE
  /\ kismet = ListOf[Installed] /\ collector = PollOf[Installed] /\ guard = TRUE
  /\ job = Idle
  /\ verified = {Both(Installed)} /\ tried = {} /\ torn = {}
  /\ deliveries = 0 /\ cuts = 0

ApplySteps ==
  \/ NothingToDo \/ Begin \/ Reject \/ Accept \/ WriteAttempt \/ Announce \/ PauseGuard
  \/ WriteSite \/ WriteColl \/ RestartKismet \/ RestartCollector
  \/ ApplyVerified \/ RollbackVerified \/ ApplyFails \/ RollbackFails
  \/ RecordApplied \/ KeepSite \/ KeepColl \/ Refuse \/ ClearAttempt \/ Report \/ ResumeGuard

BootSteps == Recover \/ RecoverFails \/ RecoverRaises \/ Start

Next ==
  \/ \E c \in Configs, r \in BOOLEAN : Deliver(c, r)
  \/ ApplySteps \/ BootSteps
  \/ Killed \/ Raises \/ Reboot \/ Respawn

Spec == Init /\ [][Next]_vars

-----------------------------------------------------------------------------
(* Properties.                                                             *)

\* Every variable holds what its file or process may hold.
TypeOK ==
  /\ live \in [Files -> Configs] /\ good \in [Files -> Configs \cup {None}]
  /\ applied \in Configs \cup {None} /\ attempt \in Configs \cup {None}
  /\ result \in {None} \cup [sha: Configs, is: Results]
  /\ refused \subseteq Configs /\ tried \subseteq Configs
  /\ desired \in {None} \cup [sha: Configs, retry: BOOLEAN]
  /\ trig \in BOOLEAN /\ guard \in BOOLEAN
  /\ kismet \in {ListOf[c] : c \in Configs} /\ collector \in {PollOf[c] : c \in Configs}
  /\ job \in Jobs
  /\ verified \subseteq [Files -> Configs]
  /\ torn \subseteq {"keepSite", "keepColl", "clear", "report", "unrestored", "stranded"}
  /\ deliveries \in 0 .. MaxDeliveries /\ cuts \in 0 .. MaxCuts

\* The pair of files a boot at this moment would end up on.
BootPair == IF attempt = None THEN live ELSE good

\* Whenever the power fails - in any apply, rollback or boot - the sensor
\* comes up on a pair of files that has verified, unless a run was cut short
\* between the two writes of keep_last_good() or could not write the last good
\* files back.
SafeToBoot ==
  torn \cap {"keepColl", "unrestored"} = {} =>
    /\ job.at # "keepColl" => BootPair \in verified
    /\ job.at = "start" => live \in verified

\* applied.json names the configuration a boot starts on, unless a run was cut
\* short between applied.json and the last good copies of the same files, or
\* could not write the last good files back.
AppliedIsRunning ==
  torn \cap {"keepSite", "keepColl", "unrestored"} = {} /\ job.at = "start" /\ applied # None =>
    live = Both(applied)

\* No try is forgotten: a configuration that was tried and did not verify has
\* its marker, or is still on record for the next boot - unless an apply was
\* killed and its record taken by the next one.
NoTryForgotten ==
  torn \cap {"stranded", "unrestored"} = {} =>
    tried \subseteq refused \cup {attempt}

\* The report the uploader sends is true of the files while nothing is under
\* way, unless a run was cut short after its verdict.
ReportIsTrue ==
  torn \cap {"keepSite", "keepColl", "clear", "report"} = {} /\ job = Idle /\ result # None =>
    /\ result.is = "applied" =>
         applied = result.sha /\ good = Both(result.sha) /\ (attempt = None => live = good)
    /\ result.is = "rolled_back" => applied # result.sha /\ (attempt = None => live = good)
    /\ result.is = "applying" => attempt # None

\* "A boot always starts on a verified configuration", as long as every file
\* can be read and written.
BootsOnVerified ==
  job.at = "start" /\ "unrestored" \notin torn => live \in verified

\* "applied.json names the running configuration", said of a boot.
AppliedNamesRunning == job.at = "start" /\ applied # None => live = Both(applied)
=============================================================================
