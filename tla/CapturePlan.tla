----------------------------- MODULE CapturePlan -----------------------------
(***************************************************************************)
(* From the operator's form to the hop list that the sensor applies.  Two   *)
(* programs check a capture configuration with rules of their own and both  *)
(* hash it: the server when the form is saved (api/app/v2/writes.py), the   *)
(* sensor when it arrives (sensor/capture_config.py).  A configuration that *)
(* one accepts and the other refuses, or that they hash differently, is     *)
(* offered for ever and never applied.  What is accepted goes into two      *)
(* files (SiteFiles.tla) that three programs read.                          *)
(*                                                                         *)
(* A behaviour is the life of one configuration.  A hop list entry is a     *)
(* number (0 is none that Kismet knows), with the spelling of the form.     *)
(* Times are in microseconds.                                               *)
(***************************************************************************)
EXTENDS SiteFiles

CONSTANTS
    Forms,          \* what the form may send: [plan, channels, lock, dwell, poll]
    Capabilities,   \* what the sensor may have reported: sets of entries; {}: nothing
    All89, HT20,    \* the lists ALL_89 and HT20_ALL
    Not37,          \* the entry that HT20_37 lacks
    KnownInvalid,   \* entries without a 40 MHz partner
    MaxEntries,     \* 200
    Dwells, Polls,
    RealError,      \* by how much a float4 column changes 0.2
    Sites, Colls,   \* the installer's kismet_site.conf and collector.conf
    None

VARIABLES form, caps, config, at, site, coll

vars == <<form, caps, config, at, site, coll>>
files == <<site, coll>>

Raw(c, upper) == [entry |-> c, upper |-> upper]
Upper(channels) == [i \in DOMAIN channels |-> channels[i].entry]

-----------------------------------------------------------------------------
(* Kismet's stride *)

Gcd(a, b) == Max({d \in 1..a : a % d = 0 /\ b % d = 0})

\* The first stride from 4 on that the capture helper keeps: not the first one
\* that is coprime with n.
HopStride(n) ==
    LET from == IF n < 4 THEN 1 ELSE 4
        kept == {s \in from..n : n % (n \div s) # 0}
    IN  IF kept = {} THEN 1 ELSE Min(kept)

StrideOk(n) == Gcd(n, HopStride(n)) = 1

\* What hop_health() and the guard say of a list: the entries that are visited.
Visited(n) == n \div Gcd(n, HopStride(n))

\* And what the capture helper visits: every HopStride-th entry, round and round.
Walk(n) == {(k * HopStride(n)) % n : k \in 0..n - 1}

-----------------------------------------------------------------------------
(* The rules.  The two checks are the same function in two files. *)

Distinct(channels) == Cardinality(ToSet(channels)) = Len(channels)

\* plan_channels(): the list of a plan, or None.
PlanChannels(f) ==
    LET list == CASE f.plan = "all_89" -> All89
                  [] f.plan = "ht20_37" -> SelectSeq(HT20, LAMBDA c : c # Not37)
                  [] f.plan = "locked" -> IF f.lock \in ToSet(HT20) THEN <<f.lock>> ELSE <<>>
                  [] f.plan = "custom" -> Upper(f.channels)
    IN  IF /\ Len(list) \in 1..MaxEntries /\ 0 \notin ToSet(list)
           /\ Distinct(list) /\ StrideOk(Len(list))
        THEN list ELSE None

\* A number of the form: [n, type]; Python's True is 1 and not a number here.
Number(x) == x.type # "bool"
Known(channels) == 0 \notin ToSet(channels) /\ ToSet(channels) \cap KnownInvalid = {}
Tunes(channels, reported) == reported = {} \/ ToSet(channels) \subseteq reported

Checked(list, dwell, poll, reported) ==
    /\ Len(list) \in 1..MaxEntries
    /\ Distinct(list) /\ Known(list) /\ Tunes(list, reported) /\ StrideOk(Len(list))
    /\ Number(dwell) /\ dwell.n \in Dwells
    /\ poll.type = "int" /\ poll.n \in Polls

\* The hash: of the entries, the dwell time in milliseconds, the poll interval.
Hash(list, dwell, poll) == <<list, (dwell + 500) \div 1000, poll>>

-----------------------------------------------------------------------------
(* The life of a configuration *)

Init ==
    /\ form \in Forms /\ caps \in Capabilities /\ config = None /\ at = "form"
    /\ site \in Sites /\ coll \in Colls

\* parse_capture_config() and check_capture_config(); the insert stores the
\* dwell time as a float4.
Parsed(f) ==
    /\ PlanChannels(f) # None
    /\ Number(f.dwell) /\ f.dwell.n \in Dwells
    /\ f.poll.n \in Polls /\ Number(f.poll)

\* Without the second check.
AcceptedUnchecked(f) == Parsed(f)
Accepted(f) == Parsed(f) /\ Checked(PlanChannels(f), f.dwell, f.poll, caps)

Save ==
    /\ at = "form"
    /\ \/ /\ Accepted(form)
          /\ LET list == PlanChannels(form)
             IN  config' = [channels |-> list, poll |-> form.poll.n,
                            dwell |-> IF form.dwell.n = 200000 THEN 200000 + RealError ELSE form.dwell.n,
                            sha |-> Hash(list, form.dwell.n, form.poll.n)]
          /\ at' = "stored"
       \/ ~Accepted(form) /\ at' = "invalid" /\ UNCHANGED config
    /\ UNCHANGED <<form, caps, files>>

\* ingest/config.py: the dwell time is rounded again.
Round(dwell) == ((dwell + 500) \div 1000) * 1000

Deliver ==
    /\ at = "stored"
    /\ config' = [config EXCEPT !.dwell = Round(@)] /\ at' = "delivered"
    /\ UNCHANGED <<form, caps, files>>

\* accept_delivery() compares the hash, the applier validates the rest and
\* writes the files.
Taken == Checked(config.channels, [n |-> config.dwell, type |-> "float"], [n |-> config.poll, type |-> "int"], caps)

Receive ==
    /\ at = "delivered"
    /\ \/ /\ Hash(config.channels, config.dwell, config.poll) # config.sha
          /\ at' = "ignored" /\ UNCHANGED files
       \/ /\ Hash(config.channels, config.dwell, config.poll) = config.sha /\ ~Taken
          /\ at' = "rejected" /\ UNCHANGED files
       \/ /\ Hash(config.channels, config.dwell, config.poll) = config.sha /\ Taken
          /\ at' = "applied"
          /\ site' = SiteConfWith(site, config.channels, config.dwell)
          /\ coll' = CollectorConfWith(coll, config.poll)
    /\ UNCHANGED <<form, caps, config>>

Next == Save \/ Deliver \/ Receive

Spec == Init /\ [][Next]_vars

-----------------------------------------------------------------------------
(* Property *)

\* The applier, the collector and the hop guard read what was sent, and nothing
\* but the source line's list and rate and the interval has changed.
ReadAlike ==
    /\ SiteConfConfig(site) = <<config.channels, config.dwell>>
    /\ ConfiguredChannels(site) = config.channels
    /\ CollectorPoll(coll) = config.poll /\ PollInterval(coll) = config.poll
    /\ Hash(SiteConfConfig(site)[1], SiteConfConfig(site)[2], CollectorPoll(coll)) = config.sha

(* Every configuration that the server stores is one the sensor applies (as
   long as the sensor tunes what it reported), with the same hash on both
   sides; Kismet visits every entry of its list: the greatest common divisor
   that both rules and hop_health() compute is the length of the walk; and the
   three readers of the files that the applier wrote read that configuration. *)
StoredIsApplied ==
    /\ at \notin {"ignored", "rejected"}
    /\ at = "stored" => /\ Cardinality(Walk(Len(config.channels))) = Len(config.channels)
                        /\ Visited(Len(config.channels)) = Len(config.channels)
    /\ at = "applied" => ReadAlike

=============================================================================
