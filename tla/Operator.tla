------------------------------ MODULE Operator ------------------------------
(***************************************************************************)
(* What an operator chooses and what becomes of it: the delivery of a      *)
(* capture configuration to the sensor and the report back, the applier's   *)
(* steps between the files, the guard of the hop list that Kismet runs, and *)
(* the dashboard's writes with their audit log.  Each part has a module of  *)
(* its own, of the depth its questions need, and shares no state with the   *)
(* others; a behaviour is one of them at work.                              *)
(***************************************************************************)
EXTENDS ConfigApply, Sequences

CONSTANTS
  Saved, Undelivered, VerifyPolls, MaxVersions, MaxPolls, MaxBuffers, MaxReboots,     \* ConfigDelivery
  Lists, OwnList, Missing, MaxRewrites, MaxCrashes, MaxFaults, MaxStops, BackoffAfter,  \* HopGuard
  Requests, Slots, Events, Keys, Nets, Numbers, Dates, MaxRequests              \* OperatorWrites

VARIABLES part,
  versions, notes, open, polls, buf, served, edge, reported, outcome, marks, current, trying, request, late, reboots,
  tries, ran,
  conf, list, source, process, rewrites, crashes, faults, stops, begun,
  db, journal, write, writes, overlapped, answers

deliveryVars == <<versions, notes, open, polls, buf, served, edge, reported, outcome, marks, current, trying, request,
                  late, reboots, tries, ran>>
hopVars == <<conf, list, source, process, rewrites, crashes, faults, stops, begun>>
writeVars == <<db, journal, write, writes, overlapped, answers>>

Delivered == INSTANCE ConfigDelivery WITH
  Configs <- Saved, First <- Undelivered, desired <- served, applied <- reported, result <- outcome, running <- current

Hop == INSTANCE HopGuard WITH guard <- process

Written == INSTANCE OperatorWrites WITH Versions <- Numbers, slot <- write, begun <- writes

\* An absent file, field or row is none of those that are there.
ASSUME NoneAssumption ==
  None \notin Nat \cup Delivered!Attempts \cup Delivered!Offers \cup Delivered!AppliedAs
             \cup Delivered!Tries \cup Delivered!Beats
ASSUME VerifyAssumption == VerifyPolls \in Nat \ {0}
ASSUME HopAssumption == OwnList \notin Lists /\ Missing \notin Lists /\ BackoffAfter \in Nat

-----------------------------------------------------------------------------
OperatorInit ==
  /\ part \in {"applier", "delivery", "hop guard", "writes"}
  /\ Init /\ Delivered!Init /\ Written!Init
  /\ IF part = "hop guard" THEN Hop!Init
     ELSE conf = OwnList /\ list = <<>> /\ source = "off" /\ process = None /\ rewrites = 0 /\ crashes = 0 /\ faults = 0
          /\ stops = 0 /\ begun = FALSE

\* Only the applier must never leave the sensor without a next step.
Rest == part # "applier" /\ UNCHANGED <<part, vars, deliveryVars, hopVars, writeVars>>

OperatorNext ==
  \/ part = "applier" /\ Next /\ UNCHANGED <<part, deliveryVars, hopVars, writeVars>>
  \/ part = "delivery" /\ Delivered!Next /\ UNCHANGED <<part, vars, hopVars, writeVars>>
  \/ part = "hop guard" /\ Hop!Next /\ UNCHANGED <<part, vars, deliveryVars, writeVars>>
  \/ part = "writes" /\ Written!Next /\ UNCHANGED <<part, vars, deliveryVars, hopVars>>
  \/ Rest

OperatorSpec == OperatorInit /\ [][OperatorNext]_<<part, vars, deliveryVars, hopVars, writeVars>>

-----------------------------------------------------------------------------
(* ConfigDelivery: the server dates an apply by its first collecting poll,   *)
(* and the polls' configurations agree with it.                              *)
BoundariesAreTrue == part = "delivery" => Delivered!BoundariesAreTrue

(* ConfigDelivery: a configuration is tried once for each time it was saved. *)
OneTryPerSave == part = "delivery" => Delivered!OneTryPerSave

(* HopGuard: one whole check mends the hop list.                             *)
RestoredByOneCheck == part = "hop guard" => Hop!RestoredByOneCheck

(* OperatorWrites: the audit log explains every cell, unless writes overlap. *)
JournalExplains == part = "writes" => Written!JournalExplains
=============================================================================
