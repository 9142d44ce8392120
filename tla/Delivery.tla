------------------------------ MODULE Delivery ------------------------------
(***************************************************************************)
(* What the live upload promises, without buffers, cursors or batches: the *)
(* sensor makes polls, the server stores them, and the sensor releases a   *)
(* poll - never offers it again - only when the server stores it or it has *)
(* become undeliverable: pruned after the retention, or of a boot that     *)
(* ended before anything could tell its true time.                         *)
(***************************************************************************)
CONSTANT Polls    \* the polls the sensor may make

VARIABLES
  made,           \* polls the sensor made
  stored,         \* polls the server stores
  undeliverable,  \* polls pruned, or without a true time for good
  released        \* polls the sensor will not offer again

vars == <<made, stored, undeliverable, released>>

Init == made = {} /\ stored = {} /\ undeliverable = {} /\ released = {}

Make(n) ==
  /\ n \notin made
  /\ made' = made \cup {n}
  /\ UNCHANGED <<stored, undeliverable, released>>

\* One transaction stores any set of polls, again or for the first time.
Store(S) ==
  /\ stored' = stored \cup S
  /\ UNCHANGED <<made, undeliverable, released>>

Expire(S) ==
  /\ undeliverable' = undeliverable \cup S
  /\ UNCHANGED <<made, stored, released>>

Release(S) ==
  /\ S \subseteq stored \cup undeliverable
  /\ released' = released \cup S
  /\ UNCHANGED <<made, stored, undeliverable>>

Next ==
  \/ \E n \in Polls : Make(n)
  \/ \E S \in SUBSET made : Store(S) \/ Expire(S) \/ Release(S)

Spec == Init /\ [][Next]_vars
=============================================================================
