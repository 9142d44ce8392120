---------------------------- MODULE MCRefresher -----------------------------
(* A small instance of Refresher: hours of two poll slots.                 *)
EXTENDS Refresher

MCHourOf == [t \in Times |-> t \div 2]
=============================================================================
