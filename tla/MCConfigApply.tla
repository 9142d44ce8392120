--------------------------- MODULE MCConfigApply ----------------------------
(* A small instance of ConfigApply: b differs from the installed a in the  *)
(* dwell time alone, c in its hop list and its poll interval.              *)
EXTENDS ConfigApply

CONSTANTS a, b, c

MCListOf == [x \in Configs |-> IF x = c THEN 37 ELSE 89]
MCPollOf == [x \in Configs |-> IF x = c THEN 15 ELSE 30]
=============================================================================
