------------------------------ MODULE MCUpload ------------------------------
(* The parts of Upload on small instances; the rest of the sensor stands as  *)
(* little choice as it can where a behaviour is not about it.                *)
EXTENDS Upload, MCLiveUpload

\* Clocks that are behind by much or little, or ahead.
MCSkews == {-4, -1, 4}

(* Polls that are small, long when compressed and inflated, too long for any *)
(* batch, and rich in rows.                                                  *)
Weighs(b, j, r) == [bytes |-> b, json |-> j, rows |-> r]
MCSizes == {Weighs(1, 1, 1), Weighs(3, 3, 1), Weighs(1, 1, 3), Weighs(2, 6, 2)}

-----------------------------------------------------------------------------
MCInit ==
  /\ UploadInit
  /\ (part # "pipeline" => drift = 4) /\ (part # "time line" => skew = 4)

MCSpec == MCInit /\ [][UploadNext]_<<part, vars, lineVars, formatVars, sendVars>>
=============================================================================
