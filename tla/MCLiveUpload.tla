---------------------------- MODULE MCLiveUpload ----------------------------
(* Finite instances of LiveUpload for TLC.                                 *)
EXTENDS LiveUpload
=============================================================================
