---------------------------- MODULE MCWakeWatch ----------------------------
(***************************************************************************)
(* WakeWatch on small sets of wakes for TLC.                               *)
(***************************************************************************)
EXTENDS WakeWatch
=============================================================================
