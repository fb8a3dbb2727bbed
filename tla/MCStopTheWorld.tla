---------------------------- MODULE MCStopTheWorld ----------------------------
(* Model-checking instance of StopTheWorld.                                   *)
EXTENDS StopTheWorld
===========================================================================
