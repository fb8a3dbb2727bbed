---------------------------- MODULE MCDeferral ----------------------------
(* Model-checking instance of Deferral.                                       *)
EXTENDS Deferral
===========================================================================
