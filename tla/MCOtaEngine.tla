---------------------------- MODULE MCOtaEngine ----------------------------
(* An instance of OtaEngine for TLC.                                       *)
EXTENDS OtaEngine
=============================================================================
