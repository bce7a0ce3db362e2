--------------------------- MODULE MCJobRegistry ---------------------------
(* Instances of JobRegistry for TLC.                                       *)
EXTENDS JobRegistry
CONSTANTS command, update, unknown
=============================================================================
