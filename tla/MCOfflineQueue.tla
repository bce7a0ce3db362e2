--------------------------- MODULE MCOfflineQueue ---------------------------
(* Instances of OfflineQueue for TLC.                                      *)
EXTENDS OfflineQueue

\* An inventory is larger than a heartbeat or a telemetry batch.
Sizes == [kind \in Kinds |-> IF kind = "inventory" THEN 2 ELSE 1]
=============================================================================
