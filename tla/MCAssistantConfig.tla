------------------------- MODULE MCAssistantConfig -------------------------
(* An instance of AssistantConfig for TLC.                                 *)
EXTENDS AssistantConfig, TLC
CONSTANTS server, gateway, e1, e2

\* The two endpoints are interchangeable.
Interchangeable == Permutations(Endpoints)
=============================================================================
