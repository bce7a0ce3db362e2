------------------------ MODULE MCAssistantActions ------------------------
(* An instance of AssistantActions for TLC.                                *)
EXTENDS AssistantActions
CONSTANTS owner, operator, d1

\* An organization_owner and a fleet_operator.
Roles == [u \in Users |-> IF u = owner THEN Permissions ELSE {"command"}]

\* What an agent names that has Trivy, one that may reboot the device,
\* and a list that is empty.
Inventories == {{}, {"jobs", "security:trivy"}, {"jobs", "job:reboot"}}
=============================================================================
