---------------------------- MODULE MCCampaign ----------------------------
(* Instances of Campaign for TLC.                                          *)
EXTENDS Campaign
CONSTANTS d1, d2, d3, a1, a2

ThreeTargets == <<d1, d2, d3>>
TwoTargets == <<d1, d2>>
\* The request may name a device twice: nothing rejects it.
RepeatedTarget == <<d1, d2, d2>>
=============================================================================
