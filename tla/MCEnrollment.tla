--------------------------- MODULE MCEnrollment ---------------------------
(* Instances of Enrollment for TLC.                                        *)
EXTENDS Enrollment, TLC
CONSTANTS a1, a2, t1, t2, w1

\* Two tenants, a token of each.
TwoTenants == [t \in Tokens |-> IF t = t1 THEN 1 ELSE 2]
\* No definition tells the devices apart.
AgentSymmetry == Permutations(Agents)
=============================================================================
