-------------------------- MODULE MCControlPlane --------------------------
(* An instance of ControlPlane for TLC.                                    *)
EXTENDS ControlPlane, TLC
CONSTANTS owner, alice, bob, d1, none, s1, s2

\* The two addresses are interchangeable, and so are runs of the seed program.
Interchangeable == Permutations(Emails) \cup Permutations(Seeds)
=============================================================================
