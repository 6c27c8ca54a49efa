-------------------------- MODULE MC_SharedCircuit --------------------------
(* Two gateway processes and two deployments that one credential of one     *)
(* provider serves.                                                         *)
EXTENDS SharedCircuit, TLC

CONSTANTS g1, g2, d1, d2

MCTarget == [d \in {d1, d2} |->
    [s \in Scope |-> CASE s = "deployment" -> <<"deployment", d>>
                       [] s = "credential" -> <<"credential", "shared">>
                       [] s = "provider"   -> <<"provider", "shared">>]]

DistinctPids == [g \in {g1, g2} |-> IF g = g1 THEN 11 ELSE 12]

DeploymentSymmetry == Permutations({d1, d2})

=============================================================================
