---------------------------- MODULE MC_ControlPlane ----------------------------
EXTENDS ControlPlane

(* r2 needs a model that only c2 has; c3 is the feed's catalog, and c2 with a *)
(* signature that fails.                                                      *)
MCValidPairs == {<<"c1", "r1">>, <<"c2", "r1">>, <<"c2", "r2">>, <<"c3", "r1">>}
MCDeploymentsOf == [r \in {"r1", "r2"} |-> IF r = "r1" THEN {"d1"} ELSE {"d1", "d2"}]
MCStart == <<"c1", "r1">>
MCFeedDoc == {[at |-> 2, catalog |-> "c3", signed |-> TRUE],
              [at |-> 3, catalog |-> "c2", signed |-> FALSE]}

============================================================================
