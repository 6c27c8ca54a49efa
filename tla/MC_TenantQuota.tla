--------------------------- MODULE MC_TenantQuota ---------------------------
EXTENDS TenantQuota

\* Two calls of one tenant and one of another.
MCTenantOf == [c \in Call |-> IF c \in {"c1", "c2"} THEN "t1" ELSE "t2"]

MCLimits == {[in_flight |-> 1, requests |-> 1, tokens |-> 0],
             [in_flight |-> 0, requests |-> 2, tokens |-> 3],
             [in_flight |-> 1, requests |-> 0, tokens |-> 3],
             [in_flight |-> 0, requests |-> 0, tokens |-> 0]}
=============================================================================
