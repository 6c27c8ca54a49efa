----------------------------- MODULE MC_Management -----------------------------
EXTENDS Management

(* A linear artifact for every request, and a learned one of 14 operations *)
(* that does not know long ones.                                           *)
Frame(bytes) == [task |-> "general", bytes |-> bytes, messages |-> 1, tools |-> 0,
                 image |-> FALSE, structured |-> FALSE, reasoning |-> FALSE]
Frames == {Frame(2), Frame(9)}
MCLinear == [baseline |-> "fast", promoted |-> "strong", threshold |-> 3, bias |-> 0,
             weights |-> <<1, 1, 0, 5, 5, 5>>]
MCFileOf ==
    [a1 |-> [linear |-> MCLinear, learned |-> None,
             support |-> [tasks |-> {"general"}, bytes |-> 99, tools |-> TRUE]],
     a2 |-> [linear |-> MCLinear,
             learned |-> [kind |-> "knn", baseline |-> "fast", promoted |-> "strong", k |-> 1,
                          prototypes |-> <<[features |-> <<0, 1, 0, 0, 0, 0>>, promoted |-> FALSE],
                                           [features |-> <<3, 1, 0, 0, 0, 0>>, promoted |-> TRUE]>>],
             support |-> [tasks |-> {"general"}, bytes |-> 4, tools |-> TRUE]]]
MCBucketOf == [t \in {"t1"} |-> 10]
MCStartRollout == [canary |-> 100, minimum |-> 1, limit |-> 14]
MCRollouts == {[canary |-> 100, minimum |-> 0, limit |-> 6]}
MCKeyringDoc == {[sound |-> TRUE, standing |-> [k \in {"k1"} |-> 3]],
                 [sound |-> TRUE, standing |-> [k \in {"k1"} |-> 1]],
                 [sound |-> FALSE, standing |-> [k \in {"k1"} |-> 0]]}
MCStartKeyring == [sound |-> TRUE, standing |-> [k \in {"k1"} |-> 3]]
============================================================================
