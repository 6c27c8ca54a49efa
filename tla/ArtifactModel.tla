----------------------------- MODULE ArtifactModel -----------------------------
(***************************************************************************)
(* What one decision artifact answers for a request (urouter-artifact,      *)
(* RouterArtifact::infer).  Pure.  An artifact's file is a record           *)
(*   linear    [baseline, promoted, threshold, bias, weights]               *)
(*   learned   None, or a record with the field kind                        *)
(*     "mlp"          baseline, promoted, hidden (a sequence of [weights,   *)
(*                    bias, out]), bias, threshold                          *)
(*     "knn"          baseline, promoted, k, prototypes (a sequence of      *)
(*                    [features, promoted])                                 *)
(*     "contrastive"  baseline, promoted, from, to: two centroids           *)
(*   support   [tasks, bytes, tools]: what it was trained on                *)
(* and a request's frame has the fields task, bytes, messages, tools,       *)
(* image, structured and reasoning.  Scores stay far from the 64 bits they  *)
(* saturate at.                                                             *)
(***************************************************************************)
EXTENDS Integers, Sequences, FiniteSets

CONSTANTS None, Kib     \* the bytes one unit of input stands for, 1024

ASSUME KibAssumption == Kib \in Nat \ {0}

Dimensions == 6         \* LEARNED_FEATURE_DIMENSIONS

Flag(b) == IF b THEN 100 ELSE 0

FeatureVector(f) ==
    <<f.bytes \div Kib, f.messages, f.tools, Flag(f.image), Flag(f.structured), Flag(f.reasoning)>>

Total[s \in Seq(Int)] == IF s = <<>> THEN 0 ELSE Head(s) + Total[Tail(s)]

Dot[u, v \in Seq(Int)] == Total[[i \in 1 .. Dimensions |-> u[i] * v[i]]]

SquaredDistance[u, v \in Seq(Int)] ==
    Total[[i \in 1 .. Dimensions |-> (u[i] - v[i]) * (u[i] - v[i])]]

----------------------------------------------------------------------------
(* The learned models: each says whether the request is promoted. *)
Activation(unit, v) == LET a == Dot[unit.weights, v] + unit.bias IN IF a > 0 THEN a ELSE 0

MlpPromotes(m, v) ==
    m.bias + Total[[i \in DOMAIN m.hidden |-> Activation(m.hidden[i], v) * m.hidden[i].out]]
        >= m.threshold

\* The k nearest prototypes, the earlier of two as near, are counted.
KnnPromotes(m, v) ==
    LET far(i) == SquaredDistance[v, m.prototypes[i].features]
        nearer(i, j) == far(i) < far(j) \/ (far(i) = far(j) /\ i < j)
        nearest == {i \in DOMAIN m.prototypes :
                      Cardinality({j \in DOMAIN m.prototypes : nearer(j, i)}) < m.k}
    IN  2 * Cardinality({i \in nearest : m.prototypes[i].promoted}) >= m.k

ContrastivePromotes(m, v) == SquaredDistance[v, m.to] <= SquaredDistance[v, m.from]

InferLearned(m, v) ==
    IF \/ m.kind = "mlp" /\ MlpPromotes(m, v)
       \/ m.kind = "knn" /\ KnnPromotes(m, v)
       \/ m.kind = "contrastive" /\ ContrastivePromotes(m, v)
      THEN m.promoted ELSE m.baseline

\* The linear weights: kibibytes, messages, tools, and the three flags.
InferLinear(m, f) ==
    LET of == FeatureVector(f)
        inputs == [i \in 1 .. Dimensions |-> IF i <= 3 THEN of[i] ELSE of[i] \div 100]
    IN  IF m.bias + Dot[m.weights, inputs] >= m.threshold THEN m.promoted ELSE m.baseline

----------------------------------------------------------------------------
\* What an inference costs, which the rollout's limit is compared with.
LearnedOperationCount(m) ==
    CASE m.kind = "mlp" -> Len(m.hidden) * (Dimensions + 2)
      [] m.kind = "knn" -> Len(m.prototypes) * (Dimensions + 1)
      [] m.kind = "contrastive" -> 2 * Dimensions

Operations(a) == IF a.learned = None THEN 6 ELSE LearnedOperationCount(a.learned)

Supports(domain, f) ==
    f.task \in domain.tasks /\ f.bytes <= domain.bytes /\ (f.tools > 0 => domain.tools)

\* The tier, or "error" past the limit and outside the support domain.
InferTier(a, f, limit) ==
    IF limit < Operations(a) \/ ~Supports(a.support, f) THEN "error"
    ELSE IF a.learned # None THEN InferLearned(a.learned, FeatureVector(f))
    ELSE InferLinear(a.linear, f)
=============================================================================
