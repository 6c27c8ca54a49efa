----------------------------- MODULE ArtifactRollout -----------------------------
(***************************************************************************)
(* The artifact controller (urouter-artifact): the learned policy that may *)
(* override the rules' tier, its candidate under canary, and the           *)
(* operations an administrator has on both.  The controller lives in one   *)
(* process's memory; a candidate is loaded at startup only.                *)
(*                                                                         *)
(* An input is the frame of a request's features (ArtifactModel).          *)
(***************************************************************************)
EXTENDS ArtifactModel

CONSTANTS
    Artifact,
    StartActive, StartCandidate,   \* the artifacts of the command line, or None
    StartKilled,                   \* --artifact-kill-switch
    FileOf,             \* [Artifact -> its file]
    Task, BucketOf,     \* stable_bucket of each task, in 0 .. 9999
    Rollouts,           \* [canary, minimum, limit] records an operator may set
    StartRollout,
    Samples,            \* the sizes of the observations that are posted
    MaxObservations     \* bound on the counter

VARIABLES
    artActive, candidate, artHistory, killed, rollout, observations,
    events              \* the audit trail: [action, revision] in order

artifactVars == <<artActive, candidate, artHistory, killed, rollout, observations,
                  events>>

Rule(reason) == [arm |-> "rule", by |-> reason]

Event(action, revision) == [action |-> action, revision |-> revision]

StartEvents == (IF StartCandidate = None THEN <<>> ELSE <<Event("candidate_loaded", StartCandidate)>>)
               \o (IF StartKilled THEN <<Event("killed", None)>> ELSE <<>>)

ArtifactInit ==
    /\ artActive = StartActive
    /\ candidate = StartCandidate
    /\ artHistory = <<>>
    /\ killed = StartKilled
    /\ rollout = StartRollout
    /\ observations = 0
    /\ events = StartEvents

Audit(action, revision) == events' = Append(events, Event(action, revision))

----------------------------------------------------------------------------
(* An inference, under the rollout's bound on its operations. *)
Infer(a, input) == InferTier(FileOf[a], input, rollout.limit)

(* ArtifactController::decide: the kill switch first, the canary when it   *)
(* has its samples and the task falls in its share, the active artifact    *)
(* otherwise; anything that fails leaves the rules' tier.                  *)
InCanary(t, input) ==
    /\ candidate # None
    /\ observations >= rollout.minimum
    /\ BucketOf[t] < rollout.canary
    /\ Infer(candidate, input) # "error"

DecideArtifact(t, input) ==
    CASE killed -> Rule("kill_switch")
      [] ~killed /\ InCanary(t, input) -> [arm |-> "canary", by |-> candidate]
      [] ~killed /\ ~InCanary(t, input) /\ artActive = None -> Rule("no_active_artifact")
      [] OTHER -> IF Infer(artActive, input) = "error"
                    THEN Rule("artifact_inference_failed")
                    ELSE [arm |-> "active", by |-> artActive]

(* apply_artifact_policy: an artifact answers only for the catalog and     *)
(* route it was bound to at startup.                                       *)
ArtifactPolicy(t, input, matches) ==
    IF matches THEN DecideArtifact(t, input) ELSE Rule("control_revision_changed")

----------------------------------------------------------------------------
Keep2(s) == IF Len(s) > 2 THEN SubSeq(s, 1, 2) ELSE s

(* ArtifactController::promote; refused without a candidate. *)
Promote ==
    /\ candidate # None
    /\ artActive' = candidate
    /\ candidate' = None
    /\ artHistory' = IF artActive = None THEN artHistory ELSE Keep2(<<artActive>> \o artHistory)
    /\ Audit("promoted", artActive')
    /\ UNCHANGED <<killed, rollout, observations>>

(* Mutant: the event names the artifact that was taken out. *)
SwapBackNamingOld(action) ==
    /\ artHistory # <<>>
    /\ artActive' = Head(artHistory)
    /\ artHistory' = IF artActive = None THEN Tail(artHistory) ELSE <<artActive>> \o Tail(artHistory)
    /\ Audit(action, artActive)

(* The swap both rollbacks make: the newest kept artifact becomes active,  *)
(* the one it replaces is kept in its place.                               *)
SwapBack(action) ==
    /\ artHistory # <<>>
    /\ artActive' = Head(artHistory)
    /\ artHistory' = IF artActive = None THEN Tail(artHistory) ELSE <<artActive>> \o Tail(artHistory)
    /\ Audit(action, artActive')

RollbackArtifact ==
    /\ SwapBack("rolled_back")
    /\ UNCHANGED <<candidate, killed, rollout, observations>>

SetKillSwitch(on) ==
    /\ killed' = on
    /\ Audit(IF on THEN "killed" ELSE "enabled", None)
    /\ UNCHANGED <<artActive, candidate, artHistory, rollout, observations>>

UpdateRollout(r) ==
    /\ r.canary <= 10000 /\ r.limit >= 6
    /\ rollout' = r
    /\ Audit("rollout_updated", None)
    /\ UNCHANGED <<artActive, candidate, artHistory, killed, observations>>

(* observe_and_maybe_rollback: the samples count whatever they show; a     *)
(* breached threshold swaps the active artifact, never the candidate.      *)
Observe(n, breached) ==
    /\ observations + n <= MaxObservations
    /\ observations' = observations + n
    /\ \/ ~breached /\ UNCHANGED <<artActive, artHistory, events>>
       \/ breached /\ artHistory = <<>> /\ Audit("rollback_unavailable", None)
          /\ UNCHANGED <<artActive, artHistory>>
       \/ breached /\ SwapBack("auto_rollback")
    /\ UNCHANGED <<candidate, killed, rollout>>

----------------------------------------------------------------------------
(* A restart forgets everything an administrator did. *)
RestartArtifacts ==
    /\ artActive' = StartActive
    /\ candidate' = StartCandidate
    /\ artHistory' = <<>>
    /\ killed' = StartKilled
    /\ rollout' = StartRollout
    /\ observations' = 0
    /\ events' = StartEvents
============================================================================
