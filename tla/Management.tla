------------------------------- MODULE Management -------------------------------
(***************************************************************************)
(* Management calls on the artifact controller: each is authorized against *)
(* the keyring, audited on the disk and only then acted on, while the      *)
(* keyring is rotated, callers hang up, the audit disk fails and the       *)
(* process restarts.                                                       *)
(***************************************************************************)
EXTENDS ArtifactRollout, ManagementAuth, SequencesExt

CONSTANT MaxRestarts

VARIABLES
    restarts,
    rolledBack          \* history: artifacts an observation took out of service

vars == <<artifactVars, authVars, restarts, rolledBack>>

Init ==
    /\ ArtifactInit
    /\ AuthInit
    /\ restarts = 0
    /\ rolledBack = {}

Auth(A) == A /\ UNCHANGED <<artifactVars, restarts, rolledBack>>

(* What a granted call does: the artifact endpoints.  One its controller   *)
(* refuses (no candidate, nothing kept, a bad rollout) answers an error    *)
(* and changes nothing.                                                    *)
Breach(n) ==
    /\ Observe(n, TRUE)
    /\ rolledBack' = IF artHistory = <<>> THEN rolledBack ELSE rolledBack \union {artActive}

ByHand ==
    \/ (Promote \/ RollbackArtifact) /\ rolledBack' = rolledBack \ {artActive'}
    \/ \E on \in BOOLEAN : SetKillSwitch(on) /\ UNCHANGED rolledBack
    \/ \E r \in Rollouts : UpdateRollout(r) /\ UNCHANGED rolledBack

Act(c) ==
    /\ Acted(c)
    /\ \/ ByHand
       \/ \E n \in Samples : Breach(n)
       \/ \E n \in Samples : Observe(n, FALSE) /\ UNCHANGED rolledBack
       \/ UNCHANGED <<artifactVars, rolledBack>>
    /\ UNCHANGED restarts

Restart ==
    /\ restarts < MaxRestarts /\ restarts' = restarts + 1
    /\ RestartArtifacts
    /\ RestartAuth
    /\ rolledBack' = {}

Next ==
    \/ Auth(WriteKeyring)
    \/ Auth(ReloadKeyring)
    \/ Auth(QueueReloadLine)
    \/ \E c \in Call, k \in Key : Auth(Authorize(c, k))
    \/ \E c \in Call : Auth(QueueLine(c))
    \/ \E ok \in BOOLEAN : Auth(WriteLine(ok))
    \/ \E c \in Call : Auth(HangUp(c))
    \/ \E c \in Call : Act(c)
    \/ Restart

(* The reloader and the audit writer run; the channel is fair to those who *)
(* wait for room in it.                                                    *)
Fairness ==
    /\ WF_vars(Auth(ReloadKeyring))
    /\ SF_vars(Auth(QueueReloadLine))
    /\ WF_vars(\E ok \in BOOLEAN : Auth(WriteLine(ok)))

Spec == Init /\ [][Next]_vars /\ Fairness

----------------------------------------------------------------------------
(* No management call acts unless the line that allowed it is on the disk, *)
(* however the audit writer fails, the queue fills, the caller hangs up or *)
(* the process restarts.                                                   *)
ActedIsAudited == \A c \in Call : calls[c].step = "acted" => Line(c, TRUE) \in auditLog

(* The controller's audit trail tells which artifact decides: the last     *)
(* promotion or rollback in it names the active one, whether by hand or by *)
(* observation.                                                            *)
Named == {i \in 1 .. Len(events) :
            events[i].action \in {"promoted", "rolled_back", "auto_rollback"}}

AuditTellsActive ==
    \/ Named = {} /\ artActive = StartActive
    \/ \E i \in Named : artActive = events[i].revision /\ \A j \in Named : j <= i

(* A keyring the operator leaves in place comes into force, whatever       *)
(* broken documents were read before it: a revoked key stops working.      *)
KeyringTakesHold == <>[](keyringFile.sound) => <>[](keyring = keyringFile)

(* The architecture's "threshold breach --> last-good rollback": an        *)
(* artifact an observation took out does not decide again until an         *)
(* administrator brings it back.                                           *)
BreachedStaysOut == artActive \notin rolledBack
============================================================================
