----------------------------- MODULE RequestPath -----------------------------
(***************************************************************************)
(* One request through the gateway: read from the client's protocol, given  *)
(* a tier by the route, the learned artifact, exploration and the binding   *)
(* of its task, written for the provider, and its answer brought back in    *)
(* the client's protocol, streamed or whole.  Capacity, quotas, retries and *)
(* fallbacks are GatewayCall's.                                             *)
(***************************************************************************)
EXTENDS Protocols, Routing, StreamTranslation

CONSTANTS
    Requests,       \* the requests a client may make
    Bindings,       \* what the binding store may hold for the task of a request
    ApiOf, Policy,  \* model -> the wire of its provider; -> [dropped, developer]: the
                    \* parameters dropped for it, whether it knows the developer role
    Epsilon,        \* whether exploration is enabled
    Artifact, StartActive, StartCandidate, StartKilled, FileOf, Kib, TaskKey, BucketOf,
    Rollouts, StartRollout, Samples, MaxObservations

ASSUME PathAssumption ==
    /\ \A r \in Requests :
          /\ {"api", "model", "feats", "stream", "topic", "host", "chars", "maxTokens", "results",
               "calls", "pin", "floor", "role", "hard", "cheap", "bias", "signals", "given",
               "version", "formed", "task", "boundary", "explore"} \subseteq DOMAIN r
          /\ r.api \in ClientApi /\ r.feats \subseteq Feature
          /\ r.chars \in Nat /\ r.maxTokens \in Nat
    /\ ApiOf \in [Model -> WireApi]
    /\ Active \subseteq Model

VARIABLES
    req, stage,     \* the request; "read", "route", "bind", "send", "answer", "refused", "done"
    canon,          \* its features in the canonical form
    frame,          \* what of it a learned artifact looks at
    decision,
    binding,        \* what the store held of its task, or NotBound
    served,         \* the model of the deployment it is sent to
    delivered,      \* the features the provider is sent
    replied, received,  \* what a whole answer has in it, and what the client gets of it
    artActive, candidate, artHistory, killed, rollout, observations, events_

INSTANCE ArtifactRollout WITH events <- events_, Task <- TaskKey

artifacts == <<artActive, candidate, artHistory, killed, rollout, observations, events_>>
pathVars == <<req, canon, frame, decision, binding, served, delivered, replied, received>>
requestVars == <<pathVars, stage, artifacts, streamVars>>

NotBound == [model |-> None]
canonReq == [req EXCEPT !.feats = canon]

Refuse == stage' = "refused" /\ UNCHANGED <<pathVars, artifacts, streamVars>>

\* What an administrator and the observations made of the artifacts before the request.
PathInit ==
    /\ req \in Requests /\ stage = "read"
    /\ canon = {} /\ frame = None /\ delivered = {} /\ replied = {} /\ received = {}
    /\ decision = RouteError("undecided")
    /\ binding = NotBound /\ served = None
    /\ artActive \in {None, StartActive} /\ candidate \in {None, StartCandidate}
    /\ artHistory = <<>> /\ events_ = <<>>
    /\ killed \in BOOLEAN /\ rollout = StartRollout /\ observations \in {0, MaxObservations}
    /\ StreamInit

----------------------------------------------------------------------------
(* The handlers of the client protocols, up to chat_completions. *)
Readable == /\ Reads(req.api, req.feats, req.stream)
            /\ ChatLosses(Canonical(req.api, req.feats), internal_chat_capabilities) = {}

\* FeatureFrame::from_openai_chat: a user turn, and a turn for each tool result and call.
Frame(feats) == [task |-> Classify(req.topic).topic, bytes |-> req.chars,
          messages |-> 1 + Len(req.results) + Len(req.calls),
          tools |-> IF "tools" \in feats THEN 1 ELSE 0, image |-> "image" \in feats,
          structured |-> "schema" \in feats, reasoning |-> "effort" \in feats]

Read ==
    /\ stage = "read" /\ Readable
    /\ canon' = Canonical(req.api, req.feats)
    /\ frame' = Frame(canon')
    /\ stage' = "route"
    /\ UNCHANGED <<req, decision, binding, served, delivered, replied, received, artifacts, streamVars>>

RefuseUnread == stage = "read" /\ ~Readable /\ Refuse

----------------------------------------------------------------------------
(* route_request. *)

\* artifact_task_key: a call that names no task, conversation or trace is drawn by its id.
DrawnBy == IF req.given \cap {"task", "conversation", "trace"} # {} THEN {req.task} ELSE TaskKey

\* The tier that the artifact deciding for the key prefers, None when the rules decide.
Preference(key) ==
    LET art == ArtifactPolicy(key, frame, TRUE)
    IN  [arm |-> art.arm, tier |-> IF art.arm = "rule" THEN None ELSE Infer(art.by, frame)]

\* apply_artifact_policy: another tier than the rules' is decided again as a pin.
Overruled(pinned, arm) ==
    IF Failed(pinned) THEN pinned ELSE [pinned EXCEPT !.reason = "artifact_" \o arm]

Learned(d, p) ==
    IF Failed(d) \/ d.reason = "explicit_model" \/ p.tier \in {None, d.tier} THEN d
    ELSE Overruled(Pinned(canonReq, p.tier), p.arm)

\* The decisions before exploration; an error of the artifact's tier is the request's.
Chosen == {Learned(Decide(canonReq), p) : p \in {Preference(key) : key \in DrawnBy}}

\* apply_controlled_exploration, for any draw of the task's hash.
Explorable(d, can) ==
    IF /\ Epsilon /\ {"tenant", "data_policy"} \subseteq req.given /\ req.explore
       /\ d.reason # "explicit_model"
       /\ Cardinality(can) >= 2 /\ d.tier \in can
      THEN can ELSE {}

Routable == {t \in ToSet(Tier) : ~Failed(Pinned(canonReq, t))}

Explored(d, t) == IF t = d.tier THEN d
                  ELSE [Pinned(canonReq, t) EXCEPT !.reason = "controlled_exploration"]

Route_request ==
    /\ stage = "route"
    /\ \E d \in Chosen :
        /\ ~Failed(d)
        /\ \E t \in {d.tier} \cup Explorable(d, Routable) : decision' = Explored(d, t)
    /\ stage' = "bind"
    /\ UNCHANGED <<req, canon, frame, binding, served, delivered, replied, received, artifacts,
                    streamVars>>

RefuseUnroutable ==
    /\ stage = "route"
    /\ \E d \in Chosen : Failed(d)
    /\ Refuse

----------------------------------------------------------------------------
(* apply_task_binding_inner: the binding b of the task or session, unless   *)
(* the call may migrate.                                                    *)
Migrates(d, b) ==
    \/ b.session /\ ~b.matches /\ req.boundary # None
    \/ (b.matches \/ ~b.session) /\ (d.reason = "preference_pin" \/ req.boundary = "new_task")

Rebound(d, b) ==
    LET next == NextEligible(d, b.tier)
    IN  IF req.boundary \in {"retry", "terminal_provider_failure"} /\ next # None THEN BindDecision(d, next)
        ELSE BindDecision(d, b.model)

ApplyBinding(d, b) ==
    LET bound == Rebound(d, b)
    IN  IF \/ CompatibilityMode(req) \/ "tenant" \notin req.given \/ req.role = "auxiliary"
           \/ d.reason = "explicit_model" \/ b = NotBound THEN d
        ELSE IF Migrates(d, b) THEN [d EXCEPT !.reason = "migration"]
        ELSE IF b.session /\ ~b.matches THEN RouteError("unsafe_session_migration")
        ELSE IF bound.reason = "bound_model_ineligible" /\ req.boundary # None
          THEN [d EXCEPT !.reason = "capability_migration"]
        ELSE bound

\* decision_binding_key: the binding of the conversation's branch, or else of the task.
Looked == {b \in Bindings : b = NotBound \/ (b.session <=> "conversation" \in req.given)}

Bind ==
    /\ stage = "bind"
    /\ \E b \in Looked :
        /\ binding' = b
        /\ decision' = ApplyBinding(decision, b)
        /\ stage' = IF Failed(ApplyBinding(decision, b)) THEN "refused" ELSE "send"
    /\ UNCHANGED <<req, canon, frame, served, delivered, replied, received, artifacts, streamVars>>

----------------------------------------------------------------------------
(* provider_request and the answer. *)
wire == ApiOf[served]

\* execution_tier and deployment_filter_reasons: the models whose deployments may take the
\* request, which are the admitted ones of its tier.  A call of a conversation stays with
\* the decision's model unless its caller saw the provider fail for good.
Servable(d) ==
    IF d.reason = "explicit_model" THEN {d.model}
    ELSE {m \in Deployed[d.tier] \cap d.eligible :
            ("conversation" \in req.given /\ req.boundary # "terminal_provider_failure")
                => m = d.model}

Send ==
    /\ stage = "send"
    /\ \E m \in Servable(decision) :
        /\ Builds(ApiOf[m], canon, req.stream)
        /\ served' = m
        /\ delivered' = Delivered(ApiOf[m], canon, Policy[m])
    /\ stage' = "answer"
    /\ IF req.stream THEN OpenStream ELSE UNCHANGED streamVars
    /\ UNCHANGED <<req, canon, frame, decision, binding, replied, received, artifacts>>

RefuseUnsent ==
    /\ stage = "send"
    /\ \/ Servable(decision) = {}
       \/ \E m \in Servable(decision) : ~Builds(ApiOf[m], canon, req.stream)
    /\ Refuse

\* A provider calls the tools it was sent.
Answer ==
    /\ stage = "answer" /\ ~req.stream
    /\ \E answer \in SUBSET ({"reasoning", "cut"} \cup IF "tools" \in delivered THEN {"calls"} ELSE {}) :
        /\ replied' = answer
        /\ received' = answer \cap AnswerRead(wire) \cap AnswerTaken(req.api)
    /\ stage' = "done"
    /\ UNCHANGED <<req, canon, frame, decision, binding, served, delivered, artifacts, streamVars>>

Stream ==
    /\ stage = "answer" /\ req.stream
    /\ \/ \E n \in 1 .. Len(source) : Arrive(n)
       \/ Finish \/ FinishFails \/ Break
       \/ NextEvent(req.api)
       \/ EndDelivery
    /\ stage' = IF delivery' = "open" THEN "answer" ELSE "done"
    /\ UNCHANGED <<pathVars, artifacts>>

PathNext ==
    \/ Read \/ RefuseUnread
    \/ Route_request \/ RefuseUnroutable
    \/ Bind
    \/ Send \/ RefuseUnsent
    \/ Answer \/ Stream

\* The gateway's own steps are taken; a provider sends, ends or breaks its stream (the
\* request timeout sees to it).
PathSpec == PathInit /\ [][PathNext]_requestVars /\ WF_requestVars(PathNext)
----------------------------------------------------------------------------
InFlight == stage \in {"send", "answer"}

\* A request is sent to a model that was admitted for all the canonical request asks,
\* whichever of the rules, the artifact, the exploration draw and the binding of an
\* earlier call chose its tier and whichever of the tier's deployments takes it
\* (route_request, apply_task_binding_inner, eligible_models, execution_tier).
AdmittedForIt ==
    LET asks == Requirement(canonReq)
    IN  /\ InFlight => Admits(decision.model, asks)
        /\ stage = "answer" => Admits(served, asks)

\* What GET /v1/models advertises is kept: a request for the route that asks for no more
\* than all its tiers have is not refused by the rules, whatever it prefers, while their
\* models are active, nor is one for a listed, active model that asks for no more than that
\* model has (and whose id is not the route's, which takes precedence); one that asks for
\* more than any tier has is never served by a tier (models, RouteConfig::capabilities and
\* routable_capabilities, decide).
AdvertisedIsKept ==
    LET r == canonReq
        asks == Requirement(r)
        known == {None} \cup ToSet(Tier)
        refused == ~ContractValid(r) \/ LacksTool(r)
    IN  stage = "route" =>
          /\ (/\ r.model = Route /\ TierModel \subseteq Active /\ ~refused
              /\ Within(asks, Advertised.all) /\ r.pin \in known /\ r.floor \in known)
             => ~Failed(Decide(r))
          /\ (r.model \in Active \ {Route} /\ ~refused /\ Within(asks, Advertised.model[r.model]))
             => ~Failed(Decide(r))
          /\ (r.model = Route /\ ~Within(asks, Advertised.any))
             => \A d \in Chosen : Failed(d)

\* What of a request decides which models are admitted for it.
Asked == {"image", "audio", "tools", "schema", "limit", "effort"}

\* How hard to think is what two of the writers have no word for.
Unspoken(w) == IF w \in {"responses", "anthropic"} THEN {"effort"} ELSE {}

\* What made the route pass over cheaper models reaches the provider: the images, audio,
\* tools, schemas, bound on the output and effort of the canonical request are sent, or the
\* request is refused (ProviderTransport::build_request under LossPolicy::Reject), unless
\* the provider's own policy drops a parameter by name.  Two exceptions are the code's:
\* Gemini's writer takes the text alone, and the effort reaches no Responses or Anthropic
\* provider, although only models that reason were admitted for it.
AskedIsDelivered ==
    (stage = "answer" /\ wire # "gemini") =>
        canon \cap Asked \subseteq delivered \cup Policy[served].dropped \cup Unspoken(wire)

\* The tool calls of a whole answer come back to the caller through both conversions: no
\* client whose protocol could not carry them back has its tools sent.
CallsReachCaller == "calls" \in replied => "calls" \in received

Deltas(s) == Kept(s, {b \in ToSet(s) : b.is = "delta"})
Shown == Kept(events, {e \in ToSet(events) : e.event = "delta"})
Positions(e, b) == {i \in DOMAIN events : events[i].event = e /\ events[i].block = b}

\* A client that is told its answer is complete got every part of what the provider sent,
\* in order and once, however the bytes were cut into chunks; it is told so once, never
\* after the provider's connection broke, and no block is then left open (stream_response,
\* remove_sse_done, find_sse_event_end, translate_chat_sse_event).
CompleteIsWhole ==
    LET told == {i \in DOMAIN events : events[i].event = "complete"}
    IN  told # {} =>
          /\ told = {Len(events)} /\ link = "ended"
          /\ [i \in DOMAIN Shown |-> <<Shown[i].block, Shown[i].n>>] =
             [i \in DOMAIN Deltas(source) |-> <<Deltas(source)[i].block, Deltas(source)[i].n>>]
          /\ req.api = "anthropic" =>
               \A b \in opened : /\ Cardinality(Positions("start", b)) = 1
                                 /\ Cardinality(Positions("stop", b)) = 1
                                 /\ Max(Positions("start", b)) < Min(Positions("delta", b))
                                 /\ Max(Positions("delta", b)) < Max(Positions("stop", b))

\* Every request is answered or refused, and every stream that was opened ends.
Settles == <>(stage \in {"done", "refused"})

\* crates/urouter-protocol/README.md:5: "unsupported semantics are never silently
\* dropped".  Whatever a request that is read had in it is in the canonical form.
NothingSilentlyDropped ==
    stage = "route" => \A f \in req.feats : Recast(req.api, f) \in canon

\* The same sentence, of what the provider is sent: whatever decided which models are
\* admitted is sent to the one that serves, or dropped by its own policy.
AskedInFull ==
    stage = "answer" => canon \cap Asked \subseteq delivered \cup Policy[served].dropped

\* No learned artifact takes a request away from the rules: what they would serve is not
\* refused on its account (uRouter_后续技术执行方案.md:334).
BaselineAvailable ==
    (stage = "route" /\ ~Failed(Decide(canonReq))) => \A d \in Chosen : ~Failed(d)
=============================================================================
