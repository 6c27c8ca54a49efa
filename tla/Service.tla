------------------------------- MODULE Service -------------------------------
(***************************************************************************)
(* The life of a gateway process: its configuration may be dry-run, then it *)
(* starts or is stopped by it, serves feedback on the backend that was      *)
(* configured, drains, ends and starts again.                               *)
(***************************************************************************)
EXTENDS Feedback

CONSTANT Launches       \* the command lines and worlds: [args, world]

INSTANCE Startup

VARIABLES
    phase,              \* "down", "checked", "refused", "serving", "draining"
    launch, report      \* what is to be started and its dry run, None once it is

\* A start that nothing stops is told from one that something does.
ASSUME ServiceAssumption ==
    None \notin {"arguments", "control", "artifact", "state", "management", "stores", "port"}

serviceVars == <<phase, launch, report, feedbackVars>>

ServiceInit ==
    /\ phase = "down" /\ report = None
    /\ launch \in Launches
    /\ backend = "memory"
    /\ FeedbackInit

----------------------------------------------------------------------------
(* main. *)
Check ==
    /\ phase = "down"
    /\ phase' = "checked" /\ report' = DryRun(launch.args, launch.world)
    /\ UNCHANGED <<launch, feedbackVars>>

Start ==
    /\ phase \in {"down", "checked"} /\ Stopped(launch.args, launch.world) = None
    /\ phase' = "serving" /\ launch' = None /\ report' = None
    /\ backend' = Backend(launch.args)
    /\ UNCHANGED <<values, shared, queue, file, rotated, shown, client, counters, unsure,
                   erased>>

Refuse ==
    /\ phase \in {"down", "checked"} /\ Stopped(launch.args, launch.world) # None
    /\ phase' = "refused"
    /\ UNCHANGED <<launch, report, feedbackVars>>

\* serve_with_shutdown: calls that have begun go on, no other is accepted; the grace
\* period may end before they do.
Drain ==
    /\ phase = "serving" /\ restarts < MaxRestarts
    /\ phase' = "draining"
    /\ UNCHANGED <<launch, report, feedbackVars>>

\* The process ends, drained or not, and is started again as it was.
End ==
    /\ phase \in {"serving", "draining"}
    /\ Restart
    /\ phase' = "serving"
    /\ UNCHANGED <<launch, report>>

----------------------------------------------------------------------------
Accept(c) == phase = "serving" /\ (Post(c) \/ Lookup(c) \/ Erase(c))

Proceed(c) ==
    \/ MergeShared(c) \/ ReadBack(c) \/ Upsert(c) \/ Send(c) \/ Show(c) \/ Store(c)
    \/ DeleteRecords(c) \/ Retained(c) \/ EraseShared(c) \/ EraseValues(c) \/ SendRewrite(c)

Writer == WriteAppend \/ WriteRewrite

Serve ==
    /\ \/ \E c \in Client : Accept(c) \/ Proceed(c) \/ HangUp(c)
       \/ Writer
       \/ \E t \in Turn : Expire(t)
    /\ UNCHANGED <<phase, launch, report>>

ServiceNext == Check \/ Start \/ Refuse \/ Drain \/ End \/ Serve

ServiceSpec == ServiceInit /\ [][ServiceNext]_serviceVars
----------------------------------------------------------------------------
\* The dry run foretells the start: what it accepts is stopped only by what it says it
\* does not look at (the control manifest and its key, the state backend, the keyring and
\* the files), and what it fails starts only for a key missing from the environment, the
\* catalog's own manifest, a cost override without a reason, or quota scopes on a Redis
\* cluster (dry_run.rs against main.rs).
DryRunForetells ==
    [][LET a == launch.args
           w == launch.world
       IN  phase = "checked" =>
             /\ (phase' = "refused" /\ report.valid) =>
                  \/ Stopped(a, w) \in {"state", "management", "stores", "port"}
                  \/ Stopped(a, w) = "control" /\ a.manifest
             /\ phase' = "serving" =>
                  report.failed \subseteq {"referenced_provider_auth", "catalog_manifest",
                                           "cost_override_reason", "quota_scope_topology"}]_serviceVars

Leads(route) == {<<t.tier, f>> : t \in ToSet(route.tiers), f \in ToSet(Names(route))}
                  \cap UNION {{<<t.tier, f>> : f \in ToSet(AllFallbacks(t))} : t \in ToSet(route.tiers)}

\* A gateway starts with no route on which a tier's fallbacks, over all causes, lead back
\* to it, and refuses no route for fallbacks that do not (validate_fallbacks).
FallbacksEnd ==
    (launch # None /\ launch.world.route # None) =>
        LET route == launch.world.route
            Onwards(s) == s \cup {e[2] : e \in {x \in Leads(route) : x[1] \in s}}
            Loops(t) == LET reached[n \in 0 .. Len(route.tiers)] ==
                              IF n = 0 THEN ToSet(AllFallbacks(t)) ELSE Onwards(reached[n - 1])
                        IN  t.tier \in reached[Len(route.tiers)]
        IN  FallbacksKnown(route) =>
              (FallbacksValid(route) <=> ~\E t \in ToSet(route.tiers) : Loops(t))

\* Feedback whose erasure was acknowledged is nowhere: not in memory, the queue, the file,
\* its rotated copy or Redis, through restarts, until a signal is posted on the turn again
\* (delete_matching, rewrite_feedback).  Calls that overlapped on it and failed writes are
\* excepted.
ErasedFeedbackIsGone ==
    \A t \in erased :
        /\ values[t] = Nothing /\ shared[t] = Nothing
        /\ t \notin TurnsIn(file) \cup TurnsIn(rotated)
        /\ \A e \in ToSet(queue) :
              t \notin (IF e.op = "append" THEN {e.turn} ELSE TurnsIn(e.events))

\* The file after the first commands of the queue up to a rewrite, or as it is (base 0),
\* and once all of them are written.
Base(b) == IF b = 0 THEN file ELSE queue[b].events
Bases == {0} \cup {i \in DOMAIN queue : queue[i].op = "rewrite"}
From(b) == Base(b) \o SubSeq(queue, b + 1, Len(queue))
Written == From(Max(Bases))

Quiet(t) == t \notin unsure /\ \A c \in Client : t \notin client[c].turns

\* What a restart would read, once the queue is written, is what memory holds of every turn
\* that no call is on and no rotation has moved (upsert, delete_matching and
\* feedback_writer against open, which does not read the rotated copy).
RestartAgrees ==
    (backend = "file" /\ ~EndsTorn(file)) =>
        \A t \in Turn \ TurnsIn(rotated) : Quiet(t) => Replay(Written)[t] = values[t]

\* The records of a turn show its feedback as it stands, whichever came first, the record
\* or the signal, before a restart or after it (ingest_feedback, store_record,
\* reconcile_feedback).
ShownIsCurrent ==
    backend = "file" =>
        \A r \in Record : (shown[r] # None /\ Quiet(TurnOf[r])) => shown[r] = values[TurnOf[r]]
=============================================================================
