------------------------------ MODULE ControlPlane ------------------------------
(***************************************************************************)
(* The gateway's control plane (control.rs, catalog_feed.rs and the tasks  *)
(* of main.rs that drive them): which catalog and route serve.  A snapshot *)
(* is published by three writers that do not know of each other: the timer *)
(* and the administrator, who load the operator's three files, and the     *)
(* feed, which replaces the catalog under the live route.                  *)
(*                                                                         *)
(* Catalogs, routes and feed documents are opaque values.  A revision is   *)
(* the hash of what it names: two snapshots have the same revision exactly *)
(* when they have the same catalog and route and were made the same way (a *)
(* manifest hashes the files, from_validated hashes the parsed content).   *)
(***************************************************************************)
EXTENDS Integers, Sequences, FiniteSets, SequencesExt

CONSTANTS
    Catalog, Route,     \* what the operator may write into the files
    ValidPairs,         \* RouteConfig::validate accepts the route on the catalog
    DeploymentsOf,      \* [Route -> set of deployments]
    Speakable,          \* the catalogs whose wire formats are all installed
    Start,              \* the pair <<catalog, route>> of the files at the start
    FeedDoc,            \* feed documents: [at, catalog, signed]
    Floor,              \* BUNDLED_CATALOG_PUBLISHED_AT
    FailurePolicy,      \* "last_good" or "fail_closed"
    MaxWrites,          \* bound on the operator's writes of a file
    MaxFeeds,           \* bound on the feed documents the host puts up
    MaxCalls,           \* bound on the administrator's refreshes and rollbacks
    MaxControlRestarts  \* bound on the restarts

ASSUME ControlAssumption ==
    /\ Start \in ValidPairs /\ Start \in Catalog \X Route
    /\ FailurePolicy \in {"last_good", "fail_closed"}

VARIABLES
    files,              \* the three files: [catalog, route, manifest]
    writes,             \* writes so far
    loading,            \* what each loader has in hand
    active, history,    \* ControlState
    lastError,          \* is ControlState.last_error set
    registered,         \* the deployments CapacityManager knows
    feed,               \* the document the feed host serves
    feeds,              \* documents the host has put up
    polling,            \* what the feed poller has in hand
    activePublishedAt,  \* the poller's local of that name, 0 for None
    signedPairs,        \* history: the pairs of every sound manifest written
    request,            \* the snapshot a request in flight took at its entry
    adminCalls, controlRestarts


controlVars == <<files, writes, loading, active, history, lastError, registered, feed, feeds,
                 polling, activePublishedAt, signedPairs, request, adminCalls, controlRestarts>>
env == <<files, writes, feed, feeds, signedPairs>>

Loader == {"timer", "admin"}
Snapshot(c, r, by) == [catalog |-> c, route |-> r, by |-> by]
Manifest(c, r, sound) == [catalog |-> c, route |-> r, sound |-> sound]
Nothing == [at |-> 0, catalog |-> Start[1], signed |-> FALSE]
Idle == [step |-> "idle", catalog |-> Start[1], route |-> Start[2]]
NotPolling == [step |-> "idle", doc |-> Nothing, route |-> Start[2]]

NoRequest == Snapshot(Start[1], Start[2], "none")

ControlInit ==
    /\ files = [catalog |-> Start[1], route |-> Start[2],
                manifest |-> Manifest(Start[1], Start[2], TRUE)]
    /\ writes = 0 /\ feeds = 0 /\ adminCalls = 0 /\ controlRestarts = 0
    /\ loading = [l \in Loader |-> Idle]
    /\ active = Snapshot(Start[1], Start[2], "files")
    /\ history = <<>>
    /\ lastError = FALSE
    /\ registered = DeploymentsOf[Start[2]]
    /\ feed = Nothing
    /\ polling = NotPolling
    /\ activePublishedAt = 0
    /\ signedPairs = {Start}
    /\ request = NoRequest

----------------------------------------------------------------------------
(* The operator replaces the files one at a time, in any order.            *)

WriteFile ==
    /\ writes < MaxWrites
    /\ writes' = writes + 1
    /\ \/ \E c \in Catalog : files' = [files EXCEPT !.catalog = c] /\ UNCHANGED signedPairs
       \/ \E r \in Route : files' = [files EXCEPT !.route = r] /\ UNCHANGED signedPairs
       \/ \E c \in Catalog, r \in Route, sound \in BOOLEAN :
            /\ files' = [files EXCEPT !.manifest = Manifest(c, r, sound)]
            /\ signedPairs' = IF sound THEN signedPairs \union {<<c, r>>} ELSE signedPairs
    /\ UNCHANGED <<loading, active, history, lastError, registered, feed, feeds,
                   polling, activePublishedAt, request, adminCalls, controlRestarts>>

----------------------------------------------------------------------------
(* A load: three reads, the checks, registration of the deployments, then  *)
(* the swap.  Timer and administrator run the same code.                   *)

LoadKept == UNCHANGED <<env, polling, activePublishedAt, request, controlRestarts>>
Served == <<active, history, lastError, registered>>

ReadCatalog(l) ==
    /\ loading[l].step = "idle"
    /\ IF l = "admin"
         THEN adminCalls < MaxCalls /\ adminCalls' = adminCalls + 1
         ELSE UNCHANGED adminCalls
    /\ loading' = [loading EXCEPT ![l].step = "catalog", ![l].catalog = files.catalog]
    /\ UNCHANGED Served /\ LoadKept

ReadRoute(l) ==
    /\ loading[l].step = "catalog"
    /\ loading' = [loading EXCEPT ![l].step = "route", ![l].route = files.route]
    /\ UNCHANGED <<Served, adminCalls>> /\ LoadKept

(* Mutant: the route's hash is not compared. *)
VerifyCatalogOnly(m, c, r) == m.sound /\ m.catalog = c

(* ControlManifest::verify: schema, revision and signature are its         *)
(* soundness; the hashes must be those of the bytes read.                  *)
Verify(m, c, r) == m.sound /\ m.catalog = c /\ m.route = r

LoadManifest(l) ==
    LET held == loading[l]
        ok == /\ Verify(files.manifest, held.catalog, held.route)
              /\ <<held.catalog, held.route>> \in ValidPairs
    IN  /\ held.step = "route"
        /\ loading' = [loading EXCEPT ![l].step = IF ok THEN "loaded" ELSE "failed"]
        /\ UNCHANGED <<Served, adminCalls>> /\ LoadKept

Register(l) ==
    /\ loading[l].step = "loaded"
    /\ registered' = registered \union DeploymentsOf[loading[l].route]
    /\ loading' = [loading EXCEPT ![l].step = "registered"]
    /\ UNCHANGED <<active, history, lastError, adminCalls>> /\ LoadKept

(* Mutant: a revision that was replaced once is not published again. *)
PublishOnce(candidate) ==
    /\ lastError' = FALSE
    /\ IF active = candidate \/ Contains(history, candidate)
         THEN UNCHANGED <<active, history>>
         ELSE /\ active' = candidate
              /\ history' = <<active>> \o SubSeq(history, 1, IF history = <<>> THEN 0 ELSE 1)

(* ControlPlane::publish: the same revision only clears the error; another *)
(* one replaces the active snapshot, and the two before it are kept.       *)
Publish(candidate) ==
    /\ lastError' = FALSE
    /\ IF active = candidate
         THEN UNCHANGED <<active, history>>
         ELSE /\ active' = candidate
              /\ history' = <<active>> \o SubSeq(history, 1, IF history = <<>> THEN 0 ELSE 1)

PublishLoaded(l) ==
    /\ loading[l].step = "registered"
    /\ Publish(Snapshot(loading[l].catalog, loading[l].route, "files"))
    /\ loading' = [loading EXCEPT ![l] = Idle]
    /\ UNCHANGED <<registered, adminCalls>> /\ LoadKept

RejectLoad(l) ==
    /\ loading[l].step = "failed"
    /\ lastError' = TRUE
    /\ loading' = [loading EXCEPT ![l] = Idle]
    /\ UNCHANGED <<active, history, registered, adminCalls>> /\ LoadKept

LoadStep(l) == \/ ReadRoute(l) \/ LoadManifest(l) \/ Register(l)
               \/ PublishLoaded(l) \/ RejectLoad(l)

(* ControlPlane::rollback swaps the active snapshot with the newest kept;  *)
(* with none kept the call is refused and changes nothing.                 *)
Rollback ==
    /\ adminCalls < MaxCalls /\ adminCalls' = adminCalls + 1
    /\ history # <<>>
    /\ active' = Head(history)
    /\ history' = <<active>> \o Tail(history)
    /\ lastError' = FALSE
    /\ UNCHANGED <<loading, registered>> /\ LoadKept

----------------------------------------------------------------------------
(* The feed.                                                               *)

FeedKept == UNCHANGED <<files, writes, loading, registered, signedPairs, request,
                        adminCalls, controlRestarts>>

FeedPublishes ==
    /\ feeds < MaxFeeds
    /\ \E doc \in FeedDoc : feed' = doc
    /\ feeds' = feeds + 1
    /\ UNCHANGED <<active, history, lastError, polling, activePublishedAt>> /\ FeedKept

(* check_rollback: strictly newer than the bundled floor and than the last *)
(* document this process applied.                                          *)
Newer(doc) == doc.at > (IF activePublishedAt > Floor THEN activePublishedAt ELSE Floor)

(* accept_feed: the signature, then the rollback floor (a document that is *)
(* not newer is the steady state), then the catalog's transports.          *)
AcceptFeed(doc) ==
    CASE ~doc.signed -> "failed"
      [] doc.signed /\ ~Newer(doc) -> "idle"
      [] OTHER -> IF doc.catalog \in Speakable THEN "accepted" ELSE "failed"

PollFeed ==
    /\ feeds > 0
    /\ polling.step = "idle"
    /\ polling' = [polling EXCEPT !.step = AcceptFeed(feed),
                     !.doc = IF AcceptFeed(feed) = "accepted" THEN feed ELSE Nothing]
    /\ UNCHANGED <<active, history, lastError, feed, feeds, activePublishedAt>> /\ FeedKept

(* poll_catalog_feed takes the live route and validates it on the new      *)
(* catalog ...                                                             *)
ValidateFeed ==
    /\ polling.step = "accepted"
    /\ polling' = [polling EXCEPT
         !.route = active.route,
         !.step = IF <<polling.doc.catalog, active.route>> \in ValidPairs
                    THEN "validated" ELSE "failed"]
    /\ UNCHANGED <<active, history, lastError, feed, feeds, activePublishedAt>> /\ FeedKept

(* ... and publishes that route, whatever has been published since.        *)
SwapCatalog ==
    /\ polling.step = "validated"
    /\ Publish(Snapshot(polling.doc.catalog, polling.route, "content"))
    /\ activePublishedAt' = polling.doc.at
    /\ polling' = NotPolling
    /\ UNCHANGED <<feed, feeds>> /\ FeedKept

RejectFeed ==
    /\ polling.step = "failed"
    /\ lastError' = TRUE
    /\ polling' = NotPolling
    /\ UNCHANGED <<active, history, feed, feeds, activePublishedAt>> /\ FeedKept

FeedStep == PollFeed \/ ValidateFeed \/ SwapCatalog \/ RejectFeed

----------------------------------------------------------------------------
(* with_active_control: a request keeps the snapshot it entered with until *)
(* it ends.                                                                *)

RequestEnters ==
    /\ request = NoRequest
    /\ request' = active
    /\ UNCHANGED <<env, loading, Served, polling, activePublishedAt, adminCalls, controlRestarts>>

RequestEnds ==
    /\ request # NoRequest
    /\ request' = NoRequest
    /\ UNCHANGED <<env, loading, Served, polling, activePublishedAt, adminCalls, controlRestarts>>

(* A restart loads the files again (load_control); a process whose files   *)
(* do not pass does not start.                                             *)
FilesGood ==
    /\ Verify(files.manifest, files.catalog, files.route)
    /\ <<files.catalog, files.route>> \in ValidPairs

RestartControl ==
    /\ controlRestarts < MaxControlRestarts /\ controlRestarts' = controlRestarts + 1
    /\ FilesGood
    /\ active' = Snapshot(files.catalog, files.route, "files")
    /\ history' = <<>>
    /\ lastError' = FALSE
    /\ registered' = DeploymentsOf[files.route]
    /\ loading' = [l \in Loader |-> Idle]
    /\ polling' = NotPolling
    /\ activePublishedAt' = 0
    /\ request' = NoRequest
    /\ UNCHANGED <<env, adminCalls>>

ControlNext ==
    \/ WriteFile
    \/ \E l \in Loader : ReadCatalog(l) \/ LoadStep(l)
    \/ Rollback
    \/ FeedPublishes
    \/ FeedStep
    \/ RequestEnters
    \/ RequestEnds
    \/ RestartControl

(* The gateway's own tasks run: the timer (and a refresh once begun) and   *)
(* the feed poller.  Nothing is asked of operator, administrator or host.  *)
ControlFairness ==
    /\ WF_controlVars(ReadCatalog("timer"))
    /\ \A l \in Loader : WF_controlVars(LoadStep(l))
    /\ WF_controlVars(FeedStep)

ControlSpec == ControlInit /\ [][ControlNext]_controlVars /\ ControlFairness

(* ControlPlane::status, without a required revision. *)
Ready == lastError => FailurePolicy = "last_good"

----------------------------------------------------------------------------
(* Every snapshot that serves, could be rolled back to or is held by a     *)
(* request is one the gateway checked as a whole: its route is valid on    *)
(* its catalog, files were never mixed (the pair is that of a sound        *)
(* manifest, though three files are read one after the other while the     *)
(* operator writes them), and its deployments are registered before a      *)
(* request can be routed to them.                                          *)
Serviceable(s) ==
    /\ <<s.catalog, s.route>> \in ValidPairs
    /\ s.by = "files" => <<s.catalog, s.route>> \in signedPairs
    /\ DeploymentsOf[s.route] \subseteq registered

SnapshotsServiceable ==
    /\ Serviceable(active)
    /\ \A i \in 1 .. Len(history) : Serviceable(history[i])
    /\ request # NoRequest => Serviceable(request)

(* The files win: once they are whole and stay so, and administrator and   *)
(* feed have stopped, the snapshot that serves is theirs, whatever was     *)
(* rolled back to or swapped in by the feed before.                        *)
ReloadWins == <>[]FilesGood => <>[](active = Snapshot(files.catalog, files.route, "files"))

(* run_catalog_feed_sync says of a feed that fails: "A feed outage must    *)
(* never take routing down with it".                                       *)
FeedOutageKeepsReady == [][RejectFeed /\ Ready => Ready']_controlVars
============================================================================
