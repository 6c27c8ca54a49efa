-------------------------- MODULE AdministrationProofs --------------------------
(***************************************************************************)
(* What administrators change while requests are served.  First the control *)
(* plane: what it serves was checked, for any catalogs, routes, feed        *)
(* documents and bounds, and either failure policy.  Then the management    *)
(* API: no call acts before the line that allowed it is on the disk, for    *)
(* any keys, documents, calls, queue capacity and artifacts; and the trail  *)
(* of the artifact controller names the artifact that decides.              *)
(***************************************************************************)
EXTENDS ControlPlane, Management, TLAPS

-----------------------------------------------------------------------------
(* The control plane (ControlPlane).                                         *)

Step == {"idle", "catalog", "route", "loaded", "registered", "failed"}
AnyCatalog == Catalog \union {doc.catalog : doc \in FeedDoc \union {Nothing}}
Snap == [catalog : AnyCatalog, route : Route, by : {"files", "content", "none"}]

TypeOK ==
    /\ files \in [catalog : Catalog, route : Route,
                  manifest : [catalog : Catalog, route : Route, sound : BOOLEAN]]
    /\ loading \in [Loader -> [step : Step, catalog : Catalog, route : Route]]
    /\ active \in Snap
    /\ history \in Seq(Snap)
    /\ request \in Snap
    /\ polling \in [step : {"idle", "accepted", "validated", "failed"},
                    doc : FeedDoc \union {Nothing}, route : Route]
    /\ feed \in FeedDoc \union {Nothing}

\* The manifest on the disk, if it is sound, is one the operator wrote for its pair.
ManifestKnown ==
    files.manifest.sound => <<files.manifest.catalog, files.manifest.route>> \in signedPairs

\* What a loader is about to register or publish has passed the checks; what it is about
\* to publish is registered.
LoadedChecked ==
    \A l \in Loader :
        LET pair == <<loading[l].catalog, loading[l].route>>
        IN  /\ loading[l].step \in {"loaded", "registered"} =>
                  pair \in ValidPairs /\ pair \in signedPairs
            /\ loading[l].step = "registered" =>
                  DeploymentsOf[loading[l].route] \subseteq registered

\* What the feed is about to publish has been validated with its route, whose deployments
\* were those of the snapshot that served then.
PolledChecked ==
    polling.step = "validated" =>
        /\ <<polling.doc.catalog, polling.route>> \in ValidPairs
        /\ DeploymentsOf[polling.route] \subseteq registered

ControlInv == TypeOK /\ ManifestKnown /\ LoadedChecked /\ PolledChecked /\ SnapshotsServiceable

-----------------------------------------------------------------------------
(* ControlInit establishes the invariant. *)
LEMMA ControlInitInv == ControlInit => ControlInv
BY ControlAssumption DEF ControlInit, ControlInv, TypeOK, ManifestKnown, LoadedChecked, PolledChecked,
    SnapshotsServiceable, Serviceable, Snap, AnyCatalog, Step, Loader, Snapshot, Manifest,
    Nothing, Idle, NotPolling, NoRequest

-----------------------------------------------------------------------------
(* What serves after a publication.                                          *)

\* A publication keeps at most the snapshot it replaces and the newest kept one.
LEMMA PublishKeeps ==
    ASSUME ControlInv, NEW c \in Snap, Serviceable(c), Publish(c),
           UNCHANGED <<registered, signedPairs, request>>
    PROVE  active' \in Snap /\ history' \in Seq(Snap) /\ SnapshotsServiceable'
<1>1. CASE active = c
  BY <1>1 DEF Publish, ControlInv, TypeOK, SnapshotsServiceable, Serviceable
<1>2. CASE active # c
  <2> DEFINE kept == SubSeq(history, 1, IF history = <<>> THEN 0 ELSE 1)
  <2>1. active' = c /\ history' = <<active>> \o kept
    BY <1>2 DEF Publish
  <2>2. history \in Seq(Snap) /\ active \in Snap
    BY DEF ControlInv, TypeOK
  <2>3. /\ kept \in Seq(Snap) /\ Len(kept) <= 1
        /\ Len(kept) = 1 => Len(history) >= 1 /\ kept[1] = history[1]
    <3>1. CASE history = <<>>
      BY <3>1, <2>2
    <3>2. CASE history # <<>>
      <4>1. Len(history) \in Nat /\ Len(history) >= 1
        BY <3>2, <2>2
      <4>2. kept = SubSeq(history, 1, 1)
        BY <3>2
      <4>3. QED BY <4>1, <4>2, <2>2
    <3>3. QED BY <3>1, <3>2
  <2>4. history' \in Seq(Snap) /\ Len(history') = 1 + Len(kept)
    <3> HIDE DEF kept
    <3>1. QED BY <2>1, <2>2, <2>3
  <2>5. ASSUME NEW i \in 1 .. Len(history')
        PROVE  history'[i] = active \/ (Len(history) >= 1 /\ history'[i] = history[1])
    <3> HIDE DEF kept
    <3>1. QED BY <2>1, <2>2, <2>3, <2>4
  <2>6. ASSUME NEW i \in 1 .. Len(history')
        PROVE  Serviceable(history'[i])
    <3>1. Serviceable(active) /\ (Len(history) >= 1 => Serviceable(history[1]))
      BY <2>2 DEF ControlInv, SnapshotsServiceable
    <3>2. QED BY <3>1, <2>5
  <2>7. Serviceable(active')
    BY <2>1
  <2>8. request # NoRequest => Serviceable(request)
    BY DEF ControlInv, SnapshotsServiceable
  <2>9. QED BY <2>1, <2>4, <2>6, <2>7, <2>8 DEF SnapshotsServiceable, Serviceable
<1>3. QED BY <1>1, <1>2

\* Deployments are only ever registered, and signed pairs only added: a snapshot that was
\* serviceable stays so.
LEMMA ServiceableGrows ==
    ASSUME ControlInv, registered \subseteq registered', signedPairs \subseteq signedPairs',
           UNCHANGED <<active, history, request>>
    PROVE  SnapshotsServiceable'
BY DEF ControlInv, SnapshotsServiceable, Serviceable

-----------------------------------------------------------------------------
(* One lemma per action of the gateway, the operator and the feed host.       *)

LEMMA WriteFileKeeps ==
    ASSUME ControlInv, WriteFile
    PROVE  ControlInv'
<1>1. signedPairs \subseteq signedPairs' /\ UNCHANGED <<active, history, request, registered>>
  BY DEF WriteFile
<1>2. SnapshotsServiceable'
  BY <1>1, ServiceableGrows
<1>3. TypeOK'
  BY DEF ControlInv, TypeOK, WriteFile, Manifest
<1>4. ManifestKnown'
  BY DEF ControlInv, TypeOK, ManifestKnown, WriteFile, Manifest
<1>5. LoadedChecked' /\ PolledChecked'
  BY <1>1 DEF ControlInv, LoadedChecked, PolledChecked, WriteFile
<1>6. QED BY <1>2, <1>3, <1>4, <1>5 DEF ControlInv

LEMMA ReadCatalogKeeps ==
    ASSUME ControlInv, NEW l \in Loader, ReadCatalog(l)
    PROVE  ControlInv'
<1>1. UNCHANGED <<files, active, history, registered, request, polling, feed, signedPairs>>
  BY DEF ReadCatalog, Served, LoadKept, env
<1>2. loading' = [loading EXCEPT ![l].step = "catalog", ![l].catalog = files.catalog]
  BY DEF ReadCatalog
<1>3. TypeOK'
  <2>1. files.catalog \in Catalog /\ "catalog" \in Step
    BY DEF ControlInv, TypeOK, Step
  <2>2. loading \in [Loader -> [step : Step, catalog : Catalog, route : Route]]
    BY DEF ControlInv, TypeOK
  <2>3. loading' \in [Loader -> [step : Step, catalog : Catalog, route : Route]]
    BY <1>2, <2>1, <2>2
  <2>4. QED BY <1>1, <2>3 DEF ControlInv, TypeOK
<1>4. LoadedChecked'
  BY <1>1, <1>2 DEF ControlInv, TypeOK, LoadedChecked
<1>5. QED BY <1>1, <1>3, <1>4
       DEF ControlInv, ManifestKnown, PolledChecked, SnapshotsServiceable, Serviceable

LEMMA ReadRouteKeeps ==
    ASSUME ControlInv, NEW l \in Loader, ReadRoute(l)
    PROVE  ControlInv'
<1>1. UNCHANGED <<files, active, history, registered, request, polling, feed, signedPairs>>
  BY DEF ReadRoute, Served, LoadKept, env
<1>2. loading' = [loading EXCEPT ![l].step = "route", ![l].route = files.route]
  BY DEF ReadRoute
<1>3. TypeOK'
  BY <1>1, <1>2 DEF ControlInv, TypeOK, Step
<1>4. LoadedChecked'
  BY <1>1, <1>2 DEF ControlInv, TypeOK, LoadedChecked
<1>5. QED BY <1>1, <1>3, <1>4
       DEF ControlInv, ManifestKnown, PolledChecked, SnapshotsServiceable, Serviceable

\* The manifest names the two files as they were read, each at its own time: it is that
\* which makes the pair one the operator signed.
LEMMA LoadManifestKeeps ==
    ASSUME ControlInv, NEW l \in Loader, LoadManifest(l)
    PROVE  ControlInv'
<1> DEFINE pair == <<loading[l].catalog, loading[l].route>>
           ok == Verify(files.manifest, loading[l].catalog, loading[l].route)
                 /\ pair \in ValidPairs
<1>1. UNCHANGED <<files, active, history, registered, request, polling, feed, signedPairs>>
  BY DEF LoadManifest, Served, LoadKept, env
<1>2. loading' = [loading EXCEPT ![l].step = IF ok THEN "loaded" ELSE "failed"]
  BY DEF LoadManifest
<1>3. ok => pair \in ValidPairs /\ pair \in signedPairs
  BY DEF ControlInv, ManifestKnown, Verify
<1> HIDE DEF ok
<1>4. TypeOK'
  BY <1>1, <1>2 DEF ControlInv, TypeOK, Step
<1>5. LoadedChecked'
  <2> SUFFICES ASSUME NEW k \in Loader
               PROVE  LET p == <<loading'[k].catalog, loading'[k].route>>
                      IN  /\ loading'[k].step \in {"loaded", "registered"} =>
                                p \in ValidPairs /\ p \in signedPairs
                          /\ loading'[k].step = "registered" =>
                                DeploymentsOf[loading'[k].route] \subseteq registered
    BY <1>1 DEF LoadedChecked
  <2>1. CASE k = l
    BY <2>1, <1>2, <1>3 DEF ControlInv, TypeOK
  <2>2. CASE k # l
    BY <2>2, <1>2 DEF ControlInv, TypeOK, LoadedChecked
  <2>3. QED BY <2>1, <2>2
<1>6. QED BY <1>1, <1>4, <1>5
       DEF ControlInv, ManifestKnown, PolledChecked, SnapshotsServiceable, Serviceable

LEMMA RegisterKeeps ==
    ASSUME ControlInv, NEW l \in Loader, Register(l)
    PROVE  ControlInv'
<1>1. UNCHANGED <<files, active, history, request, polling, feed, signedPairs>>
  BY DEF Register, LoadKept, env
<1>2. /\ loading[l].step = "loaded"
      /\ registered' = registered \union DeploymentsOf[loading[l].route]
      /\ loading' = [loading EXCEPT ![l].step = "registered"]
  BY DEF Register
<1>3. TypeOK'
  BY <1>1, <1>2 DEF ControlInv, TypeOK, Step
<1>4. LoadedChecked'
  BY <1>1, <1>2 DEF ControlInv, TypeOK, LoadedChecked
<1>5. SnapshotsServiceable'
  BY <1>1, <1>2, ServiceableGrows
<1>6. PolledChecked'
  BY <1>1, <1>2 DEF ControlInv, PolledChecked
<1>7. QED BY <1>1, <1>3, <1>4, <1>5, <1>6 DEF ControlInv, ManifestKnown

LEMMA PublishLoadedKeeps ==
    ASSUME ControlInv, NEW l \in Loader, PublishLoaded(l)
    PROVE  ControlInv'
<1> DEFINE c == Snapshot(loading[l].catalog, loading[l].route, "files")
<1>1. UNCHANGED <<files, registered, request, polling, feed, signedPairs>>
  BY DEF PublishLoaded, LoadKept, env
<1>2. Publish(c) /\ loading[l].step = "registered" /\ loading' = [loading EXCEPT ![l] = Idle]
  BY DEF PublishLoaded
<1>3. c \in Snap
  BY DEF ControlInv, TypeOK, Snap, AnyCatalog, Snapshot
<1>4. Serviceable(c)
  BY <1>2 DEF ControlInv, LoadedChecked, Serviceable, Snapshot
<1>5. active' \in Snap /\ history' \in Seq(Snap) /\ SnapshotsServiceable'
  BY <1>1, <1>2, <1>3, <1>4, PublishKeeps
<1>6. TypeOK'
  BY <1>1, <1>2, <1>5, ControlAssumption DEF ControlInv, TypeOK, Idle, Step
<1>7. LoadedChecked'
  BY <1>1, <1>2 DEF ControlInv, TypeOK, LoadedChecked, Idle
<1>8. QED BY <1>1, <1>5, <1>6, <1>7 DEF ControlInv, ManifestKnown, PolledChecked

LEMMA RejectLoadKeeps ==
    ASSUME ControlInv, NEW l \in Loader, RejectLoad(l)
    PROVE  ControlInv'
<1>1. UNCHANGED <<files, active, history, registered, request, polling, feed, signedPairs>>
  BY DEF RejectLoad, LoadKept, env
<1>2. loading' = [loading EXCEPT ![l] = Idle]
  BY DEF RejectLoad
<1>3. TypeOK'
  BY <1>1, <1>2, ControlAssumption DEF ControlInv, TypeOK, Step, Idle
<1>4. LoadedChecked'
  BY <1>1, <1>2 DEF ControlInv, TypeOK, LoadedChecked, Idle
<1>5. QED BY <1>1, <1>3, <1>4
       DEF ControlInv, ManifestKnown, PolledChecked, SnapshotsServiceable, Serviceable

\* A rollback swaps what serves with the newest kept: both were serviceable.
LEMMA RollbackKeeps ==
    ASSUME ControlInv, Rollback
    PROVE  ControlInv'
<1>1. UNCHANGED <<files, loading, registered, request, polling, feed, signedPairs>>
  BY DEF Rollback, LoadKept, env
<1>2. history \in Seq(Snap) /\ active \in Snap /\ history # <<>>
  BY DEF Rollback, ControlInv, TypeOK
<1>3. active' = history[1] /\ history' = <<active>> \o Tail(history)
  BY DEF Rollback
<1>4. Len(history) \in Nat /\ Len(history) >= 1 /\ Tail(history) \in Seq(Snap)
      /\ Len(Tail(history)) = Len(history) - 1
  BY <1>2
<1>5. /\ active' \in Snap /\ history' \in Seq(Snap) /\ Len(history') = Len(history)
      /\ \A i \in 1 .. Len(history') : history'[i] = (IF i = 1 THEN active ELSE history[i])
  BY <1>2, <1>3, <1>4
<1>6. /\ Serviceable(active)
      /\ \A i \in 1 .. Len(history) : Serviceable(history[i])
      /\ request # NoRequest => Serviceable(request)
  BY DEF ControlInv, SnapshotsServiceable
<1>7. Serviceable(active') /\ \A i \in 1 .. Len(history') : Serviceable(history'[i])
  BY <1>3, <1>4, <1>5, <1>6
<1>8. SnapshotsServiceable'
  BY <1>1, <1>6, <1>7 DEF SnapshotsServiceable, Serviceable
<1>9. TypeOK'
  BY <1>1, <1>5 DEF ControlInv, TypeOK
<1>10. QED BY <1>1, <1>8, <1>9 DEF ControlInv, ManifestKnown, LoadedChecked, PolledChecked

LEMMA FeedPublishesKeeps ==
    ASSUME ControlInv, FeedPublishes
    PROVE  ControlInv'
<1>1. UNCHANGED <<files, loading, active, history, registered, request, polling, signedPairs>>
      /\ feed' \in FeedDoc
  BY DEF FeedPublishes, FeedKept
<1>2. QED BY <1>1 DEF ControlInv, TypeOK, ManifestKnown, LoadedChecked, PolledChecked,
       SnapshotsServiceable, Serviceable

\* What the poller and the requests leave alone.
LEMMA PollerKeeps ==
    ASSUME ControlInv, UNCHANGED <<files, loading, active, history, registered, request, feed,
                             signedPairs>>,
           polling' \in [step : {"idle", "accepted", "validated", "failed"},
                         doc : FeedDoc \union {Nothing}, route : Route],
           PolledChecked'
    PROVE  ControlInv'
BY DEF ControlInv, TypeOK, ManifestKnown, LoadedChecked, SnapshotsServiceable, Serviceable

LEMMA PollFeedKeeps ==
    ASSUME ControlInv, PollFeed
    PROVE  ControlInv'
<1>1. UNCHANGED <<files, loading, active, history, registered, request, feed, signedPairs>>
  BY DEF PollFeed, FeedKept
<1>2. AcceptFeed(feed) \in {"idle", "accepted", "failed"}
  BY DEF AcceptFeed
<1>3. polling' = [polling EXCEPT !.step = AcceptFeed(feed),
                     !.doc = IF AcceptFeed(feed) = "accepted" THEN feed ELSE Nothing]
  BY DEF PollFeed
<1>4. polling' \in [step : {"idle", "accepted", "validated", "failed"},
                    doc : FeedDoc \union {Nothing}, route : Route]
      /\ polling'.step # "validated"
  BY <1>2, <1>3 DEF ControlInv, TypeOK
<1>5. QED BY <1>1, <1>4, PollerKeeps DEF PolledChecked

LEMMA ValidateFeedKeeps ==
    ASSUME ControlInv, ValidateFeed
    PROVE  ControlInv'
<1> DEFINE valid == <<polling.doc.catalog, active.route>> \in ValidPairs
<1>1. UNCHANGED <<files, loading, active, history, registered, request, feed, signedPairs>>
  BY DEF ValidateFeed, FeedKept
<1>2. polling' = [polling EXCEPT !.route = active.route,
                                !.step = IF valid THEN "validated" ELSE "failed"]
  BY DEF ValidateFeed
<1>3. active.route \in Route /\ DeploymentsOf[active.route] \subseteq registered
  BY DEF ControlInv, TypeOK, Snap, SnapshotsServiceable, Serviceable
<1>4. polling' \in [step : {"idle", "accepted", "validated", "failed"},
                    doc : FeedDoc \union {Nothing}, route : Route]
  BY <1>2, <1>3 DEF ControlInv, TypeOK
<1>5. polling'.doc = polling.doc /\ polling'.route = active.route
      /\ (polling'.step = "validated" => valid)
  BY <1>2 DEF ControlInv, TypeOK
<1>6. PolledChecked'
  BY <1>1, <1>3, <1>5 DEF PolledChecked
<1>7. QED BY <1>1, <1>4, <1>6, PollerKeeps

LEMMA SwapCatalogKeeps ==
    ASSUME ControlInv, SwapCatalog
    PROVE  ControlInv'
<1> DEFINE c == Snapshot(polling.doc.catalog, polling.route, "content")
<1>1. UNCHANGED <<files, loading, registered, request, feed, signedPairs>>
      /\ Publish(c) /\ polling.step = "validated" /\ polling' = NotPolling
  BY DEF SwapCatalog, FeedKept
<1>2. c \in Snap
  <2>1. polling.doc \in FeedDoc \union {Nothing} /\ polling.route \in Route
    BY DEF ControlInv, TypeOK
  <2>2. polling.doc.catalog \in AnyCatalog
    BY <2>1 DEF AnyCatalog
  <2>3. QED BY <2>1, <2>2 DEF Snap, Snapshot
<1>3. Serviceable(c)
  BY <1>1 DEF ControlInv, PolledChecked, Serviceable, Snapshot
<1>4. active' \in Snap /\ history' \in Seq(Snap) /\ SnapshotsServiceable'
  BY <1>1, <1>2, <1>3, PublishKeeps
<1>5. NotPolling \in [step : {"idle", "accepted", "validated", "failed"},
                      doc : FeedDoc \union {Nothing}, route : Route]
      /\ NotPolling.step = "idle"
  BY ControlAssumption DEF NotPolling
<1>6. TypeOK'
  BY <1>1, <1>4, <1>5 DEF ControlInv, TypeOK
<1>7. QED BY <1>1, <1>4, <1>5, <1>6 DEF ControlInv, ManifestKnown, LoadedChecked, PolledChecked

LEMMA RejectFeedKeeps ==
    ASSUME ControlInv, RejectFeed
    PROVE  ControlInv'
<1>1. UNCHANGED <<files, loading, active, history, registered, request, feed, signedPairs>>
      /\ polling' = NotPolling
  BY DEF RejectFeed, FeedKept
<1>2. NotPolling \in [step : {"idle", "accepted", "validated", "failed"},
                      doc : FeedDoc \union {Nothing}, route : Route]
      /\ NotPolling.step = "idle"
  BY ControlAssumption DEF NotPolling
<1>3. QED BY <1>1, <1>2, PollerKeeps DEF PolledChecked

\* A request takes the snapshot that serves, whole.
LEMMA RequestKeeps ==
    ASSUME ControlInv, RequestEnters \/ RequestEnds
    PROVE  ControlInv'
<1>1. UNCHANGED <<files, loading, active, history, registered, polling, feed, signedPairs>>
      /\ request' \in {active, NoRequest}
  BY DEF RequestEnters, RequestEnds, env, Served
<1>2. NoRequest \in Snap
  BY ControlAssumption DEF NoRequest, Snap, AnyCatalog, Snapshot
<1>3. TypeOK'
  BY <1>1, <1>2 DEF ControlInv, TypeOK
<1>4. SnapshotsServiceable'
  BY <1>1 DEF ControlInv, SnapshotsServiceable, Serviceable, NoRequest
<1>5. QED BY <1>1, <1>3, <1>4 DEF ControlInv, ManifestKnown, LoadedChecked, PolledChecked

\* A restart forgets what was kept; what it loads is registered with it.
LEMMA RestartControlKeeps ==
    ASSUME ControlInv, RestartControl
    PROVE  ControlInv'
<1>1. /\ UNCHANGED <<files, feed, signedPairs>>
      /\ active' = Snapshot(files.catalog, files.route, "files")
      /\ history' = <<>> /\ request' = NoRequest
      /\ registered' = DeploymentsOf[files.route]
      /\ loading' = [l \in Loader |-> Idle] /\ polling' = NotPolling
      /\ FilesGood
  BY DEF RestartControl, env
<1>2. TypeOK'
  BY <1>1, ControlAssumption DEF ControlInv, TypeOK, Snap, AnyCatalog, Snapshot, NoRequest, Idle,
     NotPolling, Step
<1>3. <<files.catalog, files.route>> \in ValidPairs /\ <<files.catalog, files.route>> \in signedPairs
  BY <1>1 DEF ControlInv, ManifestKnown, FilesGood, Verify
<1>4. SnapshotsServiceable'
  BY <1>1, <1>3 DEF SnapshotsServiceable, Serviceable, Snapshot, NoRequest
<1>5. LoadedChecked' /\ PolledChecked'
  BY <1>1 DEF LoadedChecked, PolledChecked, Idle, NotPolling
<1>6. ManifestKnown'
  BY <1>1 DEF ControlInv, ManifestKnown
<1>7. QED BY <1>2, <1>4, <1>5, <1>6 DEF ControlInv

-----------------------------------------------------------------------------
LEMMA ControlStepKeeps ==
    ASSUME ControlInv, [ControlNext]_controlVars
    PROVE  ControlInv'
<1>1. CASE WriteFile
  BY <1>1, WriteFileKeeps
<1>2. ASSUME NEW l \in Loader, ReadCatalog(l) \/ LoadStep(l)
      PROVE  ControlInv'
  BY <1>2, ReadCatalogKeeps, ReadRouteKeeps, LoadManifestKeeps, RegisterKeeps,
     PublishLoadedKeeps, RejectLoadKeeps DEF LoadStep
<1>3. CASE Rollback
  BY <1>3, RollbackKeeps
<1>4. CASE FeedPublishes
  BY <1>4, FeedPublishesKeeps
<1>5. CASE FeedStep
  BY <1>5, PollFeedKeeps, ValidateFeedKeeps, SwapCatalogKeeps, RejectFeedKeeps DEF FeedStep
<1>6. CASE RequestEnters \/ RequestEnds
  BY <1>6, RequestKeeps
<1>7. CASE RestartControl
  BY <1>7, RestartControlKeeps
<1>8. CASE UNCHANGED controlVars
  BY <1>8 DEF controlVars, ControlInv, TypeOK, ManifestKnown, LoadedChecked, PolledChecked,
     SnapshotsServiceable, Serviceable
<1>9. QED BY <1>1, <1>2, <1>3, <1>4, <1>5, <1>6, <1>7, <1>8 DEF ControlNext

\* Every snapshot that serves, is kept for a rollback or is held by a request was checked
\* as a whole (load_control, ControlManifest::verify, poll_catalog_feed), for any catalogs,
\* routes and documents, however writes, loads, feeds, rollbacks and controlRestarts interleave.
THEOREM SnapshotsAlwaysServiceable == ControlSpec => []SnapshotsServiceable
<1>1. ControlInit => ControlInv
  BY ControlInitInv
<1>2. ControlInv /\ [ControlNext]_controlVars => ControlInv'
  BY ControlStepKeeps
<1>3. ControlInv => SnapshotsServiceable
  BY DEF ControlInv
<1>4. QED BY <1>1, <1>2, <1>3, PTL DEF ControlSpec

-----------------------------------------------------------------------------
(* The management API (Management).                                          *)

Steps == {"new", "judged", "waiting", "granted", "refused", "acted", "gone"}
Lines == [who : Call \union {System}, allowed : BOOLEAN]

CallsTyped ==
    /\ calls \in [Call -> [step : Steps, allowed : BOOLEAN]]
    /\ queue \in Seq(Lines)

KeyringsTyped == keyringFile \in KeyringDoc /\ fingerprint \in KeyringDoc

\* A line in the queue carries the verdict of the call that queued it, and a call that
\* waits, or hung up while it waited, is not judged again.
QueuedVerdicts ==
    \A i \in 1 .. Len(queue), c \in Call :
        queue[i].who = c => /\ queue[i].allowed = calls[c].allowed
                            /\ calls[c].step \notin {"new", "judged"}

\* What is granted was allowed, and its line is on the disk.
GrantedIsAudited ==
    \A c \in Call : calls[c].step \in {"granted", "acted"} => Line(c, TRUE) \in auditLog

IInv == CallsTyped /\ KeyringsTyped /\ QueuedVerdicts /\ GrantedIsAudited

-----------------------------------------------------------------------------
LEMMA InitInv == Init => IInv
BY AuthAssumption
   DEF Init, AuthInit, IInv, CallsTyped, KeyringsTyped, QueuedVerdicts, GrantedIsAudited, Steps

\* Actions of the operator, the reloader and the artifacts that touch neither call nor line.
LEMMA ElsewhereKeeps ==
    ASSUME IInv, UNCHANGED <<calls, queue, auditLog>>, KeyringsTyped'
    PROVE  IInv'
BY DEF IInv, CallsTyped, QueuedVerdicts, GrantedIsAudited

LEMMA KeyringKeeps ==
    ASSUME IInv, WriteKeyring \/ ReloadKeyring
    PROVE  IInv'
<1>1. UNCHANGED <<calls, queue, auditLog>>
  BY DEF WriteKeyring, ReloadKeyring
<1>2. KeyringsTyped'
  BY DEF WriteKeyring, ReloadKeyring, AuthKept, IInv, KeyringsTyped
<1>3. QED BY <1>1, <1>2, ElsewhereKeeps

\* The reloader's own line is nobody's verdict.
LEMMA QueueReloadLineKeeps ==
    ASSUME IInv, QueueReloadLine
    PROVE  IInv'
<1> DEFINE line == Line(System, fingerprint.sound)
<1>1. line \in Lines /\ line.who = System
  BY AuthAssumption DEF Line, Lines, IInv, KeyringsTyped
<1>2. UNCHANGED <<calls, auditLog, keyringFile, fingerprint>> /\ queue' = Append(queue, line)
  BY DEF QueueReloadLine, AuthKept
<1>3. queue \in Seq(Lines)
  BY DEF IInv, CallsTyped
<1> HIDE DEF line
<1>4. queue' \in Seq(Lines) /\ Len(queue') = Len(queue) + 1
      /\ \A i \in 1 .. Len(queue') :
            queue'[i] = (IF i = Len(queue) + 1 THEN line ELSE queue[i])
  BY <1>1, <1>2, <1>3
<1>5. ASSUME NEW i \in 1 .. Len(queue'), NEW c \in Call, queue'[i].who = c
      PROVE  /\ queue'[i].allowed = calls'[c].allowed
             /\ calls'[c].step \notin {"new", "judged"}
  <2>1. i # Len(queue) + 1
    BY <1>1, <1>4, <1>5, AuthAssumption
  <2>2. i \in 1 .. Len(queue) /\ queue'[i] = queue[i]
    BY <2>1, <1>3, <1>4
  <2>3. QED BY <2>2, <1>2, <1>5 DEF IInv, QueuedVerdicts
<1>6. QED BY <1>2, <1>4, <1>5
       DEF IInv, CallsTyped, KeyringsTyped, QueuedVerdicts, GrantedIsAudited

\* A verdict is taken once: nothing of a new call is in the queue yet.
LEMMA AuthorizeKeeps ==
    ASSUME IInv, NEW c \in Call, NEW k \in Key, Authorize(c, k)
    PROVE  IInv'
<1> DEFINE verdict == keyring.standing[k] >= Required
<1>1. /\ calls[c].step = "new" /\ UNCHANGED <<queue, auditLog, keyringFile, fingerprint>>
      /\ calls' = [calls EXCEPT ![c] = [step |-> "judged", allowed |-> verdict]]
  BY DEF Authorize, AuthKept
<1> HIDE DEF verdict
<1>2. verdict \in BOOLEAN
  BY DEF verdict
<1>3. CallsTyped'
  BY <1>1, <1>2 DEF IInv, CallsTyped, Steps
<1>4. QueuedVerdicts'
  BY <1>1 DEF IInv, CallsTyped, QueuedVerdicts
<1>5. GrantedIsAudited'
  BY <1>1 DEF IInv, CallsTyped, GrantedIsAudited
<1>6. QED BY <1>1, <1>3, <1>4, <1>5 DEF IInv, KeyringsTyped

LEMMA QueueLineKeeps ==
    ASSUME IInv, NEW c \in Call, QueueLine(c)
    PROVE  IInv'
<1> DEFINE line == Line(c, calls[c].allowed)
<1>1. /\ calls[c].step = "judged" /\ UNCHANGED <<auditLog, keyringFile, fingerprint>>
      /\ queue' = Append(queue, line)
      /\ calls' = [calls EXCEPT ![c].step = "waiting"]
  BY DEF QueueLine, AuthKept
<1>2. line \in Lines /\ line.who = c /\ line.allowed = calls[c].allowed
  BY DEF Line, Lines, IInv, CallsTyped
<1>3. queue \in Seq(Lines)
  BY DEF IInv, CallsTyped
<1> HIDE DEF line
<1>4. queue' \in Seq(Lines) /\ Len(queue') = Len(queue) + 1
      /\ \A i \in 1 .. Len(queue') :
            queue'[i] = (IF i = Len(queue) + 1 THEN line ELSE queue[i])
  BY <1>1, <1>2, <1>3
<1>5. CallsTyped'
  BY <1>1, <1>4 DEF IInv, CallsTyped, Steps
<1>6. ASSUME NEW i \in 1 .. Len(queue'), NEW d \in Call, queue'[i].who = d
      PROVE  /\ queue'[i].allowed = calls'[d].allowed
             /\ calls'[d].step \notin {"new", "judged"}
  <2>1. CASE i = Len(queue) + 1
    BY <2>1, <1>1, <1>2, <1>4, <1>6 DEF IInv, CallsTyped
  <2>2. CASE i # Len(queue) + 1
    <3>1. i \in 1 .. Len(queue) /\ queue'[i] = queue[i]
      BY <2>2, <1>3, <1>4
    <3>2. calls[d].step \notin {"new", "judged"} /\ queue[i].allowed = calls[d].allowed
      BY <3>1, <1>6 DEF IInv, QueuedVerdicts
    <3>3. d # c /\ calls'[d] = calls[d]
      BY <3>2, <1>1 DEF IInv, CallsTyped
    <3>4. QED BY <3>1, <3>2, <3>3
  <2>3. QED BY <2>1, <2>2
<1>7. GrantedIsAudited'
  BY <1>1 DEF IInv, CallsTyped, GrantedIsAudited
<1>8. QED BY <1>1, <1>5, <1>6, <1>7 DEF IInv, KeyringsTyped, QueuedVerdicts

\* The writer: a call is granted by its own line, which was allowed and is on the disk.
LEMMA WriteLineKeeps ==
    ASSUME IInv, NEW ok \in BOOLEAN, WriteLine(ok)
    PROVE  IInv'
<1> DEFINE line == Head(queue)
           next(c) == CASE calls[c].step # "waiting" -> calls[c].step
                        [] calls[c].step = "waiting" /\ ok /\ calls[c].allowed -> "granted"
                        [] OTHER -> "refused"
<1>1. queue # <<>> /\ queue' = Tail(queue) /\ queue \in Seq(Lines)
  BY DEF WriteLine, IInv, CallsTyped
<1>2. line = queue[1] /\ line \in Lines /\ 1 \in 1 .. Len(queue)
  BY <1>1
<1>3. /\ auditLog \subseteq auditLog' /\ (ok => line \in auditLog')
      /\ UNCHANGED <<keyringFile, fingerprint>>
  BY DEF WriteLine, AuthKept
<1>4. /\ queue' \in Seq(Lines)
      /\ \A i \in 1 .. Len(queue') : i + 1 \in 1 .. Len(queue) /\ queue'[i] = queue[i + 1]
  BY <1>1
<1>5. CASE line.who = System
  <2>1. UNCHANGED calls
    BY <1>5 DEF WriteLine
  <2>2. QueuedVerdicts'
    <3> HIDE DEF line
    <3>1. QED BY <2>1, <1>4 DEF IInv, QueuedVerdicts
  <2>3. CallsTyped' /\ GrantedIsAudited'
    BY <2>1, <1>3, <1>4 DEF IInv, CallsTyped, GrantedIsAudited
  <2>4. QED BY <2>2, <2>3, <1>3 DEF IInv, KeyringsTyped
<1>6. CASE line.who # System
  <2>1. line.who \in Call /\ line.allowed = calls[line.who].allowed
    BY <1>2, <1>6 DEF Lines, IInv, QueuedVerdicts
  <2>2. calls' = [calls EXCEPT ![line.who].step = next(line.who)]
    BY <1>6 DEF WriteLine
  <2>3. next(line.who) \in Steps
    BY <2>1 DEF IInv, CallsTyped, Steps
  <2>4. /\ calls' \in [Call -> [step : Steps, allowed : BOOLEAN]]
        /\ \A c \in Call : /\ calls'[c].allowed = calls[c].allowed
                           /\ calls'[c].step = (IF c = line.who THEN next(c) ELSE calls[c].step)
    BY <2>1, <2>2, <2>3 DEF IInv, CallsTyped
  <2>5. QueuedVerdicts'
    <3>1. \A c \in Call : calls[c].step \notin {"new", "judged"} =>
                          calls'[c].step \notin {"new", "judged"}
      BY <2>4
    <3>2. QED BY <3>1, <2>4, <1>4 DEF IInv, QueuedVerdicts
  <2>6. ASSUME NEW c \in Call, calls'[c].step \in {"granted", "acted"}
        PROVE  Line(c, TRUE) \in auditLog'
    <3>1. CASE calls[c].step \in {"granted", "acted"}
      BY <3>1, <1>3 DEF IInv, GrantedIsAudited
    <3>2. CASE calls[c].step \notin {"granted", "acted"}
      <4>1. c = line.who /\ ok /\ calls[c].allowed
        BY <3>2, <2>4, <2>6
      <4>2. line.who = c /\ line.allowed = TRUE
        BY <4>1, <2>1 DEF IInv, CallsTyped
      <4>3. line = Line(c, TRUE)
        BY <4>2, <1>2 DEF Line, Lines
      <4>4. QED BY <4>1, <4>3, <1>3
    <3>3. QED BY <3>1, <3>2
  <2>7. QED BY <1>3, <1>4, <2>4, <2>5, <2>6 DEF IInv, CallsTyped, KeyringsTyped, GrantedIsAudited
<1>7. QED BY <1>5, <1>6

\* A call that hangs up or acts keeps its verdict; the lines are left alone.
LEMMA LaterStepKeeps ==
    ASSUME IInv, NEW c \in Call, NEW step \in {"gone", "acted"},
           UNCHANGED <<queue, auditLog, keyringFile, fingerprint>>,
           calls' = [calls EXCEPT ![c].step = step],
           step = "acted" => calls[c].step = "granted"
    PROVE  IInv'
<1>1. CallsTyped'
  BY DEF IInv, CallsTyped, Steps
<1>2. \A d \in Call : /\ calls'[d].allowed = calls[d].allowed
                      /\ calls'[d].step = (IF d = c THEN step ELSE calls[d].step)
  BY DEF IInv, CallsTyped
<1>3. QueuedVerdicts'
  BY <1>2 DEF IInv, QueuedVerdicts
<1>4. GrantedIsAudited'
  BY <1>2 DEF IInv, GrantedIsAudited
<1>5. QED BY <1>1, <1>3, <1>4 DEF IInv, KeyringsTyped

LEMMA HangUpKeeps ==
    ASSUME IInv, NEW c \in Call, HangUp(c)
    PROVE  IInv'
BY LaterStepKeeps DEF HangUp, AuthKept

LEMMA ActedKeeps ==
    ASSUME IInv, NEW c \in Call, Acted(c)
    PROVE  IInv'
BY LaterStepKeeps DEF Acted, AuthKept

\* The queue is lost with the process, the lines on the disk are not.
LEMMA RestartKeeps ==
    ASSUME IInv, RestartAuth
    PROVE  IInv'
<1>1. /\ queue' = <<>> /\ UNCHANGED <<auditLog, keyringFile>> /\ fingerprint' = keyringFile
      /\ calls' = [c \in Call |-> IF calls[c].step \in {"new", "acted"} THEN calls[c]
                                  ELSE [calls[c] EXCEPT !.step = "gone"]]
  BY DEF RestartAuth, AuthKept
<1>2. \A c \in Call : /\ calls'[c] \in [step : Steps, allowed : BOOLEAN]
                      /\ calls'[c].step \in {"granted", "acted"} => calls[c].step = "acted"
  BY <1>1 DEF IInv, CallsTyped, Steps
<1>3. CallsTyped'
  BY <1>1, <1>2 DEF CallsTyped
<1>4. QueuedVerdicts'
  BY <1>1 DEF QueuedVerdicts
<1>5. GrantedIsAudited'
  BY <1>1, <1>2 DEF IInv, GrantedIsAudited
<1>6. QED BY <1>1, <1>3, <1>4, <1>5 DEF IInv, KeyringsTyped

-----------------------------------------------------------------------------
LEMMA StepKeeps ==
    ASSUME IInv, [Next]_vars
    PROVE  IInv'
<1>1. CASE Auth(WriteKeyring) \/ Auth(ReloadKeyring)
  BY <1>1, KeyringKeeps DEF Auth
<1>2. CASE Auth(QueueReloadLine)
  BY <1>2, QueueReloadLineKeeps DEF Auth
<1>3. ASSUME NEW c \in Call, NEW k \in Key, Auth(Authorize(c, k))
      PROVE  IInv'
  BY <1>3, AuthorizeKeeps DEF Auth
<1>4. ASSUME NEW c \in Call, Auth(QueueLine(c))
      PROVE  IInv'
  BY <1>4, QueueLineKeeps DEF Auth
<1>5. ASSUME NEW ok \in BOOLEAN, Auth(WriteLine(ok))
      PROVE  IInv'
  BY <1>5, WriteLineKeeps DEF Auth
<1>6. ASSUME NEW c \in Call, Auth(HangUp(c))
      PROVE  IInv'
  BY <1>6, HangUpKeeps DEF Auth
<1>7. ASSUME NEW c \in Call, Act(c)
      PROVE  IInv'
  BY <1>7, ActedKeeps DEF Act
<1>8. CASE Restart
  BY <1>8, RestartKeeps DEF Restart
<1>9. CASE UNCHANGED vars
  <2>1. UNCHANGED <<calls, queue, auditLog, keyringFile, fingerprint>>
    BY <1>9 DEF vars, authVars
  <2>2. QED BY <2>1, ElsewhereKeeps DEF IInv, KeyringsTyped
<1>10. QED BY <1>1, <1>2, <1>3, <1>4, <1>5, <1>6, <1>7, <1>8, <1>9 DEF Next

\* No management call acts unless the line that allowed it is on the disk
\* (ManagementAuth::authorize, audit_writer), for any keys, calls, keyrings and queue
\* capacity, whatever fails, hangs up or restarts.
THEOREM ActsAreAudited == Spec => []ActedIsAudited
<1>1. Init => IInv
  BY InitInv
<1>2. IInv /\ [Next]_vars => IInv'
  BY StepKeeps
<1>3. IInv => ActedIsAudited
  BY DEF IInv, GrantedIsAudited, ActedIsAudited
<1>4. QED BY <1>1, <1>2, <1>3, PTL DEF Spec

-----------------------------------------------------------------------------
(* The trail of the artifact controller.                                     *)

Revision == Artifact \union {None, StartActive, StartCandidate}
Naming == {"promoted", "rolled_back", "auto_rollback"}
Other == {"candidate_loaded", "killed", "enabled", "rollback_unavailable", "rollout_updated"}
AnyEvent == [action : Naming \union Other, revision : Revision]

ArtifactsTyped ==
    /\ artActive \in Revision /\ candidate \in Revision
    /\ artHistory \in Seq(Revision)
    /\ events \in Seq(AnyEvent)

TInv == ArtifactsTyped /\ AuditTellsActive

\* The trail of a start names nothing.
LEMMA StartUnnamed ==
    /\ StartEvents \in Seq(AnyEvent)
    /\ \A i \in 1 .. Len(StartEvents) : StartEvents[i].action \notin Naming
<1> DEFINE loaded == Event("candidate_loaded", StartCandidate)
           stopped == Event("killed", None)
<1>1. loaded \in AnyEvent /\ stopped \in AnyEvent
      /\ loaded.action \notin Naming /\ stopped.action \notin Naming
  BY DEF Event, AnyEvent, Revision, Naming, Other
<1> DEFINE first == IF StartCandidate = None THEN <<>> ELSE <<loaded>>
           second == IF StartKilled THEN <<stopped>> ELSE <<>>
<1>2. StartEvents = first \o second
  BY DEF StartEvents
<1> HIDE DEF loaded, stopped
<1>3. /\ first \in Seq(AnyEvent) /\ \A i \in 1 .. Len(first) : first[i].action \notin Naming
      /\ second \in Seq(AnyEvent) /\ \A i \in 1 .. Len(second) : second[i].action \notin Naming
  BY <1>1
<1> HIDE DEF first, second
<1>4. QED BY <1>2, <1>3

\* An event that names the artifact made active, or one that names none and leaves it.
LEMMA AppendTold ==
    ASSUME TInv, NEW a \in Naming \union Other, NEW r \in Revision, events' = Append(events, Event(a, r)),
           a \in Naming => artActive' = r,
           a \notin Naming => artActive' = artActive
    PROVE  events' \in Seq(AnyEvent) /\ AuditTellsActive'
<1> DEFINE e == Event(a, r)
           n == Len(events) + 1
<1>1. e \in AnyEvent /\ e.action = a /\ e.revision = r
  BY DEF Event, AnyEvent
<1>2. events \in Seq(AnyEvent) /\ events' = Append(events, e)
  BY DEF TInv, ArtifactsTyped
<1> HIDE DEF e
<1>3. /\ events' \in Seq(AnyEvent) /\ Len(events') = n /\ Len(events) \in Nat
      /\ \A i \in 1 .. n : events'[i] = (IF i = n THEN e ELSE events[i])
  BY <1>1, <1>2
<1>4. Named' = Named \union (IF a \in Naming THEN {n} ELSE {})
  BY <1>1, <1>3 DEF Named, Naming
<1>5. \A i \in Named : i \in 1 .. Len(events) /\ i < n /\ events'[i] = events[i]
  BY <1>3 DEF Named
<1>6. CASE a \in Naming
  <2>1. n \in Named' /\ events'[n].revision = r /\ \A j \in Named' : j <= n
    BY <1>1, <1>3, <1>4, <1>5, <1>6
  <2>2. QED BY <2>1, <1>3, <1>6 DEF AuditTellsActive
<1>7. CASE a \notin Naming
  <2>1. Named' = Named /\ artActive' = artActive
    BY <1>4, <1>7
  <2>2. QED BY <2>1, <1>3, <1>5 DEF TInv, AuditTellsActive
<1>8. QED BY <1>6, <1>7

LEMMA PromoteTold ==
    ASSUME TInv, Promote
    PROVE  TInv'
<1>1. /\ artActive' = candidate /\ candidate' = None
      /\ events' = Append(events, Event("promoted", candidate))
  BY DEF Promote, Audit
<1>2. artHistory' \in Seq(Revision)
  BY DEF Promote, Keep2, TInv, ArtifactsTyped
<1>3. candidate \in Revision /\ "promoted" \in Naming
  BY DEF TInv, ArtifactsTyped, Naming
<1>4. events' \in Seq(AnyEvent) /\ AuditTellsActive'
  BY <1>1, <1>3, AppendTold
<1>5. QED BY <1>1, <1>2, <1>3, <1>4 DEF TInv, ArtifactsTyped, Revision

\* A rollback, by hand or by an observation, names what it brings back.
LEMMA SwapBackTold ==
    ASSUME TInv, NEW action \in {"rolled_back", "auto_rollback"}, SwapBack(action),
           UNCHANGED candidate
    PROVE  TInv'
<1>1. artHistory \in Seq(Revision) /\ artHistory # <<>> /\ artActive \in Revision
  BY DEF SwapBack, TInv, ArtifactsTyped
<1>2. Head(artHistory) \in Revision /\ Tail(artHistory) \in Seq(Revision)
  BY <1>1
<1>3. /\ artActive' = Head(artHistory)
      /\ events' = Append(events, Event(action, Head(artHistory)))
      /\ artHistory' \in Seq(Revision)
  BY <1>1, <1>2 DEF SwapBack, Audit
<1>4. action \in Naming
  BY DEF Naming
<1>5. events' \in Seq(AnyEvent) /\ AuditTellsActive'
  BY <1>2, <1>3, <1>4, AppendTold
<1>6. QED BY <1>2, <1>3, <1>5 DEF TInv, ArtifactsTyped

LEMMA UnnamedTold ==
    ASSUME TInv, NEW a \in Other, Audit(a, None),
           UNCHANGED <<artActive, candidate, artHistory>>
    PROVE  TInv'
<1>1. events' \in Seq(AnyEvent) /\ AuditTellsActive'
  BY AppendTold DEF Audit, Revision, Naming, Other
<1>2. QED BY <1>1 DEF TInv, ArtifactsTyped

LEMMA NothingTold ==
    ASSUME TInv, UNCHANGED <<artActive, candidate, artHistory, events>>
    PROVE  TInv'
BY DEF TInv, ArtifactsTyped, AuditTellsActive, Named

LEMMA ObserveTold ==
    ASSUME TInv, NEW n, NEW breached, Observe(n, breached)
    PROVE  TInv'
<1>1. CASE SwapBack("auto_rollback") /\ UNCHANGED candidate
  BY <1>1, SwapBackTold
<1>2. CASE Audit("rollback_unavailable", None) /\ UNCHANGED <<artActive, artHistory, candidate>>
  BY <1>2, UnnamedTold DEF Other
<1>3. CASE UNCHANGED <<artActive, artHistory, events, candidate>>
  BY <1>3, NothingTold
<1>4. QED BY <1>1, <1>2, <1>3 DEF Observe

LEMMA TrailStep ==
    ASSUME TInv, [Next]_vars
    PROVE  TInv'
<1>1. ASSUME NEW c \in Call, Act(c)
      PROVE  TInv'
  <2>1. CASE Promote
    BY <2>1, PromoteTold
  <2>2. CASE RollbackArtifact
    BY <2>2, SwapBackTold DEF RollbackArtifact
  <2>3. ASSUME NEW on \in BOOLEAN, SetKillSwitch(on)
        PROVE  TInv'
    BY <2>3, UnnamedTold DEF SetKillSwitch, Other
  <2>4. ASSUME NEW r \in Rollouts, UpdateRollout(r)
        PROVE  TInv'
    BY <2>4, UnnamedTold DEF UpdateRollout, Other
  <2>5. ASSUME NEW n \in Samples, Breach(n) \/ Observe(n, FALSE)
        PROVE  TInv'
    BY <2>5, ObserveTold DEF Breach
  <2>6. CASE UNCHANGED artifactVars
    BY <2>6, NothingTold DEF artifactVars
  <2>7. QED BY <1>1, <2>1, <2>2, <2>3, <2>4, <2>5, <2>6 DEF Act, ByHand
<1>2. CASE Restart
  <2>1. /\ artActive' = StartActive /\ candidate' = StartCandidate /\ artHistory' = <<>>
        /\ events' = StartEvents
    BY <1>2 DEF Restart, RestartArtifacts
  <2>2. Named' = {}
    BY <2>1, StartUnnamed DEF Named, Naming
  <2>3. QED BY <2>1, <2>2, StartUnnamed DEF TInv, ArtifactsTyped, AuditTellsActive, Revision
<1>3. CASE UNCHANGED artifactVars
  BY <1>3, NothingTold DEF artifactVars
<1>4. CASE UNCHANGED vars
  BY <1>4, <1>3 DEF vars
<1>5. QED BY <1>1, <1>2, <1>3, <1>4 DEF Next, Auth

\* The controller's trail names the artifact that decides (ArtifactController::promote,
\* rollback, observe_and_maybe_rollback), for any artifacts, rollouts and observations.
THEOREM TrailTellsActive == Spec => []AuditTellsActive
<1>1. Init => TInv
  <2>1. ASSUME ArtifactInit
        PROVE  TInv
    <3>1. events = StartEvents /\ Named = {}
      BY <2>1, StartUnnamed DEF ArtifactInit, Named, Naming
    <3>2. QED BY <2>1, <3>1, StartUnnamed
           DEF ArtifactInit, TInv, ArtifactsTyped, AuditTellsActive, Revision
  <2>2. QED BY <2>1 DEF Init
<1>2. TInv /\ [Next]_vars => TInv'
  BY TrailStep
<1>3. TInv => AuditTellsActive
  BY DEF TInv
<1>4. QED BY <1>1, <1>2, <1>3, PTL DEF Spec
=============================================================================
