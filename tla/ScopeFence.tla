------------------------------- MODULE ScopeFence -------------------------------
(***************************************************************************)
(* Task and session bindings of one tenant (binding.rs), the generations    *)
(* that fence them and the decision records against deletions (request_-    *)
(* governance, commit_task_binding and the deletion handlers in main.rs,    *)
(* record.rs, shared_state.rs), on either backend.  A request reads the     *)
(* generations when it is admitted and presents them when its response is   *)
(* over; a deletion is four awaited calls.  Every method of a memory        *)
(* repository (under its lock) and every Redis script is one step.          *)
(*                                                                         *)
(* An identity stands for all that a binding's identity is compared by:     *)
(* model, provider, api, prompt profile and toolset.  A request makes one   *)
(* record, under its own decision id.                                       *)
(***************************************************************************)
EXTENDS Integers, FiniteSets, FiniteSetsExt

CONSTANTS
    Request,
    Deleter,     \* handlers that delete a task's or the tenant's records
    Task, Session, NoTask,
    Tenant,      \* the tenant as a deletion's scope
    Identity,
    NoBinding,
    Backends,    \* which backends the gateway may run on
    Capacity,    \* --task-binding-capacity, of the memory backend
    MaxDeletions, \* bound: deletions in the life of the generations
    MaxRestarts   \* bound: restarts of a gateway on the memory backend

Key == Task \cup Session
Scope == Task \cup {Tenant}

ASSUME ConstantsAssumption ==
    /\ Task \cap Session = {}
    /\ NoTask \notin Key /\ Tenant \notin Key \cup {NoTask}
    /\ Backends \subseteq {"memory", "redis"}
    /\ Capacity \in Nat \ {0}
    /\ MaxDeletions \in Nat /\ MaxRestarts \in Nat

VARIABLES
    backend,
    restarts,
    tenant_generation,
    task_generation,
    bindings,
    records,          \* the requests whose record is stored
    request,
    deleter,
    gone              \* history: stored records a finished deletion was to remove

vars == <<backend, restarts, tenant_generation, task_generation, bindings, records,
          request, deleter, gone>>

generations == <<tenant_generation, task_generation>>

-----------------------------------------------------------------------------

Binding == [by : Request, task : Task, identity : Identity, generation : Nat]

Reason == {"routed", "bound", "migration", "fallback"}

\* new; admitted: the generations are read; routed: the binding is looked up;
\* served; storing: its record is next.
RequestState ==
    [phase : {"new", "admitted", "routed", "served", "storing", "ended"},
     primary : BOOLEAN,             \* binding_skip_reason is None
     task : Task \cup {NoTask}, key : Key \cup {NoTask},
     tenant_generation : Nat, task_generation : Nat,
     identity : Identity \cup {NoBinding}, reason : Reason,
     crossed : BOOLEAN]             \* history: a deletion of its scope began since

DeleterState ==
    [phase : {"idle", "listed", "fenced", "erasing"}, scope : Scope,
     listed : SUBSET Request, before : Nat,
     doomed : SUBSET Request]       \* history: the records stored when it fenced

NewRequest == [phase |-> "new", primary |-> FALSE, task |-> NoTask, key |-> NoTask,
               tenant_generation |-> 0, task_generation |-> 0, identity |-> NoBinding,
               reason |-> "routed", crossed |-> FALSE]

IdleDeleter == [phase |-> "idle", scope |-> Tenant, listed |-> {}, before |-> 0, doomed |-> {}]

TaskGeneration(task) == IF task = NoTask THEN 0 ELSE task_generation[task]

\* BUG (for a mutant): a deletion of the tenant does not stop a write.
FreshTaskOnly(r) == request[r].task_generation = TaskGeneration(request[r].task)

\* The fence of put and of put_record: the generations are the request's still.
Fresh(r) ==
    /\ request[r].tenant_generation = tenant_generation
    /\ request[r].task_generation = TaskGeneration(request[r].task)

\* A request whose binding is behind it: its record is next, or nothing is.
Past(r, phase) ==
    [request[r] EXCEPT !.phase = phase, !.primary = FALSE, !.key = NoTask,
                       !.identity = NoBinding, !.reason = "routed"]

InScope(r, scope) == scope = Tenant \/ request[r].task = scope

Init ==
    /\ backend \in Backends
    /\ restarts = 0
    /\ tenant_generation = 0
    /\ task_generation = [t \in Task |-> 0]
    /\ bindings = [k \in Key |-> NoBinding]
    /\ records = {}
    /\ request = [r \in Request |-> NewRequest]
    /\ deleter = [d \in Deleter |-> IdleDeleter]
    /\ gone = {}

-----------------------------------------------------------------------------
(* A request.                                                                *)

\* request_governance.  A primary call carries a task, and is bound by its
\* session if it carries one; of another call's task only the record tells.
Admit(r, primary, task, key) ==
    /\ request[r].phase = "new"
    /\ primary => task # NoTask /\ key \in Session \cup {task}
    /\ ~primary => key = NoTask
    /\ request' = [request EXCEPT ![r] = [NewRequest EXCEPT
           !.phase = "admitted", !.primary = primary, !.task = task, !.key = key,
           !.tenant_generation = tenant_generation,
           !.task_generation = TaskGeneration(task)]]
    /\ UNCHANGED <<backend, restarts, generations, bindings, records, deleter, gone>>

\* apply_task_binding: no binding, or the bound identity (a task's binding does not
\* look at the context), or a migration, or a rejection.
Lookup(r) ==
    LET key == request[r].key
        Routed(identity, reason) ==
            request' = [request EXCEPT ![r].phase = "routed", ![r].identity = identity,
                                       ![r].reason = reason]
    IN  /\ request[r].phase = "admitted"
        /\ IF ~request[r].primary \/ bindings[key] = NoBinding
           THEN \E identity \in Identity : Routed(identity, "routed")
           ELSE \/ \E identity \in Identity :
                     /\ key \in Session => identity = bindings[key].identity
                     /\ Routed(identity, "bound")
                \/ \E identity \in Identity : Routed(identity, "migration")
                \/ request' = [request EXCEPT ![r] = Past(r, "ended")]
        /\ UNCHANGED <<backend, restarts, generations, bindings, records, deleter, gone>>

\* The request is served, by the tier it was routed to or by a fallback's
\* (adopt_served_tier), or fails and leaves only its record.
Serve(r) ==
    /\ request[r].phase = "routed"
    /\ \/ request' = [request EXCEPT ![r].phase = "served"]
       \/ \E identity \in Identity :
            request' = [request EXCEPT ![r].phase = "served", ![r].identity = identity,
                                       ![r].reason = "fallback"]
       \/ request' = [request EXCEPT ![r] = Past(r, "storing")]
    /\ UNCHANGED <<backend, restarts, generations, bindings, records, deleter, gone>>

\* BUG (for a mutant): every caller may migrate.
AlwaysMigrates(r) == TRUE

\* commit_task_binding's allow_migration.
AllowsMigration(r) == request[r].reason \in {"migration", "fallback"}

\* What put leaves under the key: created, refreshed, migrated or a conflict.
Written(r, current) ==
    LET new == [by |-> r, task |-> request[r].task, identity |-> request[r].identity,
                generation |-> 1]
    IN  CASE current = NoBinding -> new
          [] current # NoBinding /\ current.identity = new.identity
                -> [new EXCEPT !.generation = current.generation]
          [] current # NoBinding /\ current.identity # new.identity /\ AllowsMigration(r)
                -> [new EXCEPT !.generation = current.generation + 1]
          [] OTHER -> current

Bound == {k \in Key : bindings[k] # NoBinding}

\* The memory repository makes room for a new key: the oldest, left open here.
Evicted(key) ==
    IF backend = "memory" /\ bindings[key] = NoBinding /\ Cardinality(Bound) >= Capacity
    THEN {{k} : k \in Bound} ELSE {{}}

\* commit_task_binding: a stale scope fails the request after it was served.
Commit(r) ==
    LET key == request[r].key
        To(phase) == request' = [request EXCEPT ![r] = Past(r, phase)]
    IN  /\ request[r].phase = "served"
        /\ \/ ~request[r].primary /\ To("storing") /\ UNCHANGED bindings
           \/ request[r].primary /\ ~Fresh(r) /\ To("ended") /\ UNCHANGED bindings
           \/ /\ request[r].primary /\ Fresh(r) /\ To("storing")
              /\ \E evicted \in Evicted(key) :
                   bindings' = [k \in Key |-> IF k = key THEN Written(r, bindings[k])
                                             ELSE IF k \in evicted THEN NoBinding
                                             ELSE bindings[k]]
        /\ UNCHANGED <<backend, restarts, generations, records, deleter, gone>>

\* store_record: only the Redis repository looks at the generations.
Store(r) ==
    /\ request[r].phase = "storing"
    /\ request' = [request EXCEPT ![r] = Past(r, "ended")]
    /\ records' = IF backend = "memory" \/ Fresh(r) THEN records \cup {r} ELSE records
    /\ UNCHANGED <<backend, restarts, generations, bindings, deleter, gone>>

-----------------------------------------------------------------------------
(* Deletions.                                                                *)

\* delete_task_records and delete_tenant_records: the records are listed,
List(d, scope) ==
    /\ deleter[d].phase = "idle"
    /\ deleter' = [deleter EXCEPT ![d] = [IdleDeleter EXCEPT
           !.phase = "listed", !.scope = scope,
           !.listed = {r \in records : InScope(r, scope)}]]
    /\ UNCHANGED <<backend, restarts, generations, bindings, records, request, gone>>

Crossed(scope) ==
    [r \in Request |-> IF InScope(r, scope) /\ request[r].phase # "new"
                       THEN [request[r] EXCEPT !.crossed = TRUE] ELSE request[r]]

\* BUG (for a mutant): the bindings of a deleted scope stay.
UnboundNothing(scope) == bindings

\* The bindings that remove_tenant and remove_task leave.
Unbound(scope) ==
    [k \in Key |-> IF bindings[k] # NoBinding /\ (scope = Tenant \/ bindings[k].task = scope)
                   THEN NoBinding ELSE bindings[k]]

\* remove_tenant and remove_task: the generation and the bindings, at once.
RemoveBindings(scope) ==
    /\ tenant_generation + MapThenSumSet(TaskGeneration, Task) < MaxDeletions
    /\ IF scope = Tenant
       THEN /\ tenant_generation' = tenant_generation + 1
            /\ UNCHANGED task_generation
       ELSE /\ task_generation' = [task_generation EXCEPT ![scope] = @ + 1]
            /\ UNCHANGED tenant_generation
    /\ bindings' = Unbound(scope)
    /\ request' = Crossed(scope)

\* then the scope is fenced,
Fence(d) ==
    LET scope == deleter[d].scope
    IN  /\ deleter[d].phase = "listed"
        /\ RemoveBindings(scope)
        /\ deleter' = [deleter EXCEPT ![d].phase = "fenced",
                                      ![d].doomed = {r \in records : InScope(r, scope)}]
        /\ UNCHANGED <<backend, restarts, records, gone>>

\* the generation read back,
ReadGeneration(d) ==
    /\ deleter[d].phase = "fenced"
    /\ deleter' = [deleter EXCEPT ![d].phase = "erasing",
           ![d].before = IF deleter[d].scope = Tenant THEN tenant_generation
                         ELSE task_generation[deleter[d].scope]]
    /\ UNCHANGED <<backend, restarts, generations, bindings, records, request, gone>>

\* delete_local's predicate.
Older(d) ==
    {r \in records : /\ InScope(r, deleter[d].scope)
                     /\ (IF deleter[d].scope = Tenant THEN request[r].tenant_generation
                         ELSE request[r].task_generation) < deleter[d].before}

\* and the records erased: the local ones by generation, those in Redis by id.
Erase(d) ==
    /\ deleter[d].phase = "erasing"
    /\ records' = records \ (IF backend = "memory" THEN Older(d) ELSE deleter[d].listed)
    /\ gone' = gone \cup deleter[d].doomed
    /\ deleter' = [deleter EXCEPT ![d] = IdleDeleter]
    /\ UNCHANGED <<backend, restarts, generations, bindings, request>>

\* delete_task_binding: the binding alone, fenced all the same.
Unbind(task) ==
    /\ RemoveBindings(task)
    /\ UNCHANGED <<backend, restarts, records, deleter, gone>>

\* delete_session_binding: remove, in the memory repository also of a generation
\* under the session's key, with which no request is compared.
UnbindSession(session) ==
    /\ bindings[session] # NoBinding
    /\ bindings' = [bindings EXCEPT ![session] = NoBinding]
    /\ UNCHANGED <<backend, restarts, generations, records, request, deleter, gone>>

\* Redis expires a binding.
Expire(key) ==
    /\ backend = "redis"
    /\ bindings[key] # NoBinding
    /\ bindings' = [bindings EXCEPT ![key] = NoBinding]
    /\ UNCHANGED <<backend, restarts, generations, records, request, deleter, gone>>

\* BUG (for a mutant): the file keeps the generations of its records.
ReloadedWithGenerations(r) == Past(r, "ended")

\* What RecordStore::open knows of a request: its record's generations are not in the
\* file, and are those of a new repository.
Reloaded(r) ==
    [Past(r, "ended") EXCEPT !.tenant_generation = 0, !.task_generation = 0]

\* A gateway on the memory backend restarts with its --records file: the records
\* are replayed, everything else is new.
Restart ==
    /\ backend = "memory"
    /\ restarts < MaxRestarts
    /\ restarts' = restarts + 1
    /\ tenant_generation' = 0
    /\ task_generation' = [t \in Task |-> 0]
    /\ bindings' = [k \in Key |-> NoBinding]
    /\ request' = [r \in Request |-> IF request[r].phase = "new" THEN NewRequest
                                     ELSE Reloaded(r)]
    /\ deleter' = [d \in Deleter |-> IdleDeleter]
    /\ UNCHANGED <<backend, records, gone>>

Next ==
    \/ \E r \in Request, primary \in BOOLEAN, task \in Task \cup {NoTask}, key \in Key \cup {NoTask} :
          Admit(r, primary, task, key)
    \/ \E r \in Request : Lookup(r) \/ Serve(r) \/ Commit(r) \/ Store(r)
    \/ \E d \in Deleter, scope \in Scope : List(d, scope)
    \/ \E d \in Deleter : Fence(d) \/ ReadGeneration(d) \/ Erase(d)
    \/ \E task \in Task : Unbind(task)
    \/ \E session \in Session : UnbindSession(session)
    \/ \E key \in Key : Expire(key)
    \/ Restart

Spec == Init /\ [][Next]_vars

-----------------------------------------------------------------------------
(* Properties.                                                               *)

\* Every variable has its type.
TypeOK ==
    /\ backend \in {"memory", "redis"}
    /\ restarts \in 0..MaxRestarts
    /\ tenant_generation \in Nat
    /\ task_generation \in [Task -> Nat]
    /\ bindings \in [Key -> Binding \cup {NoBinding}]
    /\ backend = "memory" => Cardinality(Bound) <= Capacity
    /\ records \subseteq Request
    /\ request \in [Request -> RequestState]
    /\ deleter \in [Deleter -> DeleterState]
    /\ gone \subseteq Request

\* "TTL plus tenant/task tombstone generations prevent resurrection"
\* (docs/redis-consistency-matrix.md:11): no binding was written by a request that
\* was admitted before a deletion of its task or of its tenant.
NoBindingResurrected ==
    \A k \in Bound : ~request[bindings[k].by].crossed

\* "A stale in-flight decision cannot overwrite the model established by an
\* earlier successful call" (docs/gateway-m0.md:301): what a binding binds to
\* changes only with its generation, and at the hands of a request that found a
\* binding to migrate from or was served by a fallback.
FirstSuccessWins ==
    [][\A k \in Bound :
         (bindings'[k] # NoBinding /\ bindings'[k].identity # bindings[k].identity) =>
            /\ bindings'[k].generation = bindings[k].generation + 1
            /\ request[bindings'[k].by].reason \notin {"routed", "bound"}]_vars

\* "a request in flight when a tenant or task was deleted cannot resurrect it"
\* (docs/test-coverage-plan.md:255), as Redis does it: a request that a deletion
\* crossed stores no record any more.
CrossedStoresNothing ==
    [][backend = "redis" =>
         \A r \in Request : request[r].crossed /\ r \notin records => r \notin records']_vars

\* A record that was stored when a deletion of its scope took effect is not there
\* when the deletion has been answered, nor ever after: in memory, whether the
\* process that deletes made the record or replayed it (delete_local, and the
\* generations that a DecisionRecord keeps out of its file).
DeletionRemoves == backend = "memory" => gone \cap records = {}

\* The same promise on either backend.
DeletedRecordsGone == gone \cap records = {}
=============================================================================
