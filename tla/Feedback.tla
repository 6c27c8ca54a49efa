------------------------------ MODULE Feedback ------------------------------
(***************************************************************************)
(* The feedback on a turn: signals posted or piggybacked on a request, one   *)
(* strength per kind, kept in memory and in a file (persistence.rs) or in   *)
(* Redis (shared_state.rs), shown on the records of the turn, and erased    *)
(* with the last of these records.                                          *)
(*                                                                         *)
(* A client is one API call: feedback or the signals of a request (post),   *)
(* the storing of a decision record (store), a deletion of records (erase). *)
(* Records have a file of their own (RecordStore); here a record survives a *)
(* restart wherever feedback does.                                          *)
(***************************************************************************)
EXTENDS Integers, Sequences, SequencesExt, FiniteSets

CONSTANTS
    None,
    Turn, Record, TurnOf,
    Posts,              \* the calls that may be made: sequences of [turn, signals], a
                        \* strength or None for each kind
    Erasures,           \* the deletions: [records, whole], whole for a tenant's
    Client,
    QueueCapacity,
    FileEvents,         \* events the file holds before it is rotated
    MaxPosts, MaxErasures, MaxFailures, MaxRestarts   \* bounds

VARIABLES
    backend,            \* "memory", "file" or "redis"
    values,             \* turn -> kind -> strength: the memory of the process
    shared,             \* the same in Redis
    queue,              \* the writer's commands: Append(turn, signals) or Rewrite(events, by)
    file, rotated,      \* events, and Torn where a write failed half way
    shown,              \* record -> the signals it shows, None when it is not stored
    client,
    posts, erasures, failures, restarts,   \* counters of the bounds
    unsure,             \* turns on which calls overlapped, a write failed or was dropped
    erased              \* turns whose erasure was acknowledged, not posted to since

feedbackVars == <<backend, values, shared, queue, file, rotated, shown, client,
                  posts, erasures, failures, restarts, unsure, erased>>
stores == <<backend, values, shared, queue, file, rotated, shown>>
counters == <<posts, erasures, failures, restarts>>

SignalKind == {"accepted", "rejected", "endorsed", "disputed", "reattempted", "abandoned", "advanced",
               "task_succeeded", "task_failed"}

\* What a caller names need not be a kind.  The records of a tenant, whose deletion is
\* whole, are all those of their turns: a turn is one of its tenant (feedback_scope_key).
ASSUME FeedbackAssumption ==
    /\ IsFiniteSet(Turn) /\ TurnOf \in [Record -> Turn]
    /\ \A kinds \in SUBSET SignalKind : None \notin [kinds -> 0 .. 10]
    /\ \A call \in Posts : call \in Seq(ToSet(call)) \ {<<>>}
    /\ \A call \in Posts : \A s \in ToSet(call) : s.turn \in Turn /\ DOMAIN s.signals # {}
    /\ Erasures \subseteq [records : SUBSET Record, whole : BOOLEAN]
    /\ \A e \in Erasures, r \in Record :
          (e.whole /\ \E q \in e.records : TurnOf[q] = TurnOf[r]) => r \in e.records

Nothing == [kind \in {} |-> 0]          \* an entry is made with a signal at least
Merge(old, new) == [k \in DOMAIN old \cup DOMAIN new |-> IF k \in DOMAIN new THEN new[k] ELSE old[k]]
FeedbackEvent(turn, signals) == [op |-> "append", turn |-> turn, signals |-> signals]
Rewrite(events, by, id) == [op |-> "rewrite", events |-> events, by |-> by, id |-> id]
Torn == [op |-> "torn"]
Idle == [pc |-> "idle", turns |-> {}]

FeedbackInit ==
    /\ values = [t \in Turn |-> Nothing] /\ shared = values
    /\ queue = <<>> /\ file = <<>> /\ rotated = <<>>
    /\ shown = [r \in Record |-> None]
    /\ client = [c \in Client |-> Idle]
    /\ posts = 0 /\ erasures = 0 /\ failures = 0 /\ restarts = 0
    /\ unsure = {} /\ erased = {}

----------------------------------------------------------------------------
(* normalize_signal: strengths in tenths.                                   *)
DefaultStrength(kind) ==
    CASE kind \in {"accepted", "rejected"} -> 10
      [] kind \in {"endorsed", "disputed"} -> 8
      [] kind = "reattempted" -> 5
      [] kind \in {"abandoned", "advanced"} -> 3
      [] kind \in {"task_succeeded", "task_failed"} -> 9
      [] OTHER -> None

Strength(kind, given) == IF given = None THEN DefaultStrength(kind) ELSE given
Strengths(s) == [kind \in DOMAIN s.signals |-> Strength(kind, s.signals[kind])]

Normal(s) == DOMAIN s.signals \subseteq SignalKind /\ Range(Strengths(s)) \subseteq 0 .. 10

\* feedback_for_turn.
Stored(t) == IF backend = "redis" THEN shared[t] ELSE values[t]

----------------------------------------------------------------------------
(* Calls.  Two calls overlap when they are on a same turn or either erases. *)
Working == {c \in Client : client[c] # Idle}
Erases(call) == call.pc \in {"delete", "retained", "shared", "values", "rewrite", "wait"}

Overlap(call, other) ==
    IF Erases(call) /\ Erases(other) THEN call.turns \cup other.turns
    ELSE (call.turns \cap other.turns)
         \cup (IF Erases(call) THEN other.turns ELSE IF Erases(other) THEN call.turns ELSE {})

Begin(c, call) ==
    /\ client' = [client EXCEPT ![c] = call]
    /\ unsure' = unsure \cup UNION {Overlap(call, client[d]) : d \in Working \ {c}}

Goto(c, pc) == client' = [client EXCEPT ![c].pc = pc]
Reply(c) == client' = [client EXCEPT ![c] = Idle]

----------------------------------------------------------------------------
(* feedback, whose signals are ingested at once, and ingest_piggyback, which *)
(* ingests one after another, up to the first that is refused.              *)
Ingest(todo) ==
    [pc |-> IF backend = "redis" THEN "merge" ELSE "upsert",
     turns |-> {s.turn : s \in ToSet(todo)}, todo |-> todo,
     signals |-> Strengths(Head(todo)), merged |-> Nothing]

Post(c) ==
    /\ client[c] = Idle /\ posts < MaxPosts
    /\ posts' = posts + 1
    /\ \E todo \in Posts :
        /\ Normal(Head(todo))
        /\ Begin(c, Ingest(todo))
        /\ erased' = erased \ {s.turn : s \in ToSet(todo)}
    /\ UNCHANGED <<stores, erasures, failures, restarts>>

\* RedisSharedState::upsert_feedback: the script, then the turn read back.
MergeShared(c) ==
    /\ client[c].pc = "merge"
    /\ LET t == Head(client[c].todo).turn
       IN  shared' = [shared EXCEPT ![t] = Merge(@, client[c].signals)]
    /\ Goto(c, "read")
    /\ UNCHANGED <<backend, values, queue, file, rotated, shown, counters, unsure, erased>>

ReadBack(c) ==
    /\ client[c].pc = "read"
    /\ client' = [client EXCEPT ![c].pc = "upsert",
                                ![c].signals = shared[Head(client[c].todo).turn]]
    /\ UNCHANGED <<stores, counters, unsure, erased>>

\* Mutant: the signals of the call are returned, not the entry.
UpsertReturnsCall(c) ==
    /\ client[c].pc = "upsert"
    /\ LET t == Head(client[c].todo).turn
       IN  values' = [values EXCEPT ![t] = Merge(@, client[c].signals)]
    /\ client' = [client EXCEPT ![c].pc = "send", ![c].merged = client[c].signals]
    /\ UNCHANGED <<backend, shared, queue, file, rotated, shown, counters, unsure, erased>>

\* FeedbackStore::upsert: memory under its lock, then the queue without it.
Upsert(c) ==
    /\ client[c].pc = "upsert"
    /\ LET t == Head(client[c].todo).turn
       IN  /\ values' = [values EXCEPT ![t] = Merge(@, client[c].signals)]
           /\ client' = [client EXCEPT ![c].pc = "send", ![c].merged = values'[t]]
    /\ UNCHANGED <<backend, shared, queue, file, rotated, shown, counters, unsure, erased>>

\* try_send: the event of a full queue is dropped.
Send(c) ==
    /\ client[c].pc = "send"
    /\ LET t == Head(client[c].todo).turn
           full == Len(queue) >= QueueCapacity
       IN  /\ queue' = IF backend = "file" /\ ~full
                         THEN Append(queue, FeedbackEvent(t, client[c].signals)) ELSE queue
           /\ unsure' = IF backend = "file" /\ full THEN unsure \cup {t} ELSE unsure
    /\ Goto(c, "show")
    /\ UNCHANGED <<backend, values, shared, file, rotated, shown, counters, erased>>

\* ingest_feedback: what upsert returned goes to the records of the turn.
Show(c) ==
    /\ client[c].pc = "show"
    /\ LET t == Head(client[c].todo).turn
           rest == Tail(client[c].todo)
       IN  /\ shown' = [r \in Record |-> IF TurnOf[r] = t /\ shown[r] # None
                                           THEN client[c].merged ELSE shown[r]]
           /\ client' = [client EXCEPT ![c] =
                IF rest # <<>> /\ Normal(Head(rest))
                  THEN [Ingest(rest) EXCEPT !.turns = client[c].turns] ELSE Idle]
    /\ UNCHANGED <<backend, values, shared, queue, file, rotated, counters, unsure, erased>>

----------------------------------------------------------------------------
(* store_record: a record is stored with what is known of its turn.         *)
Lookup(c) ==
    /\ client[c] = Idle
    /\ \E r \in Record :
        /\ shown[r] = None /\ \A d \in Working : client[d].pc = "store" => client[d].record # r
        /\ Begin(c, [pc |-> "store", turns |-> {TurnOf[r]}, record |-> r,
                     signals |-> Stored(TurnOf[r])])
    /\ UNCHANGED <<stores, counters, erased>>

Store(c) ==
    /\ client[c].pc = "store"
    /\ shown' = [shown EXCEPT ![client[c].record] = client[c].signals]
    /\ Reply(c)
    /\ UNCHANGED <<backend, values, shared, queue, file, rotated, counters, unsure, erased>>

----------------------------------------------------------------------------
(* delete_decision, delete_task_records, delete_tenant_records.             *)
Present(records) == {r \in records : shown[r] # None}
TurnsOf(records) == {TurnOf[r] : r \in records}

Erase(c) ==
    /\ client[c] = Idle /\ erasures < MaxErasures
    /\ erasures' = erasures + 1
    /\ \E e \in Erasures :
        /\ Present(e.records) # {}
        /\ Begin(c, [pc |-> "delete", turns |-> TurnsOf(Present(e.records)),
                     records |-> e.records, whole |-> e.whole, events |-> <<>>,
                     id |-> erasures])
    /\ UNCHANGED <<stores, posts, failures, restarts, erased>>

DeleteRecords(c) ==
    /\ client[c].pc = "delete"
    /\ shown' = [r \in Record |-> IF r \in client[c].records THEN None ELSE shown[r]]
    /\ Goto(c, IF client[c].whole THEN "values" ELSE "retained")
    /\ UNCHANGED <<backend, values, shared, queue, file, rotated, counters, unsure, erased>>

\* A turn that another record has is retained; a tenant's deletion does not look.
Retained(c) ==
    /\ client[c].pc = "retained"
    /\ client' = [client EXCEPT ![c].turns = @ \ TurnsOf(Present(Record)),
                                ![c].pc = IF backend = "redis" THEN "shared" ELSE "values"]
    /\ UNCHANGED <<stores, counters, unsure, erased>>

Acknowledge(c) == Reply(c) /\ erased' = erased \cup (client[c].turns \ unsure)

\* A tenant's deletion comes to Redis after the memory, the others (delete_feedback_turns)
\* before it.
EraseShared(c) ==
    /\ client[c].pc = "shared"
    /\ shared' = [t \in Turn |-> IF t \in client[c].turns THEN Nothing ELSE shared[t]]
    /\ IF client[c].whole THEN Acknowledge(c) ELSE Goto(c, "values") /\ UNCHANGED erased
    /\ UNCHANGED <<backend, values, queue, file, rotated, shown, counters, unsure>>

\* FeedbackStore::delete_matching: what is left is read under the lock, and written
\* after it only when something was removed.
EraseValues(c) ==
    /\ client[c].pc = "values"
    /\ values' = [t \in Turn |-> IF t \in client[c].turns THEN Nothing ELSE values[t]]
    /\ \/ /\ backend = "file" /\ values' # values
          /\ LET left == SetToSeq({t \in Turn : values'[t] # Nothing})
             IN  client' = [client EXCEPT ![c].pc = "rewrite",
                     ![c].events = [i \in DOMAIN left |-> FeedbackEvent(left[i], values'[left[i]])]]
          /\ UNCHANGED erased
       \/ /\ backend = "redis" /\ client[c].whole
          /\ Goto(c, "shared") /\ UNCHANGED erased
       \/ /\ backend = "file" => values' = values
          /\ ~(backend = "redis" /\ client[c].whole)
          /\ Acknowledge(c)
    /\ UNCHANGED <<backend, shared, queue, file, rotated, shown, counters, unsure>>

SendRewrite(c) ==
    /\ client[c].pc = "rewrite" /\ Len(queue) < QueueCapacity
    /\ queue' = Append(queue, Rewrite(client[c].events, c, client[c].id))
    /\ Goto(c, "wait")
    /\ UNCHANGED <<backend, values, shared, file, rotated, shown, counters, unsure, erased>>

----------------------------------------------------------------------------
(* feedback_writer. *)
EndsTorn(events) == events # <<>> /\ Last(events) = Torn
TurnsIn(events) == {e.turn : e \in {x \in ToSet(events) : x.op = "append"}}
Torned(events) == IF EndsTorn(events) THEN events ELSE Append(events, Torn)

\* An append, after rotate_if_needed.  A line that follows one that was torn is read as
\* part of it.
WriteAppend ==
    LET event == Head(queue)
        full == Len(file) >= FileEvents
        onto == IF full THEN <<>> ELSE file
        lost == IF full THEN TurnsIn(rotated) ELSE {}
    IN  /\ queue # <<>> /\ event.op = "append"
        /\ rotated' = IF full THEN file ELSE rotated
        /\ \/ /\ file' = IF EndsTorn(onto) THEN Front(onto) ELSE Append(onto, event)
              /\ unsure' = unsure \cup lost \cup IF EndsTorn(onto) THEN {event.turn} ELSE {}
              /\ UNCHANGED failures
           \/ /\ failures < MaxFailures /\ failures' = failures + 1
              /\ file' \in {onto, Torned(onto)}
              /\ unsure' = unsure \cup lost \cup {event.turn}
        /\ queue' = Tail(queue)
        /\ UNCHANGED <<backend, values, shared, shown, client, posts, erasures, restarts,
                       erased>>

\* The call that waits for the rewrite at the head of the queue, if it still does.
Caller == {c \in Client : /\ c = Head(queue).by /\ client[c].pc = "wait"
                          /\ client[c].id = Head(queue).id}

\* Mutant: the rotated copy stays.
RewrittenBesideRotated ==
    /\ file' = Head(queue).events
    /\ IF Caller # {} THEN Acknowledge(Head(queue).by) ELSE UNCHANGED <<client, erased>>
    /\ UNCHANGED <<rotated, failures, unsure>>

\* rewrite_feedback: a new file renamed over the old, then the rotated copy removed; the
\* caller, if it still waits, is told.
Rewritten ==
    /\ file' = Head(queue).events /\ rotated' = <<>>
    /\ IF Caller # {} THEN Acknowledge(Head(queue).by) ELSE UNCHANGED <<client, erased>>
    /\ UNCHANGED <<failures, unsure>>

RewriteFails ==
    /\ failures < MaxFailures /\ failures' = failures + 1
    /\ file' \in {file, Head(queue).events}
    /\ unsure' = unsure \cup UNION {client[c].turns : c \in Caller}
    /\ IF Caller # {} THEN Reply(Head(queue).by) ELSE UNCHANGED client
    /\ UNCHANGED <<rotated, erased>>

WriteRewrite ==
    /\ queue # <<>> /\ Head(queue).op = "rewrite"
    /\ Rewritten \/ RewriteFails
    /\ queue' = Tail(queue)
    /\ UNCHANGED <<backend, values, shared, shown, posts, erasures, restarts>>

----------------------------------------------------------------------------
(* A caller that hangs up, the retention of Redis keys, and the end of the  *)
(* process: the queue is lost, the file is replayed.                        *)
HangUp(c) ==
    /\ client[c].pc \notin {"idle", "send"}
    /\ failures < MaxFailures /\ failures' = failures + 1
    /\ unsure' = unsure \cup client[c].turns
    /\ Reply(c)
    /\ UNCHANGED <<stores, posts, erasures, restarts, erased>>

Expire(t) ==
    /\ backend = "redis" /\ shared[t] # Nothing
    /\ shared' = [shared EXCEPT ![t] = Nothing]
    /\ UNCHANGED <<backend, values, queue, file, rotated, shown, client, counters, unsure,
                   erased>>

Of(events, t) == {i \in DOMAIN events : events[i].op = "append" /\ events[i].turn = t}

\* Mutant: of the events of a turn the last is kept.
ReplayLast(events) ==
    [t \in Turn |-> IF Of(events, t) = {} THEN Nothing ELSE events[Max(Of(events, t))].signals]

\* FeedbackStore::open: each event inserts its signals over those before it, so the newest
\* of each kind is kept.
Replay(events) ==
    [t \in Turn |->
        [k \in UNION {DOMAIN events[i].signals : i \in Of(events, t)} |->
            events[Max({i \in Of(events, t) : k \in DOMAIN events[i].signals})].signals[k]]]

Lasts == backend # "memory"

\* reconcile_feedback: a record shows what was replayed of its turn, if anything was; its
\* own line has it as it was stored or as a rewrite of the records found it.
Reconciled(r, replayed) ==
    IF ~Lasts \/ shown[r] = None THEN {None}
    ELSE IF replayed[TurnOf[r]] # Nothing THEN {replayed[TurnOf[r]]}
    ELSE {Nothing, shown[r]}

Restart ==
    /\ restarts < MaxRestarts /\ restarts' = restarts + 1
    /\ values' = Replay(file)
    /\ queue' = <<>>
    /\ client' = [c \in Client |-> Idle]
    /\ shown' \in [Record -> UNION {Reconciled(r, values') : r \in Record}]
    /\ \A r \in Record : shown'[r] \in Reconciled(r, values')
    /\ LET lost == TurnsIn(queue) \cup UNION {client[c].turns : c \in Working}
       IN  unsure' = TurnsIn(rotated) \cup {t \in unsure \cup lost : values'[t] = Nothing}
    /\ UNCHANGED <<backend, shared, file, rotated, posts, erasures, failures, erased>>
=============================================================================
