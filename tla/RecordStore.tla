------------------------------ MODULE RecordStore ------------------------------
(***************************************************************************)
(* The decision records of a gateway with a --records file: RecordStore in  *)
(* main.rs, its writer task and the retention sweep in persistence.rs, the  *)
(* local half of the repository in record.rs, and the tombstones of the     *)
(* semantic vectors that records refer to (vector_store.rs).                *)
(*                                                                         *)
(* The deque is changed under its lock; the writer is told about the change *)
(* after the lock is released, through a bounded queue, by try_send (append)*)
(* or by an awaited send and an awaited answer (rewrite).  Every step on    *)
(* one side of such an await is an action.  A record is its id; the file    *)
(* and its rotated copy are the sequences of records their lines hold.      *)
(***************************************************************************)
EXTENDS Integers, Sequences, FiniteSets, SequencesExt, Selection

CONSTANTS
    Record,
    Handler,     \* handlers of management requests and of reads
    Sweeper,     \* the task of spawn_retention_sweeper
    NoCaller,
    Capacities,  \* what --record-capacity may be
    QueueCapacity,
    MaxLines,    \* lines in the file before it rotates
    MaxCrashes  \* bound: crashes of the process

ASSUME StoreAssumption ==
    /\ Sweeper \notin Handler
    /\ NoCaller \notin Handler \cup {Sweeper}
    /\ Capacities \subseteq Nat \ {0}
    /\ QueueCapacity \in Nat \ {0}
    /\ MaxLines \in Nat \ {0}
    /\ MaxCrashes \in Nat

VARIABLES
    capacity,    \* RecordStore.capacity
    up,          \* the process runs
    crashes,
    memory,      \* RecordStore.records
    queue,       \* the channel to record_writer
    path,        \* the active file
    rotated,     \* its rotated copy, path.1
    put,         \* where each record is on its way through append
    expired,     \* records whose expires_at has passed
    tombstones,  \* records whose vector is tombstoned
    caller,      \* where each caller is in delete_matching
    erased,      \* history: records that were removed and whose rewrite succeeded
    overtaken    \* history: records deleted while an older write of theirs was
                 \* still to come (see Overtaken)

Caller == Handler \cup {Sweeper}

store == <<memory, queue, put, caller>>
files == <<path, rotated>>
history == <<erased, overtaken>>
storeVars == <<capacity, up, crashes, memory, queue, path, rotated, put, expired, tombstones, caller,
          erased, overtaken>>

-----------------------------------------------------------------------------

RecordSeq == Seq(Record)

Command == [kind : {"append", "rewrite"}, records : RecordSeq, by : Caller \cup {NoCaller}]

AppendCommand(r) == [kind |-> "append", records |-> <<r>>, by |-> NoCaller]
RewriteCommand(c) == [kind |-> "rewrite", records |-> caller[c].snapshot, by |-> c]

\* read: list or get, which prune first; sweep: sweep_expired_records;
\* delete: a decision's, a task's or a tenant's records.
Op == {"none", "read", "sweep", "delete"}

\* prune and erase: about to take the lock in delete_matching, with record_expired
\* and with the deletion's predicate; send and wait: awaiting the queue, the writer.
Phase == {"idle", "prune", "prune_send", "prune_wait", "erase", "erase_send", "erase_wait"}

CallerState ==
    [op : Op, phase : Phase,
     targets : SUBSET Record,   \* records the deletion matches
     found : SUBSET Record,     \* records read beforehand, for their vectors
     gone : SUBSET Record,      \* records the lock was held to remove
     snapshot : RecordSeq]

Idle == [op |-> "none", phase |-> "idle", targets |-> {}, found |-> {}, gone |-> {},
         snapshot |-> <<>>]

Sending == {"prune_send", "erase_send"}
Waiting == {"prune_wait", "erase_wait"}

Pruning(c) == caller[c].phase \in {"prune", "prune_send", "prune_wait"}

\* VecDeque::retain.
Keep(s, dropped) == Kept(s, Range(s) \ dropped)

\* VecDeque with the store's capacity: the oldest make room.
Newest(s) == IF Len(s) <= capacity THEN s ELSE SubSeq(s, Len(s) - capacity + 1, Len(s))

-----------------------------------------------------------------------------
(* What the writer's handling of a command may leave behind.  It can fail, or *)
(* the process crash, after any of its file operations; ok: all succeeded.    *)

Disk(p, q, ok) == [path |-> p, rotated |-> q, ok |-> ok]

\* BUG (for a mutant): the rotated copy is left in place.
RewritesKeepingRotated(records) ==
    {Disk(path, rotated, FALSE), Disk(records, rotated, TRUE)}

\* rewrite_records: temporary file, rename, removal of the rotated copy.
Rewrites(records) ==
    {Disk(path, rotated, FALSE), Disk(records, rotated, FALSE), Disk(records, <<>>, TRUE)}

\* rotate_if_needed: path.1 is removed, then path renamed to it; errors are ignored.
Rotations ==
    IF Len(path) < MaxLines THEN {Disk(path, rotated, TRUE)}
    ELSE {Disk(path, rotated, FALSE), Disk(path, <<>>, FALSE), Disk(<<>>, path, TRUE)}

Appends(r) ==
    UNION {{[d EXCEPT !.ok = FALSE], Disk(Append(d.path, r), d.rotated, TRUE)} : d \in Rotations}

Results(command) == IF command.kind = "rewrite" THEN Rewrites(command.records)
                    ELSE Appends(command.records[1])

-----------------------------------------------------------------------------

StoreInit ==
    /\ capacity \in Capacities
    /\ up = TRUE
    /\ crashes = 0
    /\ memory = <<>>
    /\ queue = <<>>
    /\ path = <<>>
    /\ rotated = <<>>
    /\ put = [r \in Record |-> "new"]
    /\ expired = {}
    /\ tombstones = {}
    /\ caller = [c \in Caller |-> Idle]
    /\ erased = {}
    /\ overtaken = {}

\* append, first half: the record is in memory and the lock released.
Push(r) ==
    /\ up
    /\ put[r] = "new"
    /\ memory' = Newest(Append(memory, r))
    /\ put' = [put EXCEPT ![r] = "pushed"]
    /\ UNCHANGED <<capacity, up, crashes, queue, files, expired, tombstones, caller, history>>

\* append, second half: try_send, which drops the record when the queue is full.
Enqueue(r) ==
    /\ put[r] = "pushed"
    /\ put' = [put EXCEPT ![r] = "done"]
    /\ queue' = IF Len(queue) < QueueCapacity THEN Append(queue, AppendCommand(r)) ELSE queue
    /\ UNCHANGED <<capacity, up, crashes, memory, files, expired, tombstones, caller, history>>

ExpireRecord(r) ==
    /\ put[r] # "new"
    /\ r \notin expired
    /\ expired' = expired \cup {r}
    /\ UNCHANGED <<capacity, up, crashes, store, files, tombstones, history>>

\* A read, a sweep (which first collects what has expired) or a deletion (which
\* first lists, and so prunes) begins.
Begin(c, op, targets) ==
    /\ up
    /\ caller[c].phase = "idle"
    /\ op = "delete" <=> targets # {}
    /\ caller' = [caller EXCEPT ![c] = [Idle EXCEPT
           !.op = op, !.phase = "prune", !.targets = targets,
           !.found = IF op = "sweep" THEN Range(memory) \cap expired ELSE {}]]
    /\ UNCHANGED <<capacity, up, crashes, memory, queue, put, files, expired, tombstones, history>>

\* Writes of r that were decided before and reach the writer after a rewrite
\* that c decides now.
Overtaken(c) ==
    {r \in Record : put[r] = "pushed"}
        \cup UNION {Range(caller[d].snapshot) : d \in {e \in Caller \ {c} : caller[e].phase \in Sending}}

\* What follows delete_matching's success in c's handler: a read ends; a sweep
\* tombstones what it collected; a deletion goes on from its list to its own
\* delete_matching, and from that to the tombstones, if it removed anything.
\* (What a handler lists afterwards is another read.)
Return(c) ==
    IF Pruning(c) /\ caller[c].op = "delete"
    THEN [Idle EXCEPT !.op = "delete", !.phase = "erase", !.targets = caller[c].targets,
                      !.found = caller[c].targets \cap Range(memory)]
    ELSE Idle

\* BUG (for a mutant): what was found is tombstoned whatever became of the prune.
BuriedAlways(c, ok) == caller[c].found

Buried(c, ok) ==
    CASE ok /\ caller[c].op = "sweep"                                              -> caller[c].found
      [] ok /\ caller[c].op = "delete" /\ ~Pruning(c) /\ caller[c].gone # {} -> caller[c].found
      [] OTHER -> {}

\* delete_matching under the lock; nothing to delete, nothing to rewrite.
Retain(c) ==
    LET doomed == IF Pruning(c) THEN expired ELSE caller[c].targets
        dropped == Range(memory) \cap doomed
    IN  /\ caller[c].phase \in {"prune", "erase"}
        /\ memory' = Keep(memory, dropped)
        /\ \/ /\ dropped = {}
              /\ caller' = [caller EXCEPT ![c] = Return(c)]
              /\ tombstones' = tombstones \cup Buried(c, TRUE)
              /\ UNCHANGED overtaken
           \/ /\ dropped # {}
              /\ caller' = [caller EXCEPT
                    ![c].targets = IF Pruning(c) THEN @ ELSE {},
                    ![c].phase = IF Pruning(c) THEN "prune_send" ELSE "erase_send",
                    ![c].gone = dropped, ![c].snapshot = memory']
              /\ overtaken' = overtaken \cup (doomed \cap Overtaken(c))
              /\ UNCHANGED tombstones
        /\ UNCHANGED <<capacity, up, crashes, queue, put, files, expired, erased>>

\* The rewrite is in the queue, which had to have room.
SendRewrite(c) ==
    /\ caller[c].phase \in Sending
    /\ Len(queue) < QueueCapacity
    /\ queue' = Append(queue, RewriteCommand(c))
    /\ caller' = [caller EXCEPT
           ![c].phase = IF Pruning(c) THEN "prune_wait" ELSE "erase_wait",
           ![c].snapshot = <<>>]
    /\ UNCHANGED <<capacity, up, crashes, memory, put, files, expired, tombstones, history>>

\* record_writer answers a rewrite, unless its caller has gone.
Answers(command, ok) == command.by # NoCaller

\* record_writer handles one command; a caller whose rewrite failed returns an
\* error to its client.
Write ==
    /\ up
    /\ queue # <<>>
    /\ \E result \in Results(Head(queue)) :
         LET c == Head(queue).by
         IN  /\ path' = result.path
             /\ rotated' = result.rotated
             /\ IF Answers(Head(queue), result.ok)
                THEN /\ caller' = [caller EXCEPT ![c] = IF result.ok THEN Return(c) ELSE Idle]
                     /\ tombstones' = tombstones \cup Buried(c, result.ok)
                     /\ erased' = IF result.ok THEN erased \cup caller[c].gone ELSE erased
                ELSE UNCHANGED <<caller, tombstones, erased>>
    /\ queue' = Tail(queue)
    /\ UNCHANGED <<capacity, up, crashes, memory, put, expired, overtaken>>

\* The client goes away and with it the handler, at one of its awaits.
Cancel(c) ==
    /\ caller[c].phase # "idle"
    /\ caller' = [caller EXCEPT ![c] = Idle]
    /\ queue' = [i \in DOMAIN queue |->
                    IF queue[i].by = c THEN [queue[i] EXCEPT !.by = NoCaller] ELSE queue[i]]
    /\ UNCHANGED <<capacity, up, crashes, memory, put, files, expired, tombstones, history>>

\* The process crashes, in the middle of the writer's work or not.
Crash ==
    /\ up
    /\ crashes < MaxCrashes
    /\ up' = FALSE
    /\ crashes' = crashes + 1
    /\ \/ UNCHANGED files
       \/ /\ queue # <<>>
          /\ \E result \in Results(Head(queue)) : path' = result.path /\ rotated' = result.rotated
    /\ memory' = <<>>
    /\ queue' = <<>>
    /\ put' = [r \in Record |-> IF put[r] = "pushed" THEN "done" ELSE put[r]]
    /\ caller' = [c \in Caller |-> Idle]
    /\ UNCHANGED <<capacity, expired, tombstones, history>>

\* BUG (for a mutant): expired records are replayed like any other.
ReplayedAll == Newest(path)

\* The records open replays from the active file.
Replayed == Newest(Keep(path, expired))

\* RecordStore::open: if an expired record was replayed, the file is rewritten,
\* and the gateway does not start when that fails.
Open ==
    /\ ~up
    /\ IF Range(path) \cap expired = {}
       THEN /\ memory' = Replayed
            /\ up' = TRUE
            /\ UNCHANGED files
       ELSE \E result \in Rewrites(Replayed) :
              /\ path' = result.path
              /\ rotated' = result.rotated
              /\ up' = result.ok
              /\ memory' = IF result.ok THEN Replayed ELSE <<>>
    /\ UNCHANGED <<capacity, crashes, queue, put, expired, tombstones, caller, history>>

StoreNext ==
    \/ \E r \in Record : Push(r) \/ Enqueue(r) \/ ExpireRecord(r)
    \/ \E c \in Caller : Retain(c) \/ SendRewrite(c)
    \/ \E c \in Handler : Begin(c, "read", {}) \/ Cancel(c)
    \/ \E c \in Handler, targets \in (SUBSET Record) \ {{}} : Begin(c, "delete", targets)
    \/ Begin(Sweeper, "sweep", {})
    \/ Write
    \/ Crash
    \/ Open

StoreSpec == StoreInit /\ [][StoreNext]_storeVars

-----------------------------------------------------------------------------
(* Properties.                                                               *)

\* Every variable has its type; the deque and the queue keep to their capacity.
StoreTypeOK ==
    /\ capacity \in Capacities
    /\ up \in BOOLEAN
    /\ crashes \in 0..MaxCrashes
    /\ memory \in RecordSeq /\ Len(memory) <= capacity
    /\ queue \in Seq(Command) /\ Len(queue) <= QueueCapacity
    /\ path \in RecordSeq /\ rotated \in RecordSeq
    /\ put \in [Record -> {"new", "pushed", "done"}]
    /\ expired \subseteq Record /\ tombstones \subseteq Record
    /\ caller \in [Caller -> CallerState]
    /\ erased \subseteq Record /\ overtaken \subseteq Record

Stored == Range(memory) \cup Range(path) \cup Range(rotated)
              \cup UNION {Range(queue[i].records) : i \in DOMAIN queue}

\* "HTTP 204; absent from memory, active JSONL, and rotation path"
\* (docs/gateway-m0.md:525): a record whose deletion or pruning succeeded is
\* nowhere, now and after any restart, unless a write of it that was decided
\* before the deletion was still on its way to the queue.
ErasedIsNowhere == (erased \ overtaken) \cap Stored = {}

\* The same promise without the exception.
DeletedStaysDeleted == erased \cap Stored = {}

\* "a failed prune leaves the records readable, and their vectors must stay
\* readable with them" (persistence.rs:41): a record that can be read still has
\* its vector, also when it is back after a crash or a failed rewrite; the
\* exception is the one of ErasedIsNowhere.
VectorsOutliveRecords == tombstones \cap Range(memory) \subseteq overtaken

\* "a record that outlives its tenant TTL is a governance failure"
\* (persistence.rs:5): an expired record that cannot be read any more, because it
\* was pruned, evicted or lost in a crash, never becomes readable again.
ExpiredNeverReturns ==
    [][\A r \in expired : r \notin Range(memory) => r \notin Range(memory')]_storeVars

\* A caller waits for an answer only while its rewrite, and one of its, is on the
\* way to the writer, which answers whatever comes of it: no deletion hangs, and
\* none is answered with another's outcome.
WaitingIsQueued ==
    \A c \in Caller :
        Cardinality({i \in DOMAIN queue : queue[i].by = c})
            = IF caller[c].phase \in Waiting THEN 1 ELSE 0
=============================================================================
