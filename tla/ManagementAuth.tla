------------------------------ MODULE ManagementAuth ------------------------------
(***************************************************************************)
(* The management API's authorization (management_auth.rs): a keyring that *)
(* is reloaded while it is used, and an audit file written by one task     *)
(* behind a bounded queue.  A call is judged under the keyring's lock, its *)
(* verdict is queued, and only when the line is on the disk is it acted on *)
(* or refused.                                                             *)
(*                                                                         *)
(* A keyring document gives each key its strongest standing for the tenant *)
(* that is asked about: 0 for a key that is absent, inactive or of another *)
(* tenant, then reader, operator, administrator.                           *)
(***************************************************************************)
EXTENDS Integers, Sequences, FiniteSets

CONSTANTS
    Key,                \* bearer tokens presented
    KeyringDoc,         \* [sound, standing]: documents the operator may write
    StartKeyring,
    Call,               \* management calls
    Required,           \* the standing the calls ask for: 1, 2 or 3
    QueueCapacity,
    MaxKeyringWrites

(* record_keyring_reload writes its lines under a name no call has. *)
System == "system"

ASSUME AuthAssumption ==
    /\ \A d \in KeyringDoc : d.sound \in BOOLEAN
    /\ StartKeyring \in KeyringDoc /\ StartKeyring.sound
    /\ QueueCapacity > 0 /\ Required \in 1 .. 3
    /\ System \notin Call

VARIABLES
    keyringFile, keyringWrites,
    keyring,            \* the document in force
    fingerprint,        \* the last document the reloader looked at
    reloader,           \* "idle", "audit" or "waiting" for its own line
    queue,              \* AuditSink's channel
    auditLog,           \* lines on the disk
    calls               \* [step, key, allowed] of each call

authVars == <<keyringFile, keyringWrites, keyring, fingerprint, reloader, queue,
              auditLog, calls>>

Line(who, allowed) == [who |-> who, allowed |-> allowed]

AuthInit ==
    /\ keyringFile = StartKeyring
    /\ keyringWrites = 0
    /\ keyring = StartKeyring
    /\ fingerprint = StartKeyring
    /\ reloader = "idle"
    /\ queue = <<>>
    /\ auditLog = {}
    /\ calls = [c \in Call |-> [step |-> "new", allowed |-> FALSE]]

AuthKept == UNCHANGED <<keyringFile, keyringWrites>>

WriteKeyring ==
    /\ keyringWrites < MaxKeyringWrites
    /\ \E d \in KeyringDoc : keyringFile' = d
    /\ keyringWrites' = keyringWrites + 1
    /\ UNCHANGED <<keyring, fingerprint, reloader, queue, auditLog, calls>>

(* Mutant: the reloader gives up at the first document that does not parse. *)
ReloadKeyringGivesUp ==
    /\ reloader = "idle"
    /\ keyringFile # fingerprint
    /\ fingerprint' = keyringFile
    /\ keyring' = IF keyringFile.sound THEN keyringFile ELSE keyring
    /\ reloader' = IF keyringFile.sound THEN "audit" ELSE "ended"
    /\ UNCHANGED <<queue, auditLog, calls>> /\ AuthKept

(* spawn_keyring_reload: an unchanged file is left alone; one that does    *)
(* not parse is remembered as seen and the keyring in force stays.         *)
ReloadKeyring ==
    /\ reloader = "idle"
    /\ keyringFile # fingerprint
    /\ fingerprint' = keyringFile
    /\ keyring' = IF keyringFile.sound THEN keyringFile ELSE keyring
    /\ reloader' = "audit"
    /\ UNCHANGED <<queue, auditLog, calls>> /\ AuthKept

QueueReloadLine ==
    /\ reloader = "audit"
    /\ Len(queue) < QueueCapacity
    /\ queue' = Append(queue, Line(System, fingerprint.sound))
    /\ reloader' = "waiting"
    /\ UNCHANGED <<keyring, fingerprint, auditLog, calls>> /\ AuthKept

(* ManagementAuth::authorize up to the audit: the verdict is taken under   *)
(* the keyring's read lock and not looked at again.                        *)
Authorize(c, k) ==
    /\ calls[c].step = "new"
    /\ calls' = [calls EXCEPT ![c] = [step |-> "judged", allowed |-> keyring.standing[k] >= Required]]
    /\ UNCHANGED <<keyring, fingerprint, reloader, queue, auditLog>> /\ AuthKept

(* AuditSink::write waits for room in the channel, then for the writer. *)
QueueLine(c) ==
    /\ calls[c].step = "judged"
    /\ Len(queue) < QueueCapacity
    /\ queue' = Append(queue, Line(c, calls[c].allowed))
    /\ calls' = [calls EXCEPT ![c].step = "waiting"]
    /\ UNCHANGED <<keyring, fingerprint, reloader, auditLog>> /\ AuthKept

(* Mutant: the caller is told that the line was written as soon as it was  *)
(* taken off the queue.                                                    *)
WriteLineUnchecked(ok) ==
    /\ queue # <<>>
    /\ queue' = Tail(queue)
    /\ LET line == Head(queue) IN
        /\ \/ auditLog' = auditLog \union {line}
           \/ ~ok /\ UNCHANGED auditLog
        /\ IF line.who = System
             THEN reloader' = "idle" /\ UNCHANGED calls
             ELSE /\ UNCHANGED reloader
                  /\ calls' = [calls EXCEPT ![line.who].step =
                       CASE @ # "waiting" -> @
                         [] @ = "waiting" /\ calls[line.who].allowed -> "granted"
                         [] OTHER -> "refused"]
    /\ UNCHANGED <<keyring, fingerprint>> /\ AuthKept

(* audit_writer: one line at a time; a write that fails may still have     *)
(* reached the disk, and the caller hears the outcome if it still listens. *)
WriteLine(ok) ==
    /\ queue # <<>>
    /\ queue' = Tail(queue)
    /\ LET line == Head(queue) IN
        /\ \/ auditLog' = auditLog \union {line}
           \/ ~ok /\ UNCHANGED auditLog
        /\ IF line.who = System
             THEN reloader' = "idle" /\ UNCHANGED calls
             ELSE /\ UNCHANGED reloader
                  /\ calls' = [calls EXCEPT ![line.who].step =
                       CASE @ # "waiting" -> @
                         [] @ = "waiting" /\ ok /\ calls[line.who].allowed -> "granted"
                         [] OTHER -> "refused"]
    /\ UNCHANGED <<keyring, fingerprint>> /\ AuthKept

(* The caller hangs up at an await: the handler is dropped, the line it    *)
(* queued is still written.                                                *)
HangUp(c) ==
    /\ calls[c].step \in {"judged", "waiting"}
    /\ calls' = [calls EXCEPT ![c].step = "gone"]
    /\ UNCHANGED <<keyring, fingerprint, reloader, queue, auditLog>> /\ AuthKept

Acted(c) ==
    /\ calls[c].step = "granted"
    /\ calls' = [calls EXCEPT ![c].step = "acted"]
    /\ UNCHANGED <<keyring, fingerprint, reloader, queue, auditLog>> /\ AuthKept

(* The keyring is read again, the queue is lost; the file of lines stays.  *)
RestartAuth ==
    /\ keyringFile.sound
    /\ keyring' = keyringFile
    /\ fingerprint' = keyringFile
    /\ reloader' = "idle"
    /\ queue' = <<>>
    /\ calls' = [c \in Call |-> IF calls[c].step \in {"new", "acted"} THEN calls[c]
                                ELSE [calls[c] EXCEPT !.step = "gone"]]
    /\ UNCHANGED auditLog /\ AuthKept
============================================================================
