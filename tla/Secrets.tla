------------------------------- MODULE Secrets -------------------------------
(***************************************************************************)
(* EncryptedFileSecretsProvider (src/ota_core/secrets/provider.py): the     *)
(* credentials of one integration, kept in memory behind one lock and       *)
(* written whole to an encrypted file (a temporary file, fsync, then        *)
(* os.replace) on every change.  Threads of one process call it; any file   *)
(* operation may raise; the process may die between any two of them and     *)
(* starts again from the file.  Encryption is abstracted: a file holds a    *)
(* whole map or an incomplete one that cannot be decrypted.                 *)
(***************************************************************************)
EXTENDS Naturals

CONSTANTS
    Threads,        \* threads that share one provider
    Keys,           \* credential keys of one integration, one per routine ...
    Shared,         \* ... and the one without a routine
    Values,         \* credentials
    Scopes,         \* OAuth scopes
    Granted,        \* granted_scopes of each credential
    None,           \* no credential, no thread, no answer
    NoFile,         \* the path does not exist
    Partial,        \* a file whose content is incomplete
    MaxCalls        \* bound: calls that a behaviour may start

ASSUME SecretsAssumption ==
    /\ Shared \in Keys
    /\ Granted \in [Values -> SUBSET Scopes]
    /\ MaxCalls \in Nat
    /\ None \notin Values \cup Threads
    /\ NoFile # Partial
    /\ NoFile \notin [Keys -> Values \cup {None}]
    /\ Partial \notin [Keys -> Values \cup {None}]

VARIABLES
    mem,        \* _store
    lock,       \* the thread inside _lock, or None
    file,       \* the store at _path
    tmp,        \* the .tmp file beside it
    pc,         \* where each thread is
    job,        \* what each thread is doing: key, new value, value replaced
    answer,     \* what each thread's last call returned
    calls,      \* calls started
    \* History, for the properties only:
    acked,      \* per key, the value of its last write that was answered "ok"
    unsure      \* per key, values written since then by calls that did not answer "ok"

secretsVars == <<mem, lock, file, tmp, pc, job, answer, calls,
                 acked, unsure>>
secretHistory == <<acked, unsure>>

Map == [Keys -> Values \cup {None}]
Empty == [k \in Keys |-> None]
Writing == {"persist", "write", "replace"}
Steps == {"idle", "read", "chmod"} \cup Writing
Jobs == [key : Keys, new : Values \cup {None}, old : Values \cup {None}]
Answers == {"ok", "error", "not_found", "fetched", "expired", "scopes"}

\* _load: a missing file is an empty store.
Loaded(f) == IF f = NoFile THEN Empty ELSE f

\* fetch's lookup: the routine's own credential, else the integration's shared one.
Lookup(m, k) == IF m[k] = None /\ k # Shared THEN Shared ELSE k

SecretsInit ==
    /\ file \in {NoFile} \cup {[Empty EXCEPT ![Shared] = v] : v \in Values}
    /\ mem = Loaded(file)
    /\ lock = None
    /\ tmp = NoFile
    /\ pc = [t \in Threads |-> "idle"]
    /\ job = [t \in Threads |-> None]
    /\ answer = [t \in Threads |-> None]
    /\ calls = 0
    /\ acked = mem
    /\ unsure = [k \in Keys |-> {}]

-----------------------------------------------------------------------------
(* Writers: store, rotate and revoke change memory under the lock, then persist. *)

Idle(t) == pc[t] = "idle" /\ calls < MaxCalls

Called == calls' = calls + 1

Answered(t, result) == answer' = [answer EXCEPT ![t] = result]

\* The lock is taken and memory changed; what follows runs with the lock held.
Change(t, k, v) ==
    /\ Idle(t)
    /\ lock = None
    /\ lock' = t
    /\ mem' = [mem EXCEPT ![k] = v]
    /\ job' = [job EXCEPT ![t] = [key |-> k, new |-> v, old |-> mem[k]]]
    /\ pc' = [pc EXCEPT ![t] = "persist"]
    /\ Called
    /\ unsure' = [unsure EXCEPT ![k] = @ \cup {v}]
    /\ UNCHANGED <<file, tmp, answer, acked>>

Store(t, k, v) == Change(t, k, v)

Revoke(t, k) == Change(t, k, None)

Rotate(t, k, v) ==
    /\ mem[k] # None
    /\ Change(t, k, v)

RotateMissing(t, k) ==
    /\ Idle(t)
    /\ lock = None
    /\ mem[k] = None
    /\ Answered(t, "not_found")
    /\ Called
    /\ UNCHANGED <<mem, lock, file, tmp, pc, job, secretHistory>>

\* open(tmp, "wb") truncates the temporary file.
OpenTmp(t) ==
    /\ pc[t] = "persist"
    /\ tmp' = Partial
    /\ pc' = [pc EXCEPT ![t] = "write"]
    /\ UNCHANGED <<mem, lock, file, job, answer, calls, secretHistory>>

\* Faulty variant: the change is written onto what the file holds.
WriteTmpChange(t) ==
    /\ pc[t] = "write"
    /\ tmp' = [Loaded(file) EXCEPT ![job[t].key] = job[t].new]
    /\ pc' = [pc EXCEPT ![t] = "replace"]
    /\ UNCHANGED <<mem, lock, file, job, answer, calls, secretHistory>>

\* write, flush and fsync of the whole map.
WriteTmp(t) ==
    /\ pc[t] = "write"
    /\ tmp' = mem
    /\ pc' = [pc EXCEPT ![t] = "replace"]
    /\ UNCHANGED <<mem, lock, file, job, answer, calls, secretHistory>>

\* Faulty variant: the temporary file is never moved.
ReplaceNothing(t) ==
    /\ pc[t] = "replace"
    /\ tmp' = NoFile
    /\ pc' = [pc EXCEPT ![t] = "chmod"]
    /\ UNCHANGED <<mem, lock, file, job, answer, calls, secretHistory>>

\* os.replace: the temporary file takes the store's name in one step.
Replace(t) ==
    /\ pc[t] = "replace"
    /\ file' = tmp
    /\ tmp' = NoFile
    /\ pc' = [pc EXCEPT ![t] = "chmod"]
    /\ UNCHANGED <<mem, lock, job, answer, calls, secretHistory>>

\* chmod succeeds (a PermissionError is ignored) and the call returns.
Finish(t) ==
    LET k == job[t].key
        v == job[t].new
    IN  /\ pc[t] = "chmod"
        /\ lock' = None
        /\ pc' = [pc EXCEPT ![t] = "idle"]
        /\ job' = [job EXCEPT ![t] = None]
        /\ Answered(t, "ok")
        /\ acked' = [acked EXCEPT ![k] = v]
        /\ unsure' = [unsure EXCEPT ![k] = {}]
        /\ UNCHANGED <<mem, file, tmp, calls>>

\* A file operation raises: the lock is released, memory keeps the change.
Fail(t) ==
    /\ pc[t] \in Writing \cup {"chmod"}
    /\ lock' = None
    /\ pc' = [pc EXCEPT ![t] = "idle"]
    /\ job' = [job EXCEPT ![t] = None]
    /\ Answered(t, "error")
    /\ UNCHANGED <<mem, file, tmp, calls, secretHistory>>

-----------------------------------------------------------------------------
(* Readers. *)

\* Once memory is what the file holds, a refused write can only surface if the
\* file holds it.
Forget(k) == {Loaded(file)[k]} \ {acked[k]}

\* fetch reads the credential under the lock and checks it after releasing it.
Fetch(t, k) ==
    LET found == Lookup(mem, k)
        entry == [key |-> found, new |-> mem[found], old |-> mem[found]]
    IN  /\ Idle(t)
        /\ lock = None
        /\ Called
        /\ \/ /\ mem[found] = None
              /\ Answered(t, "not_found")
              /\ UNCHANGED <<pc, job>>
           \/ /\ mem[found] # None
              /\ job' = [job EXCEPT ![t] = entry]
              /\ pc' = [pc EXCEPT ![t] = "read"]
              /\ UNCHANGED answer
        /\ UNCHANGED <<mem, lock, file, tmp, secretHistory>>

\* _validate_not_expired against the clock (late: expires_at has passed), then
\* _virtual_scope.
FetchResult(v, requested, late) ==
    IF late THEN "expired"
    ELSE IF requested \subseteq Granted[v] THEN "fetched" ELSE "scopes"

FetchChecks(t, requested, late) ==
    /\ pc[t] = "read"
    /\ Answered(t, FetchResult(job[t].new, requested, late))
    /\ pc' = [pc EXCEPT ![t] = "idle"]
    /\ job' = [job EXCEPT ![t] = None]
    /\ UNCHANGED <<mem, lock, file, tmp, calls, secretHistory>>

\* reload: memory is replaced by the file's content; a file that cannot be
\* decrypted raises SecretsStoreCorruptError before memory is touched.
Reload(t) ==
    /\ Idle(t)
    /\ lock = None
    /\ file # Partial
    /\ mem' = Loaded(file)
    /\ unsure' = [k \in Keys |-> Forget(k)]
    /\ Called
    /\ UNCHANGED <<lock, file, tmp, pc, job, answer, acked>>

-----------------------------------------------------------------------------
(* The death of the process. *)

\* The process dies and another starts: memory is what the file holds, and the
\* temporary file stays as it is.
Crash ==
    /\ file # Partial
    /\ mem' = Loaded(file)
    /\ lock' = None
    /\ pc' = [t \in Threads |-> "idle"]
    /\ job' = [t \in Threads |-> None]
    /\ answer' = [t \in Threads |-> None]
    /\ unsure' = [k \in Keys |-> Forget(k)]
    /\ UNCHANGED <<file, tmp, calls, acked>>

Work(t) == OpenTmp(t) \/ WriteTmp(t) \/ Replace(t) \/ Finish(t) \/ Fail(t)
           \/ \E requested \in SUBSET Scopes, late \in BOOLEAN :
                FetchChecks(t, requested, late)

SecretsNext ==
    \/ \E t \in Threads, k \in Keys :
        \/ \E v \in Values : Store(t, k, v) \/ Rotate(t, k, v)
        \/ Revoke(t, k) \/ RotateMissing(t, k) \/ Fetch(t, k)
    \/ \E t \in Threads : Work(t) \/ Reload(t)
    \/ Crash

SecretsSpec == SecretsInit /\ [][SecretsNext]_secretsVars

-----------------------------------------------------------------------------
(* Properties. *)

\* Every variable has its type.
SecretsTypeOK ==
    /\ mem \in Map
    /\ lock \in Threads \cup {None}
    /\ file \in Map \cup {NoFile, Partial}
    /\ tmp \in Map \cup {NoFile, Partial}
    /\ pc \in [Threads -> Steps]
    /\ job \in [Threads -> Jobs \cup {None}]
    /\ answer \in [Threads -> Answers \cup {None}]
    /\ calls \in 0..MaxCalls
    /\ acked \in Map
    /\ unsure \in [Keys -> SUBSET (Values \cup {None})]

\* Whenever the process dies, the file at the store's path is absent or complete:
\* no interleaving of threads, failed file operation or crash leaves one that the
\* next process refuses to load.  ImplementsMap implies it (no content of the map is
\* incomplete), and it is part of the inductive invariant.
FileWhole == file # Partial

\* A write that was answered "ok" is what fetch reads and what a restart finds,
\* until another write of that key; and what a restart finds in its place is only
\* ever a value that some caller wrote since.  A value whose write was refused can
\* turn up later, with the next write of any key; an older value never does.
AckedSurvives ==
    \A k \in Keys : {mem[k], Loaded(file)[k]} \subseteq unsure[k] \cup {acked[k]}

\* What fetch reads: inside the lock memory is ahead of the map until the file
\* has been replaced.
VisibleMem ==
    IF lock # None /\ pc[lock] \in Writing
    THEN [mem EXCEPT ![job[lock].key] = job[lock].old]
    ELSE mem

AbstractMap == INSTANCE SecretsMap WITH
    creds <- VisibleMem,
    durable <- Loaded(file)

\* The provider implements the map: seen through VisibleMem and the file, every
\* step of a store, rotation, revocation, failure, reload or crash is one whole
\* step of SecretsMap or none.
ImplementsMap == AbstractMap!MapSpec

=============================================================================
