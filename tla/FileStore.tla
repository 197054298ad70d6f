----------------------------- MODULE FileStore -----------------------------
(***************************************************************************)
(* The write side of the server, for the files of one owner: concurrent    *)
(* uploads (internal/http/handler_files.go), soft delete and restore, and  *)
(* the two daily batches that erase bytes (internal/batch/gc.go and        *)
(* prune_old_versions.go), over the tables files and file_versions of the  *)
(* primary database and the objects of the storage directory.              *)
(*                                                                         *)
(* An upload is not one step.  It reads the path without a lock, stores    *)
(* the encrypted body outside any transaction, inserts the parent row on a *)
(* connection of its own when the file is new, and only then opens the     *)
(* transaction that makes the version current.  Everything else may happen *)
(* between these steps.                                                    *)
(*                                                                         *)
(* A file UUID and a version UUID are fresh in the request that makes      *)
(* them, so an element of Uploads names the request, the version it makes  *)
(* and, when the request creates the file, the file.                       *)
(***************************************************************************)
EXTENDS OCC, FiniteSets, Naturals

CONSTANTS
    Paths,    \* values of the header X-File-Path
    HashOf,   \* [Paths -> hash]: SHA-256 of the NFC form, files.path_hash
    NameOf,   \* [Paths -> name]: pathBaseName, what active_marker hashes
    CopyOf,   \* [Paths -> Paths]: where save-as-copy puts the copy of a path
    InWindow, \* uploads whose read-after-write window is open at their commit
    MaxConns, \* connections of the primary pool that are left to these requests
    MaxListed,\* the limit of ListByFile that both callers give, 1000
    MaxFaults \* BOUND: failures and crashes in a behaviour

ASSUME PathAssumption == CopyOf \in [Paths -> Paths]

ASSUME PoolAssumption == InWindow \subseteq Uploads /\ MaxConns \in Nat

ASSUME LimitAssumption == MaxListed \in Nat

ASSUME FaultAssumption == MaxFaults \in Nat

VARIABLES
    \* Upload requests
    pc,       \* [Uploads -> where executeUpload is]; "done" is committed, whether
              \* or not the answer reaches the client
    path,     \* [Uploads -> the path of the request]
    pre,      \* [Uploads -> its preconditions]
    target,   \* [Uploads -> fileID: curBefore.ID, or the upload itself if new]
    number,   \* [Uploads -> version_number; 0 until it is computed]
    lock,     \* [Uploads -> the files row its transaction holds FOR UPDATE]
    \* Tables.  The file f has the path of the upload that created it.
    state,    \* [Uploads -> FileStates], files.state
    current,  \* [Uploads -> Uploads or None], files.current_version_id_bin
    versions, \* SUBSET Uploads: the rows of file_versions
    \* Storage
    tmp,      \* SUBSET Uploads: tmp/{upload_uuid}.part
    store,    \* SUBSET Uploads: versions/{target}/{upload}
    \* Calendar
    overdue,  \* trashed files whose deleted_at is over 30 days ago
    old,      \* versions whose created_at is over 90 days ago
    recent,   \* versions superseded less than 90 days ago
    \* Batches
    gcList,   \* candidates of the running gc not yet looked at
    gcFile,   \* the candidate purgeOne works on
    gcTodo,   \* its listed versions whose bytes are still to be removed
    pruneList,\* candidates of the running prune not yet looked at
    pruned,   \* the version whose bytes pruneOne removed, row to be deleted
    claimed,  \* history: versions a gc has listed for erasure
    faults    \* failures so far

uploadVars == <<pc, path, pre, target, number, lock>>
tableVars == <<state, current, versions>>
diskVars == <<tmp, store>>
dateVars == <<overdue, old, recent>>
gcVars == <<gcList, gcFile, gcTodo, claimed>>
pruneVars == <<pruneList, pruned>>
vars == <<uploadVars, tableVars, diskVars, dateVars, gcVars, pruneVars, faults>>

Steps == {"idle", "accepted", "written", "stored", "waiting", "ready", "numbered",
          "done", "refused", "failed"}
InFlight == {"accepted", "written", "stored", "waiting", "ready", "numbered"}

Init ==
    /\ pc = [u \in Uploads |-> "idle"]
    /\ path = [u \in Uploads |-> None]
    /\ pre = [u \in Uploads |-> [ifMatch |-> None, ifNoneMatch |-> None]]
    /\ target = [u \in Uploads |-> u]
    /\ number = [u \in Uploads |-> 0]
    /\ lock = [u \in Uploads |-> None]
    /\ state = [f \in Uploads |-> "absent"]
    /\ current = [f \in Uploads |-> None]
    /\ versions = {} /\ tmp = {} /\ store = {}
    /\ overdue = {} /\ old = {} /\ recent = {}
    /\ gcList = {} /\ gcFile = None /\ gcTodo = {} /\ claimed = {}
    /\ pruneList = {} /\ pruned = None
    /\ faults = 0
-----------------------------------------------------------------------------
(***************************************************************************)
(* What the statements of internal/repo/mysql read.                        *)
(***************************************************************************)

\* The rows `owner_id_bin = ? AND path_hash = ? AND state = 'active'` selects.
ActiveAt(p) == {f \in Uploads : state[f] = "active" /\ HashOf[path[f]] = HashOf[p]}

\* Its answers: one of the rows (two rows can share a hash, see NameTaken), or
\* None for ErrNotFound.
Lookup(p) == IF ActiveAt(p) = {} THEN {None} ELSE ActiveAt(p)

\* Whether an active row of path p would repeat a value of active_marker: the
\* UNIQUE key is over the bare name, parent_folder_id_bin being always NULL.
NameNeverTaken(p) == FALSE \* mutant: no UNIQUE key on active_marker
NameTaken(p) == \E f \in Uploads : state[f] = "active" /\ NameOf[path[f]] = NameOf[p]

\* Another transaction holds the row f.
LockedByOther(u, f) == \E w \in Uploads \ {u} : lock[w] = f
Locked(f) == \E w \in Uploads : lock[w] = f

\* The transactions that are open: each holds a connection of the primary pool, and
\* a statement outside them needs a free one for as long as it runs.
InTransaction == {u \in Uploads : pc[u] \in {"waiting", "ready", "numbered"}}
ConnectionFree == Cardinality(InTransaction) < MaxConns

\* SELECT ... FOR UPDATE took the row f; COMMIT or the deferred Rollback drops it.
PlainSelect(u, f) == lock \* mutant: FOR UPDATE forgotten
LockRow(u, f) == [lock EXCEPT ![u] = f]
KeepLock(u) == lock \* mutant: the transaction is neither committed nor rolled back
Unlock(u) == [lock EXCEPT ![u] = None]

\* The rows of a file.
VersionsOf(f) == {v \in versions : target[v] = f}

\* The possible answers of FileVersionsRepo.ListByFile.  The replica may lack the
\* newest versions; of those it has, the MaxListed newest are returned.
Replicated(f) ==
    {seen \in SUBSET VersionsOf(f) :
        \A v \in seen, w \in VersionsOf(f) : number[w] < number[v] => w \in seen}
Newest(seen) == {v \in seen : Cardinality({w \in seen : number[w] > number[v]}) < MaxListed}
ListByFile(f) == {Newest(seen) : seen \in Replicated(f)}

\* The key uniq_file_versions.
NumberNeverTaken(f, n) == FALSE \* mutant: no such key
NumberTaken(f, n) == \E v \in VersionsOf(f) : number[v] = n

\* The foreign key fk_file_versions_file: the row of the file is gone.
ParentAssumed(f) == FALSE \* mutant: no such key
NoParent(f) == state[f] = "absent"

InsertRefused(f, n) == NoParent(f) \/ NumberTaken(f, n)

\* FileVersionsRepo.NextVersionNumber: COALESCE(MAX(version_number), 0) + 1.
NumberOrNull(f) == \* mutant: no COALESCE
    IF VersionsOf(f) = {} THEN None ELSE 1
NextVersionNumber(f) ==
    IF VersionsOf(f) = {} THEN 1
    ELSE 1 + (CHOOSE n \in {number[v] : v \in VersionsOf(f)} :
                  \A w \in VersionsOf(f) : number[w] <= n)

\* evaluateOCC's ref: nil without a row, and also for a row whose current
\* version is NULL (a new file whose transaction has not committed).
RefOf(f) ==
    IF f = None THEN None
    ELSE IF current[f] = None THEN None
    ELSE [state |-> state[f], version |-> current[f]]

Accepts(f, q) == GoesOn(ResolveOCC(RefOf(f), q))

\* The second evaluation, on the row the transaction has locked.
TrustsPreflight(u, f) == TRUE \* mutant: the rule is evaluated once only
FileAgain(u, f) == \* mutant: the file is looked at again, not its version
    pre[u].ifMatch \in Uploads => RefOf(f) # None
AcceptsAgain(u, f) == Accepts(f, pre[u])

\* Storage.FinalizeVersion and Storage.RemoveVersion (an object that is missing
\* already is storage.ErrNotFound, which both batches ignore).
RenameLost(v) == store \* mutant: an error of the rename goes unnoticed
Stored(v) == store \cup {v}
RemoveLost(v) == store \* mutant: an error of the removal goes unnoticed
Removed(v) == store \ {v}
-----------------------------------------------------------------------------
(***************************************************************************)
(* Uploads: executeUpload.                                                 *)
(***************************************************************************)

\* The headers a client sends: one of them, or none.  The ETags it can name
\* are those of versions that were committed.
ClientPreconditions ==
    {[ifMatch |-> None, ifNoneMatch |-> None], [ifMatch |-> None, ifNoneMatch |-> Star]}
    \cup {[ifMatch |-> m, ifNoneMatch |-> None] :
             m \in {Star} \cup {v \in Uploads : pc[v] = "done"}}

\* preflightOCC: one SELECT on the primary, no lock.
Preflight(u, p, q) ==
    /\ pc[u] = "idle"
    /\ ConnectionFree
    /\ \E f \in Lookup(p) :
          IF Accepts(f, q)
          THEN /\ pc' = [pc EXCEPT ![u] = "accepted"]
               /\ path' = [path EXCEPT ![u] = p]
               /\ pre' = [pre EXCEPT ![u] = q]
               /\ target' = [target EXCEPT ![u] = IF f = None THEN u ELSE f]
          ELSE /\ pc' = [pc EXCEPT ![u] = "refused"]
               /\ UNCHANGED <<path, pre, target>>
    /\ UNCHANGED <<number, lock, tableVars, diskVars, dateVars, gcVars, pruneVars, faults>>

Upload(u) == \E p \in Paths, q \in ClientPreconditions : Preflight(u, p, q)

\* saveAsCopyHandler: an upload to a new name beside a file of any state, that
\* insists on the new name being free.
SaveAsCopy(u) ==
    \E f \in Uploads :
        /\ state[f] # "absent"
        /\ Preflight(u, CopyOf[path[f]], [ifMatch |-> None, ifNoneMatch |-> Star])

\* CreateTemp, EncryptStream and Close of writeEncryptedVersion.
WriteTemp(u) ==
    /\ pc[u] = "accepted"
    /\ pc' = [pc EXCEPT ![u] = "written"]
    /\ tmp' = tmp \cup {u}
    /\ UNCHANGED <<path, pre, target, number, lock, tableVars, store, dateVars, gcVars,
                   pruneVars, faults>>

\* FinalizeVersion: the rename to versions/{file}/{version}.
Finalize(u) ==
    /\ pc[u] = "written"
    /\ pc' = [pc EXCEPT ![u] = "stored"]
    /\ tmp' = tmp \ {u}
    /\ store' = Stored(u)
    /\ UNCHANGED <<path, pre, target, number, lock, tableVars, dateVars, gcVars, pruneVars,
                   faults>>

\* ensureFileRow and the BEGIN of commitVersion, when the preflight found no
\* file: the parent row is visible to everyone at once, with no version.
EnsureFileRow(u) ==
    /\ pc[u] = "stored" /\ target[u] = u
    /\ ConnectionFree
    /\ IF NameTaken(path[u])
       THEN /\ pc' = [pc EXCEPT ![u] = "failed"]
            /\ UNCHANGED state
       ELSE /\ pc' = [pc EXCEPT ![u] = "ready"]
            /\ state' = [state EXCEPT ![u] = "active"]
    /\ UNCHANGED <<path, pre, target, number, lock, current, versions, diskVars, dateVars,
                   gcVars, pruneVars, faults>>

\* BEGIN of commitVersion, and SELECT ... FOR UPDATE finds the row locked: the
\* transaction waits, with its connection.
Wait(u) ==
    /\ pc[u] = "stored" /\ target[u] # u
    /\ ConnectionFree
    /\ \E f \in Lookup(path[u]) : f # None /\ LockedByOther(u, f)
    /\ pc' = [pc EXCEPT ![u] = "waiting"]
    /\ UNCHANGED <<path, pre, target, number, lock, tableVars, diskVars, dateVars, gcVars,
                   pruneVars, faults>>

\* The re-evaluation commitVersion makes of the OCC rule, on the row it has
\* locked with SELECT ... FOR UPDATE, at once or after a wait.
Recheck(u) ==
    /\ target[u] # u
    /\ pc[u] = "waiting" \/ (pc[u] = "stored" /\ ConnectionFree)
    /\ \E f \in Lookup(path[u]) :
          \/ /\ f # None /\ ~LockedByOther(u, f) /\ AcceptsAgain(u, f)
             /\ pc' = [pc EXCEPT ![u] = "ready"]
             /\ lock' = LockRow(u, f)
          \/ /\ f # None /\ ~LockedByOther(u, f) /\ ~AcceptsAgain(u, f)
             /\ pc' = [pc EXCEPT ![u] = "refused"]
             /\ UNCHANGED lock
          \/ /\ f = None
             /\ pc' = [pc EXCEPT ![u] = "failed"]
             /\ UNCHANGED lock
    /\ UNCHANGED <<path, pre, target, number, tableVars, diskVars, dateVars, gcVars,
                   pruneVars, faults>>

\* The SELECTs of persistVersion before the INSERT.  FindByID does not run in the
\* transaction: within the read-after-write window it takes a second connection
\* of the primary pool, and else one of the replica's.
NumberVersion(u) ==
    /\ pc[u] = "ready"
    /\ u \in InWindow => ConnectionFree
    /\ pc' = [pc EXCEPT ![u] = "numbered"]
    /\ number' = [number EXCEPT ![u] = NextVersionNumber(target[u])]
    /\ UNCHANGED <<path, pre, target, lock, tableVars, diskVars, dateVars, gcVars, pruneVars,
                   faults>>

\* The rest of persistVersion and COMMIT: the version row, the pointer of the
\* file (whatever its state is by now) and the audit row appear together.  The
\* foreign key makes the INSERT wait for the lock on the parent, and refuses it
\* when an administrator has erased the parent (ForcePurge); the key
\* uniq_file_versions refuses a number that was taken meanwhile.
CommitVersion(u) ==
    LET f == target[u] IN
    /\ pc[u] = "numbered"
    /\ ~LockedByOther(u, f)
    /\ lock' = Unlock(u)
    /\ IF InsertRefused(f, number[u])
       THEN /\ pc' = [pc EXCEPT ![u] = "failed"]
            /\ UNCHANGED <<current, versions, recent>>
       ELSE /\ pc' = [pc EXCEPT ![u] = "done"]
            /\ versions' = versions \cup {u}
            /\ current' = [current EXCEPT ![f] = u]
            /\ recent' = recent \cup ({current[f]} \ {None})
    /\ UNCHANGED <<path, pre, target, number, state, diskVars, overdue, old, gcVars,
                   pruneVars, faults>>

\* A failing call, a client that goes away or a crash of the server: the
\* transaction is rolled back, and what the request left outside it stays.  The
\* cleanup of writeEncryptedVersion takes a half-written body away, unless the
\* server dies; nothing takes away one whose rename failed.
Fail(u) ==
    /\ pc[u] \in InFlight
    /\ faults < MaxFaults
    /\ faults' = faults + 1
    /\ pc' = [pc EXCEPT ![u] = "failed"]
    /\ lock' = Unlock(u)
    /\ \/ UNCHANGED tmp
       \/ pc[u] = "accepted" /\ tmp' = tmp \cup {u}
    /\ UNCHANGED <<path, pre, target, number, tableVars, store, dateVars, gcVars, pruneVars>>
-----------------------------------------------------------------------------
(***************************************************************************)
(* Trash: deleteFileHandler and restoreFileHandler.  Both end in a single  *)
(* UPDATE guarded by the state, which waits for a lock on the row; when    *)
(* the guard fails they change nothing.  One that waits keeps a connection *)
(* of the pool: MaxConns counts those that are left.                       *)
(***************************************************************************)

Delete(f) ==
    /\ state[f] = "active" /\ ~Locked(f)
    /\ ConnectionFree
    /\ state' = [state EXCEPT ![f] = "trashed"]
    /\ UNCHANGED <<uploadVars, current, versions, diskVars, dateVars, gcVars, pruneVars, faults>>

\* A name that is in use again makes the UPDATE fail on active_marker.
Restore(f) ==
    /\ state[f] = "trashed" /\ ~Locked(f)
    /\ ConnectionFree
    /\ ~NameTaken(path[f])
    /\ state' = [state EXCEPT ![f] = "active"]
    /\ overdue' = overdue \ {f}
    /\ UNCHANGED <<uploadVars, current, versions, diskVars, old, recent, gcVars, pruneVars,
                   faults>>
-----------------------------------------------------------------------------
(***************************************************************************)
(* The calendar, as far as the two retention thresholds go.  No days pass  *)
(* within a transaction: the body is read before it opens, and MySQL gives *)
(* a wait for a lock up after 50 s.                                        *)
(***************************************************************************)

\* 30 days pass since f was put in the trash.
AgeTrash(f) ==
    /\ state[f] = "trashed" /\ f \notin overdue
    /\ InTransaction = {}
    /\ overdue' = overdue \cup {f}
    /\ UNCHANGED <<uploadVars, tableVars, diskVars, old, recent, gcVars, pruneVars, faults>>

\* 90 days pass since v was made, or since it was superseded.
AgeVersion(v) ==
    /\ v \in versions
    /\ InTransaction = {}
    /\ \/ v \notin old /\ UNCHANGED recent
       \/ v \in recent /\ recent' = recent \ {v}
    /\ old' = old \cup {v}
    /\ UNCHANGED <<uploadVars, tableVars, diskVars, overdue, gcVars, pruneVars, faults>>
-----------------------------------------------------------------------------
(***************************************************************************)
(* batch gc: GarbageCollector.Run.                                         *)
(***************************************************************************)

\* findTrashedReady: one query, once, at the start of the run.
GcScan ==
    /\ gcList = {} /\ gcFile = None
    /\ overdue # {}
    /\ gcList' = {f \in overdue : state[f] = "trashed"}
    /\ UNCHANGED <<uploadVars, tableVars, diskVars, dateVars, gcFile, gcTodo, claimed,
                   pruneVars, faults>>

\* purgeOne starts, with ListByFile.  The state of the file is not looked at again.
GcList(f) ==
    /\ gcFile = None /\ f \in gcList
    /\ gcList' = gcList \ {f}
    /\ gcFile' = f
    /\ gcTodo' \in ListByFile(f)
    /\ claimed' = claimed \cup gcTodo'
    /\ UNCHANGED <<uploadVars, tableVars, diskVars, dateVars, pruneVars, faults>>

\* The loop of purgeOne, newest version first.
GcRemoveStrictly(v) == \* mutant: a missing object is an error, run after run
    /\ v \in gcTodo /\ v \in store
    /\ store' = Removed(v)
    /\ gcTodo' = gcTodo \ {v}
    /\ UNCHANGED <<uploadVars, tableVars, tmp, dateVars, gcList, gcFile, claimed, pruneVars,
                   faults>>
GcRemove(v) ==
    /\ v \in gcTodo
    /\ \A w \in gcTodo : number[w] <= number[v]
    /\ store' = Removed(v)
    /\ gcTodo' = gcTodo \ {v}
    /\ UNCHANGED <<uploadVars, tableVars, tmp, dateVars, gcList, gcFile, claimed, pruneVars,
                   faults>>

\* FilesRepo.Purge: guarded by the state only.  On a file that was restored
\* meanwhile it changes no row, and the candidate is dropped with an error.
GcPurge ==
    /\ gcFile # None /\ gcTodo = {}
    /\ ~Locked(gcFile)
    /\ gcFile' = None
    /\ IF state[gcFile] = "trashed"
       THEN /\ state' = [state EXCEPT ![gcFile] = "purged"]
            /\ overdue' = overdue \ {gcFile}
       ELSE UNCHANGED <<state, overdue>>
    /\ UNCHANGED <<uploadVars, current, versions, diskVars, old, recent, gcList, gcTodo,
                   claimed, pruneVars, faults>>

\* A failing call ends the candidate and Run goes on with the next; a crash or
\* the 30 minutes of the job running out end the run.
GcFail ==
    /\ gcFile # None
    /\ faults < MaxFaults
    /\ faults' = faults + 1
    /\ gcFile' = None /\ gcTodo' = {}
    /\ gcList' \in {gcList, {}}
    /\ UNCHANGED <<uploadVars, tableVars, diskVars, dateVars, claimed, pruneVars>>
-----------------------------------------------------------------------------
(***************************************************************************)
(* batch prune-old-versions: OldVersionPruner.Run.                         *)
(***************************************************************************)

\* FindPrunable: versions over 90 days old that are not the current version of
\* their file, whatever the state of the file.
PrunableCurrent == {v \in versions : v \in old} \* mutant: current versions too
PrunableStored == \* mutant: only versions whose bytes are found
    {v \in versions : v \in old /\ current[target[v]] # v /\ v \in store}
Prunable == {v \in versions : v \in old /\ current[target[v]] # v}

PruneScan ==
    /\ pruneList = {} /\ pruned = None
    /\ Prunable # {}
    /\ pruneList' = Prunable
    /\ UNCHANGED <<uploadVars, tableVars, diskVars, dateVars, gcVars, pruned, faults>>

\* First half of pruneOne: the bytes go (or were gone).
PruneRemove(v) ==
    /\ pruned = None /\ v \in pruneList
    /\ store' = Removed(v)
    /\ pruneList' = pruneList \ {v}
    /\ pruned' = v
    /\ UNCHANGED <<uploadVars, tableVars, tmp, dateVars, gcVars, faults>>

\* Second half: FileVersionsRepo.Delete.
PruneDelete ==
    /\ pruned # None
    /\ versions' = versions \ {pruned}
    /\ old' = old \ {pruned}
    /\ recent' = recent \ {pruned}
    /\ pruned' = None
    /\ UNCHANGED <<uploadVars, state, current, diskVars, overdue, gcVars, pruneList, faults>>

\* A failing call (before or after the bytes went), or the end of the job.
PruneFail ==
    /\ pruneList # {} \/ pruned # None
    /\ faults < MaxFaults
    /\ faults' = faults + 1
    /\ pruned' = None
    /\ IF pruned = None
       THEN \E v \in pruneList : pruneList' \in {pruneList \ {v}, {}}
       ELSE pruneList' \in {pruneList, {}}
    /\ UNCHANGED <<uploadVars, tableVars, diskVars, dateVars, gcVars>>
-----------------------------------------------------------------------------
\* No request is under way and none is left in the pool: the model's uploads
\* are used up, which says nothing of the system.
PoolUsedUp ==
    /\ \A u \in Uploads : pc[u] \in {"done", "refused", "failed"}
    /\ UNCHANGED vars

\* What the server, gc and prune do by themselves.
Serve(u) ==
    \/ WriteTemp(u) \/ Finalize(u) \/ EnsureFileRow(u)
    \/ Wait(u) \/ Recheck(u) \/ NumberVersion(u) \/ CommitVersion(u)
GcRun == GcScan \/ (\E f \in Uploads : GcList(f) \/ GcRemove(f)) \/ GcPurge
PruneRun == PruneScan \/ (\E v \in Uploads : PruneRemove(v)) \/ PruneDelete

UploadStep(u) == Upload(u) \/ SaveAsCopy(u) \/ Serve(u) \/ Fail(u)
GcStep == GcRun \/ GcFail
PruneStep == PruneRun \/ PruneFail

Next ==
    \/ \E u \in Uploads : UploadStep(u)
    \/ \E f \in Uploads : Delete(f) \/ Restore(f) \/ AgeTrash(f) \/ AgeVersion(f)
    \/ GcStep
    \/ PruneStep
    \/ PoolUsedUp

Spec == Init /\ [][Next]_vars
-----------------------------------------------------------------------------
(***************************************************************************)
(* Safety.                                                                 *)
(***************************************************************************)

TypeOK ==
    /\ pc \in [Uploads -> Steps]
    /\ path \in [Uploads -> Paths \cup {None}]
    /\ pre \in [Uploads -> Preconditions]
    /\ target \in [Uploads -> Uploads]
    /\ number \in [Uploads -> Nat]
    /\ lock \in [Uploads -> Uploads \cup {None}]
    /\ state \in [Uploads -> FileStates]
    /\ current \in [Uploads -> Uploads \cup {None}]
    /\ versions \in SUBSET Uploads
    /\ tmp \in SUBSET Uploads /\ store \in SUBSET Uploads
    /\ overdue \in SUBSET Uploads /\ old \in SUBSET Uploads /\ recent \in SUBSET Uploads
    /\ gcList \in SUBSET Uploads /\ gcFile \in Uploads \cup {None}
    /\ gcTodo \in SUBSET Uploads /\ claimed \in SUBSET Uploads
    /\ pruneList \in SUBSET Uploads /\ pruned \in Uploads \cup {None}
    /\ faults \in 0..MaxFaults

\* The pointer of a file is the version with the highest number among the rows
\* of that very file, and a file whose pointer is NULL has no version.
\* Numbers are read in one step of a transaction and used in a later one, by
\* writers of which the creator of the file holds no lock, while prune deletes
\* rows.
CurrentIsNewest ==
    \A f \in Uploads :
        IF current[f] = None THEN VersionsOf(f) = {}
        ELSE /\ current[f] \in VersionsOf(f)
             /\ \A v \in VersionsOf(f) : v # current[f] => number[v] < number[current[f]]

\* The bytes of the current version of a file exist, unless gc listed that very
\* version for erasure: bytes are in place before the pointer, prune never takes
\* what a file points to however stale its list is, and a file whose old versions
\* gc erased can be read again once it is overwritten.  That gc can erase the bytes
\* of a file that is no longer in the trash is ErasesOnlyOverdue, below.
CurrentReadable ==
    \A f \in Uploads : current[f] # None => current[f] \in store \cup claimed

\* A transaction that overwrites locks the file that is at the path now and writes
\* to the one its preflight found.  As long as both are in use they are one file,
\* whatever was deleted, created and restored in between; or else the path has two
\* spellings, which share a path_hash (of the NFC form) and not a name.
SpelledApart(f, g) == HashOf[path[f]] = HashOf[path[g]] /\ NameOf[path[f]] # NameOf[path[g]]

LocksItsTarget ==
    \A u \in Uploads :
        lock[u] # None /\ state[target[u]] = "active" =>
            lock[u] = target[u] \/ SpelledApart(lock[u], target[u])

\* Two active files never share a value of active_marker, through creations
\* and restores by whatever route.
OneActivePerName ==
    \A f, g \in Uploads :
        state[f] = "active" /\ state[g] = "active" /\ NameOf[path[f]] = NameOf[path[g]]
            => f = g

\* Bytes that some client was told are saved are never left without the row
\* that leads to them: whoever erases a version removes its bytes first.
NoBytesWithoutRow == \A v \in store : pc[v] = "done" => v \in versions

\* Of all the uploads that start from the same version, at most one succeeds
\* (the others get 409 and go through the conflict dialog).
OneWinnerPerVersion ==
    \A u, w \in Uploads :
        /\ pc[u] = "done" /\ pc[w] = "done"
        /\ pre[u].ifMatch \in Uploads /\ pre[u].ifMatch = pre[w].ifMatch
        => u = w

\* u makes its version current in this step.
Commits(u) == pc[u] = "numbered" /\ pc'[u] = "done"

\* An upload with If-Match: v replaces v and nothing else, in a file that is
\* still in use, although v was compared steps before: no lost update between
\* devices that send the version they started from.
IfMatchReplacesThatVersion ==
    [][\A u \in Uploads :
          Commits(u) /\ pre[u].ifMatch \in Uploads =>
              /\ state[target[u]] = "active"
              /\ current[target[u]] = pre[u].ifMatch]_vars

\* An upload that overwrites commits only what its preconditions allow of the file
\* it writes to at that very moment, although they were last evaluated on the file
\* at its path when that was locked.  The exceptions are the creator of the file
\* and a file that is not in use any more (CreatesOnlyOverNothing and
\* CommitsOnlyToActive, below, are about those).
PreconditionsHoldAtCommit ==
    [][\A u \in Uploads :
          Commits(u) /\ target[u] # u /\ state[target[u]] = "active" =>
              Accepts(target[u], pre[u]) \/ SpelledApart(lock[u], target[u])]_vars

\* The pointer of a file never goes back to an older number, nor to NULL.
CurrentOnlyAdvances ==
    [][\A f \in Uploads :
          current'[f] # current[f] =>
              /\ current'[f] # None
              /\ current[f] # None => number'[current'[f]] > number[current[f]]]_vars
-----------------------------------------------------------------------------
(***************************************************************************)
(* What the documents promise and the code does not do.                    *)
(***************************************************************************)

\* docs/04 section 4.1: If-None-Match: * fails when the file exists.
CreatesOnlyOverNothing ==
    [][\A u \in Uploads :
          Commits(u) /\ pre[u].ifNoneMatch = Star => current[target[u]] = None]_vars

\* docs/04 section 10: an upload that completes on a file deleted meanwhile
\* detects it and aborts.
CommitsOnlyToActive ==
    [][\A u \in Uploads : Commits(u) => state[target[u]] = "active"]_vars

\* docs/04 INV-1: nothing is erased from a file that is in use, and the batch erases
\* after 30 days in the trash only; ADR-004: the user gets back what is younger.  v
\* goes at the hand of gc, or the row of f does.
GcErases(v) == v \in gcTodo /\ v \notin gcTodo' /\ v \in store /\ v \notin store'
GcPurges(f) == state[f] # "purged" /\ state'[f] = "purged"

ErasesOnlyOverdue ==
    [][/\ \A v \in Uploads : GcErases(v) => target[v] \in overdue
       /\ \A f \in Uploads : GcPurges(f) => f \in overdue]_vars

\* docs/04 section 4.3 and ADR-004: an overwritten version can be brought back
\* for 90 days.
SupersededKept90Days ==
    [][\A v \in Uploads : v \in versions /\ v \notin versions' => v \notin recent]_vars
-----------------------------------------------------------------------------
(***************************************************************************)
(* Liveness.                                                               *)
(***************************************************************************)

\* The server serves every request it has read, and the scheduler starts each
\* batch every day; neither users nor the calendar nor failures are owed.
Fairness ==
    /\ \A u \in Uploads : WF_vars(Serve(u))
    /\ WF_vars(GcRun) /\ WF_vars(PruneRun)

\* Every upload gets an answer: nobody waits for a row or for a connection for ever,
\* whatever the others do with the same rows, as long as the pool has more
\* connections than there are uploads.  With no more than that they can take them
\* all, and each wait for a second one (NumberVersion) or for a row of one that does.
\* (An upload once answered stays so, and Uploads is finite: this is the same as a
\* leads-to for each of them.)
UploadsEnd == []<>(\A u \in Uploads : pc[u] \notin InFlight)

\* A file past its 30 days leaves the trash, even if a run of the batch dies
\* half way through its versions.
OverdueErased ==
    \A f \in Uploads : state[f] = "trashed" /\ f \in overdue ~> f \notin overdue

\* What prune may take goes, again and again, even if a run dies between the bytes
\* and the row of a version.  (A version it may take stays so until it has gone;
\* that no bytes are left is NoBytesWithoutRow.)
OldVersionsPruned ==
    []<>(\A v \in versions : v \in old => current[target[v]] = v)
=============================================================================
