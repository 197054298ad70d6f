# Verification of sync-files

TLA+ models of the server of sync-files, TLC configurations that check them on
small instances, and TLAPS proofs of what matters most for every instance. The
paths below are relative to the root of the repository, and line numbers are
those of the modelled commit. `PROJECT.json` maps every definition to the lines
it stands for.

## 1. The system

sync-files is a single-owner file store: a Go HTTP server over a MySQL primary
with one read replica and an object directory (S3 Files mounted over NFS), plus
daily jobs (`cmd/batch`) and an administration command.

| Component | State it keeps | Operations | Talks to |
|---|---|---|---|
| OCC rule (`internal/domain/sync.go`) | none | `ResolveOCC` | called twice by every upload |
| Uploads (`internal/http/handler_files.go`) | per request: the file and version UUID, a transaction | upload, save-as-copy | tables `files`, `file_versions`, object storage, audit |
| Trash (`handler_files.go`, `repo/mysql/files.go`) | `files.state`, `deleted_at` | soft delete, restore | share links, RAW cookie |
| Trash gc (`internal/batch/gc.go`) | candidates in memory | scan, list, remove, purge | `files`, `file_versions` (replica), storage |
| Pruner (`internal/batch/prune_old_versions.go`) | candidates in memory | scan, remove, delete row | `file_versions`, storage |
| Storage (`internal/storage/localfs`) | `tmp/`, `versions/` | create, rename, open, remove | the file system |
| Routing (`internal/repo/dbrouter.go`, `middleware.go`) | RAW cookie at the client | pick primary or replica per request | every repository |
| Share links (`handler_share.go`, `repo/mysql/share_links.go`) | `share_links` | create, revoke, download | `files`, `file_versions` |
| Accounts (`handler_auth.go`, `handler_totp.go`, `repo/mysql/users.go`, `sessions.go`) | `users`, `sessions` | signup, login, lockout, TOTP, logout | every authenticated request |
| Stream (`internal/crypto/aead.go`) | chunk counter | encrypt, decrypt | upload, download |
| Reconciler (`internal/batch/reconcile.go`) | none | report rows without bytes | `file_versions`, storage |
| Admin command (`cmd/sync-files-admin`) | none | force-purge; reconcile and prune only print or read | tables, storage |
| Browser client (`internal/ui/static/js/app.js`) | the dialog's pending upload | conflict choices | uploads |

What makes each correct:

* OCC rule, uploads: an accepted upload replaces exactly the version its client
  had seen; of several that start from one version one wins; the pointer is the
  newest version; every upload is answered.
* Trash, gc, pruner, storage: what a file in use points to can be read (gc breaks
  this, finding 3); bytes never outlive the row that leads to them; what is due is
  erased in the end, and nothing earlier than promised (findings 3 and 4).
* Routing: a browser never reads an older row than it was told of.
* Share links: a deleted file, and a link that ended, are not served.
* Accounts: no failed login is lost from the counter, and the lock agrees with
  it; a login that gets in was right by the row as it is, or read it before the
  row was made stricter; an ended session authenticates nothing; the TOTP secret
  in force is one the user confirmed.
* Stream: what a client gets is how the body begins, whatever the file system does
  to the object; what is accepted is the whole body; a failure is noticed.
* Admin command: a purged file is gone for good, and no other file is disturbed.
* Reconciler: reports no row whose bytes exist. Browser client: each choice of
  the dialog leads to the upload it names.

What makes it hard:

* An upload is not one step. It reads the path without a lock
  (`preflightOCC`), stores the body outside any transaction
  (`writeEncryptedVersion`), inserts the parent row on its own connection when
  the file is new (`ensureFileRow`), and only then opens the transaction that
  numbers the version and moves the pointer (`commitVersion`,
  `persistVersion`). Deletions, restores, other uploads and both batches run
  between these steps, and each step can be the last. Within its transaction it
  may ask for a second connection of the same pool (`FindByID`).
* The batches work for minutes from one query made at the start, and erase
  bytes and rows in separate calls.
* Reads outside the read-after-write window come from a replica that lags.
* Uniqueness of names rests on a generated column, freshness of numbers on a
  UNIQUE key, not on locks.
* A login decides by a row it read without a lock; other logins, and the settings
  of the second factor, change it before the session is issued.
* A body that its client cuts short looks complete to `EncryptStream`; an answer
  that has begun cannot be turned into an error any more.

`PROJECT.json` lists the hazards one by one, each at the line where it bites.

## 2. Modules

| Module | What it models |
|---|---|
| `OCC` | `domain.ResolveOCC` and what `evaluateOCC` does with its outcome |
| `FileStore` | the write side: uploads, trash, the two batches, over tables and storage |
| `VersionHistory` | the abstract promise: files are chains of versions, an upload is one atomic step |
| `FileStoreHistory` | the refinement mapping from `FileStore` to `VersionHistory` |
| `ForcePurge` | the administrator's `force-purge` beside all of `FileStore` (extends it) |
| `ErasableHistory` | the abstract promise with erasures: extends `VersionHistory` |
| `ForcePurgeHistory` | the refinement mapping from `ForcePurge` to `ErasableHistory` |
| `Routing` | primary, replica, replication log, clock and the read-after-write (RAW) cookie |
| `Sharing` | share links, and the handlers that read through `Reader` (extends `Routing`) |
| `Accounts` | signup, login and lock-out, sessions, the second factor |
| `Transfer` | the bytes of one version: encryption, storage, damage, decryption, downloads |
| `MCFileStore`, `MCForcePurge`, `MCSharing`, `MCAccounts`, `MCTransfer` | values and symmetry for TLC |
| `FileStoreProofs`, `FileStoreHistoryProofs`, `ForcePurgeProofs`, `ForcePurgeHistoryProofs`, `SharingProofs`, `AccountsProofs`, `TransferProofs` | the inductive invariants and the theorems |

`FileStore` looks closely at how a version gets into the tables, on the primary.
`Sharing` takes an overwrite as one step and looks closely at who reads what
where afterwards. `Transfer` takes the tables as one step and looks closely at the
bytes. `Accounts` is about who may ask at all. They share no state: each handler
is modelled in full in the module whose question it bears on; deletion and
restore, which bear on two, are in both, and so are the upload (`FileStore`,
`Transfer`) and the download (`Sharing`, `Transfer`).

### FileStore

UUIDs are fresh in the request that makes them, so one constant set, `Uploads`,
names the requests, the versions they make and the files they create; the ETag
of a version is its element of `Uploads`. `target[u]` is the `fileID` of
`executeUpload`: `u` itself for a new file. The path of a file is the path of
the upload that created it.

| State | Code |
|---|---|
| `pc`, `path`, `pre`, `target`, `number` | the locals of `executeUpload`, `commitVersion`, `persistVersion` |
| `lock` | the row a transaction holds after `SELECT ... FOR UPDATE` |
| `state`, `current` | `files.state`, `files.current_version_id_bin` |
| `versions` | rows of `file_versions` |
| `tmp`, `store` | `tmp/*.part`, `versions/{file}/{version}` |
| `overdue`, `old` | `deleted_at` over 30 days, `created_at` over 90 days ago |
| `recent`, `claimed` | history: superseded under 90 days ago, listed by a gc for erasure |
| `gcList`, `gcFile`, `gcTodo` | the loop variables of `Run` and `purgeOne` |
| `pruneList`, `pruned` | the loop variables of `Run` and `pruneOne` |

| Action | Code |
|---|---|
| `Preflight` (through `Upload` and `SaveAsCopy`) | `preflightOCC` |
| `WriteTemp`, `Finalize` | `writeEncryptedVersion` |
| `EnsureFileRow` | `ensureFileRow` and BEGIN |
| `Wait`, `Recheck` | BEGIN and the locked second look of `commitVersion`, which may have to wait for the row |
| `NumberVersion` | `FindByID` and the `MAX + 1` query of `persistVersion` |
| `CommitVersion` | the INSERT, the UPDATE, the audit row and COMMIT |
| `Fail` | any error, disconnection or crash: deferred `Rollback` |
| `Delete`, `Restore` | the guarded UPDATEs of the two handlers |
| `AgeTrash`, `AgeVersion` | the calendar passing the two thresholds |
| `GcScan`, `GcList`, `GcRemove`, `GcPurge`, `GcFail` | `GarbageCollector.Run`, `purgeOne` |
| `PruneScan`, `PruneRemove`, `PruneDelete`, `PruneFail` | `OldVersionPruner.Run`, `pruneOne` |
| `PoolUsedUp` | nothing in the code: the finite pool of requests is used up |

`Serve`, `GcRun` and `PruneRun` gather the steps of one request and of one batch,
without their failures: fairness is stated of them.

Abstractions and assumptions:

* The INSERT, UPDATE and COMMIT of a transaction are one step. Nothing reads
  them before the COMMIT, the INSERT waits for the lock on the parent row (its
  foreign key) and the UNIQUE key refuses a number that was taken.
* `done` means committed. An answer that is lost after the COMMIT changes
  nothing on the server and is covered.
* A `FOR UPDATE` locks the row it returns. InnoDB may lock more at REPEATABLE
  READ (rows it scanned, gaps), which only removes interleavings; it may also
  refuse one of two transactions as a deadlock victim, which is a `Fail`.
* An open transaction (`InTransaction`) holds a connection of the primary pool, and
  every other statement of a handler needs a free one (`ConnectionFree`); of the
  uploads in `InWindow` that includes the `FindByID` inside the transaction
  (`handler_files.go:325`), which goes to the replica for the others. `MaxConns` are
  the connections left to these requests: the pool has 50 (`server.go:230`), of which
  other requests take some, among them deletions that wait for a row. The batches are
  a process of their own, with a pool of its own.
* No days pass within a transaction (`AgeTrash`, `AgeVersion`): the body was read
  before, and a lock wait is given up by MySQL after 50 seconds. The theorem about
  numbers needs it: without it, prune could delete the row whose number makes the
  INSERT fail.
* `ListByFile` reads the replica, which may lack the newest versions, and returns the
  newest `MaxListed` (1000 in the code) of those it has: both ends can be missing.
  The other queries of gc and prune read the primary.
* One gc and one prune run at a time: each is started once a day and stopped
  after 30 minutes (`cmd/batch/main.go:75`).
* The headers of `ClientPreconditions` are those clients send, one or none of them
  (docs/04 section 4.1). The handler reads both (`handler_files.go:88`), and
  `ResolveOCC` ignores If-Match beside `If-None-Match: *` (`sync.go:67`), so
  `IfMatchReplacesThatVersion` is about clients that send one. A header value that
  is no version UUID behaves like an old ETag.
* Two paths in two folders with one bare name are told apart by `HashOf` and
  collide in `NameOf`, as `path_hash` and `active_marker` do
  (`migrations/0001_init.sql:58`).

### VersionHistory and FileStoreHistory

`VersionHistory` has no locks, numbers, bytes or dates. `basis[v]` is the version
an upload must replace, `before[v]` the one it did replace, `head[f]` the end of
the chain of a file. `Save` is the only step that makes a version: it must find
its basis at the end of the chain of a file in use, and it becomes the end itself.
`FileStoreHistory` computes this state from that of `FileStore`: `status` is
`files.state`, `head` the pointer, `kept` the rows of versions, `before` the
committed version with the next lower number, pruned ones included. So the
refinement says that numbers, pointers and preconditions agree for ever: nothing is
slipped into a chain after the fact, and batches drop only what is not its end.
A creator's `Save` may follow another version (finding 1) and may hit a file in the
trash (finding 2): the abstract specification allows both to an upload that names
no version, since it states what the code keeps.

### ForcePurge

| State | Code |
|---|---|
| `victim`, `listed`, `taken` | the file ID and the loop of `runForcePurge` |
| `hit`, `gone` | history: files a command was started for, and finished with |

| Action | Code |
|---|---|
| `PurgeList` | the arguments and `ListByFile`, on the replica |
| `PurgeRemove` | `RemoveVersion`, whose error is a warning |
| `PurgeRow` | `FileVersionsRepo.Delete`, whose error is a warning |
| `PurgeFile` | `DELETE FROM files` and its cascade; waits for a lock on the row |
| `PurgeFail` | the command dies |

Everything of `FileStore` goes on meanwhile. An upload to a file that is gone is
refused by the foreign key (`NoParent`). The operator gives the right `--user`:
with another one every removal looks done, and all bytes stay.

`ErasableHistory` says what uploads keep of their promise when files can be erased:
`erased` are the files somebody has begun to erase. Their versions go one by one, the
end of the chain included (`Lose`), and the file with what is left (`Vanish`), so the
links before their versions are promised no more; but a `Save` into such a file is
still one step, an upload that names a version still finds it at the end of the chain
of a file in use, and a file that vanished is never created again. Of all other files
it promises what `VersionHistory` does. In `ForcePurgeHistory`, `erased` is `hit` and
`file[v]` the file an upload was committed to.

### Routing and Sharing

| State | Code |
|---|---|
| `clock` | `time.Now()`, in ticks; `Second` of them make a second |
| `primary`, `replica` | the row of a file on either database; `version` counts its current versions, `changes` its UPDATEs |
| `binlog` | committed changes the replica has not applied |
| `cookie` | the RAW cookie of each logged-in browser |
| `told` | history: the newest change of a file an answer confirmed to a browser |
| `linkFile`, `inactive` | the rows of `share_links`: the file, and whether revoked or expired |
| `req` | the handlers under way: what each has read, and the `until` in its context |
| `doomed`, `spared` | history: links of a file whose deletion was answered, links a failed `RevokeByFile` left |

| Action | Code |
|---|---|
| `OwnerArrives`, `Resolve` (through `Arrive`) | `RAWMiddleware`, `resolveShareLink` |
| `DeleteLooks`, `SoftDelete`, `RevokeByFile` | `deleteFileHandler`, statement by statement |
| `Upload`, `Restore` | the write handlers with their cookie |
| `CreateLooks`, `Insert` | `createShareLinkHandler` |
| `Revoke` | `revokeShareLinkHandler`, or `expires_at` passing |
| `VisitLooks`, `Unshare`, `FindVersion` | `loadShareTarget`, `streamShareDownload`; `sharePageHandler` goes the same way |
| `DownloadLooks`, `FindVersion` | `loadFileForDownload` |
| `Break` | any error, disconnection or crash |
| `Replicate`, `Tick` | nothing in the code: MySQL replication, the calendar |

Abstractions and assumptions:

* `LagAssumption`: the replica is never behind by more than the window less one
  second. The code does not enforce it; it is what the window is there for, and
  the second is what the cookie loses. The theorems show it suffices, the mutant
  `TruncatesLate` that a second less does not.
* The arrival of a visit and its look-up of the link are one step, and so are an
  answer and its arrival at the browser. A request that left before an earlier
  answer arrived carries an older cookie and knows less: it counts as one that
  arrived earlier.
* Requests are answered in one step after the version is found; the body is not
  modelled. Every file has a version: one without is answered 500 at once.
* Rows of versions are never deleted here, and no file is purged: those are the
  batches, at 30 and 90 days, against a window of seconds.

### Accounts

One email address. A session UUID is fresh in the login that issues it, so an
element of `Logins` is the request, its session and the browser that holds the
cookie.

| State | Code |
|---|---|
| `account`, `count`, `until`, `secret` | the row of `users`: its signup, `failed_login_count`, `locked_until`, `totp_secret_enc` while enabled |
| `rowLock` | the transaction of `IncrementFailedLogin` |
| `sessions`, `expires` | rows of `sessions` |
| `replica`, `binlog` | what the replica shows and will show of both tables |
| `signup`, `pc`, `code`, `read`, `step`, `by`, `chosen` | the locals of the handlers |
| `jar` | the signed set-up cookie of each browser |
| `failures`, `early`, `confirmed`, `spared` | history: failures since the last reset; logins that read the row before it was made stricter; secrets whose code was given; sessions a logout failed to delete |

| Action | Code |
|---|---|
| `SignupLooks`, `InsertUser` | `signupHandler`, `signupPostFormHandler` |
| `LoginLooks` | either login handler up to its verdict |
| `LockForCount`, `IncrementFailedLogin` | the transaction of the failure counter |
| `InsertSession`, `UpdateLastLogin` | the rest of a successful login |
| `LoginFails` | dropped errors, other errors, crash |
| `Logout` | `logoutHandler` |
| `TurnedAway` | `RequireAuth` |
| `SetupPage`, `EnableLooks`, `DisableLooks`, `SetTOTP`, `SettingFails` | `handler_totp.go` |

Abstractions and assumptions:

* The JSON and the form handler of signup and login do the same; the form signup
  also logs in, as a login of its own.
* The replica lags without bound: nothing of this module needs it to be fresh.
  Pages are built from either database (`requireUser`), since a window of an
  upload may be open.
* The set-up cookie is signed and lives in its browser; each look at the page makes
  a new secret, which `SetupPage` takes from the unused ones. A code fits the
  secret it was made from and no other.
* The lock counts failures since the last success, in no window of time. A lock
  that ended leaves the counter at the threshold, so that the next failure locks
  again at once.
* Left out: recovery codes (made at signup, accepted nowhere), the wording of
  refusals, audit rows. Two enablings under way can overwrite one another, and a
  disabling may accept a code of the secret the replica still shows; neither is
  excluded by a property, as no document promises otherwise.

### Transfer

| State | Code |
|---|---|
| `phase`, `body`, `size`, `alive` | the locals of `executeUpload`, `countingWriter.n`, the request's context |
| `object`, `place` | the chunks written, under `tmp/` or `versions/` |
| `row` | `size_bytes` of the row of `file_versions`, if there is one |
| `pc`, `counter`, `output`, `response` | `DecryptStream` in each download, what was sent, how the client saw it end |
| `damages` | history: what the file system did to the object |

| Action | Code |
|---|---|
| `CreateTemp`, `SealFull`, `BodyEnds`, `ClientLeaves`, `BodyTooLarge`, `WriteFails` | `writeEncryptedVersion`, `EncryptStream`, `MaxBytesReader` |
| `FinalizeVersion`, `RenameFails` | the rename |
| `ContextCancelled` | nothing in `src/`: net/http, when the client goes away |
| `CommitVersion`, `CommitFails` | `ensureFileRow`, `commitVersion` |
| `OpenVersion`, `DecryptChunk`, `StreamEnds`, `DecryptFails`, `HandlerReturns`, `ClientGone` | `downloadFileHandler`, `streamShareDownload`, `DecryptStream` |
| `Crash`, `Damage` | the environment |

Abstractions and assumptions:

* The cipher is ideal: a chunk opens only as it was sealed. A chunk is the number
  of its piece, its length, its counter and its mark; a body is the number of its
  whole pieces and the length of its rest.
* When a client goes away during the body, net/http cancels the request's context
  before the read fails. `EncryptStream` takes the failed read for the end of the
  body (`aead.go:62`), so the context alone keeps the part out of the tables.
* `Damage` strikes objects the tables know. The object directory is mounted over
  NFS and its fsync is best effort, so a lost tail is what a crash of the storage
  can leave.

## 3. Runs

| Run | Bounds | What it shows |
|---|---|---|
| `file_store` | 3 uploads, 1 path, 1 failure, 3 connections, lists of 2, symmetry on uploads | ten safety properties and the refinement of `VersionHistory`; 1.3 million states, about 3 minutes |
| `file_store_live` | 2 uploads, 2 paths of one name, force-purges of one file, 1 failure, 3 connections | safety of force-purge, the refinement of `ErasableHistory`, and four liveness properties; 371 thousand states, about 2 minutes |
| `create_race` | 2 uploads, no failure | finding: both creators succeed |
| `upload_vs_delete` | 2 uploads, no failure | finding: a creator commits into the trash |
| `stale_gc` | 2 uploads, no failure | finding: gc erases the bytes of a file in use |
| `early_prune` | 2 uploads, no failure | finding: pruned on the day it is overwritten |
| `sharing` | 1 file, 1 link, 2 browsers and a visitor, 2 requests at a time, 4 ticks | its five properties; 3.1 million states |
| `stale_visit` | the same | finding: a stale read revokes a good link |
| `spared_link` | the same | finding: a link survives the deletion |
| `accounts` | 2 signups, 2 logins, 2 settings, 2 secrets, threshold 2, 3 ticks, 1 failure, symmetry on all of them | its eight properties; 1.9 million states |
| `transfer` | bodies of up to 4 pieces and a rest, limit 3, pieces of 3 bytes, 2 downloads, 3 faults | its five properties; 252 thousand states |
| `broken_download` | bodies of up to 3 pieces, 1 download, 1 fault | finding: a failed download looks complete |

Why the bounds are enough. For `file_store`, three uploads are one that creates a
file and two that race over it, or one version and its two successors, or a file,
its re-creation at the same path after a deletion, and an upload that saw the
first; the races found in the code need no more. One failure can strike any step
of any actor. Conflict copies go to the same path, so that they meet a taken name.
Three connections can all be taken by three open transactions, so that the requests
of users and the second look-ups have to wait; lists of two versions drop the oldest
of three.

For `file_store_live`, two uploads in two folders whose names collide meet each
other, the batches and the command at every step; a command may be repeated, and
the one failure may make any of its calls fail. Symmetry is used in safety runs
only. The pool has one connection more than there are uploads, which is what
`UploadsEnd` asks for: with two for the two uploads TLC reports a deadlock, both
transactions open and each waiting for a second connection. Deadlock is checked in
every run: a state in which nothing can happen would be reported, a failure counting
as something that can. So in `file_store`, where three open transactions can take all
three connections, the failure that is left ends their waiting.

For `sharing`: two ticks make a second, so that truncation shows; a window of two
seconds and a lag of one put the end of the lag and of the window inside the four
ticks, on either side of a read. A row is overwritten or restored only while it has
had fewer than three changes, its creation included, which leaves room for a
deletion, a restore and another deletion. Two requests are a delete or a link
creation and a visit that crosses it; a finished request makes room for the next.
The properties speak of one file and one link at a time. The visitor is apart from
the browsers.

For `accounts`: a failed login may try again without end, so two logins make
any number of failures, one that succeeds beside one that fails, and the lock at the
second failure; three ticks let a lock and a session (of one tick) end or not. Two
settings and two secrets are two browsers that set up the second factor at once,
or one that disables what the other enabled.

For `transfer`: a limit of three pieces below the longest body makes bodies under,
at and over it, with and without a rest, the empty one included; three faults
combine two damages and a crash, or a swap from both sides. Reading goes by one
chunk at a time, so that longer bodies repeat these cases; the theorems have no
bound.

Each property is stated in words beside its definition. `sharing`, `accounts` and
`transfer` have no liveness property: handlers end by themselves, and nothing else
has to happen; that a login or a setting never waits for ever shows as the absence
of deadlock (`Quiet`).

Fairness (`LivePurgeSpec`): weak fairness of the steps of each upload the server has
begun (`Serve(u)`: a goroutine runs until it answers), of those of each batch
(`GcRun`, `PruneRun`: the scheduler starts them every day, and the next run takes
what the last left), and of those of a force-purge that was started (`PurgeRun`).
None for clients, users, the calendar or failures. Failures are bounded by
`MaxFaults`: a batch that fails for ever finishes nothing. `UploadsEnd` is a statement
about uploads of which there are fewer than connections (`MaxConns`). In the code
nothing keeps them so: see the list after the findings.

### Findings

1. `create_race`: the upload that inserted the row is never checked again
   (`handler_files.go:214`), so it overwrites what another
   `If-None-Match: *` upload committed into that row. Both were accepted: the
   inserter is answered 201, the other, whose preflight found the row, 204. Its
   version stays in the history.
2. `upload_vs_delete`: for the same reason, and because
   `UpdateCurrentVersion` ignores the state, a creator answers 201 for a file
   in the trash; `docs/04-sync-semantics.md:360` says it aborts.
3. `stale_gc`: gc decides with a list that may be half an hour old, and looks at the
   state of no file before it removes its bytes (`gc.go:104`). A file restored after
   the list was made loses the bytes of all versions listed; `Purge`, guarded by
   `state = 'trashed'`, then changes nothing, and the row stays active with nothing
   to read. The user was told that the file is back. `docs/04-sync-semantics.md:30`
   (INV-1) and ADR-004 forbid to erase from a file in use. If the file was trashed
   again before `Purge`, its row goes as well, on its first day there. What
   `CurrentReadable` and `OthersUntouched` except, versions a gc has listed, is this
   and the files the batch is right to erase.
4. `early_prune`: the 90 days run from the creation of a version
   (`docs/01`, `docs/03` and `docs/05` specify just that), while the dialog
   text of `docs/04-sync-semantics.md:146` and ADR-004 promise the user 90 days
   from the overwrite.
5. `stale_visit`: a visit reads the file through `Reader`
   (`handler_share.go:203`), from the replica for a visitor. The comment at
   `handler_share.go:148`, docs/05 and ADR-008 say that it always reads the
   primary. A link made right after a restore can be revoked by its first visit.
6. `spared_link`: `RevokeByFile` is not in one transaction with `SoftDelete` and
   its error is dropped (`handler_files.go:485`); `docs/07-security.md:396` says
   it is. A link it spared serves the file from a stale replica or after a restore.
7. `broken_download`: an error of `DecryptStream` is only logged
   (`handler_files.go:400`, `handler_share.go:245`). No `Content-Length` was set,
   and the handler returns, so net/http ends the chunked answer as a complete one;
   the comment at `handler_files.go:402` says that the connection is cut.
8. `accounts`, a run that passes: `AdmittedAsTold` says that a session is let in
   within 7 days of its login and not later. `docs/07-security.md:67` says that it
   extends itself: requests renew `last_seen_at` and, after 24 hours, `expires_at`.
   `RequireAuth` (`middleware/auth.go:93`) only looks it up, and `SessionsRepo.Touch`
   (`sessions.go:60`), which would renew it, has no caller. So the user is logged out
   a week after the login, in the middle of whatever he does.

Seen while modelling, without a run:

* The RAW cookie carries `until.Unix()` (`middleware.go:165`): a window of 5 seconds
  lasts 4 to 5. The assumption `LagAssumption` has the lost second in it.
* `docs/07-security.md:197` and ADR-005 say that the chunks show any loss; one of
  whole chunks off the end is not noticed. `OnlyLostTailUnnoticed` says that
  nothing else escapes.
* `docs/07-security.md:99` counts failures within 15 minutes, the code since the
  last success.
* `persistVersion` holds a transaction, maybe with the lock of a row, while `FindByID`
  (`handler_files.go:325`) waits for a second connection, in the read-after-write
  window one of the same pool. Uploads that hold all 50 (`server.go:230`) between
  them wait for one another, until one is given up: its client goes away, or a time
  limit of net/http or MySQL strikes. docs/01:77 promises at most 10 uploads at a
  time, which would exclude it, and docs/11:282 an answer 503; neither is in the code.
* Bytes of versions that force-purge did not list stay, though
  `cmd/sync-files-admin/main.go:81` and ADR-009 promise that all go;
  `BytesOnlyUnderGone` bounds what can stay.
* `ensureFileRow` takes the name from the path as it was sent (`handler_files.go:306`),
  while `path_hash` is over its NFC form (`repo/mysql/files.go:37`); the comment at
  `domain/file.go:65` says that the name is normalized. So two Unicode spellings of
  one path are two active files under one hash, and a look-up answers either of
  them. `LocksItsTarget` excepts them (`SpelledApart`); they are also the only way for
  two uploads to wait for each other's rows, until MySQL fails one of them.
* The form of the browser sends `If-None-Match: *` only (`app.js:55`) and the
  dialog opens on 409 (`app.js:80`), but the server answers 412.
* The sweeps of `tmp/`, of objects without rows, and of `files` rows without a version
  (`handler_files.go:300`) that comments and docs mention are not in the code.

## 4. Proofs

`FileStoreProofs` proves, for any set of uploads and paths, any `HashOf`,
`NameOf` and `CopyOf` and any number of failures, every safety property of the
run `file_store` but the refinement: `TypeCorrect`, `PointerIsNewest`,
`CurrentCanBeRead`, `NamesAreUnique`, `BytesHaveRows`, `AtMostOneWinner`,
`NoLostUpdate`, `PointersAdvance`, `LocksWhatItWrites`, `OverwritesAsAsked`; and
`NoCircularWait`: whoever holds a row waits for no other row, which is the safety half
of `UploadsEnd` as far as rows go, and for any number of uploads. It says nothing of
connections: a transaction that holds a row may wait for one. Assumptions:
`MarkerAssumption` (the markers are no version UUIDs), `PathAssumption` (the path of a
copy is a path), `FaultAssumption`.

None of these properties is inductive. `IInv` adds what they rest on:

* `Provenance`: what tables and batch lists name was committed; a row belongs
  to an upload past `ensureFileRow`.
* `LockDiscipline`: a lock is held by one transaction, on an active row that
  its preconditions accept now. This is what the second evaluation is for.
* `MatchedFile`: an If-Match upload writes to the file of the version it names,
  and never creates it. Without this, a lock on the row at the path would say
  nothing of the row that is written.
* `NumberFresh`: a computed number is the next one, or taken by a young
  version, and then the INSERT fails. This carries the race between a creator,
  which holds no lock, and an overwriter.
* `PointerIsTop`, `WinnerIsNewer`: version numbers of committed versions, pruned
  ones included; together they refute two winners over one version.
* `PruneSafe`, `GcSafe`, `BytesFirst`: what the batches have on their lists,
  and that bytes precede rows. `CurrentCanBeRead` excepts what gc has listed: that
  gc lists no version of a file in use is not true (finding 3).

`LocksWhatItWrites` is about the two look-ups of an upload, one before the body and
one under the lock. Both go by the hash of the path (`FoundByHash`, an invariant on
top of `IInv`), and two files in use that one hash leads to have, by
`OneActivePerName`, different names. `NoCircularWait` follows: a row that is locked
is in use, so a transaction that holds one row would have to wait for a row of another
spelling. So does `OverwritesAsAsked`: the lock was on the file that is written, and
nobody, its creator included, has committed to it since the rule was evaluated. Its
exceptions are findings 1 and 2, which are therefore all there is of that kind.

`IInv` was first checked by TLC on the instance of `file_store`. The proof has
one lemma per action and one step per conjunct it can disturb; frame lemmas
(`TablesFrame`, `GcFrame`, `PruneFrame`, `StageFrame`) cover the rest.

`FileStoreHistoryProofs` proves `ImplementsVersionHistory`, `Spec => History!Spec`,
under the same assumptions and on top of the invariance of `IInv`. The initial
states map to the initial state; of the steps, `Preflight` maps to `Ask`, a commit to
`Save`, a refusal or failure to `Decline`, the row of a new file to `Create`,
deletion, restore and purge to their namesakes, the row of a pruned version to
`Forget`, and all others to stutters. The heart is the commit: `PointerIsTop` and
`NumberFresh` make the new number the top, so that the version before it is the old
pointer and no `before` of another version changes; `LockDiscipline` and
`MatchedFile` make that pointer the one the upload named.

`ForcePurgeProofs` proves, for any set of files that may be erased besides, every
safety property of the run `file_store_live` but the refinement: `PurgeTypeCorrect`,
`GoneIsGone`, `OthersKeepVersions`, `OnlyErasedLeaveBytes`, `OthersPointersAdvance`.
It also shows which properties of `file_store` the command leaves alone, in every
file: `PurgeKeepsOneWinner`, `PurgeKeepsNamesUnique`, `PurgeLosesNoUpdate`,
`PurgeLocksWhatItWrites`, `PurgeOverwritesAsAsked`, `PurgeNoCircularWait`. The
assumption besides those above: `UnwantedAssumption`.

`IInv` does not survive the command: between its statements a file points to a row
that is gone, its version numbers fall and are given out again, and a row becomes
absent. `PInv` parts what rests on locks and preconditions, which holds of every
file, from what rests on numbers and rows, which holds of the files no command was
started for:

* kept as they are: `Provenance`, `LockDiscipline`, `MatchedFile`, `GcSafe`,
  `BytesFirst`, `OneWinnerPerVersion`, `OneActivePerName`;
* restricted to files that are not `hit`: `OthersNewest`, `OthersNumbered`,
  `OthersTop`, `OthersReadable`, `PruneSpares`;
* in place of `WinnerIsNewer`, which falling numbers break: `WinnersMoveOn`, after an
  upload with If-Match: v the pointer is never v again. This, with `PointerCommitted`,
  still refutes two winners;
* `CommandSafe`: the command works on versions of one file that nobody is still to
  create, so that nothing brings the row back;
* `NumbersBounded`: MAX has a value even when the row of the highest number is gone.
  That a bounded set of numbers has a maximum (`BoundedSetHasMax`) is proved from the
  well-foundedness of the subsets of a finite set, as the library's induction over
  numbers takes an operator.

`ForcePurgeHistoryProofs` proves `ImplementsErasableHistory`, `PurgeSpec =>
Erasable!ErasableSpec`, on top of the invariance of `PInv`. The start of a command maps
to `Condemn`, the row of a version it takes to `Lose`, its last DELETE with the cascade
to `Vanish`; the steps of `FileStore` map as before, those that concern a file under
erasure to the weaker forms. A second command for a file, or one that dies, is a
stutter.

`SharingProofs` proves, for any files, browsers, links and requests, any length
of a second, of the window and of the lag, every property of the run `sharing`:
`TypeCorrect`, `ReadsOwnWrites`, `DeletesAreNotMisled`, `DeletedFilesAreNotServed`,
`MissesAreLate`. Assumptions: `ClockAssumption`, `LagAssumption`,
`NoneAssumption`. The inductive invariant:

* `LogOrdered`: replica, log and primary are stages of one history in order, and
  what is still in the log is no older than `Lag`.
* `CookiesCover`, `Covered`: what a browser was told of is on the replica, or
  will be before the window of its cookie, or of its request, is over
  (`DueBefore`). This is the heart: `WindowOutlastsLag` shows that a window that
  starts now, truncated, covers the change just made and everything before it.
* `ReadBehind`: a row that was read is no newer than the primary's, nor, outside
  the window, than the replica's.
* `LinksKnown`, `DoomedLinks`: links of deleted files are inactive or spared, and
  what a delete found when it committed is what it revokes.

Each state change of the databases (`Writes`, `Replicate`, `Tick`, none) keeps
the log in order and only lets rows grow (`Grows`); one lemma then shows that
every request stays sound under `Grows`, and one lemma per action does the rest.

`AccountsProofs` proves, for any requests and secrets, any threshold and any
durations, every property of the run `accounts`: `TypeCorrect`, `SignupIsUnique`,
`NoFailureLost`, `LockAtThreshold`, `VerdictsStand`, `FactorIsConfirmed`,
`LocksOnlyGrow`, `SessionsAsTold`. Assumptions: `TimeAssumption` (thresholds and
durations are natural numbers, the first two positive) and `NoneAssumption`. The
inductive invariant adds to the properties `RowHeld` (the row is locked exactly by
the login that counts, and the count is still the one it read: why no failure is
lost), `LockBounded` (no lock outlasts one that begins now: why a later failure
cannot bring the end nearer), `ChosenConfirmed` (what is about to be stored was
confirmed) and `SessionRows` (a session whose browser is in has its row, and after a
logout only a spared one has). `EndedSessions`, on top of it, says that a request that
was turned away carries the cookie of a session that will never be let in again.

`TransferProofs` proves, for any size of chunk, bodies, limit, downloads and number of
faults, every property of the run `transfer`: `TypeCorrect`, `VersionsAreWhole`,
`NothingForeignSent`, `DecryptUndoesEncrypt`, `LossesNoticed`. Assumption:
`SizeAssumption`. The inductive invariant: `UploadSoFar` (while the client is there,
the object is how the body begins, and complete once the body has ended), `Stored`
(what the tables know is whole until it is damaged), `ChunksTrue` (a chunk of this
version is one of the body wherever the damage put it, with the counter of its
piece), `Counted` (the nonce counter is the number of pieces sent).

Only model-checked: the four liveness properties of `file_store_live` (fairness and
ENABLED are out of the prover's reach) and the findings 1 to 7. Every invariant,
action property and refinement of a passing run is a theorem.

## 5. Not modelled, and what is left

Not modelled, and why:

* Reconciliation job: it changes nothing. `MetadataOrphans` reports rows without
  bytes, `CleanupExpiredUploads` selects from a table nothing writes. That
  `MetadataOrphans` also reports versions a batch is just erasing follows from the
  order of `GcRemove` and `PruneRemove`.
* Browser client: the dialog is not reached from the form (above), so there is no
  protocol of two devices to model. The requests of its choices are among
  `ClientPreconditions`.
* Listing, search, the audit log and the other pages: single read-only queries, or
  rows nothing reads back in a decision.
* Password hashing, configuration, CSRF and headers, deployment: computation or wiring
  without state.
* Of what is modelled: share-link passwords, tokens and access counts, the listing
  of links, `force-purge` with another `--user`, directories of the storage.

What is left, in this order:

1. An abstract register that reads its own writes, refined by `Sharing`.
2. An abstract account whose logins are single steps, refined by `Accounts` up to the
   logins that read the row before it was made stricter (`early`).
3. Access counts of share links under concurrent visits.
