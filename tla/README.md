# A verification project for LanDrive

LanDrive is a file drive for a local network: a Go server (`src/server`) keeps
accounts, folders, files, shares and upload sessions in MySQL and bytes in a
data directory; a Vue client (`src/web`) talks to it over HTTP. What the
program promises is written in `src/docs/design.md`, in comments and in tests.

This directory holds TLA+ models of the parts of the program where order,
failure and concurrency decide whether bytes, tables and memory agree, TLC
configurations that check them on small instances, and TLAPS proofs of their
safety properties for every size of them.
All Go paths below are relative to `src/server/internal/`.

## 1. Inventory

| Component | State it keeps | Operations | What is hard | What makes it correct |
| --- | --- | --- | --- | --- |
| **Chunked upload** `upload/upload.go`, `handler/upload.go`, `store/uploads.go` | tables `upload_sessions`, `upload_chunks`, `files`; `tmp/chunks/<session>/<idx>`; `<dir>/<id><ext>` | Init, PutChunk, Status, Complete, Cancel | requests of one session interleave statement by statement; rollbacks run under a context that may have ended; several stores without a common transaction | one product per session; a finished row has its bytes and describes them; losers and failures leave nothing; a complete upload gets finished |
| **Maintenance** `maintain/maintain.go`, `store/misc.go`, `cmd/landrive/main.go` | none of its own; database lock `lanfs_maintain` | RunExpire, RunPurge, RunCleanStaleUploads, ScanOrphans, cleanupArchive, PurgeExpiredShares, ScanStorage | lists are read first and worked through later, beside requests; crash in the middle | only what is stale, ended, expired or unknown is removed, and in the end all of it is |
| **Storage** `storage/storage.go` | the data directory | write, merge, move, rename, remove, walk | temporary files shared by writers; renames and removals without locks | readers see whole files; paths stay inside the root |
| **Store** `store/*.go` | MySQL tables (`store/migrations`) | one method per statement or transaction | unique keys, cascades, `ON UPDATE` timestamps, affected rows | statements are atomic, nothing more |
| **File life cycle** `files/files.go`, `store/files.go` | `files.status`, `expires_at`, `deleted_at`, `purge_at` | rename, trash, restore, purge, permanent, expiry | user, administrator and tasks change the same row; quota is compared first | trashed files can be restored until purged, and are purged; permanent files do not expire; quota holds |
| **Folders** `folders/folders.go`, `store/folders.go` | `folders` tree with materialised `path`; directories; `files.rel_path` | create, rename/move, delete, list | three representations changed in three steps, by requests that do not see each other | path = parent's path + name; no cycle; `rel_path` names the bytes; no bytes are lost |
| **Shares** `shares/shares.go`, `store/shares.go`, `handler/shares.go` | `shares` | create, resolve, list, revoke, purge | the target changes after the check | a link shows only what is live, and only below its target |
| **Accounts** `handler/auth.go`, `store/users.go`, `auth/auth.go` | `users`; cache of users (15 s) | login, create, update, delete, password | cache fill races with invalidation; counting administrators, deleting during uploads | disabled accounts lose access; an administrator remains; nothing of a deleted account remains |
| **Login limiter** `auth/auth.go` | failures per key, in memory | Allow, Fail, Reset (Sweep has no caller) | check and count are separate | failures are bounded by the limit and the logins in flight; only recent failures lock out |
| **Settings** `settings/settings.go`, `store/settings.go` | cached values and table | Get, Update, Seed, Reload | read-modify-write without a lock | what is in force is what is stored; an update changes what it was asked to |
| **HTTP layer** `handler`, `router` | the request's context | routes | the context ends when the client leaves | - |
| **Configuration, migrations** `config`, `store/store.go` | environment, schema | read at start | - | - |
| **Browser upload manager** `src/web/src/utils/upload.ts` | tasks, `localStorage` record per file and folder | add, run with workers, retry, cancel | resumes against sessions that changed or vanished | chunks it believes uploaded are uploaded |
| **Browser views** | - | rendering | - | - |

Interaction: the browser sends HTTP requests, each a goroutine. Handlers call the
services; services call the store (one connection per statement, except inside a
transaction) and the storage. Nothing in the process serialises two requests of
one session, folder or file. Maintenance tasks run on tickers (5 min, 10 min,
1 h, daily) in every replica, one at a time under `GET_LOCK(..., 0)`; a task that
finds the lock taken skips its turn.

`PROJECT.json` lists the hazards line by line.

## 2. What is modelled now

| Module | What it is |
| --- | --- |
| `Upload` | the upload service: requests, tables, directory, faults |
| `UploadMaintain` | `Upload` beside the hourly upload clean-up and the daily orphan scan |
| `UploadPromise` | what the upload service promises about a session and its product: the abstract specification |
| `UploadContract` | what the upload service promises about a session and the chunks it was given; a second abstract specification |
| `MCUpload`, `MCUploadMaintain` | the instances TLC checks (symmetry sets) |
| `Files` | the life of finished files, with the expiry and purge tasks |
| `Folders` | folders in tables and on disk, with uploads into them |
| `Shares` | share links and their visits, over the folders and files of `Folders` |
| `Accounts` | accounts, tokens, the cache of users, the directories of accounts |
| `Settings` | the configuration: table, values in force, updates |
| `LoginLimiter` | the limiter of failed logins |
| `UploadClient` | the browser's upload manager, with a stand-in for the upload service |
| `ChunkFile` | one chunk below the steps of `Upload`: `.tmp` file, row, `received_bytes` |
| `MCFiles`, `MCShares`, `MCServices` | instances for TLC, each split into scenes |
| `Upload_proofs`, `UploadMaintain_proofs`, `Files_proofs`, `Accounts_proofs`, `ChunkFile_proofs`, `UploadClient_proofs` | theorems about the module of that name, with proofs |
| `Shares_proofs` | theorems about `Folders` and `Shares` |
| `Services_proofs` | theorems about `Settings` and `LoginLimiter` |

How they fit: `UploadMaintain` extends `Upload`, `Shares` extends `Folders`.
`Folders` keeps of an upload the four moments at which it touches paths (open,
row, merge, finish), `Accounts` only that a file appears, `UploadClient` as much of the
service as its answers depend on, which is assumed there; `ChunkFile` looks into
what `Upload` takes as one write.
`Files` and `Folders` meet in one place: each has a reduced version of the
other's operations (a folder that moves or is deleted in `Files`; Trash, Restore
and Purge of a file in `Shares`).

### Upload

State. `status`, `fileOf` are columns of `upload_sessions`; `chunkRow` is
`upload_chunks.size_bytes`; `row`, `madeBy`, `meta` are the row of `files` with
its path, the session it was inserted for, and its size and digest; `chunkFile`
and `disk` are files, `merging` tells whether `<id><ext>.merging` is there beside the file.
`req` holds the requests: a program counter and the local
variables of `WriteChunk`, `Complete` and `Cancel`.

Actions. Every statement and file-system call that another request could
separate from its neighbours is an action, named after its operation:
`PutBegin, PutDisk, PutDrop, PutRow`; `CompleteBegin/Again, CompleteList,
CompleteExist, CompleteVerify, CompletePlace, CompleteMerge, CompletePublish,
CompleteFinishSession, CompleteFinishFile, CompleteCleanDisk, CompleteCleanRows,
UndoRow, UndoDisk, Reread`; `CancelBegin, CancelDisk, CancelRow`. Complete reads
and merges one chunk per step.

Faults. `cut`: the client leaves, and since every statement takes the request's
context, all later statements are refused, those of a rollback too. `db`: a
statement fails. `lost`: a statement takes effect and its answer is an error.
`io`: merging fails. `crash`: all requests vanish, and a `.merging` file stays. `MaxFaults` bounds db, lost,
io and crash together; `cut` is bounded by the requests.

Abstractions, and why they are sound for the properties:

- a chunk's body is one of `Body`: the right bytes, others of the same length,
  fewer, more up to `chunk_size`, or too long. `short` and `wide` differ from the
  right length by the same amount, so the declared total can be met by mistake;
- all sessions have the same owner, name, size and number of chunks: the worst
  case for the search by name and size (`Found`);
- `fileOf` keeps its value after the session's row is gone: a ghost, used by
  `published` only;
- `received_bytes` is left out (see `ChunkFile`): after a chunk is recorded it
  only chooses the answer of the PUT. Racing first inserts of a chunk, one of which is refused,
  give states that a failing or losing PUT reaches too;
- an init that finds an open session changes nothing and is no action;
- a failing read ends a request without effect, as `cut` before the read does;
- `IdsLeft` keeps an unused row id for each request that may insert one. It is a
  bound of the instance: ids are unbounded in the program;
- `chunkFile` changes at once; two writers of one `.tmp` file are the subject of
  `ChunkFile`;
- settings that change between Init and Complete only refuse a Complete at its
  beginning, which is a request that never asked.

### UploadMaintain

Adds the sessions that are stale (24 h), the age of chunk files in days (up to more than
48 h), the files that are old (7 days), and `job`: the one task that holds the lock, with the list it read.
A file has its age from the moment its bytes are written, wherever they lie: archiving is
a rename (`Storage.Move`), which keeps the modification time that the sweep looks at.
`ListStale, StaleDisk, StaleRow, ListFinished, FinishedRow, UploadsDone` are
RunCleanStaleUploads, `ScanRead, ScanVisit, ScanEnd, SweepArchive, SweepChunk,
SweepEnd` are ScanOrphans with cleanupArchive. `Freshened` translates
`updated_at ... ON UPDATE` and modification times: recording a chunk touches the
session only when its size changes. The archive's directories by date are
one place. `.merging` files are passed over by the scan and looked for by no clean-up. The lists
have no limit here, where the code takes `s.batchSize` rows a turn, in the order of ids or dates
(so has the purge of `Files`): rows that fail again and again could keep others out. Ageing leaves alone a session that a PUT or Complete is working on: a day
is longer than those. The clocks of an open session and its chunks are one clock: a chunk only
becomes a day older when its session is stale, or when something else has updated the session
in that day (`kept`), which is, above all, the record of another chunk. A file does not become old while its request builds it or after a scan
has just moved it: seven days are longer than any task.

### UploadPromise

Four steps: open a session, decide its product (once, while open, never a file
of another session), publish the product's bytes (once, whole, unchangeable),
close the session. `Upload!Promise` instantiates it with the mapping `phase`
(from `status`), `product <- fileOf`, and `published` (the bytes on disk when the
product's row is final). The compare-and-set is Decide, FinishFile is Publish;
Cancel and reclaiming are Close, also when the session was already done; all
else stutters.

### UploadContract

A session is opened, records chunks while it is open, and is finished once: merged, with
every chunk recorded at that moment, or ended. It is never opened again. `Upload` maps
its tables to it (a session with a product is *merged*, also when its row is aborted or
deleted later; otherwise the status decides). In particular the service does not lose the
record of a chunk while the session is open, which is what lets the browser skip the
chunks it was told are there. The browser's side is not shown to implement it: what
`UploadClient` takes a session to do are assumptions about the service, of the same kind.

### Files

State. `row` is the table `files` of one account: status, expiry, purge date,
name; `bytes` the files whose bytes exist; `place` and `dirAt` the directory that
`rel_path` names for the files of one folder, and the one they lie in; `req` and `job`
the requests and the maintenance task with what they read. Dates are how they
compare with now: *later* ages to *due*.

Actions. The read and checks of a handler are one step (`Rename, SoftDelete,
Restore, Purge, SetPermanent, SetFolderPermanent, DeleteFolder, DeleteOwner`), each
statement and removal that follows is another (`WriteOne, FolderStats,
EnsurePermanentFits, WriteExpiry, TrashFolder, ClearOwner, PurgeBytes, PurgeRow`).
Statements check the status again exactly where the SQL does (`MarkTrashed`,
`RestoreFile`, `RenameFile` do, `SetExpiry` and `DeleteFileRow` do not). The
tasks list first and then work (`StartExpire, ExpireOne; StartPurge, ListDue,
PurgeTaskBytes, PurgeTaskRow; EndTask`); failures end a request, skip a file of the
purge task, end the expiry task, or are a crash.

The sum of sizes that the quota is compared with is the number of pairs of a file and one
of its octets (`Octets`): a sum without recursion, that the library's facts about
cardinalities apply to.

Ghosts: `interrupted` (a purge stopped between bytes and row), `missed` (a purge
looked in a directory where the file did not lie), `raced` (the table changed between a
request's read and its write). The properties exempt exactly these: they are what
the code does when it is overtaken, see below.

### Folders and Shares

State. `fstat, parent, fname, path` are the table `folders`; a path is a sequence of
segments, and deleting a folder marks its own last segment with its id (the code
appends `:<id>`), which `SafeRel` refuses in a directory. `dirs` are the
directories on disk. `file` has of each upload and file the session's directory, the row's
`rel_path`, folder and status, and the directory the bytes lie in.

Actions. `Create, Rename` (also a move) and `Delete` are the reads and checks of a handler;
`CreateInsert, CreateDir, RenameRows, RenameFiles, RenameOnDisk, DeleteFiles,
DeleteTree` the transaction, statement or directory operation that follows. `RenameDir`
has the outcomes of the code: no source (the target is made), target exists, target below
the source, moved. `CreateDir` takes the new row back when the directory is refused or cannot be
made. `Fails` ends a request at any of them, by an error or the end of the process.
`DeletionTakesFiles` is about deletions: a creation that is taken back also marks rows deleted,
those that came under its path meanwhile, and is excepted (`TakesBack`).

`Shares` adds `link` (the table `shares` and where a link is in its life) and `visit`
(a visitor between two statements): `ResolveToken, ResolveTarget, Count`, a second time
for downloads, then `Fetch, ListFilesInFolder, Send`. Owners `AskShare, CreateShare,
Revoke`, trash, restore and purge meanwhile; `Lapse` and `PurgeExpired` are time and
the daily task.

Ghosts: a request is `raced` when the tables change under it, or it starts while
another one is halfway; `spoiled` is set when a raced request writes, or one fails halfway.
Until then the folders are sound; afterwards they need not be, since no transaction
covers check and write. `usable` and `live` remember what a visit has passed through.

### Accounts, Settings, LoginLimiter

`Accounts`: `users`, `cache` (a row with its age in ticks; 15 s in the code), `tokens`
(account and fingerprint of its password), `home` (whose bytes lie in `users/<no>`), `holds`
(accounts that have rows in `files`), `call` (requests). `Arrive, Load, Fill` are
authentication over the cache; `Check, Write, InvalidateAfter` the handlers UpdateUser,
ResetPassword and ChangePassword; `Insert, MakeDir, SetDir, UndoRow` CreateUser with its roll back;
`PurgeOwner, DeleteRow, CleanupUserDir` DeleteUser, of which `Files` models the files;
`LoginRead, LoginIssue` Login. `Crash` forgets requests and cache. The write of an update and the
deletion of a row may fail, and may take effect and report an error: the request then goes
back (`Failed`) before it invalidates the cache or removes the directory. The deletion that takes a
row back may fail too. A statement of CreateUser that takes effect and reports an error (`Insert`,
`SetDir`) is not modelled: it leaves an account without a directory, or with one that is removed.
DirRelInUse is left out: a directory is named by the number,
and the number is unique.

`Settings`: `Update` takes the values in force, `PutSettings` commits all keys, `Swap`
puts them in force; `Restart` is Seed and Reload, `Edit` a change of the table by hand. A
value is *missing*, *bad* (cannot be read: all values become the defaults) or one within bounds.

`LoginLimiter`: a bucket per key with its count and the age of its window; `Allow` and
`Fail` or `Reset` are apart, since the password is compared in between. `failed` is a history
that the properties compare with the buckets.

### UploadClient

Per task: `run` (how far `run()` is), `shown` (`task.state`), `sid`, `canceled`, and
per chunk `part` and `attempt`; `record` is the entry in `localStorage`, `server` and
`got` as much of the service as the answers depend on. What the service does in `InitUpload,
Serve, Merge, Cancel` and `Reclaim` is assumed, not translated from `upload.ts`: it refuses
chunks and merges of a session that is not open, and merges one that has all chunks. `Upload` and
`UploadContract` say how far the service's own code does so. Workers take the first chunk left (`Take`), a PUT
may be served, refused or lost, before or after it took effect (`Serve, Lose`), and is
tried again up to `MaxRetry` times (`NotAnswered, Again`). `WorkerFailed` is the
rejection of `Promise.all`: the run ends, the other workers go on. `Cancel` comes at any
moment; the record survives it, because it is stored under a key that names the
folder and cleared under one that does not. A retry is a task of its own. `Reclaim` is
the service's clean-up of stale sessions.

### ChunkFile

`tmp` and `chunk` are names of inodes, `data` the blocks of an inode, `put` the PUTs of
one chunk: open with truncation, copy block by block at an offset of their own, rename
whatever bears the temporary name, then UpsertChunk's read and its write of `size` and
`received`. Bodies are prefixes of the right bytes and one block more: a body that is too long
is renamed like the others and then removed (`RemoveChunk`), with the chunk it has replaced, whose
row stays. `CutOff` ends a body early, `Dies`
ends them all. Ghost `torn`: a PUT was cut off whose inode another PUT had or had
renamed, two of different lengths overlapped, or one that is too long replaced a recorded chunk; ghost `blind`: a size was replaced that
the PUT had not read.

## 3. Runs

| Run | Instance | Shows |
| --- | --- | --- |
| `upload_bytes` | 1 session, 2 requests, 2 chunks, 2 files, bodies good, short, wide and too long, declared sha256, all operations, cut, db, lost and crash, at most 1 | `OneProduct`, `DigestMatchesBytes` |
| `upload_live` | 1 session, 2 requests, 3 files, put, complete and cancel, merge failure | `NothingLeftBehind`, `AssembledIsCompleted` (fair) |
| `maintain_reclaim` | 1 session, 2 requests, 3 files, task uploads, cut, db, io, crash | `MTypeOK`, `CreatedIsReadable`, `PromiseKept`, `ContractKept` |
| `maintain_tasks` | 1 session, 1 request, 1 chunk, 2 files, both tasks, cut, db, crash | `FinishedIsKept`, `StaleIsReclaimed`, `GhostsAreCollected`, `ChunksAreReclaimed` (fair) |
| `upload_repeat` | 2 sessions, 2 requests, no faults | violated: `CompleteIsIdempotent` |
| `upload_undo` | 2 requests, cut and io | violated: `FailedMergeIsUndone` |
| `maintain_scan` | 2 requests, task orphans, no faults | violated: `ScanSparesFinished` |
| `maintain_sweep` | 1 request, 3 chunks, task orphans, no faults, the session never stale (`NeverStale`) | violated: `SweepSparesUploads` |
| `files_life` | scenes *pair*, *tasks*, *quota* (below); at most 1 fault | `FTypeOK`, `MissingIsBeingPurged`, `PurgeLeavesNoBytes`, `TrashedIsFrozen`, `PermanenceIsKept`, `QuotaOverrunIsRaced`, `ExpiredIsTrashed`, `DueIsPurged` (fair) |
| `folders_shares` | scenes *folders*, *upload*, *shares*; 3 folders, 2 names, 1 file, 2 requests at a time | `STypeOK`, `SoundTree`, `KeyIsFree`, `BytesAreKept`, `DeletionTakesFiles`, `ServedWasLive`, `CountedWasUsable` |
| `folders_rename` | the same, 1 request at a time and 2 in all | violated: `RelPathNamesBytes` |
| `services` | scenes *access*, *admins*, *homes*, *settings*, *limiter*, *task*, *tasks*, *chunk* | `AdminRemains`, `StaleEntryIsRaced`, `RevocationTakesHold`, `FilesOutliveOthers`, `InForceIsStored`, `OthersAreKept`, `FailuresAreBounded`, `RefusalIsEarned`, `TaskIsTrue`, `RunEnds` (fair), `ChunkIsWhole`, `ReceivedIsSum` |

Scenes. Where all actions at once would be too many states, an MC module chooses a
*scene* in the initial state, which says what takes part. Scenes cut the instance and
leave the definitions alone; every action takes part in one.

- `files_life`: *pair*, one file in a folder that moves, two requests, one of them
  free to rename, trash, restore or purge, the other to restore or purge, and the tasks; *tasks*, two files, the
  tasks, a request on the whole folder or account or a restore, and one failure or
  crash; *quota*, two files of size 1 for a quota of 1, two requests that make files
  permanent, trash or restore.
- `folders_shares`: *folders*, three requests, two at a time, on folders `a` and `b`
  with a file in `a`; *upload*, two requests and an upload; *shares*, one request, a link
  and a visitor.
- `services`: *access*, two accounts, their cache and passwords; *admins*, two
  administrators act on each other and themselves; *homes*, accounts are created and
  deleted while files are stored; *task*, one task with two chunks from the start;
  *tasks*, two tasks for one session; the others are the module of that name. These components
  share no state, so that moving one per behaviour loses nothing.

Bounds of the upload runs. Two requests at a time suffice for every race of the code: each
conflict is between two requests, or a request and the task, over one session,
and requests follow one another without limit. Two chunks are the fewest where
an overwrite can fall between two reads of a verification or merge. Two or three
file ids allow a lost race or a rolled back attempt and then a further one. One
session is enough for properties of one session; that sessions do not share a
product is part of the proof of `PromiseHolds`, for any number of sessions.
`AssembledIsCompleted` is checked without too long chunks: a Complete may be
turned away by another one that fails because such a PUT removed a chunk, and
then the client has to ask again. `PromiseKept` is
checked without lost answers: when FinishFile takes effect and reports an error,
the rollback deletes the row of a published file, if its own statements succeed.

Bounds of the maintenance runs. `maintain_tasks` has one request, so that a PUT meets the
clean-up of stale sessions there, and meets a Cancel or Complete in `maintain_reclaim` only, where
two run. `maintain_sweep` needs three chunks, one for each day that the session has to be
kept from being stale and the one that is lost; its constraint cuts behaviours in which the session
becomes stale, and only removes behaviours from a search for a violation.

Bounds of the other runs. Again two requests at a time, `Request`, `Call`, `Saver`, `Try`
or `Writer`, are the fewest for every conflict. `Files`: two files, of which one is
nested; two names, to see a rename; `MaxFaults` 1. `Folders`: `MaxOps` 3 requests
(one creates or deletes, two race on the result), depth 3 and three folders, which allow a
folder below a folder and a deleted folder whose name is taken again. `Shares`: one link, one
visitor, `MaxViews` 2, a download's own count. `Accounts`: three ids for two employee
numbers, so that a number is used again; `TTL` 1 (fresh, old, gone), `MaxHash` 2 (one new
password), `MaxCalls` 2 administrators' requests. `Settings`: two keys, since an update must be able to
spare one; two values; `MaxSaves` 3 (two updates and a start or an edit).
`LoginLimiter`: `MaxFailures` 2, `Window` 2, ages and counts that can pass both;
`MaxFailed` 3 only caps the history; the run has one key, the theorem any number. `UploadClient`: two tasks, sessions, chunks, workers and
attempts, the fewest with a worker left behind and a chunk tried again. `ChunkFile`: two
writers, `MaxPuts` 3 (a third meets what two left), `MaxBlock` 2 (a truncation
between two blocks), three inodes, as many as can be in use.

Each property has a mutant of the code in the module, commented `Mutant:`, that
violates it.

Fairness. `FairSpec`: a started goroutine runs on (`WF` per request of
`Proceed`); clients need not ask for anything. `FairMSpec` adds that time passes (sessions and
files grow old, `WF`; chunks do between the tasks, `SF`, since no day passes within one) and that a
started task is worked off (`WF`).

Turns of the tasks. `main.go:199-210` starts the tickers of 5 minutes, 10 minutes and one
hour together, and every task asks for the same lock without waiting. Each tick of the purge
therefore falls on one of the expiry, each hourly tick on one of both, and the one that loses skips
its turn: the code does not guarantee that the purge or the hourly clean-up ever runs. Nothing is
assumed of `StartPurge` and `ListStale`, and what depends on them is stated per turn: a turn
of the hourly task deletes what was stale when it began (`StaleIsReclaimed`), a turn of the purge
removes what was due (`DueIsPurged`), unless a fault interrupts it. Two turns are assumed to
come (`SF`). `StartExpire`: every other tick of the expiry falls on no other, and a task that
began with the tick before has been cut off by its timeout of five minutes. `ScanRead`: the daily
scan comes at 03:30 UTC, a time that has nothing to do with when the process, and with it the tickers,
started; that it never meets a free lock would be a coincidence, and is excluded.

`FFairness`: requests run on, time passes (a file expires, a purge date comes), a started task
is worked off (`WF`), and the expiry gets its turns (`SF`). `services`: only the clock (`Time`) and,
for the browser, that every request ends with an answer or an error of the connection and
that what waits for it runs (`TaskMoves`, `WF` per task). `api/index.ts:442,455` set no timeout for
PUT and complete, so that this rests on the network. Nothing else is assumed, in
particular not that a request of an account ends.

What the exemptions of the properties stand for. Most handlers check and write in
separate statements, and nothing excludes another request in between. A property
that ignored this would be false, one that excluded races by a bound would be empty. So ghosts
record exactly which write was overtaken, and the property says that nothing
else can break the rule: a wrong quota, tree, entry or last administrator needs such an
overtaking and not merely a long sequence of requests. What an overtaken write does is listed below.

### Disagreements with the documentation

The five violation runs are the findings of `PROJECT.json`:

1. Overlapping Completes are answered with a conflict, not with the file (design
   §5 calls it idempotent). In the same property: between the compare-and-set and
   FinishFile a repeated Complete gets the unfinished row, and the loser of a
   race whose session was cancelled meanwhile gets a file by name and size.
2. The rollback of Complete runs under the request's context. When the client
   has left, the placeholder row `pending-<session>` stays, and its unique path
   makes every later Complete of the session end in a conflict, until the session
   is reclaimed; the row itself stays.
3. The orphan scan moves a file away that was finished after the scan read the
   table.
4. The sweep deletes chunks older than 48 hours (the comment says one day) of
   sessions that are still open, and are kept from being stale by later chunks.
5. Deleting a folder frees its name and keeps its directory. When another folder takes
   that name, the tables are updated and then `RenameDir` refuses, because the target
   exists: files are recorded under one path and lie under another, which is what
   `storage.go:356` says must not happen.

Further behaviour of the code that the models contain and no run is spent on, or that reading
them showed.

The archive is swept by modification time, and archiving a file does not change it. An
orphan older than seven days when the scan meets it (the server was down for a week after
a crash, or an old file lies elsewhere than its row says, as in 5) is archived and deleted
in the same turn of the task, where `maintain.go:227` and the design keep it for seven days. That is why
`FinishedIsKept` speaks of a file's age and not of its time in the archive.

A merge that is interrupted by a crash leaves `<id><ext>.merging` under `users/` (`storage/storage.go:473`).
The scan passes such names over (`maintain.go:240`), and `cleanupArchive`, whose comment names the
residue of merges (264), looks into `tmp/orphans` and `tmp/chunks` only: the file stays for good.
`GhostsAreCollected` excepts it (`Residue`) and covers all other bytes.

The purge and the hourly clean-up can lose every turn (see *Turns of the tasks*).

Uploads. Cancel turns a session that became done meanwhile to aborted; a PUT that began
before Cancel leaves a chunk in an aborted session; after FinishFile failed, the
session stays done with a product that is gone; a stale session that is resumed
after it was listed is deleted with its chunks; an init for another folder reuses the open
session and the file lands in the folder of the first (`store/uploads.go:56`; `upload.ts:234`
says otherwise); a PUT that is too long, after a good one, leaves the row of the chunk without a file; RecomputeReceived is never called; two PUTs of one chunk
that both read its old size count the difference twice.

Files and folders. Files trashed with a folder or account have no purge date and stay
(design §4 says so); a file made permanent after the expiry task listed it is trashed, still
permanent; Restore does not ask for the quota, so trash, make another file permanent, restore
exceeds it; a purge that looks at a path its folder has left, or has not yet reached,
removes no bytes and deletes the row; two moves can make folders parents of one another;
a share archive may hold the files of another folder that took the path between
reading it and listing it; a share download counts two views.

Accounts. Two administrators can remove each other; an entry filled by a read that an
update overtook, of an account whose creation was taken back, or of one that was changed or
deleted by a statement reported as failed, is believed for up to
15 s; the roll back of CreateUser ignores an error of DeleteUser and then removes the
directory; Limiter.Sweep is never called although `auth/auth.go:184` names maintenance
for it; a settings update writes back keys another one changed meanwhile,
and one unreadable value makes all of them defaults, which the next update stores.

Browser. Cancelling before the session is known does not tell the server and is overwritten
by the next state; `cancel` clears the record under a key without the folder;
a canceled task whose merge was under way shows itself done.

## 4. Proofs

Every safety invariant and action property that a passing run checks is a theorem of
the specification, for every value of the constants its module's assumption admits:
any number of sessions, files, folders, accounts, requests, workers, chunks and
attempts, where TLC has two or three of each.

| Module | Theorems | Of |
| --- | --- | --- |
| `Upload_proofs` | `TypeCorrect`, `OneProductHolds`, `DigestHolds`, `ServiceKeepsContract` (all faults); `PromiseHolds`, `ProductBackedHolds`, `CreatedReadableHolds` (no answer is lost); `NothingLeftHolds` (only merging fails) | `TypeOK`, `OneProduct`, `DigestMatchesBytes`, `ContractKept` (`Upload` implements `UploadContract`); `PromiseKept` (`Upload` implements `UploadPromise`), `ProductBacked`, `CreatedIsReadable`; `NothingLeftBehind` |
| `UploadMaintain_proofs` | `MaintainTypeCorrect`, `MaintainOneProduct`, `MaintainDigest`, `MaintainKeepsContract` (both tasks, all faults); `MaintainKeepsFinished` (both tasks, no answer is lost); `MaintainPromiseHolds`, `MaintainProductBacked`, `MaintainCreatedReadable` (task `uploads`, no answer is lost) | `MTypeOK`, `OneProduct`, `DigestMatchesBytes`, `ContractKept`; `FinishedIsKept`; `PromiseKept`, `ProductBacked`, `CreatedIsReadable` |
| `Files_proofs` | `FilesTypeCorrect`, `MissingBeingPurged`, `PurgeLeavesNone`, `TrashedFrozen`, `PermanenceKept`, `QuotaOverrunRaced` | the safety properties of `Files` |
| `Shares_proofs` | `FoldersTypeCorrect`, `BytesKept`; with links, visits and the owner's trash beside: `SharesTypeCorrect`, `SharedBytesKept`, `TreeIsSound`, `KeyStaysFree`, `DeletedIsEmpty`, `ServedLive`, `CountedUsable` | `DTypeOK`, `STypeOK`, `BytesAreKept`, `SoundTree`, `KeyIsFree`, `DeletionTakesFiles`, `ServedWasLive`, `CountedWasUsable` |
| `Accounts_proofs` | `AccountsTypeCorrect`, `LastAdminStays`, `StaleEntryRaced`, `FilesOutlive` | `ATypeOK`, `AdminRemains`, `StaleEntryIsRaced`, `FilesOutliveOthers` |
| `Services_proofs` | `SettingsTypeCorrect`, `InForceHolds`, `OthersKept`; `LimiterTypeCorrect`, `FailuresBounded`, `RefusalEarned` | the safety properties of `Settings` and `LoginLimiter` |
| `ChunkFile_proofs` | `ChunkTypeCorrect`, `ReceivedSum`, `ChunkWhole` | `CTypeOK`, `ReceivedIsSum`, `ChunkIsWhole` |
| `UploadClient_proofs` | `ClientTypeCorrect`, `TaskTrue` | `UTypeOK`, `TaskIsTrue` |

The type invariants of `Upload`, the accounts, the settings, the limiter, the browser's tasks and
the chunk writes are proved and checked by no run of their own (`MTypeOK` contains `TypeOK`);
so is `ProductBacked`, to which `PromiseKept` comes as every finished row is the product of a
session.

### Assumptions

Each module names its assumption on the constants, and TLC evaluates it in the runs.
They are bounds that are natural numbers, values outside a set where the module uses them
for "none", and sets that are finite where the code counts them (rows of an account,
logins in flight). Three say more:

- `ChunkAssumption`: fewer writers than inodes, so that an inode is free when a PUT opens
  its file. `CInv` bounds the inodes in use by the PUTs and the finished chunk;
- `LimiterAssumption`: the cap of the history is at least the limit of failures;
- `FoldersAssumption`: requests and uploads have different names, for `raced` holds both.

Hypotheses of theorems, each of which a run or a finding shows to be needed:

- `"lost" \notin Faults`. When FinishFile takes effect and its answer is an error, the
  rollback removes a published file; the promise is then not kept. `OneProduct`,
  `DigestMatchesBytes` and `ContractKept` do not need it;
- `Faults \subseteq {"io"}` for `NothingLeftBehind`: a rollback that cannot run leaves its row
  (`upload_undo`);
- `"orphans" \notin Tasks` for `PromiseKept`, `ProductBacked` and `CreatedIsReadable` beside the
  tasks: the scan moves finished files away (`maintain_scan`). What the scan leaves intact is
  proved without it: one product, the contract, the digest of what is at the path, and that
  a finished file is in one of the two places until it is old (`FinishedIsKept`).

### Inductive invariants

None of the properties is inductive; what has to be added is what a handler relies on
between two of its statements, and that is where the code could go wrong.

`Upload`. `TInv`: a request that works on a session has one, an index within the
chunks and, from the placeholder on, a file. `ProductInv`: the product of a session was
inserted for it, a finished row is the product of the session it was made for, and
FinishFile is only reached with the file the compare-and-set recorded, so that two finished
rows of a session are both its only `fileOf`. `PromiseInv`: no two requests work on one file
(`OneWorker`), what a request at each step may rely on (`AllKnow`), a request that rolls back does
not work on a finished row (`UndoSpares`), a finished row has all its chunks
(`FinalIsWhole`); every action is then a step of `UploadPromise` or a stutter under the
mapping. `DigestInv`: bytes under construction are of a row that is not finished
(`BuildsUnfinished`), so that no other request changes what a digest was computed from.
`CreatedInv`: from FinishFile on, and after the answer "created", the file is the session's
product with a finished row. `LeftInv`: nobody is cut off, the row of a roll back is gone
before its bytes are removed, a clean-up follows a finished row, and a `.merging` file has its request.

`ContractInv`: from the list of its chunks to the compare-and-set, a Complete works on a session
that was opened and whose chunks stay recorded as long as it is open (`KnowsSession`): the statements
that delete records are those of Cancel, of the clean-up after a merge and of the task, and
each of them comes after, or with, the end of the session. `SessionWrites` sums up what any
step does to a session, so that the same lemma (`WritesRefine`) serves the service with its tasks
and without.

`UploadMaintain`. The same invariants, and `ListedOpen`: the sessions a job has listed were opened
once. A reclaimed session is a closed one to `UploadPromise` and an ended one to
`UploadContract`, so each step of
the task is a Close or a stutter, and a request that meets one is refused by the statements
it makes: what `AllKnow` says of the others is not touched. With the scan, `TaskWrites` says what
a task can write: it ends sessions, archives files, sweeps old ones. `BytesInv` follows the bytes:
a file not published yet has none, neither at its path nor in the archive, and is not old
(`FreeIsEmpty`, `Early`); from the rename to FinishFile they are the ones its request has merged, at one
of the two places (`Late`). `AllKnow`, on which `DigestHolds` rests, is false here, since the
scan takes a file between its merge and its row; `BytesInv` takes its place.

`Files`. `FInv`: the file a purge works on has lost its bytes, or is noted as missed
(`CurIsGone`); what a request that nothing raced has read is still so (`ReadsAreTrue`), which
carries the quota from the sum to the write, with sums that are monotone and subadditive
(`SizeMonotone`, `SizeOfUnion`).

`Folders`. `DInv`: a path in use is not empty and a session's or request's directory has no
deleted segment, so bytes go to no place but a directory of the account. For the tree, `TablesInv`:
while nothing is spoiled, the tables are in order at every moment and not only at rest.
An active folder whose path names no deleted one lies in an active parent, and all the
prefixes of its path are active folders (`TreeSound`); a path ends with a mark exactly if its
folder is deleted, and the mark is its own (`MarksTell`); an active folder under a deleted one
is just being made (`HalfMade`); a file's row names its folder's path, or is behind by
exactly the move under way (`RowsSound`); while a request is between two writes, all others
that are busy are raced (`Alone`); and what an unraced request has read is so (`ReqKnows`: the
name is free, the target not below the source, no active file under what it deletes). The
prefix clause is what makes the key free: a folder that is not there has nothing below it but
deleted rows, and those differ by their marks. `Shares_proofs` has the lemmas
on paths: appending, prefixes, moving a prefix, marks.

`Shares`. `SInv`: a link is valid once only, so a link found valid after its target was seen
active was valid at that moment too (`VisitInv`).

`Accounts`. `AInv`: numbers of living accounts differ; a deletion holds the row of its
account; a request that nothing overtook leaves an administrator (`LeavesOne`); who cleans a directory
up does so alone, or the number was used again. The proof showed a case that TLC's instance does not
reach: before a creation whose directory was made is taken back, another request deletes the
account and a third gives its number away again; the roll back then removes a directory that is in
use. `reused` records this case too.

`Settings`. `SetInv`: an update that has committed, and that nothing overtook, wrote what the table
holds; one that has not starts from it. `LoginLimiter`: what a bucket counts are failures in the
history (`failed`, by age) no older than the bucket (`CountIsRecent`), and it counts at most the
limit and the logins in flight, as those were allowed while it was below the limit.

`ChunkFile`. `CInv`: an inode has or will get exactly the first blocks of its writers' length
(`WillBeWhole`), for the temporary file, for what was renamed and for what the row says, as long as
no PUT was torn. `LInv`: a length that is recorded fits, and a chunk that is about to be removed has no
row.

`UploadClient`. `UInv`: from what earlier pages may have left (any sessions, chunks and
record), what a task counts as sent is with its session, a merge is asked for when all is sent, and a
task that ended shows how.

Invariants were checked with TLC on the runs' instances before they were proved, and
there is one lemma per kind of step.

### Only model-checked

Liveness, whose fairness and ENABLED are out of the proof system's reach:
`AssembledIsCompleted`, `StaleIsReclaimed`, `GhostsAreCollected`, `ChunksAreReclaimed`,
`ExpiredIsTrashed`, `DueIsPurged`, `RevocationTakesHold`, `RunEnds`. The violations of section 3 are
counterexamples and need no proof.

## 5. Plan

Done: `Upload`, `UploadMaintain`, `UploadPromise`, `UploadContract`; `Files`; `Folders` and `Shares`; `Accounts`,
`Settings`, `LoginLimiter`; `ChunkFile`; `UploadClient`; the proofs of section 4.

Proofs to come, in order of weight:

1. `ChunkFile` as an implementation of the one write `Upload` takes a PUT for;
2. the sharper forms of the exemptions: which overtaken writes of `Files` and `Folders` do no harm.

Left to model: the pure algorithms (`TotalChunks`, `ChunkRange`, path prefixes)
against reference definitions; sessions that know their folder.

Not modelled, and why:

- parsing, formatting, status codes and JSON, MIME tables, previews and the sanitising of
  paths: functions of strings without state;
- password hashing and the signing of tokens: libraries; a password is a number and a token
  names it;
- connections, migrations, environment: read once at start;
- pinned owners, times of last login, lists and statistics: they only sort or report;
- pruning of empty directories after a removal: it removes what holds nothing;
- in the browser the sweep of old records, progress, and the walk over dropped directories;
- views: rendering.
