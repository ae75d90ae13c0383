--------------------------- MODULE UploadMaintain ---------------------------
(***************************************************************************)
(* The upload service together with the maintenance tasks that work on its *)
(* sessions, chunks and files: RunCleanStaleUploads (hourly) and           *)
(* ScanOrphans with cleanupArchive (daily) of maintain/maintain.go.        *)
(*                                                                         *)
(* The tasks run under the database lock lanfs_maintain: there is one job  *)
(* at a time, on whichever replica.  Nothing orders it with requests.      *)
(* Each task first reads a list and then works through it.                 *)
(***************************************************************************)
EXTENDS Upload

CONSTANT Tasks      \* the tasks that are scheduled: {"uploads", "orphans"}

ASSUME TasksAssumption == Tasks \subseteq {"uploads", "orphans"}

VARIABLES
  stale,       \* sessions whose updated_at is more than 24 hours ago
  chunkAge,    \* the age of a chunk file in days; 2 stands for more than 48 hours
  kept,        \* chunks of open sessions that were updated, by something else than the
               \* record of that chunk, since it was written or became a day older
  archive,     \* tmp/orphans: the bytes archived for the path of a file id
  oldFile,     \* files whose bytes, here or there, were written more than 7 days ago
  job          \* the maintenance job that holds the lock

aging == <<stale, chunkAge, kept, archive, oldFile>>
mvars == <<vars, aging, job>>

NewChunks == [i \in Idx |-> 0]

NoJob == [task |-> "none", sess |-> {}, cur |-> NoSession, files |-> {},
          known |-> {}, moved |-> {}, chunks |-> {}]

JobRecord == [task  : {"none", "stale", "finished", "scan", "sweep"},
              sess  : SUBSET Session,              \* sessions still to delete
              cur   : Session \cup {NoSession},    \* its directory is removed
              files : SUBSET FileId,               \* paths still to visit
              known : SUBSET FileId,               \* paths read from the table
              moved : SUBSET FileId,               \* files archived so far
              chunks : SUBSET (Session \X Idx)]    \* chunk files still to visit

MTypeOK ==
  /\ TypeOK
  /\ stale \subseteq Session
  /\ chunkAge \in [Session -> [Idx -> 0 .. 2]]
  /\ kept \subseteq Session \X Idx
  /\ archive \in [FileId -> Content]
  /\ oldFile \subseteq FileId
  /\ job \in JobRecord

MInit ==
  /\ Init
  /\ stale = {} /\ kept = {} /\ oldFile = {}
  /\ chunkAge = [s \in Session |-> NewChunks]
  /\ archive = [f \in FileId |-> NoBytes]
  /\ job = NoJob

(***************************************************************************)
(* Steps of the upload service.  MySQL sets updated_at when an UPDATE      *)
(* changes a column of the session's row: recording a chunk does so only   *)
(* when it changes received_bytes.                                         *)
(***************************************************************************)
Touched(s) ==
  \/ status'[s] # status[s] \/ fileOf'[s] # fileOf[s]
  \/ \E i \in Idx : chunkRow'[s][i] # chunkRow[s][i] /\ chunkRow'[s][i] # "none"

Writing(s, i) ==
  \E r \in Request : At(r, "putDisk") /\ ~req[r].cut /\ req'[r].pc # "putDisk"
                     /\ req[r].sess = s /\ req[r].k = i

Recording(s, i) ==
  \E r \in Request : At(r, "putRow") /\ req'[r].pc # "putRow"
                     /\ req[r].sess = s /\ req[r].k = i

\* The chunk is there before and after the step, and the step does not write it.
Stays(s, i) == chunkFile'[s][i] # "none" /\ ~Writing(s, i)

Freshened ==
  /\ stale' = {s \in stale : ~Touched(s)}
  /\ chunkAge' = [s \in Session |->
                    [i \in Idx |-> IF Stays(s, i) THEN chunkAge[s][i] ELSE 0]]
  /\ kept' = {c \in Session \X Idx :
                /\ Stays(c[1], c[2]) /\ status'[c[1]] = "uploading"
                /\ c \in kept \/ (Touched(c[1]) /\ ~Recording(c[1], c[2]))}
  /\ oldFile' = {f \in oldFile : disk'[f] \in {disk[f], NoBytes}}
  /\ UNCHANGED archive

Serve ==
  /\ \/ \E s \in Session : InitSession(s)
     \/ \E r \in Request : Ask(r) \/ Proceed(r) \/ MergeFails(r) \/ Disconnect(r)
  /\ Freshened
  /\ UNCHANGED job

\* The job dies with the process; its lock is released with the connection.
MCrash == Crash /\ job' = NoJob /\ UNCHANGED aging

(***************************************************************************)
(* Time passes.  A day is longer than any request but a PUT or a Cancel    *)
(* that never ends, and seven days are longer than any task.  The ages of  *)
(* an open session and of its chunks go together: in the day by which a    *)
(* chunk becomes older, its session becomes stale unless something else    *)
(* updates it, the record of another chunk in the first place.             *)
(***************************************************************************)
AtWork(s) ==
  \E r \in Request : req[r].sess = s /\ req[r].pc \in LookSteps \cup OwnSteps \cup PutSteps

AgeSession(s) ==
  /\ status[s] \notin {"unused", "gone"} /\ s \notin stale /\ ~AtWork(s)
  /\ stale' = stale \cup {s}
  /\ UNCHANGED <<vars, chunkAge, kept, archive, oldFile, job>>

\* A chunk may as well have become older before or after a task, so it does not
\* during one: no day passes in it.
AgeChunk(s, i) ==
  /\ job = NoJob
  /\ chunkFile[s][i] # "none" /\ chunkAge[s][i] < 2 /\ ~AtWork(s)
  /\ status[s] = "uploading" => s \in stale \/ <<s, i>> \in kept
  /\ chunkAge' = [chunkAge EXCEPT ![s][i] = @ + 1]
  /\ kept' = kept \ {<<s, i>>}
  /\ UNCHANGED <<vars, stale, archive, oldFile, job>>

AgeFile(f) ==
  /\ disk[f] # NoBytes \/ archive[f] # NoBytes
  /\ f \notin oldFile
  /\ f \notin job.moved /\ (job.task = "scan" => disk[f] = NoBytes)
  /\ \A r \in Request : req[r].fid = f => req[r].pc \notin OwnSteps
  /\ oldFile' = oldFile \cup {f}
  /\ UNCHANGED <<vars, stale, chunkAge, kept, archive, job>>

(***************************************************************************)
(* RunCleanStaleUploads: open sessions first, then finished ones.          *)
(***************************************************************************)
ListStale ==
  /\ "uploads" \in Tasks /\ job = NoJob
  /\ job' = [NoJob EXCEPT !.task = "stale",
                          !.sess = {s \in stale : status[s] = "uploading"}]
  /\ UNCHANGED <<vars, aging>>

\* Its chunk directory goes first ...
StaleDisk(s) ==
  /\ job.task = "stale" /\ job.cur = NoSession /\ s \in job.sess
  /\ chunkFile' = [chunkFile EXCEPT ![s] = NoBytes]
  /\ chunkAge' = [chunkAge EXCEPT ![s] = NewChunks]
  /\ kept' = kept \ ({s} \X Idx)
  /\ job' = [job EXCEPT !.sess = @ \ {s}, !.cur = s]
  /\ UNCHANGED <<db, disk, merging, req, faults, stale, archive, oldFile>>

\* Mutant: the session is marked instead of deleted.
Delete_Marks(s, failed) ==
  /\ failed => "db" \in Faults /\ faults < MaxFaults
  /\ faults' = IF failed THEN faults + 1 ELSE faults
  /\ status' = IF failed THEN status ELSE [status EXCEPT ![s] = "reclaimed"]
  /\ chunkRow' = IF failed THEN chunkRow ELSE [chunkRow EXCEPT ![s] = NoChunkRows]
  /\ stale' = IF failed THEN stale ELSE stale \ {s}
  /\ UNCHANGED <<fileOf, row, madeBy, meta, fs, req, chunkAge, kept, archive, oldFile>>

\* DeleteUploadSession: whatever became of the session since it was listed.
\* The chunk records go with it.
Delete(s, failed) ==
  /\ failed => "db" \in Faults /\ faults < MaxFaults
  /\ faults' = IF failed THEN faults + 1 ELSE faults
  /\ status' = IF failed THEN status ELSE [status EXCEPT ![s] = "gone"]
  /\ chunkRow' = IF failed THEN chunkRow ELSE [chunkRow EXCEPT ![s] = NoChunkRows]
  /\ stale' = IF failed THEN stale ELSE stale \ {s}
  /\ UNCHANGED <<fileOf, row, madeBy, meta, fs, req, chunkAge, kept, archive, oldFile>>

\* ... then the session.
StaleRow(failed) ==
  /\ job.task = "stale" /\ job.cur # NoSession
  /\ Delete(job.cur, failed)
  /\ job' = [job EXCEPT !.cur = NoSession]

\* Mutant: only sessions that are done are listed.
ListFinished_DoneOnly ==
  /\ job.task = "stale" /\ job.cur = NoSession /\ job.sess = {}
  /\ job' = [NoJob EXCEPT !.task = "finished", !.sess = {s \in stale : status[s] = "done"}]
  /\ UNCHANGED <<vars, aging>>

ListFinished ==
  /\ job.task = "stale" /\ job.cur = NoSession /\ job.sess = {}
  /\ job' = [NoJob EXCEPT !.task = "finished",
                          !.sess = {s \in stale : status[s] \in {"done", "aborted"}}]
  /\ UNCHANGED <<vars, aging>>

FinishedRow(s, failed) ==
  /\ job.task = "finished" /\ s \in job.sess
  /\ Delete(s, failed)
  /\ job' = [job EXCEPT !.sess = @ \ {s}]

UploadsDone ==
  /\ job.task = "finished" /\ job.sess = {}
  /\ job' = NoJob
  /\ UNCHANGED <<vars, aging>>

(***************************************************************************)
(* ScanOrphans: the paths in the table are read once; every file found     *)
(* under users/ that is not among them is moved to tmp/orphans.            *)
(***************************************************************************)
\* Mutant: the path of a placeholder counts as that of its file.
ScanRead_Placeholders ==
  /\ "orphans" \in Tasks /\ job = NoJob
  /\ job' = [NoJob EXCEPT !.task = "scan", !.files = FileId,
                          !.known = {f \in FileId : LiveRow(f)}]
  /\ UNCHANGED <<vars, aging>>

ScanRead ==
  /\ "orphans" \in Tasks /\ job = NoJob
  /\ job' = [NoJob EXCEPT !.task = "scan", !.files = FileId,
                          !.known = {f \in FileId : row[f] = "final"}]
  /\ UNCHANGED <<vars, aging>>

\* Mutant: what the table does not name is removed at once.
ScanVisit_Removes(f) ==
  LET orphan == disk[f] # NoBytes /\ f \notin job.known
  IN /\ job.task = "scan" /\ f \in job.files
     /\ disk' = IF orphan THEN [disk EXCEPT ![f] = NoBytes] ELSE disk
     /\ job' = [job EXCEPT !.files = @ \ {f}]
     /\ UNCHANGED <<db, chunkFile, merging, req, faults, aging>>

\* The file is renamed, which leaves its modification time as it is.  Names with
\* .merging in them are passed over: the walk does not touch merging.
ScanVisit(f) ==
  LET orphan == disk[f] # NoBytes /\ f \notin job.known
  IN /\ job.task = "scan" /\ f \in job.files
     /\ archive' = IF orphan THEN [archive EXCEPT ![f] = disk[f]] ELSE archive
     /\ disk' = IF orphan THEN [disk EXCEPT ![f] = NoBytes] ELSE disk
     /\ job' = [job EXCEPT !.files = @ \ {f},
                           !.moved = IF orphan THEN @ \cup {f} ELSE @]
     /\ UNCHANGED <<db, chunkFile, merging, req, faults, stale, chunkAge, kept, oldFile>>

ScanEnd ==
  /\ job.task = "scan" /\ job.files = {}
  /\ job' = [job EXCEPT !.task = "sweep", !.files = FileId, !.known = {},
                        !.chunks = Session \X Idx]
  /\ UNCHANGED <<vars, aging>>

(***************************************************************************)
(* cleanupArchive: first the archive, then tmp/chunks; whatever is old     *)
(* enough when it is visited is removed, without a look at the tables.     *)
(* What a crash left of a merge is under users/, and no task removes it.   *)
(***************************************************************************)
SweepArchive(f) ==
  /\ job.task = "sweep" /\ f \in job.files
  /\ archive' = IF f \in oldFile THEN [archive EXCEPT ![f] = NoBytes] ELSE archive
  /\ job' = [job EXCEPT !.files = @ \ {f}]
  /\ UNCHANGED <<vars, stale, chunkAge, kept, oldFile>>

\* Mutant: chunks of sessions that are no longer in the table are passed over.
SweepChunk_KnownOnly(s, i) ==
  LET swept == chunkAge[s][i] = 2 /\ status[s] # "gone"
  IN /\ job.task = "sweep" /\ job.files = {} /\ <<s, i>> \in job.chunks
     /\ chunkFile' = IF swept THEN [chunkFile EXCEPT ![s][i] = "none"] ELSE chunkFile
     /\ chunkAge' = IF swept THEN [chunkAge EXCEPT ![s][i] = 0] ELSE chunkAge
     /\ kept' = IF swept THEN kept \ {<<s, i>>} ELSE kept
     /\ job' = [job EXCEPT !.chunks = @ \ {<<s, i>>}]
     /\ UNCHANGED <<db, disk, merging, req, faults, stale, archive, oldFile>>

SweepChunk(s, i) ==
  LET swept == chunkAge[s][i] = 2
  IN /\ job.task = "sweep" /\ job.files = {} /\ <<s, i>> \in job.chunks
     /\ chunkFile' = IF swept THEN [chunkFile EXCEPT ![s][i] = "none"] ELSE chunkFile
     /\ chunkAge' = IF swept THEN [chunkAge EXCEPT ![s][i] = 0] ELSE chunkAge
     /\ kept' = IF swept THEN kept \ {<<s, i>>} ELSE kept
     /\ job' = [job EXCEPT !.chunks = @ \ {<<s, i>>}]
     /\ UNCHANGED <<db, disk, merging, req, faults, stale, archive, oldFile>>

SweepEnd ==
  /\ job.task = "sweep" /\ job.files = {} /\ job.chunks = {}
  /\ job' = NoJob
  /\ UNCHANGED <<vars, aging>>

(***************************************************************************)
(* Specification.                                                          *)
(***************************************************************************)
Work ==
  \/ \E s \in Session : StaleDisk(s)
  \/ ListFinished \/ UploadsDone
  \/ \E failed \in BOOLEAN : StaleRow(failed) \/ \E s \in Session : FinishedRow(s, failed)
  \/ \E f \in FileId : ScanVisit(f) \/ SweepArchive(f)
  \/ ScanEnd \/ SweepEnd
  \/ \E s \in Session, i \in Idx : SweepChunk(s, i)

Age ==
  \/ \E s \in Session : AgeSession(s) \/ \E i \in Idx : AgeChunk(s, i)
  \/ \E f \in FileId : AgeFile(f)

MNext == Serve \/ MCrash \/ Age \/ ListStale \/ ScanRead \/ Work

MSpec == MInit /\ [][MNext]_mvars

\* Goroutines run on and time passes (between the tasks, for chunks).  A ticker that
\* finds the lock taken skips its turn: the hourly one may lose every turn to the tasks
\* whose tickers started with it, so nothing is assumed of ListStale.  The scan has its
\* own time of the day, and finds the lock free again and again unless that happens to
\* be a tick of the others.
FairMSpec ==
  /\ MSpec
  /\ \A r \in Request : WF_mvars(Serve /\ Proceed(r))
  /\ \A s \in Session : WF_mvars(AgeSession(s)) /\ \A i \in Idx : SF_mvars(AgeChunk(s, i))
  /\ \A f \in FileId : WF_mvars(AgeFile(f))
  /\ WF_mvars(Work)
  /\ SF_mvars(ScanRead)

(***************************************************************************)
(* Properties.                                                             *)
(***************************************************************************)

\* A finished file has its bytes, the ones its row describes, at its path or in the
\* archive until they are seven days old: the scan that meets a file between its merge
\* and its row, rollbacks of requests whose file it has moved, and tasks that die
\* notwithstanding.
FinishedIsKept ==
  \A f \in FileId : row[f] = "final" /\ f \notin oldFile => meta[f] \in {disk[f], archive[f]}

\* A turn of the hourly task that nothing interrupts deletes every session that is
\* stale: the open ones it has listed, and the ones that ended before or meanwhile,
\* unless a request updates them while it runs.
StaleIsReclaimed ==
  \A s \in Session, n \in 0 .. MaxFaults :
    (job.task = "stale" /\ s \in stale /\ faults = n
       /\ (s \in job.sess \/ status[s] \in {"done", "aborted"}))
      ~> (status[s] = "gone" \/ s \notin stale \/ faults > n)

\* Bytes under users/ that no finished row describes, left by a crash or a
\* rollback that failed, are archived and in the end deleted, but for one kind:
\* the .merging file of a request that died in MergeTo, which no task removes.
Residue(f) == merging[f] /\ \A r \in Request : ~(req[r].fid = f /\ req[r].pc \in OwnSteps)

GhostsAreCollected ==
  \A f \in FileId : ((disk[f] # NoBytes \/ merging[f]) /\ row[f] # "final")
    ~> (row[f] = "final" \/ (/\ disk[f] = NoBytes /\ archive[f] = NoBytes
                             /\ merging[f] => Residue(f)))

\* No chunk outlives its session for good.
ChunksAreReclaimed ==
  \A s \in Session : (status[s] = "gone" /\ chunkFile[s] # NoBytes) ~> chunkFile[s] = NoBytes

(***************************************************************************)
(* What the design document and comments say, and the tasks do not do.     *)
(***************************************************************************)

\* design.md, scheduled tasks: the scan moves files that are not in
\* files.rel_path; a finished file is, so it stays where its row says.
ScanSparesFinished ==
  [][\A f \in FileId : row[f] = "final" /\ disk[f] # NoBytes => disk'[f] = disk[f]]_mvars

\* maintain.go:264: what is swept are residues, not the chunks of a session that
\* is still open, kept from being stale by later chunks, and can be resumed.
SweepSparesUploads ==
  [][job.task = "sweep" /\ req' = req =>
       \A s \in Session : status[s] = "uploading" /\ s \notin stale
                            => chunkFile'[s] = chunkFile[s]]_mvars
=============================================================================
