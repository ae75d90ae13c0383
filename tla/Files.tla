-------------------------------- MODULE Files --------------------------------
(***************************************************************************)
(* The life of finished files: files/files.go over the table files and the *)
(* data directory, with the tasks RunExpire and RunPurge.                  *)
(*                                                                         *)
(* The files belong to one account; those of Nested lie under a folder.    *)
(* A handler reads the row, checks it and then executes statements; every  *)
(* statement and every removal of bytes is one step, and what a handler    *)
(* keeps from its read is kept in its request.  Dates are abstracted to    *)
(* how they compare with now: "later" ages to "due".                       *)
(***************************************************************************)
EXTENDS Naturals, FiniteSets

CONSTANTS
  File,       \* ids of the finished files
  Nested,     \* those that lie under the folder
  Size,       \* files.size_bytes
  Quota,      \* permanent_quota_mb; 0 switches permanent files off
  Names,      \* names files are given
  Request,    \* the requests served at a time
  Ops,        \* what they ask for: a subset of OpKinds
  MaxFaults,  \* bound: failing statements and removals, and crashes
  NoFile

OpKinds == {"rename", "trash", "restore", "purge", "permanent", "term",
            "folderPermanent", "folderTerm", "folderDelete", "ownerDelete"}

ASSUME FilesAssumption ==
  /\ IsFiniteSet(File) /\ Nested \subseteq File
  /\ Size \in [File -> Nat]
  /\ Quota \in Nat
  /\ MaxFaults \in Nat
  /\ Ops \subseteq OpKinds
  /\ NoFile \notin File

VARIABLES
  row,          \* the table files, by id
  bytes,        \* the files whose bytes are in the data directory
  place,        \* the directory rel_path names for the nested files
  dirAt,        \* the directory the nested files really lie in
  folder,       \* folders.status of their folder
  req,          \* the requests
  job,          \* the maintenance task that holds the lock
  faults,       \* faults so far
  interrupted,  \* files whose purge stopped between the bytes and the row
  missed,       \* files a purge looked for where they did not lie
  raced         \* requests about to set an expiry the table changed under

vars == <<row, bytes, place, dirAt, folder, req, job, faults, interrupted, missed, raced>>

Place == {"here", "there"}

Row == [status : {"active", "trashed"}, expires : {"never", "later", "due"},
        purge : {"none", "later", "due"}, name : Names]
NoRow == [status |-> "none"]

Exists(f) == row[f] # NoRow
Active(f) == row[f].status = "active"
Trashed(f) == row[f].status = "trashed"

\* What a purge works through: a file and the directory its rel_path names.
Target == [file : File, at : Place \cup {"root"}]
NoTarget == [file |-> NoFile, at |-> "root"]
TargetOf(f) == [file |-> f, at |-> IF f \in Nested THEN place ELSE "root"]
BytesAt(f) == IF f \in Nested THEN dirAt ELSE "root"

Steps == {"idle", "rename", "trash", "restore", "remove", "delete", "stats", "fits",
          "expiry", "trashUnder", "trashTree", "softDeleteAll", "listOwned"}

ReqRecord == [pc : Steps,
              file : File \cup {NoFile},            \* NoFile: the folder
              at : Place \cup {"root"},             \* rel_path of the folder
              name : Names \cup {"none"},
              expires : {"none", "never", "later"}, \* what is to be written
              add : Nat,                            \* what it adds to the usage
              rest : SUBSET Target,                 \* what is still to purge
              cur : Target \cup {NoTarget}]         \* its bytes are removed

NoReq == [pc |-> "idle", file |-> NoFile, at |-> "root", name |-> "none",
          expires |-> "none", add |-> 0, rest |-> {}, cur |-> NoTarget]

JobRecord == [task : {"none", "expire", "list", "purge"}, rest : SUBSET Target,
              cur : Target \cup {NoTarget}]
NoJob == [task |-> "none", rest |-> {}, cur |-> NoTarget]

FTypeOK ==
  /\ row \in [File -> Row \cup {NoRow}]
  /\ bytes \subseteq File
  /\ place \in Place /\ dirAt \in Place
  /\ folder \in {"active", "deleted"}
  /\ req \in [Request -> ReqRecord]
  /\ job \in JobRecord
  /\ faults \in 0 .. MaxFaults
  /\ interrupted \subseteq File /\ missed \subseteq File
  /\ raced \subseteq Request

\* Uploads have created files: with bytes and an expiry date.
FInit ==
  /\ row \in [File -> {NoRow} \cup {[status |-> "active", expires |-> "later",
                                     purge |-> "none", name |-> n] : n \in Names}]
  /\ bytes = {f \in File : Exists(f)}
  /\ place = "here" /\ dirAt = "here" /\ folder = "active"
  /\ req = [r \in Request |-> NoReq]
  /\ job = NoJob
  /\ faults = 0 /\ interrupted = {} /\ missed = {} /\ raced = {}

(***************************************************************************)
(* Statements of store/files.go, as the table they leave.                  *)
(***************************************************************************)
RenameFile(f, name) ==
  IF Active(f) THEN [row EXCEPT ![f].name = name] ELSE row

\* Mutant: a row that is gone is inserted again.
MarkTrashed_Inserts(f) ==
  IF Active(f) THEN [row EXCEPT ![f].status = "trashed", ![f].purge = "later"]
  ELSE IF Exists(f) THEN row ELSE [row EXCEPT ![f] = [status |-> "trashed", purge |-> "later"]]

\* Mutant: the statement does not ask for an active file.
MarkTrashed_AnyStatus(f) ==
  IF Exists(f) THEN [row EXCEPT ![f].status = "trashed", ![f].purge = "later"] ELSE row

MarkTrashed(f) ==
  IF Active(f) THEN [row EXCEPT ![f].status = "trashed", ![f].purge = "later"] ELSE row

\* Trashing without a purge date: with the account, or with the folder.
TrashUndated(files) ==
  [f \in File |-> IF f \in files /\ Active(f)
                  THEN [row[f] EXCEPT !.status = "trashed", !.purge = "none"] ELSE row[f]]

SoftDeleteAllByOwner == TrashUndated(File)

Under(dir) == IF dir = place THEN Nested ELSE {}

SoftDeleteFilesUnderPath(dir) == TrashUndated(Under(dir))

RestoreFile(f, expires) ==
  IF Trashed(f)
  THEN [row EXCEPT ![f].status = "active", ![f].purge = "none", ![f].expires = expires]
  ELSE row

DeleteFileRow(f) == [row EXCEPT ![f] = NoRow]

SetExpiry(f, expires) ==
  IF Exists(f) THEN [row EXCEPT ![f].expires = expires] ELSE row

SetExpiryUnderPath(dir, expires) ==
  [f \in File |-> IF f \in Under(dir) /\ Active(f)
                  THEN [row[f] EXCEPT !.expires = expires] ELSE row[f]]

\* SUM(size_bytes): the octets of the files, counted.
Octets(files) == UNION {{f} \X (1 .. Size[f]) : f \in files}
SizeOfAll(files) == Cardinality(Octets(files))

\* PermanentUsage counts active permanent files of the whole site.
PermanentUsage == SizeOfAll({f \in File : Active(f) /\ row[f].expires = "never"})

\* PermanentizableStats
Permanentizable(dir) == {f \in Under(dir) : Active(f) /\ row[f].expires # "never"}

\* Mutant: the rows are joined with active folders.
ExpiredFiles_Joined ==
  {f \in File : Active(f) /\ row[f].expires = "due" /\ (f \in Nested => folder = "active")}

ExpiredFiles == {f \in File : Active(f) /\ row[f].expires = "due"}
ListPurgeable == {f \in File : Trashed(f) /\ row[f].purge = "due"}
ListFilesByOwner == {f \in File : Exists(f)}

(***************************************************************************)
(* Requests: the read and the check ...                                    *)
(***************************************************************************)
Become(r, record) ==
  /\ req' = [req EXCEPT ![r] = record]
  /\ UNCHANGED <<place, dirAt, job, faults, interrupted>>

Actor == {"owner", "admin"}

CheckCanModify(actor, f) == actor = "admin" \/ Active(f)

\* GetFile has found the row of an idle request's file.
Reads(r, op, f) == op \in Ops /\ req[r] = NoReq /\ Exists(f)
Reading == UNCHANGED <<row, bytes, missed, folder>>

Rename(r, f) ==
  /\ Reads(r, "rename", f) /\ \E actor \in Actor : CheckCanModify(actor, f)
  /\ \E n \in Names : Become(r, [NoReq EXCEPT !.pc = "rename", !.file = f, !.name = n])
  /\ Reading

SoftDelete(r, f) ==
  /\ Reads(r, "trash", f) /\ \E actor \in Actor : CheckCanModify(actor, f)
  /\ Become(r, [NoReq EXCEPT !.pc = "trash", !.file = f])
  /\ Reading

\* Mutant: a permanent file is restored with an expiry date.
Restore_Retains(r, f) ==
  /\ Reads(r, "restore", f) /\ Trashed(f)
  /\ Become(r, [NoReq EXCEPT !.pc = "restore", !.file = f, !.expires = "later"])
  /\ Reading

\* A permanent file stays permanent, the others start anew.
Restore(r, f) ==
  /\ Reads(r, "restore", f) /\ Trashed(f)
  /\ Become(r, [NoReq EXCEPT !.pc = "restore", !.file = f,
                  !.expires = IF row[f].expires = "never" THEN "never" ELSE "later"])
  /\ Reading

\* An administrator purges any file, in the recycle bin or not.
Purge(r, f) ==
  /\ Reads(r, "purge", f)
  /\ Become(r, [NoReq EXCEPT !.pc = "remove", !.rest = {TargetOf(f)}])
  /\ Reading

\* A file that is permanent already adds nothing.
SetPermanent(r, f, permanent) ==
  /\ Reads(r, IF permanent THEN "permanent" ELSE "term", f) /\ Active(f)
  /\ Become(r, [NoReq EXCEPT !.pc = IF permanent THEN "fits" ELSE "expiry", !.file = f,
                  !.expires = IF permanent THEN "never" ELSE "later",
                  !.add = IF permanent /\ row[f].expires # "never" THEN Size[f] ELSE 0])
  /\ Reading

\* SetFolderPermanent: ResolveDir has answered with the directory.
SetFolderPermanent(r, permanent) ==
  /\ (IF permanent THEN "folderPermanent" ELSE "folderTerm") \in Ops
  /\ req[r] = NoReq /\ folder = "active"
  /\ Become(r, [NoReq EXCEPT !.pc = IF permanent THEN "stats" ELSE "expiry", !.at = place,
                  !.expires = IF permanent THEN "never" ELSE "later"])
  /\ Reading

\* folders.Delete has resolved the directory.
DeleteFolder(r) ==
  /\ "folderDelete" \in Ops /\ req[r] = NoReq /\ folder = "active"
  /\ Become(r, [NoReq EXCEPT !.pc = "trashUnder", !.at = place])
  /\ Reading

\* DeleteUser has found the account.
DeleteOwner(r) ==
  /\ "ownerDelete" \in Ops /\ req[r] = NoReq
  /\ Become(r, [NoReq EXCEPT !.pc = "softDeleteAll"])
  /\ Reading

Ask(r) ==
  \/ \E f \in File : \/ Rename(r, f) \/ SoftDelete(r, f) \/ Restore(r, f) \/ Purge(r, f)
                     \/ \E permanent \in BOOLEAN : SetPermanent(r, f, permanent)
  \/ \E permanent \in BOOLEAN : SetFolderPermanent(r, permanent)
  \/ DeleteFolder(r) \/ DeleteOwner(r)

(***************************************************************************)
(* ... and the statements that follow.                                     *)
(***************************************************************************)
At(r, step) == req[r].pc = step

Write(r, table, next) ==
  /\ row' = table
  /\ Become(r, next)
  /\ UNCHANGED <<bytes, missed, folder>>

WriteOne(r) ==
  LET f == req[r].file
  IN \/ At(r, "rename") /\ Write(r, RenameFile(f, req[r].name), NoReq)
     \/ At(r, "trash") /\ Write(r, MarkTrashed(f), NoReq)
     \/ At(r, "restore") /\ Write(r, RestoreFile(f, req[r].expires), NoReq)

\* SetPermanentUnderFolder
FolderStats(r) ==
  /\ At(r, "stats")
  /\ Become(r, [req[r] EXCEPT !.pc = "fits", !.add = SizeOfAll(Permanentizable(req[r].at))])
  /\ Reading

\* Mutant: the usage is compared without what is to be added.
EnsurePermanentFits_NoAdd(r) ==
  LET fits == Quota > 0 /\ (req[r].add > 0 => PermanentUsage <= Quota)
  IN /\ At(r, "fits")
     /\ Become(r, IF fits THEN [req[r] EXCEPT !.pc = "expiry", !.add = 0] ELSE NoReq)
     /\ Reading

EnsurePermanentFits(r) ==
  LET fits == Quota > 0 /\ (req[r].add > 0 => PermanentUsage + req[r].add <= Quota)
  IN /\ At(r, "fits")
     /\ Become(r, IF fits THEN [req[r] EXCEPT !.pc = "expiry", !.add = 0] ELSE NoReq)
     /\ Reading

WriteExpiry(r) ==
  /\ At(r, "expiry")
  /\ Write(r, IF req[r].file = NoFile THEN SetExpiryUnderPath(req[r].at, req[r].expires)
                                      ELSE SetExpiry(req[r].file, req[r].expires), NoReq)

\* folders.Delete: the files first, then the folder.
TrashFolder(r) ==
  \/ /\ At(r, "trashUnder")
     /\ Write(r, SoftDeleteFilesUnderPath(req[r].at), [NoReq EXCEPT !.pc = "trashTree"])
  \/ /\ At(r, "trashTree")
     /\ folder' = "deleted"
     /\ Become(r, NoReq)
     /\ UNCHANGED <<row, bytes, missed>>

\* DeleteUser: all files to the recycle bin, then PurgeByOwner.
ClearOwner(r) ==
  \/ /\ At(r, "softDeleteAll")
     /\ Write(r, SoftDeleteAllByOwner, [NoReq EXCEPT !.pc = "listOwned"])
  \/ /\ At(r, "listOwned")
     /\ Become(r, IF ListFilesByOwner = {} THEN NoReq
                  ELSE [NoReq EXCEPT !.pc = "remove",
                                     !.rest = {TargetOf(f) : f \in ListFilesByOwner}])
     /\ Reading

\* storage.Remove: bytes that are no longer where the path says are not an error.
Remove(t) ==
  LET found == t.at = BytesAt(t.file)
  IN /\ bytes' = IF found THEN bytes \ {t.file} ELSE bytes
     /\ missed' = IF found THEN missed ELSE missed \cup {t.file}

\* Purge and PurgeByOwner: the bytes first ...
PurgeBytes(r) ==
  /\ At(r, "remove")
  /\ \E t \in req[r].rest :
       /\ Remove(t)
       /\ Become(r, [req[r] EXCEPT !.pc = "delete", !.rest = @ \ {t}, !.cur = t])
  /\ UNCHANGED <<row, folder>>

\* ... then the row, whatever became of it since.
PurgeRow(r) ==
  /\ At(r, "delete")
  /\ Write(r, DeleteFileRow(req[r].cur.file),
           IF req[r].rest = {} THEN NoReq
           ELSE [req[r] EXCEPT !.pc = "remove", !.cur = NoTarget])

Proceed(r) ==
  \/ WriteOne(r) \/ FolderStats(r) \/ EnsurePermanentFits(r) \/ WriteExpiry(r)
  \/ TrashFolder(r) \/ ClearOwner(r) \/ PurgeBytes(r) \/ PurgeRow(r)

(***************************************************************************)
(* The folder is renamed: RenameFolderPathWithParent and                   *)
(* MoveFilesPathPrefix first, RenameDir after them (see Folders).          *)
(***************************************************************************)
MoveRows ==
  /\ folder = "active" /\ place = dirAt
  /\ place' \in Place \ {place}
  /\ UNCHANGED <<row, bytes, missed, dirAt, folder, req, job, faults, interrupted>>

MoveDisk ==
  /\ place # dirAt /\ dirAt' = place
  /\ UNCHANGED <<row, bytes, missed, place, folder, req, job, faults, interrupted>>

(***************************************************************************)
(* The tasks: each lists first and then works through its list.            *)
(***************************************************************************)
Tasking(next) ==
  /\ job' = next
  /\ UNCHANGED <<place, dirAt, folder, req>>

StartExpire ==
  /\ job = NoJob
  /\ Tasking([NoJob EXCEPT !.task = "expire", !.rest = {TargetOf(f) : f \in ExpiredFiles}])
  /\ UNCHANGED <<row, bytes, missed, faults, interrupted>>

ExpireOne ==
  /\ job.task = "expire"
  /\ \E t \in job.rest : row' = MarkTrashed(t.file) /\ Tasking([job EXCEPT !.rest = @ \ {t}])
  /\ UNCHANGED <<bytes, missed, faults, interrupted>>

\* GET_LOCK has given the purge its turn.
StartPurge ==
  /\ job = NoJob
  /\ Tasking([NoJob EXCEPT !.task = "list"])
  /\ UNCHANGED <<row, bytes, missed, faults, interrupted>>

ListDue ==
  /\ job.task = "list"
  /\ Tasking([job EXCEPT !.task = "purge", !.rest = {TargetOf(f) : f \in ListPurgeable}])
  /\ UNCHANGED <<row, bytes, missed, faults, interrupted>>

\* Mutant: bytes that are not there are an error, and the row is left.
PurgeTaskBytes_Missing ==
  /\ job.task = "purge" /\ job.cur = NoTarget
  /\ \E t \in job.rest :
       /\ Remove(t)
       /\ Tasking([job EXCEPT !.rest = @ \ {t}, !.cur = IF t.file \in bytes THEN t ELSE NoTarget])
  /\ UNCHANGED <<row, faults, interrupted>>

PurgeTaskBytes ==
  /\ job.task = "purge" /\ job.cur = NoTarget
  /\ \E t \in job.rest : Remove(t) /\ Tasking([job EXCEPT !.rest = @ \ {t}, !.cur = t])
  /\ UNCHANGED <<row, faults, interrupted>>

\* Mutant: only a row that is still in the recycle bin is deleted.
PurgeTaskRow_StillTrashed ==
  /\ job.task = "purge" /\ job.cur # NoTarget
  /\ row' = IF Trashed(job.cur.file) THEN DeleteFileRow(job.cur.file) ELSE row
  /\ Tasking([job EXCEPT !.cur = NoTarget])
  /\ UNCHANGED <<bytes, missed, faults, interrupted>>

PurgeTaskRow ==
  /\ job.task = "purge" /\ job.cur # NoTarget
  /\ row' = DeleteFileRow(job.cur.file)
  /\ Tasking([job EXCEPT !.cur = NoTarget])
  /\ UNCHANGED <<bytes, missed, faults, interrupted>>

EndTask ==
  /\ job.task \in {"expire", "purge"} /\ job.rest = {} /\ job.cur = NoTarget
  /\ Tasking(NoJob)
  /\ UNCHANGED <<row, bytes, missed, faults, interrupted>>

Work == ExpireOne \/ ListDue \/ PurgeTaskBytes \/ PurgeTaskRow \/ EndTask

(***************************************************************************)
(* Failures.                                                               *)
(***************************************************************************)
Fault ==
  /\ faults < MaxFaults /\ faults' = faults + 1
  /\ UNCHANGED <<row, bytes, missed, place, dirAt, folder>>

Interrupt(targets) ==
  interrupted' = interrupted \cup ({t.file : t \in targets} \ {NoFile})

\* A statement or a removal fails: the request ends with an error.
Fails(r) ==
  /\ req[r] # NoReq /\ Fault
  /\ req' = [req EXCEPT ![r] = NoReq]
  /\ Interrupt({req[r].cur})
  /\ UNCHANGED job

\* Mutant: the row is deleted although its bytes could not be removed.
TaskFails_Goes(t) ==
  /\ job.task = "purge" /\ job.cur = NoTarget /\ t \in job.rest /\ Fault
  /\ job' = [job EXCEPT !.rest = @ \ {t}, !.cur = t]
  /\ UNCHANGED <<req, interrupted>>

\* The purge task leaves a file it could not remove for its next turn ...
TaskFails(t) ==
  /\ job.task = "purge" /\ job.cur = NoTarget /\ t \in job.rest /\ Fault
  /\ job' = [job EXCEPT !.rest = @ \ {t}]
  /\ UNCHANGED <<req, interrupted>>

\* ... and a row likewise; the list ends the turn, and ExpireFiles the first error.
TaskRowFails ==
  /\ job.cur # NoTarget \/ job.task = "list" \/ (job.task = "expire" /\ job.rest # {})
  /\ Fault
  /\ job' = IF job.task \in {"expire", "list"} THEN NoJob ELSE [job EXCEPT !.cur = NoTarget]
  /\ Interrupt({job.cur})
  /\ UNCHANGED req

Crash ==
  /\ Fault
  /\ req' = [r \in Request |-> NoReq] /\ job' = NoJob
  /\ Interrupt({req[r].cur : r \in Request} \cup {job.cur})

(***************************************************************************)
(* Time passes.  Nothing reads the expiry date of a trashed file: it is    *)
(* not aged.                                                               *)
(***************************************************************************)
Expires(f) ==
  /\ Active(f) /\ row[f].expires = "later"
  /\ row' = [row EXCEPT ![f].expires = "due"]
  /\ UNCHANGED <<bytes, missed, place, dirAt, folder, req, job, faults, interrupted>>

PurgeFallsDue(f) ==
  /\ Trashed(f) /\ row[f].purge = "later"
  /\ row' = [row EXCEPT ![f].purge = "due"]
  /\ UNCHANGED <<bytes, missed, place, dirAt, folder, req, job, faults, interrupted>>

(***************************************************************************)
(* Specification.                                                          *)
(***************************************************************************)
Step ==
  \/ \E r \in Request : Ask(r) \/ Proceed(r) \/ Fails(r)
  \/ MoveRows \/ MoveDisk
  \/ StartExpire \/ StartPurge \/ Work
  \/ TaskRowFails \/ Crash \/ (\E t \in Target : TaskFails(t))
  \/ \E f \in File : Expires(f) \/ PurgeFallsDue(f)

\* A request is raced when the table changes between its read and its write.
Racing ==
  raced' = {r \in Request : /\ req'[r].pc \in {"restore", "stats", "fits", "expiry"}
                            /\ (r \in raced \/ (req[r] # NoReq /\ <<row, place>>' # <<row, place>>))}

FNext == Step /\ Racing

FSpec == FInit /\ [][FNext]_vars

\* Goroutines run on and time passes.  Every other turn of the expiry, five minutes
\* after one of the purge, finds the lock free: no other ticker fires then, and what
\* began with the purge is cut off after five minutes.  Every turn of the purge meets
\* one of the expiry, which may take the lock each time: nothing is assumed of
\* StartPurge.
FFairness ==
  /\ \A r \in Request : WF_vars(Proceed(r) /\ Racing)
  /\ \A f \in File : WF_vars(Expires(f) /\ Racing) /\ WF_vars(PurgeFallsDue(f) /\ Racing)
  /\ WF_vars(Work /\ Racing)
  /\ SF_vars(StartExpire /\ Racing)

FairFSpec == FSpec /\ FFairness

(***************************************************************************)
(* Properties.                                                             *)
(***************************************************************************)

\* A row without bytes is on its way out: a purge that has removed them still
\* has to delete the row, or was interrupted.  A restore that overtakes a purge
\* does not leave a file that is listed and cannot be read (Purge, RunPurge).
MissingIsBeingPurged ==
  \A f \in File : Exists(f) /\ f \notin bytes =>
    \/ f \in interrupted
    \/ job.cur.file = f
    \/ \E r \in Request : req[r].cur.file = f

\* A row is deleted only after the bytes it names: bytes stay behind only when a
\* purge looked for them in a directory the folder had left, or had not yet
\* reached, and took their absence for a purge already done (files.go:249).
PurgeLeavesNoBytes ==
  [][\A f \in File : Exists(f) /\ row'[f] = NoRow /\ f \in bytes =>
       f \in missed]_vars

\* What is in the recycle bin stays as it was put there: neither its name nor its
\* purge date changes, except that the date comes; a second delete that read the
\* row before the first does not extend the stay (store/files.go:294).
TrashedIsFrozen ==
  [][\A f \in File : Trashed(f) /\ row'[f].status = "trashed" =>
       /\ row'[f].name = row[f].name
       /\ row'[f].purge # row[f].purge => row'[f].purge = "due"]_vars

\* A permanent file stays permanent until a request for a term ends it: being
\* trashed and restored does not, unless the restore read the row before it
\* became permanent (files.go:219).
PermanenceIsKept ==
  [][\A f \in File :
       (Exists(f) /\ row[f].expires = "never" /\ row'[f] # NoRow /\ row'[f].expires # "never") =>
          \/ \E r \in Request : At(r, "expiry") /\ req[r].expires = "later" /\ req'[r] = NoReq
          \/ \E r \in raced : At(r, "restore") /\ req'[r] = NoReq]_vars

\* Only a restore, or a request the table changed under, takes the space of
\* permanent files over its quota (files.go:412).
QuotaOverrunIsRaced ==
  [][PermanentUsage' > PermanentUsage /\ PermanentUsage' > Quota =>
       \E r \in Request : /\ req'[r] # req[r]
                          /\ (At(r, "restore") \/ (At(r, "expiry") /\ r \in raced))]_vars

\* Expired files leave the lists (RunExpire).
ExpiredIsTrashed ==
  \A f \in File : (Active(f) /\ row[f].expires = "due") ~> ~(Active(f) /\ row[f].expires = "due")

\* A turn of the purge that gets the lock ends the stay of every file whose purge date
\* has come by then, if nothing fails meanwhile: also of those an earlier turn, a
\* failed removal or a crash has left without bytes, and of those under a folder whose
\* path changes, unless the file is restored first (RunPurge).
DueIsPurged ==
  \A f \in File, n \in 0 .. MaxFaults :
    (job.task = "list" /\ Trashed(f) /\ row[f].purge = "due" /\ faults = n)
      ~> (~(Trashed(f) /\ row[f].purge = "due") \/ faults > n)
=============================================================================
