----------------------- MODULE UploadMaintain_proofs -----------------------
(***************************************************************************)
(* Proofs about UploadMaintain: what the upload service guarantees by      *)
(* itself (Upload_proofs) it still guarantees while RunCleanStaleUploads   *)
(* deletes sessions, chunk records and chunk files next to its requests,   *)
(* and what of it is left while ScanOrphans moves files.                   *)
(***************************************************************************)
EXTENDS UploadMaintain, Upload_proofs

USE DEF Idle, At, Goto, Answer, Fail, Charge, db, fs, aging

\* Requests and crashes are steps of the upload service.
LEMMA ServeIsNext == Serve => Next /\ Freshened /\ job' = job
  BY DEF Serve, Next

LEMMA CrashIsNext == MCrash => Next /\ job' = NoJob /\ UNCHANGED aging
  BY DEF MCrash, Next

LEMMA JobType ==
  /\ NoJob \in JobRecord
  /\ \A j \in JobRecord :
       /\ \A t \in {"none", "stale", "finished", "scan", "sweep"} : [j EXCEPT !.task = t] \in JobRecord
       /\ \A S \in SUBSET Session : [j EXCEPT !.sess = S] \in JobRecord
       /\ \A s \in Session \cup {NoSession} : [j EXCEPT !.cur = s] \in JobRecord
       /\ \A F \in SUBSET FileId : /\ [j EXCEPT !.files = F] \in JobRecord
                                   /\ [j EXCEPT !.known = F] \in JobRecord
                                   /\ [j EXCEPT !.moved = F] \in JobRecord
       /\ \A C \in SUBSET (Session \X Idx) : [j EXCEPT !.chunks = C] \in JobRecord
  BY DEF JobRecord, NoJob

MInv == MTypeOK /\ ReqOK

LEMMA MInvIsTInv == MInv => TInv
  BY DEF MInv, MTypeOK, TInv

AgesOK ==
  /\ chunkAge \in [Session -> [Idx -> 0 .. 2]]
  /\ kept \subseteq Session \X Idx

LEMMA NewChunksType == NewChunks \in [Idx -> 0 .. 2]
  BY DEF NewChunks

\* A chunk gets a day older, or is written or removed.
LEMMA AgesStep ==
  ASSUME AgesOK
  PROVE  /\ Freshened => AgesOK'
         /\ \A s \in Session : StaleDisk(s) => AgesOK'
         /\ \A s \in Session, i \in Idx : AgeChunk(s, i) \/ SweepChunk(s, i) => AgesOK'
<1>1. ASSUME Freshened PROVE AgesOK'
  <2>1. kept' \subseteq Session \X Idx
    BY <1>1 DEF Freshened
  <2>2. \A s \in Session : [i \in Idx |-> IF Stays(s, i) THEN chunkAge[s][i] ELSE 0] \in [Idx -> 0 .. 2]
    BY DEF AgesOK
  <2>3. QED
    BY <1>1, <2>1, <2>2 DEF Freshened, AgesOK
<1>2. ASSUME NEW s \in Session, StaleDisk(s) PROVE AgesOK'
  BY <1>2, NewChunksType DEF StaleDisk, AgesOK
<1>3. ASSUME NEW s \in Session, NEW i \in Idx, AgeChunk(s, i) PROVE AgesOK'
  <2>1. chunkAge[s][i] + 1 \in 0 .. 2
    BY <1>3 DEF AgesOK, AgeChunk
  <2>2. [chunkAge[s] EXCEPT ![i] = chunkAge[s][i] + 1] \in [Idx -> 0 .. 2]
    BY <2>1 DEF AgesOK
  <2>3. chunkAge' = [chunkAge EXCEPT ![s] = [chunkAge[s] EXCEPT ![i] = chunkAge[s][i] + 1]]
    BY <1>3 DEF AgeChunk, AgesOK
  <2>4. QED
    BY <1>3, <2>2, <2>3 DEF AgesOK, AgeChunk
<1>4. ASSUME NEW s \in Session, NEW i \in Idx, SweepChunk(s, i) PROVE AgesOK'
  <2>1. [chunkAge[s] EXCEPT ![i] = 0] \in [Idx -> 0 .. 2]
    BY DEF AgesOK
  <2>2. chunkAge' = chunkAge \/ chunkAge' = [chunkAge EXCEPT ![s] = [chunkAge[s] EXCEPT ![i] = 0]]
    BY <1>4 DEF SweepChunk, AgesOK
  <2>3. QED
    BY <1>4, <2>1, <2>2 DEF AgesOK, SweepChunk
<1>5. QED
  BY <1>1, <1>2, <1>3, <1>4

LEMMA MInvInit == MInit => MInv
<1> SUFFICES ASSUME MInit PROVE MInv
  OBVIOUS
<1>1. TInv
  BY TInvInit DEF MInit
<1>2. QED
  BY <1>1, NoRequestType, NewChunksType, JobType DEF MInit, MInv, MTypeOK, TInv

\* The job and the requests share tables and files; requests are not its business.
LEMMA DeleteType ==
  ASSUME MInv, NEW s \in Session, NEW failed \in BOOLEAN, Delete(s, failed)
  PROVE  /\ TypeOK' /\ ReqOK'
         /\ UNCHANGED <<req, fileOf, row, disk, chunkAge, kept, archive, oldFile>>
         /\ stale' \subseteq stale
         /\ status' = status \/ status' = [status EXCEPT ![s] = "gone"]
<1>1. NoChunkRows \in [Idx -> {"none", "short", "full", "wide"}]
  BY DEF NoChunkRows
<1>2. chunkRow' \in [Session -> [Idx -> {"none", "short", "full", "wide"}]]
  BY <1>1 DEF Delete, MInv, MTypeOK, TypeOK
<1>3. status' \in [Session -> {"unused", "uploading", "done", "aborted", "gone"}]
  BY DEF Delete, MInv, MTypeOK, TypeOK
<1>4. faults' \in Nat
  BY DEF Delete, MInv, MTypeOK, TypeOK
<1>5. TypeOK' /\ ReqOK'
  BY <1>2, <1>3, <1>4 DEF Delete, MInv, MTypeOK, TypeOK, ReqOK
<1>6. stale' \subseteq stale
  BY DEF Delete
<1>7. QED
  BY <1>5, <1>6 DEF Delete

LEMMA MInvStep == MInv /\ [MNext]_mvars => MInv'
<1> SUFFICES ASSUME MInv, [MNext]_mvars PROVE MInv'
  OBVIOUS
<1> USE ConstantsAssumption, NoRequestType DEF MInv, MTypeOK
<1>a. AgesOK
  BY DEF AgesOK
<1>1. CASE Serve
  <2>1. TypeOK' /\ ReqOK'
    BY <1>1, ServeIsNext, TInvStep DEF TInv
  <2>2. QED
    BY <1>1, <1>a, <2>1, AgesStep, ServeIsNext DEF Freshened, AgesOK
<1>2. CASE MCrash
  <2>1. TypeOK' /\ ReqOK'
    BY <1>2, CrashIsNext, TInvStep DEF TInv
  <2>2. QED
    BY <1>2, <2>1, CrashIsNext, JobType
<1>3. ASSUME UNCHANGED vars, NEW j \in JobRecord, job' = j,
             stale' \subseteq Session, AgesOK',
             archive' \in [FileId -> Content], oldFile' \subseteq FileId
      PROVE  MInv'
  BY <1>3 DEF vars, TypeOK, ReqOK, AgesOK
<1>4. CASE Age
  <2>1. job \in JobRecord
    OBVIOUS
  <2>2. ASSUME NEW s \in Session, AgeSession(s) PROVE MInv'
    BY <1>3, <2>1, <2>2 DEF AgeSession, AgesOK
  <2>3. ASSUME NEW s \in Session, NEW i \in Idx, AgeChunk(s, i) PROVE MInv'
    <3>1. AgesOK'
      BY <1>a, <2>3, AgesStep
    <3>2. UNCHANGED vars /\ job' = job /\ UNCHANGED <<stale, archive, oldFile>>
      BY <2>3 DEF AgeChunk
    <3>3. stale' \subseteq Session /\ archive' \in [FileId -> Content] /\ oldFile' \subseteq FileId
      BY <3>2
    <3>4. QED
      BY <1>3, <2>1, <3>1, <3>2, <3>3
  <2>4. ASSUME NEW f \in FileId, AgeFile(f) PROVE MInv'
    BY <1>3, <2>1, <2>4 DEF AgeFile, AgesOK
  <2>5. QED
    BY <1>4, <2>2, <2>3, <2>4 DEF Age
<1>5. CASE ListStale \/ ScanRead \/ ListFinished \/ UploadsDone \/ ScanEnd \/ SweepEnd
  <2>1. UNCHANGED <<vars, aging>>
    BY <1>5 DEF ListStale, ScanRead, ListFinished, UploadsDone, ScanEnd, SweepEnd
  <2>2. ASSUME ListStale \/ ListFinished PROVE job' \in JobRecord
    <3>1. PICK t \in {"stale", "finished"}, S \in SUBSET Session :
             job' = [NoJob EXCEPT !.task = t, !.sess = S]
      BY <2>2 DEF ListStale, ListFinished
    <3>2. QED
      BY <3>1 DEF JobRecord, NoJob
  <2>3. ASSUME ScanRead PROVE job' \in JobRecord
    BY <2>3 DEF ScanRead, JobRecord, NoJob
  <2>4. ASSUME ScanEnd PROVE job' \in JobRecord
    BY <2>4 DEF ScanEnd, JobRecord, NoJob
  <2>5. ASSUME UploadsDone \/ SweepEnd PROVE job' \in JobRecord
    BY <2>5, JobType DEF UploadsDone, SweepEnd
  <2>6. job' \in JobRecord
    BY <1>5, <2>2, <2>3, <2>4, <2>5
  <2>7. QED
    BY <1>3, <2>1, <2>6 DEF AgesOK
<1>6. ASSUME NEW s \in Session, StaleDisk(s) PROVE MInv'
  <2>1. job' \in JobRecord
    BY <1>6 DEF StaleDisk, JobRecord
  <2>2. chunkFile' \in [Session -> Content]
    BY <1>6 DEF StaleDisk, TypeOK
  <2>3. TypeOK' /\ ReqOK'
    BY <1>6, <2>2 DEF StaleDisk, TypeOK, ReqOK
  <2>4. QED
    BY <1>6, <1>a, <2>1, <2>3, AgesStep DEF StaleDisk, AgesOK
<1>7. ASSUME NEW failed \in BOOLEAN, StaleRow(failed) PROVE MInv'
  <2>1. job.cur \in Session /\ Delete(job.cur, failed)
    BY <1>7 DEF StaleRow, JobRecord
  <2>2. job' \in JobRecord
    BY <1>7 DEF StaleRow, JobRecord
  <2>3. QED
    BY <2>1, <2>2, DeleteType
<1>8. ASSUME NEW failed \in BOOLEAN, NEW s \in Session, FinishedRow(s, failed) PROVE MInv'
  <2>1. Delete(s, failed)
    BY <1>8 DEF FinishedRow
  <2>2. job' \in JobRecord
    BY <1>8 DEF FinishedRow, JobRecord
  <2>3. QED
    BY <2>1, <2>2, DeleteType
<1>9. ASSUME NEW f \in FileId, ScanVisit(f) PROVE MInv'
  <2>1. job' \in JobRecord
    BY <1>9 DEF ScanVisit, JobRecord
  <2>2. disk' \in [FileId -> Content] /\ archive' \in [FileId -> Content]
    BY <1>9 DEF ScanVisit, TypeOK
  <2>3. TypeOK' /\ ReqOK'
    BY <1>9, <2>2 DEF ScanVisit, TypeOK, ReqOK
  <2>4. oldFile' \subseteq FileId
    BY <1>9 DEF ScanVisit
  <2>5. QED
    BY <1>9, <2>1, <2>2, <2>3, <2>4 DEF ScanVisit
<1>10. ASSUME NEW f \in FileId, SweepArchive(f) PROVE MInv'
  <2>1. job' \in JobRecord /\ archive' \in [FileId -> Content]
    BY <1>10 DEF SweepArchive, JobRecord
  <2>2. QED
    BY <1>3, <1>10, <2>1 DEF SweepArchive, AgesOK
<1>11. ASSUME NEW s \in Session, NEW i \in Idx, SweepChunk(s, i) PROVE MInv'
  <2>1. job' \in JobRecord
    BY <1>11 DEF SweepChunk, JobRecord
  <2>2. chunkFile' \in [Session -> Content]
    BY <1>11 DEF SweepChunk, TypeOK, Content
  <2>3. TypeOK' /\ ReqOK'
    BY <1>11, <2>2 DEF SweepChunk, TypeOK, ReqOK
  <2>4. QED
    BY <1>11, <1>a, <2>1, <2>3, AgesStep DEF SweepChunk, AgesOK
<1>12. CASE UNCHANGED mvars
  BY <1>12 DEF mvars, vars, TypeOK, ReqOK
<1>13. QED
  BY <1>1, <1>2, <1>4, <1>5, <1>6, <1>7, <1>8, <1>9, <1>10, <1>11, <1>12 DEF MNext, Work

\* Every variable of the service and of the tasks keeps its type.
THEOREM MaintainTypeCorrect == MSpec => []MTypeOK
<1>1. MInv => MTypeOK
  BY DEF MInv
<1>2. QED
  BY <1>1, MInvInit, MInvStep, PTL DEF MSpec

(***************************************************************************)
(* What the tasks write besides their own variables.                       *)
(***************************************************************************)

\* The job only deletes sessions that have been opened.
ListedOpen == \A s \in Session : s \in job.sess \/ s = job.cur => status[s] # "unused"

\* Between them, a task and the time that passes write this much.
Deletes(s) == EndsSession(s) /\ status' = [status EXCEPT ![s] = "gone"]

Archives(f) ==
  /\ disk[f] # NoBytes /\ job.task = "scan"
  /\ archive' = [archive EXCEPT ![f] = disk[f]] /\ disk' = [disk EXCEPT ![f] = NoBytes]
  /\ oldFile' = oldFile

Sweeps(f) ==
  f \in oldFile /\ archive' = [archive EXCEPT ![f] = NoBytes] /\ UNCHANGED <<disk, oldFile>>

LEMMA OpenedStays ==
  ASSUME TInv, [Next]_vars, NEW s \in Session, status[s] # "unused"
  PROVE  status'[s] # "unused"
<1> USE DEF TInv
<1>1. ASSUME NEW r \in Request, Quiet(r) PROVE status'[s] # "unused"
  BY <1>1, QuietMoves
<1>2. ASSUME NEW r \in Request, NEW f \in FileId, NEW o \in Outcome, CompletePlace(r, f, o)
      PROVE  status'[s] # "unused"
  BY <1>2 DEF CompletePlace
<1>3. ASSUME NEW r \in Request, NEW o \in Outcome,
             CompleteFinishSession(r, o) \/ CompleteFinishFile(r, o)
               \/ UndoRow(r, o) \/ CancelRow(r, o)
      PROVE  status'[s] # "unused"
  BY <1>3 DEF CompleteFinishSession, CompleteFinishFile, UndoRow, CancelRow, TypeOK
<1>4. CASE (\E t \in Session : InitSession(t)) \/ Crash \/ UNCHANGED vars
  BY <1>4 DEF InitSession, Crash, vars, TypeOK
<1>5. QED
  BY <1>1, <1>2, <1>3, <1>4 DEF Next, Proceed, Quiet

LEMMA ListedOpenInit == MInit => ListedOpen
  BY ConstantsAssumption DEF MInit, ListedOpen, NoJob

\* One step per action of the tasks; the others start or end a job.
LEMMA ListedOpenStep == MInv /\ ListedOpen /\ [MNext]_mvars => ListedOpen'
<1> SUFFICES ASSUME MInv, ListedOpen, [MNext]_mvars PROVE ListedOpen'
  OBVIOUS
<1> USE ConstantsAssumption DEF MInv, MTypeOK
<1>1. CASE Serve
  BY <1>1, ServeIsNext, MInvIsTInv, OpenedStays DEF ListedOpen
<1>2. ASSUME job'.sess = {}, job'.cur = NoSession PROVE ListedOpen'
  BY <1>2 DEF ListedOpen
<1>3. CASE MCrash \/ ScanRead \/ UploadsDone \/ SweepEnd
  <2>1. job' = NoJob \/ ScanRead
    BY <1>3, CrashIsNext DEF UploadsDone, SweepEnd
  <2>2. NoJob.sess = {} /\ NoJob.cur = NoSession
    BY DEF NoJob
  <2>3. ASSUME ScanRead PROVE job'.sess = NoJob.sess /\ job'.cur = NoJob.cur
    BY <2>3, JobType DEF ScanRead, JobRecord
  <2>4. job'.sess = {} /\ job'.cur = NoSession
    BY <2>1, <2>2, <2>3
  <2>5. QED
    BY <1>2, <2>4
<1>4. CASE ListStale \/ ListFinished
  <2>1. status' = status
    BY <1>4 DEF ListStale, ListFinished, vars
  <2>2. job'.cur = NoSession /\ \A s \in job'.sess : status[s] # "unused"
    BY <1>4 DEF ListStale, ListFinished, NoJob
  <2>3. QED
    BY <2>1, <2>2 DEF ListedOpen
<1>5. ASSUME NEW s \in Session, StaleDisk(s) PROVE ListedOpen'
  <2>1. status' = status
    BY <1>5 DEF StaleDisk
  <2>2. job'.cur = s /\ job'.sess \subseteq job.sess /\ s \in job.sess
    BY <1>5 DEF StaleDisk, JobRecord
  <2>3. QED
    BY <2>1, <2>2 DEF ListedOpen
<1>6. ASSUME NEW s \in Session, NEW failed \in BOOLEAN, Delete(s, failed),
             job'.cur \in {NoSession, job.cur}, job'.sess \subseteq job.sess
      PROVE  ListedOpen'
  <2>1. \A t \in Session : status[t] # "unused" => status'[t] # "unused"
    BY <1>6 DEF Delete, TypeOK
  <2>2. QED
    BY <1>6, <2>1 DEF ListedOpen
<1>7. ASSUME NEW failed \in BOOLEAN, StaleRow(failed) PROVE ListedOpen'
  <2>1. job.cur \in Session
    BY <1>7 DEF StaleRow, JobRecord
  <2>2. job'.cur = NoSession /\ job'.sess = job.sess
    BY <1>7 DEF StaleRow, JobRecord
  <2>3. QED
    BY <1>6, <1>7, <2>1, <2>2 DEF StaleRow
<1>8. ASSUME NEW failed \in BOOLEAN, NEW s \in Session, FinishedRow(s, failed) PROVE ListedOpen'
  <2>1. job'.cur = job.cur /\ job'.sess \subseteq job.sess
    BY <1>8 DEF FinishedRow, JobRecord
  <2>2. QED
    BY <1>6, <1>8, <2>1 DEF FinishedRow
<1>9. ASSUME job'.sess = job.sess, job'.cur = job.cur, status' = status PROVE ListedOpen'
  BY <1>9 DEF ListedOpen
<1>10. CASE Age \/ UNCHANGED mvars
  BY <1>9, <1>10 DEF Age, AgeSession, AgeChunk, AgeFile, mvars, vars
<1>11. ASSUME NEW f \in FileId, ScanVisit(f) \/ SweepArchive(f) PROVE ListedOpen'
  <2>1. job'.sess = job.sess /\ job'.cur = job.cur
    BY <1>11 DEF ScanVisit, SweepArchive, JobRecord
  <2>2. status' = status
    BY <1>11 DEF ScanVisit, SweepArchive, vars
  <2>3. QED
    BY <1>9, <2>1, <2>2
<1>12. ASSUME NEW s \in Session, NEW i \in Idx, SweepChunk(s, i) PROVE ListedOpen'
  BY <1>9, <1>12 DEF SweepChunk, JobRecord
<1>13. CASE ScanEnd
  BY <1>9, <1>13 DEF ScanEnd, JobRecord, vars
<1>14. QED
  BY <1>1, <1>3, <1>4, <1>5, <1>7, <1>8, <1>10, <1>11, <1>12, <1>13 DEF MNext, Work

LEMMA DeleteWrites ==
  ASSUME NEW s \in Session, NEW failed \in BOOLEAN, Delete(s, failed), status[s] # "unused"
  PROVE  UNCHANGED <<status, chunkRow>> \/ Deletes(s)
<1>1. CASE failed
  BY <1>1 DEF Delete
<1>2. CASE ~failed
  BY <1>2 DEF Delete, Deletes, EndsSession
<1>3. QED
  BY <1>1, <1>2

LEMMA TaskWrites ==
  ASSUME MInv, ListedOpen, [MNext]_mvars, ~Serve, ~MCrash
  PROVE  /\ UNCHANGED <<req, fileOf, row, madeBy, meta>>
         /\ UNCHANGED <<status, chunkRow>> \/ \E s \in Session : Deletes(s)
         /\ UNCHANGED <<disk, archive, oldFile>>
              \/ \E f \in FileId : AgeFile(f) \/ Archives(f) \/ Sweeps(f)
<1> DEFINE Quietly == /\ UNCHANGED <<req, fileOf, row, madeBy, meta>>
                      /\ UNCHANGED <<status, chunkRow>> \/ \E s \in Session : Deletes(s)
           Moved == UNCHANGED <<disk, archive, oldFile>>
                      \/ \E f \in FileId : AgeFile(f) \/ Archives(f) \/ Sweeps(f)
<1>1. CASE UNCHANGED mvars \/ ListStale \/ ScanRead \/ ListFinished \/ UploadsDone
             \/ ScanEnd \/ SweepEnd
  BY <1>1 DEF mvars, vars, ListStale, ScanRead, ListFinished, UploadsDone, ScanEnd, SweepEnd
<1>2. CASE Age
  <2>1. UNCHANGED vars
    BY <1>2 DEF Age, AgeSession, AgeChunk, AgeFile
  <2>2. Moved
    BY <1>2, <2>1 DEF Age, AgeSession, AgeChunk, vars
  <2>3. QED
    BY <2>1, <2>2 DEF vars
<1>3. ASSUME NEW s \in Session, StaleDisk(s) \/ \E i \in Idx : SweepChunk(s, i)
      PROVE  Quietly /\ Moved
  BY <1>3 DEF StaleDisk, SweepChunk
<1>4. ASSUME NEW s \in Session, NEW failed \in BOOLEAN, Delete(s, failed),
             s \in job.sess \/ s = job.cur
      PROVE  Quietly /\ Moved
  <2>1. UNCHANGED <<status, chunkRow>> \/ Deletes(s)
    BY <1>4, DeleteWrites DEF ListedOpen
  <2>2. QED
    BY <1>4, <2>1 DEF Delete
<1>5. ASSUME NEW failed \in BOOLEAN, StaleRow(failed) PROVE Quietly /\ Moved
  <2>1. job.cur \in Session
    BY <1>5 DEF StaleRow, MInv, MTypeOK, JobRecord
  <2>2. QED
    BY <1>4, <1>5, <2>1 DEF StaleRow
<1>6. ASSUME NEW failed \in BOOLEAN, NEW s \in Session, FinishedRow(s, failed)
      PROVE  Quietly /\ Moved
  BY <1>4, <1>6 DEF FinishedRow
<1>7. ASSUME NEW f \in FileId, ScanVisit(f) PROVE Quietly /\ Moved
  <2>1. Quietly
    BY <1>7 DEF ScanVisit
  <2>2. UNCHANGED <<disk, archive, oldFile>> \/ Archives(f)
    BY <1>7 DEF ScanVisit, Archives
  <2>3. QED
    BY <2>1, <2>2
<1>8. ASSUME NEW f \in FileId, SweepArchive(f) PROVE Quietly /\ Moved
  <2>1. UNCHANGED vars
    BY <1>8 DEF SweepArchive
  <2>2. UNCHANGED <<disk, archive, oldFile>> \/ Sweeps(f)
    BY <1>8, <2>1 DEF SweepArchive, Sweeps, vars
  <2>3. QED
    BY <2>1, <2>2 DEF vars
<1>9. QED
  BY <1>1, <1>2, <1>3, <1>5, <1>6, <1>7, <1>8 DEF MNext, Work

(***************************************************************************)
(* What no task can break, whatever fails or is lost: one product per      *)
(* session, and the contract with the browser.  To a client a session that *)
(* was deleted has ended, or stays merged.                                 *)
(***************************************************************************)
MTied == MInv /\ ListedOpen /\ ProductInv /\ ContractInv

LEMMA ProductKept ==
  ASSUME ProductInv, UNCHANGED <<req, fileOf, row, madeBy>>,
         \A s \in Session : status'[s] = status[s] \/ status'[s] = "gone"
  PROVE  ProductInv'
  BY DEF ProductInv, RecordedIsOwn, FinalIsRecorded, WorkersTied, WorksOn

LEMMA DeletesOnly ==
  ASSUME TypeOK, UNCHANGED <<status, chunkRow>> \/ \E s \in Session : Deletes(s)
  PROVE  \A s \in Session : status'[s] = status[s] \/ status'[s] = "gone"
  BY DEF TypeOK, Deletes

\* A step of a task as a step of the sessions.
LEMMA TaskFollows ==
  ASSUME MInv, ListedOpen, [MNext]_mvars, ~Serve, ~MCrash
  PROVE  SessionWrites /\ \A q \in Request : Follows(q)
<1>1. SessionWrites
  BY TaskWrites DEF SessionWrites, Deletes
<1>2. \A q \in Request : Follows(q)
  BY TaskWrites DEF Follows
<1>3. QED
  BY <1>1, <1>2

LEMMA MTiedInit == MInit => MTied
  BY MInvInit, ListedOpenInit, ProductInvInit, ContractInvInit DEF MInit, MTied

LEMMA MTiedStep == MTied /\ [MNext]_mvars => MTied'
<1> SUFFICES ASSUME MTied, [MNext]_mvars PROVE MTied'
  OBVIOUS
<1>1. MInv' /\ ListedOpen' /\ TInv
  BY MInvStep, ListedOpenStep, MInvIsTInv DEF MTied
<1>2. CASE Serve \/ MCrash
  <2>1. Next
    BY <1>2, ServeIsNext, CrashIsNext
  <2>2. ProductInv' /\ ContractInv'
    BY <1>1, <2>1, ProductInvStep, ContractInvStep DEF MTied
  <2>3. QED
    BY <1>1, <2>2 DEF MTied
<1>3. CASE ~(Serve \/ MCrash)
  <2>1. ProductInv'
    BY <1>1, <1>3, TaskWrites, DeletesOnly, ProductKept DEF MTied, TInv
  <2>2. ReqOK'
    BY <1>1 DEF MInv
  <2>3. ContractInv'
    BY <1>1, <1>3, <2>2, TaskFollows, ContractInvKept DEF MTied
  <2>4. QED
    BY <1>1, <2>1, <2>3 DEF MTied
<1>4. QED
  BY <1>2, <1>3

LEMMA MTiedHolds == MSpec => []MTied
  BY MTiedInit, MTiedStep, PTL DEF MSpec

\* The tasks delete sessions and move files of a session whose requests are under
\* way, and still at most one finished file comes out of it.
THEOREM MaintainOneProduct == MSpec => []OneProduct
<1>1. MTied => OneProduct
  BY DEF MTied, ProductInv, FinalIsRecorded, OneProduct
<1>2. QED
  BY <1>1, MTiedHolds, PTL

\* The service with its tasks keeps UploadContract: RunCleanStaleUploads, which lists
\* sessions first and deletes them whatever became of them, ends a session or leaves a
\* merged one merged, and opens none again.
THEOREM MaintainKeepsContract == MSpec => ContractKept
<1>1. MTied /\ [MNext]_mvars => [Contract!Next]_(Contract!cvars)
  <2> SUFFICES ASSUME MTied, [MNext]_mvars PROVE [Contract!Next]_(Contract!cvars)
    OBVIOUS
  <2>1. TInv /\ TypeOK /\ ProductInv /\ ContractInv /\ UnusedIsEmpty
    BY MInvIsTInv DEF MTied, TInv, ContractInv
  <2>2. SessionWrites
    BY <2>1, ServeIsNext, CrashIsNext, NextWrites, TaskFollows DEF MTied
  <2>3. QED
    BY <2>1, <2>2, WritesRefine
<1>2. MInit => Contract!Init
  BY ContractInitRefines DEF MInit
<1>3. QED
  BY <1>1, <1>2, MTiedInit, MTiedStep, PTL DEF MSpec, ContractKept, Contract!Spec

(***************************************************************************)
(* The bytes of a file while the scan and the sweep go through the data    *)
(* directory.  Until its request has published it a file has no bytes,     *)
(* neither at its path nor in the archive; from then on its bytes are the  *)
(* ones that request has merged, in one of the two places, until they are  *)
(* old.                                                                    *)
(***************************************************************************)
Unpublished == {"merge", "publish"}
Published == {"finishSession", "finishFile"}

HasNone(f) == disk[f] = NoBytes /\ archive[f] = NoBytes /\ f \notin oldFile
HasThese(f, b) == disk[f] \in {NoBytes, b} /\ b \in {disk[f], archive[f]} /\ f \notin oldFile

FreeIsEmpty == \A f \in FileId : row[f] = "free" => HasNone(f)
Early == \A r \in Request : req[r].pc \in Unpublished => HasNone(req[r].fid)
Late == \A r \in Request : req[r].pc \in Published => HasThese(req[r].fid, req[r].buf)

BytesInv == /\ OneWorker /\ BuildsUnfinished
            /\ FreeIsEmpty /\ Early /\ Late /\ DigestMatchesBytes

\* How a request comes to build a file, and to have published it.
Advances(r) ==
  /\ req'[r].pc \in Unpublished =>
       LET f == req'[r].fid
       IN /\ f \in FileId /\ disk'[f] = disk[f]
          /\ row[f] = "free" \/ (req[r].pc \in Unpublished /\ f = req[r].fid)
  /\ req'[r].pc \in Published =>
       LET f == req[r].fid
       IN /\ f \in FileId /\ req'[r].fid = f /\ req'[r].buf = req[r].buf
          /\ \/ req[r].pc \in Published /\ disk'[f] = disk[f]
             \/ req[r].pc \in Unpublished /\ disk'[f] = req[r].buf

LEMMA BuildingStep ==
  ASSUME TInv, NEW r \in Request, Quiet(r), req'[r].pc \in Building
  PROVE  req[r].pc \in Building /\ (Disconnect(r) \/ CompleteMerge(r) \/ CompletePublish(r))
<1>1. req[r].pc \in Building
  BY QuietContinues DEF Continues
<1>2. ASSUME MergeFails(r) PROVE FALSE
  BY <1>2 DEF MergeFails, Building, TInv, ReqOK, ReqRecord
<1>3. ~Ask(r) /\ ~GiveUp(r)
  BY <1>1 DEF Ask, PutBegin, CompleteAgain, CompleteBegin, CancelBegin, GiveUp, Building
<1>4. \A o \in Outcome : ~PutRow(r, o) /\ ~CompleteCleanRows(r, o)
  BY <1>1 DEF PutRow, CompleteCleanRows, Building
<1>5. /\ ~PutDisk(r) /\ ~PutDrop(r) /\ ~CancelDisk(r) /\ ~Reread(r)
      /\ ~CompleteList(r) /\ ~CompleteExist(r) /\ ~CompleteVerify(r)
      /\ ~CompleteCleanDisk(r) /\ ~UndoDisk(r)
  BY <1>1 DEF PutDisk, PutDrop, CancelDisk, Reread, CompleteList, CompleteExist,
     CompleteVerify, CompleteCleanDisk, UndoDisk, Building
<1>6. QED
  BY <1>1, <1>2, <1>3, <1>4, <1>5 DEF Quiet

LEMMA BuilderAdvances ==
  ASSUME TInv, ProductInv, NEW r \in Request,
         Disconnect(r) \/ CompleteMerge(r) \/ CompletePublish(r), req[r].pc \in Building
  PROVE  Advances(r)
<1> USE DEF TInv
<1>1. req[r].fid \in FileId
  BY DEF ProductInv, WorkersTied, WorksOn, Building, OwnSteps
<1>2. CASE Disconnect(r)
  <2>1. req'[r].pc = req[r].pc /\ req'[r].fid = req[r].fid /\ req'[r].buf = req[r].buf
    BY <1>2 DEF Disconnect, ReqOK, ReqRecord
  <2>2. QED
    BY <1>1, <1>2, <2>1 DEF Disconnect, Advances
<1>3. CASE CompleteMerge(r)
  <2>1. req'[r].pc \in {"merge", "publish", "undoRow"} /\ req'[r].fid = req[r].fid
    BY <1>3 DEF CompleteMerge, ReqOK, ReqRecord
  <2>2. QED
    BY <1>1, <1>3, <2>1 DEF CompleteMerge, Advances, Unpublished, Published
<1>4. CASE CompletePublish(r)
  <2>1. /\ req'[r].pc = "finishSession" /\ req[r].pc = "publish"
        /\ req'[r].fid = req[r].fid /\ req'[r].buf = req[r].buf
    BY <1>4 DEF CompletePublish, ReqOK, ReqRecord
  <2>2. disk'[req[r].fid] = req[r].buf
    BY <1>1, <1>4 DEF CompletePublish, TypeOK
  <2>3. QED
    BY <1>1, <2>1, <2>2 DEF Advances, Unpublished, Published
<1>5. QED
  BY <1>2, <1>3, <1>4

\* A request that another one leaves alone keeps its file, too.
LEMMA OthersAdvance ==
  ASSUME ProductInv, OneWorker, NEW r \in Request, NEW q \in Request, q # r, req'[q] = req[q],
         \/ disk' = disk
         \/ req[r].pc \in Working /\ \A f \in FileId : f # req[r].fid => disk'[f] = disk[f]
  PROVE  Advances(q)
<1>1. CASE req[q].pc \in Building
  <2>1. req[q].pc \in OwnSteps /\ req[q].fid \in FileId
    BY <1>1 DEF ProductInv, WorkersTied, WorksOn, Building, OwnSteps
  <2>2. disk'[req[q].fid] = disk[req[q].fid]
    BY <2>1 DEF OneWorker, Working
  <2>3. QED
    BY <2>1, <2>2 DEF Advances
<1>2. CASE req[q].pc \notin Building
  BY <1>2 DEF Advances, Building, Unpublished, Published
<1>3. QED
  BY <1>1, <1>2

LEMMA AllAdvance ==
  ASSUME TInv, ProductInv, OneWorker, [Next]_vars, NEW q \in Request
  PROVE  Advances(q)
<1> USE DEF TInv
<1>0. ASSUME req'[q].pc \notin Building PROVE Advances(q)
  BY <1>0 DEF Advances, Building, Unpublished, Published
<1>1. ASSUME NEW r \in Request, Quiet(r) PROVE Advances(q)
  <2>1. CASE q = r
    BY <1>0, <1>1, <2>1, BuildingStep, BuilderAdvances
  <2>2. CASE q # r
    <3>1. req'[q] = req[q]
      BY <1>1, <2>2, QuietMoves DEF Moves, KeepsRow
    <3>2. QED
      BY <1>1, <2>2, <3>1, DiskByWorker, OthersAdvance
  <2>3. QED
    BY <2>1, <2>2
<1>2. ASSUME NEW r \in Request, NEW f \in FileId, NEW o \in Outcome, CompletePlace(r, f, o)
      PROVE  Advances(q)
  <2>1. CASE q = r
    <3>1. disk' = disk /\ row[f] = "free"
      BY <1>2, PlaceTakes
    <3>2. req'[r].pc = "idle" \/ (req'[r].pc = "merge" /\ req'[r].fid = f)
      BY <1>2, PlaceTakes
    <3>3. QED
      BY <2>1, <3>1, <3>2 DEF Advances, Unpublished, Published
  <2>2. CASE q # r
    BY <1>2, <2>2, PlaceTakes, OthersAdvance
  <2>3. QED
    BY <2>1, <2>2
<1>3. ASSUME NEW r \in Request, NEW o \in Outcome, CompleteFinishSession(r, o) PROVE Advances(q)
  <2>1. CASE q = r
    <3>1. /\ req[r].pc = "finishSession" /\ req'[r].pc \in {"finishFile", "undoRow"}
          /\ req'[r].fid = req[r].fid /\ req'[r].buf = req[r].buf /\ disk' = disk
      BY <1>3 DEF CompleteFinishSession, ReqOK, ReqRecord
    <3>2. req[r].fid \in FileId
      BY <3>1 DEF ProductInv, WorkersTied, WorksOn, OwnSteps
    <3>3. QED
      BY <2>1, <3>1, <3>2 DEF Advances, Unpublished, Published
  <2>2. CASE q # r
    BY <1>3, <2>2, FinishSessionKeeps, OthersAdvance DEF KeepsRow
  <2>3. QED
    BY <2>1, <2>2
<1>4. ASSUME NEW r \in Request, NEW o \in Outcome,
             CompleteFinishFile(r, o) \/ UndoRow(r, o) \/ CancelRow(r, o)
      PROVE  Advances(q)
  <2>1. CASE q = r
    <3>1. req'[r].pc \notin Building
      <4>1. CASE CompleteFinishFile(r, o)
        BY <4>1, FinishFileTurns DEF Building
      <4>2. CASE UndoRow(r, o) \/ CancelRow(r, o)
        BY <4>2, WriterContinues DEF UndoRow, CancelRow, Building
      <4>3. QED
        BY <1>4, <4>1, <4>2
    <3>2. QED
      BY <1>0, <2>1, <3>1
  <2>2. CASE q # r
    <3>1. req'[q] = req[q]
      BY <1>4, <2>2, FinishMoves DEF Moves, KeepsRow
    <3>2. disk' = disk
      BY <1>4 DEF CompleteFinishFile, UndoRow, CancelRow
    <3>3. QED
      BY <2>2, <3>1, <3>2, OthersAdvance
  <2>3. QED
    BY <2>1, <2>2
<1>5. CASE Crash
  BY <1>0, <1>5 DEF Crash, NoRequest, Building
<1>6. CASE UNCHANGED <<req, disk>>
  <2>1. req[q].pc \in Building => req[q].fid \in FileId
    BY DEF ProductInv, WorkersTied, WorksOn, Building, OwnSteps
  <2>2. QED
    BY <1>0, <1>6, <2>1 DEF Advances
<1>7. QED
  BY <1>1, <1>2, <1>3, <1>4, <1>5, <1>6 DEF Next, Proceed, Quiet, InitSession, vars

\* A row that is free was free, and its file has not been written.
LEMMA FreeStays ==
  ASSUME TInv, ProductInv, [Next]_vars, NEW f \in FileId, row'[f] = "free"
  PROVE  row[f] = "free" /\ disk'[f] = disk[f]
<1> USE DEF TInv
<1>1. ASSUME NEW r \in Request, Quiet(r) PROVE row[f] = "free" /\ disk'[f] = disk[f]
  <2>1. row' = row
    BY <1>1, QuietMoves
  <2>2. req[r].pc \in Working => row[req[r].fid] # "free"
    BY DEF ProductInv, WorkersTied, WorksOn, Working
  <2>3. QED
    BY <1>1, <2>1, <2>2, DiskByWorker
<1>2. ASSUME NEW r \in Request, NEW g \in FileId, NEW o \in Outcome, CompletePlace(r, g, o)
      PROVE  row[f] = "free" /\ disk'[f] = disk[f]
  BY <1>2, PlaceTakes
<1>3. ASSUME NEW r \in Request, NEW o \in Outcome,
             \/ CompleteFinishSession(r, o) \/ CompleteFinishFile(r, o)
             \/ UndoRow(r, o) \/ CancelRow(r, o)
      PROVE  row[f] = "free" /\ disk'[f] = disk[f]
  BY <1>3 DEF CompleteFinishSession, CompleteFinishFile, UndoRow, CancelRow, TypeOK
<1>4. CASE UNCHANGED <<row, disk>>
  BY <1>4
<1>5. QED
  BY <1>1, <1>2, <1>3, <1>4 DEF Next, Proceed, Quiet, InitSession, Crash, vars

\* A finished row was finished, and its file was not written unless a rollback has
\* removed it; or a request finishes it with the bytes it has merged.
KeptFinal(f) ==
  /\ row[f] = "final" /\ meta'[f] = meta[f]
  /\ \/ disk'[f] = disk[f]
     \/ disk'[f] = NoBytes /\ \E r \in Request : At(r, "undoDisk") /\ req[r].fid = f

TurnsFinal(f) ==
  \E r \in Request :
    At(r, "finishFile") /\ req[r].fid = f /\ meta'[f] = req[r].buf /\ disk'[f] = disk[f]

LEMMA FinalMoves ==
  ASSUME TInv, BuildsUnfinished, [Next]_vars, NEW f \in FileId, row'[f] = "final"
  PROVE  KeptFinal(f) \/ TurnsFinal(f)
<1> USE DEF TInv
<1>1. ASSUME row[f] = "final", disk'[f] = disk[f], meta'[f] = meta[f]
      PROVE  KeptFinal(f)
  BY <1>1 DEF KeptFinal
<1>2. ASSUME NEW r \in Request, Quiet(r) PROVE KeptFinal(f)
  <2>1. row' = row /\ meta' = meta
    BY <1>2, QuietMoves, AskMoves
    DEF Quiet, Disconnect, MergeFails, GiveUp, PutDisk, PutDrop, CancelDisk, Reread,
        CompleteList, CompleteExist, CompleteVerify, CompleteMerge, CompletePublish,
        CompleteCleanDisk, UndoDisk, PutRow, CompleteCleanRows
  <2>2. CASE CompletePublish(r)
    <3>1. row[req[r].fid] # "final"
      BY <2>2 DEF BuildsUnfinished, CompletePublish, Building
    <3>2. disk'[f] = disk[f]
      BY <2>1, <2>2, <3>1 DEF CompletePublish, TypeOK
    <3>3. QED
      BY <1>1, <2>1, <3>2
  <2>3. CASE UndoDisk(r)
    <3>1. At(r, "undoDisk") /\ (disk'[f] = disk[f] \/ (disk'[f] = NoBytes /\ req[r].fid = f))
      BY <2>3 DEF UndoDisk, TypeOK
    <3>2. QED
      BY <2>1, <3>1 DEF KeptFinal
  <2>4. CASE ~(CompletePublish(r) \/ UndoDisk(r))
    <3>1. disk' = disk
      BY <1>2, <2>4, AskMoves
      DEF Quiet, Disconnect, MergeFails, GiveUp, PutDisk, PutDrop, CancelDisk, Reread,
          CompleteList, CompleteExist, CompleteVerify, CompleteMerge,
          CompleteCleanDisk, PutRow, CompleteCleanRows
    <3>2. QED
      BY <1>1, <2>1, <3>1
  <2>5. QED
    BY <2>2, <2>3, <2>4
<1>3. ASSUME NEW r \in Request, NEW g \in FileId, NEW o \in Outcome, CompletePlace(r, g, o)
      PROVE  KeptFinal(f)
  BY <1>1, <1>3, PlaceTakes, PlaceContinues
<1>4. ASSUME NEW r \in Request, NEW o \in Outcome,
             CompleteFinishSession(r, o) \/ UndoRow(r, o) \/ CancelRow(r, o)
      PROVE  KeptFinal(f)
  <2>1. row[f] = "final"
    BY <1>4 DEF CompleteFinishSession, UndoRow, CancelRow, TypeOK
  <2>2. QED
    BY <1>1, <1>4, <2>1, WriterContinues
<1>5. ASSUME NEW r \in Request, NEW o \in Outcome, CompleteFinishFile(r, o)
      PROVE  KeptFinal(f) \/ TurnsFinal(f)
  <2>1. disk' = disk /\ At(r, "finishFile")
    BY <1>5 DEF CompleteFinishFile
  <2>2. CASE f = req[r].fid
    <3>1. \/ row' = row /\ meta' = meta
          \/ meta'[f] = req[r].buf
      BY <1>5, <2>2 DEF CompleteFinishFile, TypeOK
    <3>2. QED
      BY <1>1, <2>1, <2>2, <3>1 DEF TurnsFinal
  <2>3. CASE f # req[r].fid
    BY <1>1, <1>5, <2>1, <2>3, FinishFileTurns
  <2>4. QED
    BY <2>2, <2>3
<1>6. CASE UNCHANGED <<row, disk, meta>>
  BY <1>1, <1>6
<1>7. QED
  BY <1>2, <1>3, <1>4, <1>5, <1>6 DEF Next, Proceed, Quiet, InitSession, Crash, vars

LEMMA BytesInvInit == MInit => BytesInv
<1> SUFFICES ASSUME MInit PROVE BytesInv
  OBVIOUS
<1>1. \A r \in Request : req[r].pc = "idle"
  BY DEF MInit, Init, NoRequest
<1>2. OneWorker /\ BuildsUnfinished /\ Early /\ Late
  BY <1>1 DEF OneWorker, OwnSteps, BuildsUnfinished, Building, Early, Late, Unpublished, Published
<1>3. FreeIsEmpty /\ DigestMatchesBytes
  BY DEF MInit, Init, FreeIsEmpty, HasNone, DigestMatchesBytes
<1>4. QED
  BY <1>2, <1>3 DEF BytesInv

\* A request or a crash.  The archive is not theirs, and what they write is new.
LEMMA ServeKeepsBytes ==
  ASSUME TInv, ProductInv, BytesInv, [Next]_vars, archive' = archive, oldFile' \subseteq oldFile
  PROVE  BytesInv'
<1>1. OneWorker' /\ BuildsUnfinished'
  BY OneWorkerStep, BuildsUnfinishedStep DEF BytesInv
<1>2. FreeIsEmpty'
  BY FreeStays DEF BytesInv, FreeIsEmpty, HasNone
<1>3. ASSUME NEW r \in Request, req'[r].pc \in Unpublished PROVE HasNone(req[r].fid)'
  <2>1. Advances(r)
    BY AllAdvance DEF BytesInv
  <2>2. PICK f \in FileId : f = req'[r].fid
    BY <1>3, <2>1 DEF Advances
  <2>3. disk'[f] = disk[f] /\ HasNone(f)
    BY <1>3, <2>1, <2>2 DEF Advances, BytesInv, FreeIsEmpty, Early
  <2>4. QED
    BY <2>2, <2>3 DEF HasNone
<1>4. ASSUME NEW r \in Request, req'[r].pc \in Published PROVE HasThese(req[r].fid, req[r].buf)'
  <2>1. Advances(r)
    BY AllAdvance DEF BytesInv
  <2>2. PICK f \in FileId : f = req[r].fid
    BY <1>4, <2>1 DEF Advances
  <2>3. PICK b : b = req[r].buf
    OBVIOUS
  <2>4. req'[r].fid = f /\ req'[r].buf = b
    BY <1>4, <2>1, <2>2, <2>3 DEF Advances
  <2>5. CASE req[r].pc \in Published /\ disk'[f] = disk[f]
    BY <2>2, <2>3, <2>4, <2>5 DEF BytesInv, Late, HasThese
  <2>6. CASE req[r].pc \in Unpublished /\ disk'[f] = b
    BY <2>2, <2>4, <2>6 DEF BytesInv, Early, HasNone, HasThese
  <2>7. QED
    BY <1>4, <2>1, <2>2, <2>3, <2>5, <2>6 DEF Advances
<1>5. ASSUME NEW f \in FileId, row'[f] = "final", disk'[f] # NoBytes PROVE meta'[f] = disk'[f]
  <2>1. CASE KeptFinal(f)
    BY <1>5, <2>1 DEF KeptFinal, BytesInv, DigestMatchesBytes
  <2>2. CASE TurnsFinal(f)
    BY <1>5, <2>2 DEF TurnsFinal, BytesInv, Late, HasThese, Published
  <2>3. QED
    BY <1>5, <2>1, <2>2, FinalMoves DEF BytesInv
<1>6. QED
  BY <1>1, <1>2, <1>3, <1>4, <1>5 DEF BytesInv, Early, Late, DigestMatchesBytes

\* What a task or the time that passes makes of a file: it may become old while no
\* request works on it, be archived with the bytes it has, or be swept when it is old.
FileMoves(f) ==
  \/ disk'[f] = disk[f] /\ archive'[f] = archive[f] /\ (f \in oldFile' <=> f \in oldFile)
  \/ /\ disk'[f] = disk[f] /\ archive'[f] = archive[f]
     /\ disk[f] # NoBytes \/ archive[f] # NoBytes
     /\ \A r \in Request : req[r].fid = f => req[r].pc \notin OwnSteps
  \/ /\ disk[f] # NoBytes /\ disk'[f] = NoBytes /\ archive'[f] = disk[f]
     /\ (f \in oldFile' <=> f \in oldFile)
  \/ f \in oldFile /\ f \in oldFile' /\ disk'[f] = disk[f]

LEMMA TaskMoves ==
  ASSUME MInv, ListedOpen, [MNext]_mvars, ~Serve, ~MCrash, NEW f \in FileId
  PROVE  FileMoves(f) /\ (f \in oldFile => f \in oldFile')
<1> USE DEF MInv, MTypeOK, TypeOK
<1>1. CASE UNCHANGED <<disk, archive, oldFile>>
  BY <1>1 DEF FileMoves
<1>2. ASSUME NEW g \in FileId, AgeFile(g) PROVE FileMoves(f) /\ (f \in oldFile => f \in oldFile')
  <2>1. disk' = disk /\ archive' = archive /\ oldFile' = oldFile \cup {g}
    BY <1>2 DEF AgeFile, vars
  <2>2. CASE f = g
    BY <1>2, <2>1, <2>2 DEF AgeFile, FileMoves
  <2>3. CASE f # g
    BY <2>1, <2>3 DEF FileMoves
  <2>4. QED
    BY <2>2, <2>3
<1>3. ASSUME NEW g \in FileId, Archives(g) PROVE FileMoves(f) /\ (f \in oldFile => f \in oldFile')
  <2>1. CASE f = g
    BY <1>3, <2>1 DEF Archives, FileMoves
  <2>2. CASE f # g
    BY <1>3, <2>2 DEF Archives, FileMoves
  <2>3. QED
    BY <2>1, <2>2
<1>4. ASSUME NEW g \in FileId, Sweeps(g) PROVE FileMoves(f) /\ (f \in oldFile => f \in oldFile')
  <2>1. CASE f = g
    BY <1>4, <2>1 DEF Sweeps, FileMoves
  <2>2. CASE f # g
    BY <1>4, <2>2 DEF Sweeps, FileMoves
  <2>3. QED
    BY <2>1, <2>2
<1>5. QED
  BY <1>1, <1>2, <1>3, <1>4, TaskWrites

LEMMA TaskKeepsBytes ==
  ASSUME MInv, ListedOpen, ProductInv, BytesInv, [MNext]_mvars, ~Serve, ~MCrash
  PROVE  BytesInv'
<1>1. UNCHANGED <<req, row, meta>>
  BY TaskWrites
<1>2. OneWorker' /\ BuildsUnfinished'
  BY <1>1 DEF BytesInv, OneWorker, BuildsUnfinished
<1>3. \A f \in FileId : FileMoves(f)
  BY TaskMoves
<1>4. ASSUME NEW f \in FileId, HasNone(f) PROVE HasNone(f)'
  <2>1. FileMoves(f)
    BY <1>3
  <2>2. f \notin oldFile'
    BY <1>4, <2>1 DEF FileMoves, HasNone
  <2>3. QED
    BY <1>4, <2>1, <2>2 DEF FileMoves, HasNone
<1>5. ASSUME NEW f \in FileId, NEW b, HasThese(f, b),
             NEW r \in Request, req[r].fid = f, req[r].pc \in OwnSteps
      PROVE  disk'[f] \in {NoBytes, b} /\ b \in {disk'[f], archive'[f]} /\ f \notin oldFile'
  BY <1>3, <1>5 DEF FileMoves, HasThese
<1>6. FreeIsEmpty'
  BY <1>1, <1>4 DEF BytesInv, FreeIsEmpty
<1>7. \A r \in Request : req[r].pc \in Unpublished \cup Published =>
        req[r].pc \in OwnSteps /\ req[r].fid \in FileId
  BY DEF ProductInv, WorkersTied, WorksOn, Unpublished, Published, OwnSteps
<1>8. ASSUME NEW r \in Request, req'[r].pc \in Unpublished PROVE HasNone(req[r].fid)'
  <2>1. PICK f \in FileId : f = req[r].fid
    BY <1>1, <1>7, <1>8
  <2>2. HasNone(f)'
    BY <1>1, <1>4, <1>8, <2>1 DEF BytesInv, Early
  <2>3. QED
    BY <1>1, <2>1, <2>2 DEF HasNone
<1>9. ASSUME NEW r \in Request, req'[r].pc \in Published
      PROVE  HasThese(req[r].fid, req[r].buf)'
  <2>1. HasThese(req[r].fid, req[r].buf)
    BY <1>1, <1>9 DEF BytesInv, Late
  <2>2. PICK f \in FileId : f = req[r].fid
    BY <1>1, <1>7, <1>9
  <2>3. PICK b : b = req[r].buf
    OBVIOUS
  <2>4. req[r].pc \in OwnSteps /\ HasThese(f, b)
    BY <1>1, <1>7, <1>9, <2>1, <2>2, <2>3
  <2>5. disk'[f] \in {NoBytes, b} /\ b \in {disk'[f], archive'[f]} /\ f \notin oldFile'
    BY <1>5, <2>2, <2>4
  <2>6. QED
    BY <1>1, <2>2, <2>3, <2>5 DEF HasThese
<1>10. ASSUME NEW f \in FileId, row'[f] = "final", disk'[f] # NoBytes PROVE meta'[f] = disk'[f]
  <2>1. disk'[f] = disk[f]
    BY <1>3, <1>10 DEF FileMoves
  <2>2. QED
    BY <1>1, <1>10, <2>1 DEF BytesInv, DigestMatchesBytes
<1>11. QED
  BY <1>2, <1>6, <1>8, <1>9, <1>10 DEF BytesInv, Early, Late, DigestMatchesBytes

\* What a request or a crash leaves alone.
LEMMA ServeAges ==
  ASSUME Serve \/ MCrash
  PROVE  /\ [Next]_vars /\ archive' = archive /\ oldFile' \subseteq oldFile
         /\ \A f \in oldFile : disk'[f] = disk[f] => f \in oldFile'
<1>1. CASE Serve
  BY <1>1, ServeIsNext DEF Freshened
<1>2. CASE MCrash
  BY <1>2, CrashIsNext
<1>3. QED
  BY <1>1, <1>2

LEMMA BytesInvStep == MTied /\ BytesInv /\ [MNext]_mvars => BytesInv'
<1> SUFFICES ASSUME MTied, BytesInv, [MNext]_mvars PROVE BytesInv'
  OBVIOUS
<1>1. MInv /\ TInv /\ ListedOpen /\ ProductInv
  BY MInvIsTInv DEF MTied
<1>2. CASE Serve \/ MCrash
  BY <1>1, <1>2, ServeAges, ServeKeepsBytes
<1>3. CASE ~(Serve \/ MCrash)
  BY <1>1, <1>3, TaskKeepsBytes
<1>4. QED
  BY <1>2, <1>3

\* Whatever fails, is lost or crashes, the size and digest in the table describe the
\* bytes at the path of a finished file, also when the scan takes the bytes away
\* between the merge and its row: nothing is put there again.
THEOREM MaintainDigest == MSpec => []DigestMatchesBytes
<1>1. BytesInv => DigestMatchesBytes
  BY DEF BytesInv
<1>2. QED
  BY <1>1, MTiedInit, MTiedStep, BytesInvInit, BytesInvStep, PTL DEF MSpec

LEMMA FinishedStep ==
  ASSUME "lost" \notin Faults, MTied, BytesInv, UndoSpares, FinishedIsKept, [MNext]_mvars
  PROVE  UndoSpares' /\ FinishedIsKept'
<1>1. MInv /\ TInv /\ ListedOpen /\ ProductInv /\ OneWorker /\ BuildsUnfinished
  BY MInvIsTInv DEF MTied, BytesInv
<1>2. CASE Serve \/ MCrash
  <2>1. UndoSpares'
    BY <1>1, <1>2, ServeAges, UndoSparesStep
  <2>2. ASSUME NEW f \in FileId, row'[f] = "final", f \notin oldFile'
        PROVE  meta'[f] \in {disk'[f], archive'[f]}
    <3>1. CASE KeptFinal(f)
      <4>1. \A r \in Request : At(r, "undoDisk") => req[r].fid # f
        BY <3>1 DEF KeptFinal, UndoSpares, OwnSteps
      <4>2. disk'[f] = disk[f]
        BY <3>1, <4>1 DEF KeptFinal
      <4>3. QED
        BY <1>2, <2>2, <3>1, <4>2, ServeAges DEF KeptFinal, FinishedIsKept
    <3>2. CASE TurnsFinal(f)
      BY <1>2, <2>2, <3>2, ServeAges DEF TurnsFinal, BytesInv, Late, HasThese, Published
    <3>3. QED
      BY <1>1, <1>2, <2>2, <3>1, <3>2, ServeAges, FinalMoves
  <2>3. QED
    BY <2>1, <2>2 DEF FinishedIsKept
<1>3. CASE ~(Serve \/ MCrash)
  <2>1. UNCHANGED <<req, row, meta>>
    BY <1>1, <1>3, TaskWrites
  <2>2. ASSUME NEW f \in FileId, row'[f] = "final", f \notin oldFile'
        PROVE  meta'[f] \in {disk'[f], archive'[f]}
    <3>1. FileMoves(f) /\ f \notin oldFile
      BY <1>1, <1>3, <2>2, TaskMoves
    <3>2. meta[f] \in {disk[f], archive[f]} /\ (disk[f] # NoBytes => meta[f] = disk[f])
      BY <2>1, <2>2, <3>1 DEF FinishedIsKept, BytesInv, DigestMatchesBytes
    <3>3. QED
      BY <2>1, <3>1, <3>2 DEF FileMoves
  <2>3. QED
    BY <2>1, <2>2 DEF UndoSpares, FinishedIsKept
<1>4. QED
  BY <1>2, <1>3

\* The bytes of a finished file are at its path or in the archive until they are
\* seven days old, also when the scan has archived the file of a request that had yet
\* to finish it.
THEOREM MaintainKeepsFinished ==
  ASSUME "lost" \notin Faults PROVE MSpec => []FinishedIsKept
<1>1. MInit => UndoSpares /\ FinishedIsKept
  BY PromiseInvInit DEF MInit, Init, PromiseInv, FinishedIsKept
<1>2. MTied /\ BytesInv /\ UndoSpares /\ FinishedIsKept /\ [MNext]_mvars
        => UndoSpares' /\ FinishedIsKept'
  BY FinishedStep
<1>3. QED
  BY <1>1, <1>2, MTiedInit, MTiedStep, BytesInvInit, BytesInvStep, PTL DEF MSpec

(***************************************************************************)
(* The promise.  Only the scan for orphans touches files of the data       *)
(* directory: without it ("orphans" not in Tasks) the tasks delete chunks  *)
(* and sessions, and deleting a session is what closes it.                 *)
(***************************************************************************)
NoScan == job.task \in {"none", "stale", "finished"}

ServiceInv == ProductInv /\ PromiseInv /\ CreatedInv

\* Taking a session or chunks away is nothing the service's invariants mind.
LEMMA TakenAway ==
  ASSUME TInv, ServiceInv, UNCHANGED <<req, fileOf, row, madeBy, disk>>,
         \A s \in Session : status'[s] = status[s] \/ status'[s] = "gone"
  PROVE  ServiceInv'
<1>1. ProductInv'
  BY ProductKept DEF ServiceInv
<1>2. OneWorker' /\ UndoSpares' /\ FinalIsWhole'
  BY DEF ServiceInv, PromiseInv, OneWorker, UndoSpares, FinalIsWhole
<1>3. AllKnow'
  <2>1. ASSUME NEW r \in Request PROVE Knows(r)'
    <3>1. Knows(r)
      BY DEF ServiceInv, PromiseInv, AllKnow
    <3>2. req[r].pc \in CancelSteps => status'[req[r].sess] # "unused"
      BY <3>1 DEF Knows, CancelSteps, TInv, ReqOK
    <3>3. QED
      BY <3>1, <3>2 DEF Knows
  <2>2. QED
    BY <2>1 DEF AllKnow
<1>4. CreatedInv'
  BY DEF ServiceInv, CreatedInv, Holds
<1>5. QED
  BY <1>1, <1>2, <1>3, <1>4 DEF ServiceInv, PromiseInv

LEMMA NoScanInit == MInit => NoScan
  BY DEF MInit, NoScan, NoJob

LEMMA NoScanStep ==
  ASSUME "orphans" \notin Tasks, MInv, NoScan, [MNext]_mvars PROVE NoScan'
<1> USE DEF NoScan, MInv, MTypeOK, JobRecord
<1>1. CASE Serve \/ MCrash
  BY <1>1, ServeIsNext, CrashIsNext DEF NoJob
<1>2. CASE Age \/ UNCHANGED mvars
  BY <1>2 DEF Age, AgeSession, AgeChunk, AgeFile, mvars
<1>3. CASE ListStale \/ ListFinished \/ UploadsDone
  <2>1. job' = NoJob \/ ListStale \/ ListFinished
    BY <1>3 DEF UploadsDone
  <2>2. NoJob.task = "none"
    BY DEF NoJob
  <2>3. ASSUME ListStale \/ ListFinished PROVE job'.task \in {"stale", "finished"}
    <3>1. \A t, S : [NoJob EXCEPT !.task = t, !.sess = S].task = t
      BY DEF NoJob
    <3>2. CASE ListStale
      BY <3>1, <3>2 DEF ListStale
    <3>3. CASE ListFinished
      BY <3>1, <3>3 DEF ListFinished
    <3>4. QED
      BY <2>3, <3>2, <3>3
  <2>4. job'.task \in {"none", "stale", "finished"}
    BY <2>1, <2>2, <2>3
  <2>5. QED
    BY <2>4
<1>4. ASSUME NEW s \in Session, StaleDisk(s) PROVE NoScan'
  BY <1>4 DEF StaleDisk
<1>5. ASSUME NEW failed \in BOOLEAN,
             StaleRow(failed) \/ \E s \in Session : FinishedRow(s, failed)
      PROVE  NoScan'
  BY <1>5 DEF StaleRow, FinishedRow
<1>6. ~ScanRead /\ ~ScanEnd /\ ~SweepEnd
  BY DEF ScanRead, ScanEnd, SweepEnd
<1>7. ASSUME NEW f \in FileId PROVE ~ScanVisit(f) /\ ~SweepArchive(f)
  BY DEF ScanVisit, SweepArchive
<1>8. ASSUME NEW s \in Session, NEW i \in Idx PROVE ~SweepChunk(s, i)
  BY DEF SweepChunk
<1>9. QED
  BY <1>1, <1>2, <1>3, <1>4, <1>5, <1>6, <1>7, <1>8 DEF MNext, Work

\* Without the scan no task writes to the data directory.
LEMMA DiskKept ==
  ASSUME MInv, ListedOpen, NoScan, [MNext]_mvars, ~Serve, ~MCrash
  PROVE  disk' = disk
  BY TaskWrites DEF NoScan, Archives, AgeFile, Sweeps, vars

LEMMA ServiceInvInit == MInit => ServiceInv
  BY ProductInvInit, PromiseInvInit, CreatedInvInit DEF MInit, ServiceInv

LEMMA ServiceInvStep ==
  ASSUME "lost" \notin Faults, "orphans" \notin Tasks, MInv, ListedOpen, NoScan, ServiceInv, [MNext]_mvars
  PROVE  ServiceInv'
<1>1. CASE Serve \/ MCrash
  BY <1>1, ServeIsNext, CrashIsNext, MInvIsTInv, ProductInvStep, PromiseInvStep, CreatedInvStep
  DEF ServiceInv
<1>2. CASE ~(Serve \/ MCrash)
  <2>1. \A s \in Session : status'[s] = status[s] \/ status'[s] = "gone"
    BY <1>2, TaskWrites, DeletesOnly DEF MInv, MTypeOK
  <2>2. QED
    BY <1>2, <2>1, TaskWrites, DiskKept, TakenAway, MInvIsTInv
<1>3. QED
  BY <1>1, <1>2

LEMMA MaintainRefines ==
  ASSUME "lost" \notin Faults, "orphans" \notin Tasks, MInv, ListedOpen, NoScan, ServiceInv, [MNext]_mvars
  PROVE  [Promise!Next]_(Promise!pvars)
<1>1. CASE Serve \/ MCrash
  BY <1>1, ServeIsNext, CrashIsNext, MInvIsTInv, StepRefines DEF ServiceInv
<1>2. CASE ~(Serve \/ MCrash)
  <2>1. UNCHANGED <<fileOf, row, disk>>
    BY <1>2, TaskWrites, DiskKept
  <2>2. published' = published
    BY <2>1 DEF published
  <2>3. CASE status' = status
    BY <2>1, <2>2, <2>3 DEF phase, Promise!pvars
  <2>4. ASSUME NEW s \in Session, Deletes(s)
        PROVE  Promise!Close(s)
    <3>1. phase[s] \in {"open", "decided", "closed"}
      BY <2>4 DEF phase, Deletes, EndsSession
    <3>2. phase' = [phase EXCEPT ![s] = "closed"]
      BY <2>4 DEF phase, Deletes, MInv, MTypeOK, TypeOK
    <3>3. QED
      BY <2>1, <2>2, <3>1, <3>2 DEF Promise!Close
  <2>5. QED
    BY <1>2, <2>3, <2>4, TaskWrites DEF Promise!Next
<1>3. QED
  BY <1>1, <1>2

\* Reclaiming stale and finished sessions next to requests of those sessions keeps
\* the promise of UploadPromise: to a client, a reclaimed session is a closed one.
THEOREM MaintainPromiseHolds ==
  ASSUME "lost" \notin Faults, "orphans" \notin Tasks PROVE MSpec => PromiseKept
<1>1. MInv /\ ListedOpen /\ NoScan /\ ServiceInv /\ [MNext]_mvars => [Promise!Next]_(Promise!pvars)
  BY MaintainRefines
<1>2. MInv /\ ListedOpen /\ NoScan /\ ServiceInv /\ [MNext]_mvars => ListedOpen' /\ NoScan' /\ ServiceInv'
  BY ListedOpenStep, NoScanStep, ServiceInvStep
<1>3. MInit => Promise!Init
  BY InitRefines DEF MInit
<1>4. QED
  BY <1>1, <1>2, <1>3, MInvInit, MInvStep, ListedOpenInit, NoScanInit, ServiceInvInit,
     PTL DEF MSpec, PromiseKept, Promise!Spec

\* No session that the tasks reclaim takes the bytes of a finished file with it.
THEOREM MaintainProductBacked ==
  ASSUME "lost" \notin Faults, "orphans" \notin Tasks PROVE MSpec => []ProductBacked
<1>1. ServiceInv => ProductBacked
  <2>1. NoBytes \notin Whole
    BY ConstantsAssumption DEF NoBytes, Whole, Body, Idx
  <2>2. QED
    BY <2>1 DEF ServiceInv, PromiseInv, FinalIsWhole, ProductBacked
<1>2. MInv /\ ListedOpen /\ NoScan /\ ServiceInv /\ [MNext]_mvars => ListedOpen' /\ NoScan' /\ ServiceInv'
  BY ListedOpenStep, NoScanStep, ServiceInvStep
<1>3. QED
  BY <1>1, <1>2, MInvInit, MInvStep, ListedOpenInit, NoScanInit, ServiceInvInit, PTL DEF MSpec

\* What a Complete has reported stays true after its session has been reclaimed.
THEOREM MaintainCreatedReadable ==
  ASSUME "lost" \notin Faults, "orphans" \notin Tasks PROVE MSpec => []CreatedIsReadable
<1>1. ServiceInv => CreatedIsReadable
  BY CreatedInvReads DEF ServiceInv
<1>2. MInv /\ ListedOpen /\ NoScan /\ ServiceInv /\ [MNext]_mvars => ListedOpen' /\ NoScan' /\ ServiceInv'
  BY ListedOpenStep, NoScanStep, ServiceInvStep
<1>3. QED
  BY <1>1, <1>2, MInvInit, MInvStep, ListedOpenInit, NoScanInit, ServiceInvInit, PTL DEF MSpec
=============================================================================
