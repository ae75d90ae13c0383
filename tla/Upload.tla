------------------------------- MODULE Upload -------------------------------
(***************************************************************************)
(* The chunked upload service: upload/upload.go over the tables            *)
(* upload_sessions, upload_chunks and files and over the data directory.   *)
(*                                                                         *)
(* Every request is a goroutine of its own.  Nothing serialises two        *)
(* requests of one session except what the database does for a single      *)
(* statement or transaction, so each statement and each file-system call   *)
(* that another request could separate from its neighbours is one action.  *)
(*                                                                         *)
(* A chunk body is abstracted to how it compares with the bytes the client *)
(* means to send at that index (see Body), a merged file to the function   *)
(* from chunk index to the body it was read from.                          *)
(***************************************************************************)
EXTENDS Naturals, FiniteSets

CONSTANTS
  Session,    \* ids of upload sessions (random uuids, never reused)
  Request,    \* the requests the server handles at a time
  FileId,     \* ids of the table files (auto-increment, never reused)
  LastIdx,    \* every session has the chunks 0..LastIdx (total_chunks - 1)
  Declares,   \* the sessions whose client declared a sha256 of the file
  Bodies,     \* the bodies clients send: a subset of Body
  Ops,        \* what clients ask for: a subset of {"put", "complete", "cancel"}
  Faults,     \* what may go wrong: a subset of FaultKinds
  MaxFaults,  \* bound: database, disk and process faults of a behaviour
  NoSession, NoFile

Body == {"good",    \* the right bytes
         "alien",   \* as many bytes, but others
         "short",   \* fewer bytes
         "wide",    \* more bytes, yet no more than chunk_size
         "long"}    \* more than chunk_size

FaultKinds == {"cut",    \* the client goes away: the request's context ends
               "db",     \* a statement fails and changes nothing
               "lost",   \* a statement takes effect, its answer is an error
               "io",     \* merging fails (disk full)
               "crash"}  \* the server process dies

ASSUME ConstantsAssumption ==
  /\ LastIdx \in Nat
  /\ MaxFaults \in Nat
  /\ Declares \subseteq Session
  /\ Bodies \subseteq Body
  /\ Faults \subseteq FaultKinds
  /\ NoSession \notin Session
  /\ NoFile \notin FileId

VARIABLES
  status,     \* upload_sessions.status; "unused" before, "gone" after the row
  fileOf,     \* upload_sessions.file_id
  chunkRow,   \* upload_chunks.size_bytes, by session and idx
  chunkFile,  \* tmp/chunks/<session>/<idx>
  row,        \* files.rel_path: pending-<session>, or the final <id><ext>
  madeBy,     \* the session a files row was inserted for
  meta,       \* files.sha256 and files.size_bytes, as the bytes they describe
  disk,       \* the file <dir>/<id><ext>
  merging,    \* whether <dir>/<id><ext>.merging is there
  req,        \* the requests: program counter and local variables
  faults      \* faults so far

db == <<status, fileOf, chunkRow, row, madeBy, meta>>
fs == <<chunkFile, disk, merging>>
vars == <<status, fileOf, chunkRow, chunkFile, row, madeBy, meta, disk, merging, req,
          faults>>

Idx == 0 .. LastIdx

Content == [Idx -> Body \cup {"none"}]
NoBytes == [i \in Idx |-> "none"]
Intended == [i \in Idx |-> "good"]

SizeOf(b) == CASE b = "short" -> "short"
               [] b = "wide"  -> "wide"
               [] OTHER       -> "full"

NoChunkRows == [i \in Idx |-> "none"]

PutSteps == {"putDisk", "putDrop", "putRow"}
CancelSteps == {"cancelDisk", "cancelRow"}
LookSteps == {"list", "exist", "verify", "place"}
OwnSteps == {"merge", "publish", "finishSession", "finishFile", "cleanDisk",
             "cleanRows", "undoRow", "undoDisk"}

Steps == {"idle", "reread"} \cup PutSteps \cup CancelSteps \cup LookSteps \cup OwnSteps

Replies == {"none", "created", "existing", "conflict", "failed", "raced"}

ReqRecord == [pc    : Steps,
              sess  : Session \cup {NoSession},
              k     : Nat,
              body  : Body \cup {"none"},
              fid   : FileId \cup {NoFile},
              buf   : Content,
              snap  : {"none", "uploading", "done", "aborted"},
              cut   : BOOLEAN,
              reply : Replies]

NoRequest == [pc |-> "idle", sess |-> NoSession, k |-> 0, body |-> "none",
              fid |-> NoFile, buf |-> NoBytes, snap |-> "none", cut |-> FALSE,
              reply |-> "none"]

(***************************************************************************)
(* Types and initial state.                                                *)
(***************************************************************************)
TypeOK ==
  /\ status \in [Session -> {"unused", "uploading", "done", "aborted", "gone"}]
  /\ fileOf \in [Session -> FileId \cup {NoFile}]
  /\ chunkRow \in [Session -> [Idx -> {"none", "short", "full", "wide"}]]
  /\ chunkFile \in [Session -> Content]
  /\ row \in [FileId -> {"free", "pending", "final", "gone"}]
  /\ madeBy \in [FileId -> Session \cup {NoSession}]
  /\ meta \in [FileId -> Content]
  /\ disk \in [FileId -> Content]
  /\ merging \in [FileId -> BOOLEAN]
  /\ req \in [Request -> ReqRecord]
  /\ faults \in Nat

Init ==
  /\ status = [s \in Session |-> "unused"]
  /\ fileOf = [s \in Session |-> NoFile]
  /\ chunkRow = [s \in Session |-> NoChunkRows]
  /\ chunkFile = [s \in Session |-> NoBytes]
  /\ row = [f \in FileId |-> "free"]
  /\ madeBy = [f \in FileId |-> NoSession]
  /\ meta = [f \in FileId |-> NoBytes]
  /\ disk = [f \in FileId |-> NoBytes]
  /\ merging = [f \in FileId |-> FALSE]
  /\ req = [r \in Request |-> NoRequest]
  /\ faults = 0

LiveRow(f) == row[f] \in {"pending", "final"}

Idle(r) == req[r].pc = "idle"
At(r, step) == req[r].pc = step

(***************************************************************************)
(* What one statement of request r can come to.  After the request's       *)
(* context has ended, database/sql refuses every further statement.        *)
(***************************************************************************)
Outcomes(r) ==
  IF req[r].cut
  THEN {"refused"}
  ELSE {"ok"} \cup {o \in {"refused", "lost"} :
                      /\ faults < MaxFaults
                      /\ o = "refused" => "db" \in Faults
                      /\ o = "lost" => "lost" \in Faults}

Charge(r, o) ==
  faults' = IF o = "ok" \/ req[r].cut THEN faults ELSE faults + 1

Goto(r, step) == req' = [req EXCEPT ![r].pc = step]

\* The request answers: failures leave no trace worth keeping.
Answer(r, reply, f) ==
  req' = [req EXCEPT ![r] = IF reply = "failed"
                            THEN NoRequest
                            ELSE [NoRequest EXCEPT !.sess = req[r].sess,
                                                   !.fid = f,
                                                   !.reply = reply]]
Fail(r) == Answer(r, "failed", NoFile)

(***************************************************************************)
(* Init: an upload session is created.  (A second init for the same owner, *)
(* name, size and sha256 finds the open session and changes nothing.)      *)
(***************************************************************************)
InitSession(s) ==
  /\ status[s] = "unused"
  /\ status' = [status EXCEPT ![s] = "uploading"]
  /\ UNCHANGED <<fileOf, chunkRow, row, madeBy, meta, fs, req, faults>>

(***************************************************************************)
(* PutChunk and WriteChunk.  The session is read once, at the start; the   *)
(* chunk is written, then recorded, whatever became of the session since.  *)
(***************************************************************************)
PutBegin(r, s, i, b) ==
  /\ "put" \in Ops /\ Idle(r)
  /\ status[s] = "uploading"
  /\ b = "wide" => i = LastIdx        \* other chunks fill chunk_size exactly
  /\ req' = [req EXCEPT ![r] = [NoRequest EXCEPT !.pc = "putDisk", !.sess = s,
                                                 !.k = i, !.body = b]]
  /\ UNCHANGED <<db, fs, faults>>

\* The body was read to its end: the temporary file replaces the chunk.
PutDisk(r) ==
  /\ At(r, "putDisk") /\ ~req[r].cut
  /\ chunkFile' = [chunkFile EXCEPT ![req[r].sess][req[r].k] = req[r].body]
  /\ Goto(r, IF req[r].body = "long" THEN "putDrop" ELSE "putRow")
  /\ UNCHANGED <<db, disk, merging, faults>>

\* The chunk exceeds chunk_size: it is removed again, with whatever good
\* chunk it replaced.
PutDrop(r) ==
  /\ At(r, "putDrop")
  /\ chunkFile' = [chunkFile EXCEPT ![req[r].sess][req[r].k] = "none"]
  /\ Fail(r)
  /\ UNCHANGED <<db, disk, merging, faults>>

\* UpsertChunk: only the foreign key asks whether the session still exists.
PutRow(r, o) ==
  /\ At(r, "putRow") /\ o \in Outcomes(r)
  /\ chunkRow' = IF o # "refused" /\ status[req[r].sess] # "gone"
                 THEN [chunkRow EXCEPT ![req[r].sess][req[r].k] = SizeOf(req[r].body)]
                 ELSE chunkRow
  /\ Charge(r, o)
  /\ Fail(r)      \* the answer of a PUT is not looked at again
  /\ UNCHANGED <<status, fileOf, row, madeBy, meta, fs>>

(***************************************************************************)
(* Complete.                                                               *)
(***************************************************************************)

\* findCompletedFile: the recorded product; without one, any file of that
\* owner, name and size (here: all sessions share them).
Found(s) == {f \in FileId : LiveRow(f) /\ (fileOf[s] # NoFile => f = fileOf[s])}

\* The answer to a Complete that finds the session completed.
ExistingFile(r, s) ==
  \/ \E f \in Found(s) :
       req' = [req EXCEPT ![r] = [NoRequest EXCEPT !.sess = s, !.fid = f,
                                                   !.reply = "existing"]]
  \/ Found(s) = {} /\ req' = [req EXCEPT ![r] = NoRequest]

CompleteAgain(r, s) ==
  /\ "complete" \in Ops /\ Idle(r)
  /\ status[s] = "done"
  /\ ExistingFile(r, s)
  /\ UNCHANGED <<db, fs, faults>>

\* Bound of the model, not of the code: an id is left for every row that the
\* requests under way may insert.
IdsLeft ==
  Cardinality({f \in FileId : row[f] = "free"})
    > Cardinality({r \in Request : req[r].pc \in LookSteps})

CompleteBegin(r, s) ==
  /\ "complete" \in Ops /\ Idle(r)
  /\ status[s] = "uploading"
  /\ IdsLeft
  /\ req' = [req EXCEPT ![r] = [NoRequest EXCEPT !.pc = "list", !.sess = s]]
  /\ UNCHANGED <<db, fs, faults>>

\* A record for every index, and the declared total.
AllRecorded(s) ==
  /\ \A i \in Idx : chunkRow[s][i] # "none"
  /\ Cardinality({i \in Idx : chunkRow[s][i] = "short"})
       = Cardinality({i \in Idx : chunkRow[s][i] = "wide"})

AllStored(s) == \A i \in Idx : chunkFile[s][i] # "none"

\* Mutant: the number of chunks is compared off by one.
CompleteList_OffByOne(r) ==
  LET recorded == {i \in Idx : chunkRow[req[r].sess][i] # "none"}
  IN /\ At(r, "list") /\ ~req[r].cut
     /\ IF Cardinality(recorded) > LastIdx + 1 THEN Goto(r, "exist") ELSE Fail(r)
     /\ UNCHANGED <<db, fs, faults>>

\* Mutant: it is compared with the last index.
CompleteList_LastIndex(r) ==
  LET recorded == {i \in Idx : chunkRow[req[r].sess][i] # "none"}
  IN /\ At(r, "list") /\ ~req[r].cut
     /\ IF Cardinality(recorded) >= LastIdx THEN Goto(r, "exist") ELSE Fail(r)
     /\ UNCHANGED <<db, fs, faults>>

\* ListChunks first, then a look at every chunk file.
CompleteList(r) ==
  /\ At(r, "list") /\ ~req[r].cut
  /\ IF AllRecorded(req[r].sess) THEN Goto(r, "exist") ELSE Fail(r)
  /\ UNCHANGED <<db, fs, faults>>

CompleteExist(r) ==
  /\ At(r, "exist")
  /\ IF AllStored(req[r].sess)
     THEN Goto(r, IF req[r].sess \in Declares THEN "verify" ELSE "place")
     ELSE Fail(r)
  /\ UNCHANGED <<db, fs, faults>>

\* verifyChunksSHA hashes one chunk after the other.
CompleteVerify(r) ==
  LET s == req[r].sess
      i == req[r].k
      read == [req[r].buf EXCEPT ![i] = chunkFile[s][i]]
  IN /\ At(r, "verify") /\ ~req[r].cut
     /\ IF chunkFile[s][i] = "none" \/ (i = LastIdx /\ read # Intended)
        THEN Fail(r)
        ELSE req' = [req EXCEPT
               ![r] = IF i = LastIdx
                      THEN [req[r] EXCEPT !.pc = "place", !.k = 0, !.buf = NoBytes]
                      ELSE [req[r] EXCEPT !.k = i + 1, !.buf = read]]
     /\ UNCHANGED <<db, fs, faults>>

\* CreateFile: the placeholder's path pending-<session> is a unique key.
PlaceTaken(s) == \E f \in FileId : row[f] = "pending" /\ madeBy[f] = s

CompletePlace(r, f, o) ==
  LET s == req[r].sess
      inserted == o # "refused" /\ ~PlaceTaken(s)
  IN /\ At(r, "place") /\ o \in Outcomes(r)
     /\ row[f] = "free"
     /\ row' = IF inserted THEN [row EXCEPT ![f] = "pending"] ELSE row
     /\ madeBy' = IF inserted THEN [madeBy EXCEPT ![f] = s] ELSE madeBy
     /\ CASE o = "ok" /\ inserted ->
               req' = [req EXCEPT ![r].pc = "merge", ![r].fid = f]
          [] o = "ok" /\ ~inserted -> Answer(r, "conflict", NoFile)
          [] OTHER -> Fail(r)
     /\ Charge(r, o)
     /\ UNCHANGED <<status, fileOf, chunkRow, meta, fs>>

\* Mutant: a chunk that cannot be opened is skipped.
CompleteMerge_SkipsMissing(r) ==
  LET i == req[r].k
  IN /\ At(r, "merge")
     /\ req' = [req EXCEPT ![r].pc = IF i = LastIdx THEN "publish" ELSE "merge",
                           ![r].k = IF i = LastIdx THEN 0 ELSE i + 1,
                           ![r].buf[i] = chunkFile[req[r].sess][i]]
     /\ merging' = [merging EXCEPT ![req[r].fid] = TRUE]
     /\ UNCHANGED <<db, chunkFile, disk, faults>>

\* MergeTo copies one chunk after the other into <id><ext>.merging, which it
\* takes away again when a chunk is missing, as on every other error ...
CompleteMerge(r) ==
  LET s == req[r].sess
      i == req[r].k
  IN /\ At(r, "merge")
     /\ IF chunkFile[s][i] = "none"
        THEN /\ Goto(r, "undoRow")
             /\ merging' = [merging EXCEPT ![req[r].fid] = FALSE]
        ELSE /\ req' = [req EXCEPT ![r].pc = IF i = LastIdx THEN "publish" ELSE "merge",
                                   ![r].k = IF i = LastIdx THEN 0 ELSE i + 1,
                                   ![r].buf[i] = chunkFile[s][i]]
             /\ merging' = [merging EXCEPT ![req[r].fid] = TRUE]
     /\ UNCHANGED <<db, chunkFile, disk, faults>>

MergeFails(r) ==
  /\ At(r, "merge") \/ At(r, "publish")
  /\ "io" \in Faults /\ faults < MaxFaults
  /\ faults' = faults + 1
  /\ Goto(r, "undoRow")
  /\ merging' = [merging EXCEPT ![req[r].fid] = FALSE]
  /\ UNCHANGED <<db, chunkFile, disk>>

\* ... and renames it to <id><ext>.
CompletePublish(r) ==
  /\ At(r, "publish")
  /\ disk' = [disk EXCEPT ![req[r].fid] = req[r].buf]
  /\ merging' = [merging EXCEPT ![req[r].fid] = FALSE]
  /\ Goto(r, "finishSession")
  /\ UNCHANGED <<db, chunkFile, faults>>

\* Mutant: the update does not ask for the status, so every caller wins.
CompleteFinishSession_NoCAS(r, o) ==
  LET s == req[r].sess
  IN /\ At(r, "finishSession") /\ o \in Outcomes(r)
     /\ status' = IF o # "refused" THEN [status EXCEPT ![s] = "done"] ELSE status
     /\ fileOf' = IF o # "refused" THEN [fileOf EXCEPT ![s] = req[r].fid] ELSE fileOf
     /\ Goto(r, IF o = "ok" THEN "finishFile" ELSE "undoRow")
     /\ Charge(r, o)
     /\ UNCHANGED <<chunkRow, row, madeBy, meta, fs>>

\* Mutant: the loser answers at once and keeps its row and its merged file.
CompleteFinishSession_KeepsLoser(r, o) ==
  LET s == req[r].sess
      won == status[s] = "uploading"
  IN /\ At(r, "finishSession") /\ o \in Outcomes(r)
     /\ status' = IF o # "refused" /\ won THEN [status EXCEPT ![s] = "done"] ELSE status
     /\ fileOf' = IF o # "refused" /\ won THEN [fileOf EXCEPT ![s] = req[r].fid] ELSE fileOf
     /\ Goto(r, IF o # "ok" THEN "undoRow" ELSE IF won THEN "finishFile" ELSE "reread")
     /\ Charge(r, o)
     /\ UNCHANGED <<chunkRow, row, madeBy, meta, fs>>

\* FinishUploadSession: compare-and-set from uploading to done.
CompleteFinishSession(r, o) ==
  LET s == req[r].sess
      won == status[s] = "uploading"
  IN /\ At(r, "finishSession") /\ o \in Outcomes(r)
     /\ status' = IF o # "refused" /\ won THEN [status EXCEPT ![s] = "done"] ELSE status
     /\ fileOf' = IF o # "refused" /\ won THEN [fileOf EXCEPT ![s] = req[r].fid] ELSE fileOf
     /\ CASE o = "ok" /\ won  -> Goto(r, "finishFile")
          [] o = "ok" /\ ~won -> req' = [req EXCEPT ![r].pc = "undoRow",
                                                    ![r].reply = "raced"]
          [] OTHER            -> Goto(r, "undoRow")
     /\ Charge(r, o)
     /\ UNCHANGED <<chunkRow, row, madeBy, meta, fs>>

\* Mutant: an error of FinishFile is ignored.
CompleteFinishFile_IgnoresError(r, o) ==
  LET f == req[r].fid
  IN /\ At(r, "finishFile") /\ o \in Outcomes(r)
     /\ row' = IF o = "refused" THEN row ELSE [row EXCEPT ![f] = "final"]
     /\ meta' = IF o = "refused" THEN meta ELSE [meta EXCEPT ![f] = req[r].buf]
     /\ Goto(r, "cleanDisk")
     /\ Charge(r, o)
     /\ UNCHANGED <<status, fileOf, chunkRow, madeBy, fs>>

\* Mutant: the digest is taken of the chunks instead of the merged bytes.
CompleteFinishFile_HashesChunks(r, o) ==
  LET f == req[r].fid
  IN /\ At(r, "finishFile") /\ o \in Outcomes(r)
     /\ row' = IF o = "refused" THEN row ELSE [row EXCEPT ![f] = "final"]
     /\ meta' = IF o = "refused" THEN meta
                ELSE [meta EXCEPT ![f] = chunkFile[req[r].sess]]
     /\ Goto(r, IF o = "ok" THEN "cleanDisk" ELSE "undoRow")
     /\ Charge(r, o)
     /\ UNCHANGED <<status, fileOf, chunkRow, madeBy, fs>>

\* FinishFile records the final path, and the size and digest of what was merged.
CompleteFinishFile(r, o) ==
  LET f == req[r].fid
  IN /\ At(r, "finishFile") /\ o \in Outcomes(r)
     /\ row' = IF o = "refused" THEN row ELSE [row EXCEPT ![f] = "final"]
     /\ meta' = IF o = "refused" THEN meta ELSE [meta EXCEPT ![f] = req[r].buf]
     /\ Goto(r, IF o = "ok" THEN "cleanDisk" ELSE "undoRow")
     /\ Charge(r, o)
     /\ UNCHANGED <<status, fileOf, chunkRow, madeBy, fs>>

\* The chunks are no longer needed: directory first, then records.
CompleteCleanDisk(r) ==
  /\ At(r, "cleanDisk")
  /\ chunkFile' = [chunkFile EXCEPT ![req[r].sess] = NoBytes]
  /\ Goto(r, "cleanRows")
  /\ UNCHANGED <<db, disk, merging, faults>>

CompleteCleanRows(r, o) ==
  /\ At(r, "cleanRows") /\ o \in Outcomes(r)
  /\ chunkRow' = IF o = "refused" THEN chunkRow
                 ELSE [chunkRow EXCEPT ![req[r].sess] = NoChunkRows]
  /\ Charge(r, o)
  /\ IF req[r].cut THEN Fail(r) ELSE Answer(r, "created", req[r].fid)
  /\ UNCHANGED <<status, fileOf, row, madeBy, meta, fs>>

\* Roll back: the files row (errors ignored), then the merged file.
UndoRow(r, o) ==
  /\ At(r, "undoRow") /\ o \in Outcomes(r)
  /\ row' = IF o = "refused" THEN row ELSE [row EXCEPT ![req[r].fid] = "gone"]
  /\ Goto(r, "undoDisk")
  /\ Charge(r, o)
  /\ UNCHANGED <<status, fileOf, chunkRow, madeBy, meta, fs>>

UndoDisk(r) ==
  /\ At(r, "undoDisk")
  /\ disk' = [disk EXCEPT ![req[r].fid] = NoBytes]
  /\ IF req[r].reply = "raced" THEN Goto(r, "reread") ELSE Fail(r)
  /\ UNCHANGED <<db, chunkFile, merging, faults>>

\* The loser of the compare-and-set answers with the file of the winner.
Reread(r) ==
  /\ At(r, "reread")
  /\ IF req[r].cut \/ status[req[r].sess] = "gone"
     THEN Fail(r)
     ELSE ExistingFile(r, req[r].sess)
  /\ UNCHANGED <<db, fs, faults>>

(***************************************************************************)
(* Cancel.  What to do with the row is decided by the status read first.   *)
(***************************************************************************)
CancelBegin(r, s) ==
  /\ "cancel" \in Ops /\ Idle(r)
  /\ status[s] \in {"uploading", "done", "aborted"}
  /\ req' = [req EXCEPT ![r] = [NoRequest EXCEPT !.pc = "cancelDisk", !.sess = s,
                                                 !.snap = status[s]]]
  /\ UNCHANGED <<db, fs, faults>>

CancelDisk(r) ==
  /\ At(r, "cancelDisk")
  /\ chunkFile' = [chunkFile EXCEPT ![req[r].sess] = NoBytes]
  /\ IF req[r].snap = "uploading" THEN Goto(r, "cancelRow") ELSE Fail(r)
  /\ UNCHANGED <<db, disk, merging, faults>>

\* AbortUploadSession does not ask for the current status.
CancelRow(r, o) ==
  LET s == req[r].sess
      applies == o # "refused" /\ status[s] # "gone"
  IN /\ At(r, "cancelRow") /\ o \in Outcomes(r)
     /\ chunkRow' = IF applies THEN [chunkRow EXCEPT ![s] = NoChunkRows] ELSE chunkRow
     /\ status' = IF applies THEN [status EXCEPT ![s] = "aborted"] ELSE status
     /\ Charge(r, o)
     /\ Fail(r)
     /\ UNCHANGED <<fileOf, row, madeBy, meta, fs>>

(***************************************************************************)
(* The environment: a client goes away, the process dies.                  *)
(***************************************************************************)
Disconnect(r) ==
  /\ "cut" \in Faults /\ ~Idle(r) /\ ~req[r].cut
  /\ req' = [req EXCEPT ![r].cut = TRUE]
  /\ UNCHANGED <<db, fs, faults>>

\* Steps that notice the end of the context and have nothing to undo.
GiveUp(r) ==
  /\ req[r].cut /\ req[r].pc \in {"putDisk", "list", "verify"}
  /\ Fail(r)
  /\ UNCHANGED <<db, fs, faults>>

\* Of a request at work, what is on disk and in the tables stays: a chunk, a row, a
\* merged file, or the .merging file of an interrupted MergeTo.
Crash ==
  /\ "crash" \in Faults /\ faults < MaxFaults
  /\ faults' = faults + 1
  /\ req' = [r \in Request |-> NoRequest]
  /\ UNCHANGED <<db, fs>>

(***************************************************************************)
(* Specification.  Ask is what clients do; Proceed is what the server does *)
(* next for a request it has accepted.                                     *)
(***************************************************************************)
Ask(r) ==
  \E s \in Session :
    \/ \E i \in Idx, b \in Bodies : PutBegin(r, s, i, b)
    \/ CompleteAgain(r, s) \/ CompleteBegin(r, s)
    \/ CancelBegin(r, s)

Outcome == {"ok", "refused", "lost"}

Proceed(r) ==
  \/ PutDisk(r) \/ PutDrop(r)
  \/ CompleteList(r) \/ CompleteExist(r) \/ CompleteVerify(r) \/ CompleteMerge(r)
  \/ CompletePublish(r) \/ CompleteCleanDisk(r) \/ UndoDisk(r) \/ Reread(r)
  \/ CancelDisk(r)
  \/ GiveUp(r)
  \/ \E o \in Outcome :
       \/ PutRow(r, o)
       \/ \E f \in FileId : CompletePlace(r, f, o)
       \/ CompleteFinishSession(r, o) \/ CompleteFinishFile(r, o)
       \/ CompleteCleanRows(r, o) \/ UndoRow(r, o)
       \/ CancelRow(r, o)

Next ==
  \/ \E s \in Session : InitSession(s)
  \/ \E r \in Request : Ask(r) \/ Proceed(r) \/ MergeFails(r) \/ Disconnect(r)
  \/ Crash

Spec == Init /\ [][Next]_vars

\* A goroutine that has been started runs on; clients promise nothing.
FairSpec == Spec /\ \A r \in Request : WF_vars(Proceed(r))

(***************************************************************************)
(* Properties.                                                             *)
(***************************************************************************)

\* However often and however concurrently a session is completed, whatever
\* fails or crashes in between, at most one finished file comes out of it
\* (the compare-and-set of FinishUploadSession, the unique placeholder path).
OneProduct ==
  \A f, g \in FileId :
    row[f] = "final" /\ row[g] = "final" /\ madeBy[f] = madeBy[g] => f = g

\* The size and sha256 recorded for a finished file describe the bytes that are
\* on disk, even when chunks were overwritten while they were being merged.
DigestMatchesBytes ==
  \A f \in FileId : row[f] = "final" /\ disk[f] # NoBytes => meta[f] = disk[f]

\* A finished file has its bytes on disk: no rollback, of whichever request,
\* ever takes the file of a row that was finished.
ProductBacked == \A f \in FileId : row[f] = "final" => disk[f] # NoBytes

\* When no statement fails, no client leaves and nothing crashes, the placeholder
\* rows, the .merging files and the merged bytes without a finished row belong to a
\* request still at work: a merge that fails and a loser of the race clean up after
\* themselves.
NothingLeftBehind ==
  \A f \in FileId :
    row[f] = "pending" \/ merging[f] \/ (disk[f] # NoBytes /\ row[f] # "final")
      => \E r \in Request : req[r].fid = f /\ req[r].pc \in OwnSteps

\* A Complete that reported a new file reported the product of its session, and
\* that file can be read.
CreatedIsReadable ==
  \A r \in Request : req[r].reply = "created" =>
    /\ fileOf[req[r].sess] = req[r].fid
    /\ row[req[r].fid] = "final" /\ disk[req[r].fid] # NoBytes

(***************************************************************************)
(* The refinement mapping to UploadPromise.                                *)
(***************************************************************************)
Whole == [Idx -> Body]

phase ==
  [s \in Session |-> CASE status[s] = "unused"    -> "unused"
                       [] status[s] = "uploading" -> "open"
                       [] status[s] = "done"      -> "decided"
                       [] OTHER                   -> "closed"]

published ==
  [s \in Session |-> IF fileOf[s] # NoFile /\ row[fileOf[s]] = "final"
                     THEN disk[fileOf[s]] ELSE NoBytes]

Promise == INSTANCE UploadPromise WITH product <- fileOf, Nothing <- NoBytes

\* The service implements the promise of UploadPromise, unless the answer of a
\* statement that took effect is lost ("lost" in Faults).
PromiseKept == Promise!Spec

(***************************************************************************)
(* The refinement mapping to UploadContract.  What a client sees of a      *)
(* session is whether it can be resumed, and with which chunks; a session  *)
(* that has got a product stays merged when its row is marked or deleted.  *)
(***************************************************************************)
sessionState ==
  [s \in Session |-> IF fileOf[s] # NoFile THEN "merged"
                     ELSE CASE status[s] = "unused"    -> "unused"
                            [] status[s] = "uploading" -> "open"
                            [] OTHER                   -> "ended"]

sessionChunks ==
  [s \in Session |-> IF sessionState[s] = "open" THEN {i \in Idx : chunkRow[s][i] # "none"} ELSE {}]

Contract == INSTANCE UploadContract
              WITH Chunk <- Idx, state <- sessionState, has <- sessionChunks

\* The service implements UploadContract, whatever fails or is lost: a session is not
\* merged unless every chunk is recorded at that moment, not only when Complete looked
\* (upload.go:262, 338), and no PUT, Cancel or rollback opens it again.
ContractKept == Contract!Spec

\* A Complete that finds every chunk in its place ends with the session done,
\* unless the session is cancelled or merging fails, also when other requests
\* complete the session at the same time.  (With PUTs that are too long there is
\* no such promise: the Complete may meet the placeholder of another one that
\* fails for the chunk such a PUT has removed.)
AssembledIsCompleted ==
  \A r \in Request, s \in Session :
    (At(r, "list") /\ req[r].sess = s /\ AllRecorded(s) /\ AllStored(s))
      ~> (status[s] \in {"done", "aborted"} \/ faults > 0)

(***************************************************************************)
(* What the comments and the design document say, and the code does not do.*)
(***************************************************************************)

\* upload.go:7, design.md: completing again returns the generated file.  No
\* Complete of the owner's is turned away with a conflict, and a file that is
\* returned is finished, can be read, and is the product of that session.
CompleteIsIdempotent ==
  \A r \in Request :
    /\ req[r].reply # "conflict"
    /\ req[r].reply = "existing" =>
         /\ row[req[r].fid] = "final" /\ disk[req[r].fid] # NoBytes
         /\ madeBy[req[r].fid] = req[r].sess

\* upload.go:332: after a merge that failed, the placeholder row is deleted, so
\* that table and disk agree.
FailedMergeIsUndone ==
  \A r \in Request : At(r, "undoDisk") /\ req[r].buf \notin Whole => row[req[r].fid] = "gone"
=============================================================================
