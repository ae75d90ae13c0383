--------------------------- MODULE Upload_proofs ---------------------------
(***************************************************************************)
(* Proofs about Upload, for every set of sessions, requests and file ids,  *)
(* every number of chunks and every combination of faults.                 *)
(***************************************************************************)
EXTENDS Upload, TLAPS

\* A request that is under way has a session, and an index within it.
ReqOK ==
  /\ req \in [Request -> ReqRecord]
  /\ \A r \in Request : ~Idle(r) => req[r].sess \in Session /\ req[r].k \in Idx

TInv == TypeOK /\ ReqOK

USE DEF Idle, At, Goto, Answer, Fail, Charge, db, fs

LEMMA NoRequestType == NoRequest \in ReqRecord /\ 0 \in Idx /\ NoBytes \in Content
  BY ConstantsAssumption
  DEF NoRequest, ReqRecord, Steps, Replies, Content, NoBytes, Idx, Body

\* A request moves to another step.
LEMMA GotoType ==
  ASSUME ReqOK, NEW r \in Request, ~Idle(r), NEW p \in Steps, Goto(r, p)
  PROVE  ReqOK'
  BY DEF ReqOK, ReqRecord

\* A request is replaced as a whole.
LEMMA ReplaceType ==
  ASSUME ReqOK, NEW r \in Request, NEW q \in ReqRecord,
         q.pc = "idle" \/ (q.sess \in Session /\ q.k \in Idx),
         req' = [req EXCEPT ![r] = q]
  PROVE  ReqOK'
  BY DEF ReqOK

LEMMA FailType ==
  ASSUME ReqOK, NEW r \in Request, Fail(r)
  PROVE  ReqOK'
  BY NoRequestType, ReplaceType DEF NoRequest

LEMMA AnswerType ==
  ASSUME ReqOK, NEW r \in Request, ~Idle(r), NEW a \in Replies, NEW f \in FileId \cup {NoFile},
         Answer(r, a, f)
  PROVE  ReqOK'
<1> DEFINE q == IF a = "failed" THEN NoRequest
                ELSE [NoRequest EXCEPT !.sess = req[r].sess, !.fid = f, !.reply = a]
<1>1. q \in ReqRecord
  BY NoRequestType DEF ReqOK, ReqRecord
<1>2. q.pc = "idle"
  BY DEF NoRequest
<1>3. QED
  BY <1>1, <1>2, ReplaceType

LEMMA RacedType ==
  ASSUME NEW q \in ReqRecord
  PROVE  LET p == [q EXCEPT !.pc = "undoRow", !.reply = "raced"]
         IN p \in ReqRecord /\ p.sess = q.sess /\ p.k = q.k
  BY DEF ReqRecord, Steps, OwnSteps, Replies

LEMMA MergingType ==
  ASSUME merging \in [FileId -> BOOLEAN], NEW f, NEW b \in BOOLEAN
  PROVE  [merging EXCEPT ![f] = b] \in [FileId -> BOOLEAN]
  BY Zenon

LEMMA TInvInit == Init => TInv
<1>1. ASSUME Init PROVE ReqOK
  BY <1>1, NoRequestType DEF Init, ReqOK, NoRequest
<1>2. QED
  BY <1>1, ConstantsAssumption DEF Init, TInv, TypeOK, ReqOK, NoChunkRows, NoBytes, Content

\* One step per action: first the requests, then the data the action writes.
LEMMA TInvStep == TInv /\ [Next]_vars => TInv'
<1> SUFFICES ASSUME TInv, [Next]_vars PROVE TInv'
  OBVIOUS
<1> USE ConstantsAssumption, NoRequestType DEF TInv, TypeOK
<1>1. ASSUME NEW s \in Session, InitSession(s) PROVE TInv'
  BY <1>1 DEF InitSession, ReqOK
<1>2. ASSUME NEW r \in Request, NEW s \in Session, NEW i \in Idx, NEW b \in Bodies,
             PutBegin(r, s, i, b) PROVE TInv'
  <2> DEFINE q == [NoRequest EXCEPT !.pc = "putDisk", !.sess = s, !.k = i, !.body = b]
  <2>1. i \in Nat /\ b \in Body /\ "putDisk" \in Steps
    BY DEF Idx, Steps, PutSteps
  <2>2. q \in ReqRecord /\ q.sess \in Session /\ q.k \in Idx
    BY <2>1 DEF NoRequest, ReqRecord
  <2>3. ReqOK'
    BY <1>2, <2>2, ReplaceType DEF PutBegin
  <2>4. QED
    BY <1>2, <2>3 DEF PutBegin, ReqOK
<1>3. ASSUME NEW r \in Request, PutDisk(r) PROVE TInv'
  <2>1. ReqOK'
    BY <1>3, GotoType DEF PutDisk, Steps, PutSteps
  <2>2. chunkFile' \in [Session -> Content]
    <3>1. req[r].sess \in Session /\ req[r].k \in Idx /\ req[r].body \in Body \cup {"none"}
      BY <1>3 DEF PutDisk, ReqOK, ReqRecord
    <3>2. QED
      BY <1>3, <3>1 DEF PutDisk, Content
  <2>3. QED
    BY <1>3, <2>1, <2>2 DEF PutDisk, ReqOK
<1>4. ASSUME NEW r \in Request, PutDrop(r) PROVE TInv'
  <2>1. ReqOK'
    BY <1>4, FailType DEF PutDrop
  <2>2. chunkFile' \in [Session -> Content]
    BY <1>4 DEF PutDrop, ReqOK, Content
  <2>3. QED
    BY <1>4, <2>1, <2>2 DEF PutDrop, ReqOK
<1>5. ASSUME NEW r \in Request, NEW o \in Outcome, PutRow(r, o) PROVE TInv'
  <2>1. ReqOK'
    BY <1>5, FailType DEF PutRow
  <2>2. chunkRow' \in [Session -> [Idx -> {"none", "short", "full", "wide"}]]
    BY <1>5 DEF PutRow, ReqOK, SizeOf
  <2>3. QED
    BY <1>5, <2>1, <2>2 DEF PutRow, ReqOK
<1>6. ASSUME NEW r \in Request, NEW s \in Session, ExistingFile(r, s) PROVE ReqOK'
  <2>1. CASE req' = [req EXCEPT ![r] = NoRequest]
    BY <2>1, ReplaceType DEF NoRequest
  <2>2. CASE \E f \in Found(s) :
               req' = [req EXCEPT ![r] = [NoRequest EXCEPT !.sess = s, !.fid = f,
                                                           !.reply = "existing"]]
    <3>1. PICK f \in Found(s) :
               req' = [req EXCEPT ![r] = [NoRequest EXCEPT !.sess = s, !.fid = f,
                                                           !.reply = "existing"]]
      BY <2>2
    <3> DEFINE q == [NoRequest EXCEPT !.sess = s, !.fid = f, !.reply = "existing"]
    <3>2. q \in ReqRecord /\ q.pc = "idle"
      BY DEF NoRequest, ReqRecord, Found, Replies
    <3>3. QED
      BY <3>1, <3>2, ReplaceType
  <2>3. QED
    BY <1>6, <2>1, <2>2 DEF ExistingFile
<1>7. ASSUME NEW r \in Request, NEW s \in Session, CompleteAgain(r, s) PROVE TInv'
  BY <1>7, <1>6 DEF CompleteAgain, ReqOK
<1>8. ASSUME NEW r \in Request, NEW s \in Session, CompleteBegin(r, s) PROVE TInv'
  <2> DEFINE q == [NoRequest EXCEPT !.pc = "list", !.sess = s]
  <2>1. q \in ReqRecord /\ q.sess \in Session /\ q.k \in Idx
    BY DEF NoRequest, ReqRecord, Steps, LookSteps, Idx, Replies
  <2>2. ReqOK'
    BY <1>8, <2>1, ReplaceType DEF CompleteBegin
  <2>3. QED
    BY <1>8, <2>2 DEF CompleteBegin, ReqOK
<1>9. ASSUME NEW r \in Request, CompleteList(r) PROVE TInv'
  <2>1. ReqOK'
    BY <1>9, FailType, GotoType DEF CompleteList, Steps, LookSteps
  <2>2. QED
    BY <1>9, <2>1 DEF CompleteList, ReqOK
<1>10. ASSUME NEW r \in Request, CompleteExist(r) PROVE TInv'
  <2>1. ReqOK'
    BY <1>10, FailType, GotoType DEF CompleteExist, Steps, LookSteps
  <2>2. QED
    BY <1>10, <2>1 DEF CompleteExist, ReqOK
<1>11. ASSUME NEW r \in Request, CompleteVerify(r) PROVE TInv'
  <2> DEFINE s == req[r].sess
             i == req[r].k
             read == [req[r].buf EXCEPT ![i] = chunkFile[s][i]]
  <2>1. s \in Session /\ i \in Idx /\ read \in Content /\ req[r] \in ReqRecord
    BY <1>11 DEF CompleteVerify, ReqOK, ReqRecord, Content
  <2>2. CASE Fail(r)
    BY <1>11, <2>2, FailType DEF CompleteVerify, ReqOK
  <2>3. CASE i = LastIdx /\ req' = [req EXCEPT ![r] =
               [req[r] EXCEPT !.pc = "place", !.k = 0, !.buf = NoBytes]]
    <3> DEFINE q == [req[r] EXCEPT !.pc = "place", !.k = 0, !.buf = NoBytes]
    <3>1. q \in ReqRecord /\ q.sess \in Session /\ q.k \in Idx
      BY <2>1 DEF ReqRecord, Steps, LookSteps, Idx
    <3>2. QED
      BY <1>11, <2>3, <3>1, ReplaceType DEF CompleteVerify, ReqOK
  <2>4. CASE i # LastIdx /\ req' = [req EXCEPT ![r] =
               [req[r] EXCEPT !.k = i + 1, !.buf = read]]
    <3> DEFINE q == [req[r] EXCEPT !.k = i + 1, !.buf = read]
    <3>1. i + 1 \in Idx /\ i + 1 \in Nat
      BY <2>1, <2>4 DEF Idx
    <3>2. q \in ReqRecord /\ q.sess \in Session /\ q.k \in Idx
      BY <2>1, <3>1 DEF ReqRecord
    <3>3. QED
      BY <1>11, <2>4, <3>2, ReplaceType DEF CompleteVerify, ReqOK
  <2>5. QED
    BY <1>11, <2>2, <2>3, <2>4 DEF CompleteVerify
<1>12. ASSUME NEW r \in Request, NEW f \in FileId, NEW o \in Outcome,
              CompletePlace(r, f, o) PROVE TInv'
  <2>1. ReqOK'
    <3> DEFINE q == [req[r] EXCEPT !.pc = "merge", !.fid = f]
    <3>1. q \in ReqRecord /\ q.sess \in Session /\ q.k \in Idx
      BY <1>12 DEF CompletePlace, ReqOK, ReqRecord, Steps, OwnSteps
    <3>2. CASE req' = [req EXCEPT ![r] = q]
      BY <3>1, <3>2, ReplaceType
    <3>3. CASE Answer(r, "conflict", NoFile)
      BY <1>12, <3>3, AnswerType DEF CompletePlace, Replies
    <3>4. CASE Fail(r)
      BY <3>4, FailType
    <3>5. QED
      BY <1>12, <3>2, <3>3, <3>4 DEF CompletePlace
  <2>2. req[r].sess \in Session
    BY <1>12 DEF CompletePlace, ReqOK
  <2>3. QED
    BY <1>12, <2>1, <2>2 DEF CompletePlace, ReqOK
<1>13. ASSUME NEW r \in Request, CompleteMerge(r) PROVE TInv'
  <2> DEFINE s == req[r].sess
             i == req[r].k
  <2>1. s \in Session /\ i \in Idx /\ req[r] \in ReqRecord /\ chunkFile[s][i] \in Body \cup {"none"}
    BY <1>13 DEF CompleteMerge, ReqOK, ReqRecord, Content
  <2>m. merging' \in [FileId -> BOOLEAN]
    BY <1>13, MergingType DEF CompleteMerge
  <2>2. CASE Goto(r, "undoRow")
    <3>1. ReqOK'
      BY <1>13, <2>2, GotoType DEF CompleteMerge, Steps, OwnSteps
    <3>2. QED
      BY <1>13, <2>m, <3>1 DEF CompleteMerge, ReqOK
  <2>3. CASE chunkFile[s][i] # "none"
    <3> DEFINE q == [req[r] EXCEPT !.pc = IF i = LastIdx THEN "publish" ELSE "merge",
                                   !.k = IF i = LastIdx THEN 0 ELSE i + 1,
                                   !.buf = [req[r].buf EXCEPT ![i] = chunkFile[s][i]]]
    <3>1. q.k \in Idx /\ q.k \in Nat
      BY <2>1 DEF Idx, ReqRecord
    <3>2. q.buf \in Content
      BY <2>1 DEF Content, ReqRecord
    <3>3. q.pc \in Steps
      BY <2>1 DEF Steps, OwnSteps, ReqRecord
    <3>4. q \in ReqRecord /\ q.sess \in Session /\ q.k \in Idx
      BY <2>1, <3>1, <3>2, <3>3 DEF ReqRecord
    <3>5. req' = [req EXCEPT ![r] = q]
      BY <1>13, <2>1, <2>3 DEF CompleteMerge, ReqRecord, ReqOK
    <3>6. QED
      BY <1>13, <2>m, <3>4, <3>5, ReplaceType DEF CompleteMerge, ReqOK
  <2>4. QED
    BY <1>13, <2>2, <2>3 DEF CompleteMerge
<1>14. ASSUME NEW r \in Request, MergeFails(r) PROVE TInv'
  <2>1. ReqOK'
    BY <1>14, GotoType DEF MergeFails, Steps, OwnSteps
  <2>2. merging' \in [FileId -> BOOLEAN]
    BY <1>14, MergingType DEF MergeFails
  <2>3. QED
    BY <1>14, <2>1, <2>2 DEF MergeFails, ReqOK
<1>15. ASSUME NEW r \in Request, CompletePublish(r) PROVE TInv'
  <2>1. ReqOK'
    BY <1>15, GotoType DEF CompletePublish, Steps, OwnSteps
  <2>2. req[r].buf \in Content
    BY DEF ReqOK, ReqRecord
  <2>3. merging' \in [FileId -> BOOLEAN]
    BY <1>15, MergingType DEF CompletePublish
  <2>4. QED
    BY <1>15, <2>1, <2>2, <2>3 DEF CompletePublish, ReqOK
<1>16. ASSUME NEW r \in Request, NEW o \in Outcome, CompleteFinishSession(r, o) PROVE TInv'
  <2>1. ReqOK'
    <3> DEFINE q == [req[r] EXCEPT !.pc = "undoRow", !.reply = "raced"]
    <3>0. req[r] \in ReqRecord /\ req[r].sess \in Session /\ req[r].k \in Idx
      BY <1>16 DEF CompleteFinishSession, ReqOK
    <3>1. q \in ReqRecord /\ q.sess \in Session /\ q.k \in Idx
      BY <3>0, RacedType
    <3>2. CASE req' = [req EXCEPT ![r] = q]
      BY <3>1, <3>2, ReplaceType
    <3>3. CASE Goto(r, "finishFile") \/ Goto(r, "undoRow")
      BY <1>16, <3>3, GotoType DEF CompleteFinishSession, Steps, OwnSteps
    <3>4. QED
      BY <1>16, <3>2, <3>3 DEF CompleteFinishSession
  <2>2. req[r].fid \in FileId \cup {NoFile}
    BY DEF ReqOK, ReqRecord
  <2>3. QED
    BY <1>16, <2>1, <2>2 DEF CompleteFinishSession, ReqOK
<1>17. ASSUME NEW r \in Request, NEW o \in Outcome, CompleteFinishFile(r, o) PROVE TInv'
  <2>1. ReqOK'
    BY <1>17, GotoType DEF CompleteFinishFile, Steps, OwnSteps
  <2>2. req[r].buf \in Content
    BY DEF ReqOK, ReqRecord
  <2>3. row' \in [FileId -> {"free", "pending", "final", "gone"}]
    BY <1>17 DEF CompleteFinishFile
  <2>4. meta' \in [FileId -> Content]
    BY <1>17, <2>2 DEF CompleteFinishFile
  <2>5. faults' \in Nat
    BY <1>17 DEF CompleteFinishFile
  <2>6. QED
    BY <1>17, <2>1, <2>3, <2>4, <2>5 DEF CompleteFinishFile, ReqOK
<1>18. ASSUME NEW r \in Request, CompleteCleanDisk(r) PROVE TInv'
  <2>1. ReqOK'
    BY <1>18, GotoType DEF CompleteCleanDisk, Steps, OwnSteps
  <2>2. QED
    BY <1>18, <2>1 DEF CompleteCleanDisk, ReqOK
<1>19. ASSUME NEW r \in Request, NEW o \in Outcome, CompleteCleanRows(r, o) PROVE TInv'
  <2>1. ReqOK'
    <3>1. req[r].fid \in FileId \cup {NoFile}
      BY DEF ReqOK, ReqRecord
    <3>2. QED
      BY <1>19, <3>1, FailType, AnswerType DEF CompleteCleanRows, Replies
  <2>2. NoChunkRows \in [Idx -> {"none", "short", "full", "wide"}]
    BY DEF NoChunkRows
  <2>3. QED
    BY <1>19, <2>1, <2>2 DEF CompleteCleanRows, ReqOK
<1>20. ASSUME NEW r \in Request, NEW o \in Outcome, UndoRow(r, o) PROVE TInv'
  <2>1. ReqOK'
    BY <1>20, GotoType DEF UndoRow, Steps, OwnSteps
  <2>2. row' \in [FileId -> {"free", "pending", "final", "gone"}]
    BY <1>20 DEF UndoRow
  <2>3. faults' \in Nat
    BY <1>20 DEF UndoRow
  <2>4. QED
    BY <1>20, <2>1, <2>2, <2>3 DEF UndoRow, ReqOK
<1>21. ASSUME NEW r \in Request, UndoDisk(r) PROVE TInv'
  <2>1. ReqOK'
    BY <1>21, GotoType, FailType DEF UndoDisk, Steps
  <2>2. QED
    BY <1>21, <2>1 DEF UndoDisk, ReqOK
<1>22. ASSUME NEW r \in Request, Reread(r) PROVE TInv'
  <2>1. ReqOK'
    <3>1. req[r].sess \in Session
      BY <1>22 DEF Reread, ReqOK
    <3>2. QED
      BY <1>22, <3>1, <1>6, FailType DEF Reread
  <2>2. QED
    BY <1>22, <2>1 DEF Reread, ReqOK
<1>23. ASSUME NEW r \in Request, NEW s \in Session, CancelBegin(r, s) PROVE TInv'
  <2> DEFINE q == [NoRequest EXCEPT !.pc = "cancelDisk", !.sess = s, !.snap = status[s]]
  <2>1. q \in ReqRecord /\ q.sess \in Session /\ q.k \in Idx
    BY <1>23 DEF CancelBegin, NoRequest, ReqRecord, Steps, CancelSteps, Idx, Replies
  <2>2. ReqOK'
    BY <1>23, <2>1, ReplaceType DEF CancelBegin
  <2>3. QED
    BY <1>23, <2>2 DEF CancelBegin, ReqOK
<1>24. ASSUME NEW r \in Request, CancelDisk(r) PROVE TInv'
  <2>1. ReqOK'
    BY <1>24, GotoType, FailType DEF CancelDisk, Steps, CancelSteps
  <2>2. QED
    BY <1>24, <2>1 DEF CancelDisk, ReqOK
<1>25. ASSUME NEW r \in Request, NEW o \in Outcome, CancelRow(r, o) PROVE TInv'
  <2>1. ReqOK'
    BY <1>25, FailType DEF CancelRow
  <2>2. NoChunkRows \in [Idx -> {"none", "short", "full", "wide"}]
    BY DEF NoChunkRows
  <2>3. QED
    BY <1>25, <2>1, <2>2 DEF CancelRow, ReqOK
<1>26. ASSUME NEW r \in Request, Disconnect(r) PROVE TInv'
  <2> DEFINE q == [req[r] EXCEPT !.cut = TRUE]
  <2>1. q \in ReqRecord /\ q.sess \in Session /\ q.k \in Idx
    BY <1>26 DEF Disconnect, ReqOK, ReqRecord
  <2>2. ReqOK'
    BY <1>26, <2>1, ReplaceType DEF Disconnect
  <2>3. QED
    BY <1>26, <2>2 DEF Disconnect, ReqOK
<1>27. ASSUME NEW r \in Request, GiveUp(r) PROVE TInv'
  <2>1. ReqOK'
    BY <1>27, FailType DEF GiveUp
  <2>2. QED
    BY <1>27, <2>1 DEF GiveUp, ReqOK
<1>28. ASSUME Crash PROVE TInv'
  <2>1. NoRequest.pc = "idle"
    BY DEF NoRequest
  <2>2. ReqOK'
    BY <1>28, <2>1 DEF Crash, ReqOK
  <2>3. QED
    BY <1>28, <2>2 DEF Crash, ReqOK
<1>29. CASE UNCHANGED vars
  BY <1>29 DEF vars, ReqOK
<1>30. QED
  BY <1>1, <1>2, <1>3, <1>4, <1>5, <1>7, <1>8, <1>9, <1>10, <1>11, <1>12, <1>13, <1>14,
     <1>15, <1>16, <1>17, <1>18, <1>19, <1>20, <1>21, <1>22, <1>23, <1>24, <1>25,
     <1>26, <1>27, <1>28, <1>29
  DEF Next, Ask, Proceed

\* Every variable keeps its type: no handler ever leaves a session, a row or a
\* request in a state of another kind, whatever fails.
THEOREM TypeCorrect == Spec => []TypeOK
<1>1. TInv => TypeOK
  BY DEF TInv
<1>2. QED
  BY <1>1, TInvInit, TInvStep, PTL DEF Spec

(***************************************************************************)
(* OneProduct is not inductive.  What makes it so: the recorded product of *)
(* a session is a row inserted for that session; a final row is the        *)
(* recorded product of its session; a request that works on a row works on *)
(* one of its own session, and on the recorded product once it has won the *)
(* compare-and-set.                                                        *)
(***************************************************************************)
RecordedIsOwn ==
  \A s \in Session :
    /\ fileOf[s] # NoFile => madeBy[fileOf[s]] = s /\ row[fileOf[s]] # "free"
    /\ status[s] \in {"unused", "uploading"} => fileOf[s] = NoFile

FinalIsRecorded ==
  \A f \in FileId : row[f] = "final" => madeBy[f] \in Session /\ fileOf[madeBy[f]] = f

WorksOn(r) ==
  /\ req[r].fid \in FileId
  /\ madeBy[req[r].fid] = req[r].sess
  /\ row[req[r].fid] # "free"
  /\ At(r, "finishFile") => fileOf[req[r].sess] = req[r].fid

WorkersTied == \A r \in Request : req[r].pc \in OwnSteps => WorksOn(r)

ProductInv == RecordedIsOwn /\ FinalIsRecorded /\ WorkersTied

(***************************************************************************)
(* For the promise of UploadPromise, while no answer of a statement that   *)
(* took effect is lost: rows are worked on by one request at a time, the   *)
(* merged bytes are whole, and no rollback touches a final row.            *)
(***************************************************************************)
OneWorker ==
  \A r, q \in Request :
    r # q /\ req[r].pc \in OwnSteps /\ req[q].pc \in OwnSteps => req[r].fid # req[q].fid

KnowSteps == {"list", "exist", "place", "merge", "publish", "finishSession", "finishFile"}
               \cup CancelSteps

Knows(r) ==
  /\ req[r].pc \in {"list", "exist", "place"} => req[r].k = 0
  /\ At(r, "merge") => \A i \in Idx : i < req[r].k => req[r].buf[i] # "none"
  /\ req[r].pc \in {"publish", "finishSession", "finishFile"} => req[r].buf \in Whole
  /\ req[r].pc \in {"finishSession", "finishFile"} => disk[req[r].fid] = req[r].buf
  /\ req[r].pc \in CancelSteps => status[req[r].sess] # "unused"

AllKnow == \A r \in Request : Knows(r)

UndoSpares ==
  \A r \in Request : req[r].pc \in OwnSteps \ {"cleanDisk", "cleanRows"} =>
    row[req[r].fid] # "final"

FinalIsWhole == \A f \in FileId : row[f] = "final" => disk[f] \in Whole

PromiseInv == OneWorker /\ AllKnow /\ UndoSpares /\ FinalIsWhole

\* The steps that still may roll back.
Working == OwnSteps \ {"cleanDisk", "cleanRows"}

\* Request r moves; it takes up no new row by it.
KeepsRow(r) ==
  /\ \A q \in Request \ {r} : req'[q] = req[q]
  /\ req'[r].pc \in OwnSteps =>
       /\ req[r].pc \in OwnSteps
       /\ req'[r].fid = req[r].fid /\ req'[r].sess = req[r].sess
  /\ req'[r].pc \in Working => req[r].pc \in Working

Moves(r) == KeepsRow(r) /\ (req'[r].pc = "finishFile" => req[r].pc = "finishFile")

LEMMA FailMoves ==
  ASSUME ReqOK, NEW r \in Request, Fail(r) PROVE Moves(r)
  BY DEF Moves, KeepsRow, Working, ReqOK, NoRequest, OwnSteps

LEMMA AnswerMoves ==
  ASSUME ReqOK, NEW r \in Request, NEW a, NEW f, Answer(r, a, f) PROVE Moves(r)
  BY DEF Moves, KeepsRow, Working, ReqOK, NoRequest, OwnSteps

LEMMA GotoMoves ==
  ASSUME ReqOK, NEW r \in Request, NEW p, Goto(r, p),
         p \in OwnSteps => req[r].pc \in OwnSteps,
         p \in Working => req[r].pc \in Working,
         p # "finishFile"
  PROVE  Moves(r)
  BY DEF Moves, KeepsRow, Working, ReqOK, ReqRecord

LEMMA ReplaceMoves ==
  ASSUME ReqOK, NEW r \in Request, NEW q, q.pc \notin OwnSteps, req' = [req EXCEPT ![r] = q]
  PROVE  Moves(r)
<1>1. req'[r] = q /\ \A p \in Request \ {r} : req'[p] = req[p]
  BY DEF ReqOK
<1>2. req'[r].pc \notin OwnSteps
  BY <1>1
<1>3. QED
  BY <1>1, <1>2 DEF Moves, KeepsRow, Working, OwnSteps

LEMMA ExistingMoves ==
  ASSUME ReqOK, NEW r \in Request, NEW s \in Session, ExistingFile(r, s) PROVE Moves(r)
<1>1. NoRequest.pc \notin OwnSteps
  BY DEF NoRequest, OwnSteps
<1>2. ASSUME NEW f,
             req' = [req EXCEPT ![r] = [NoRequest EXCEPT !.sess = s, !.fid = f,
                                                         !.reply = "existing"]]
      PROVE  Moves(r)
  <2> DEFINE q == [NoRequest EXCEPT !.sess = s, !.fid = f, !.reply = "existing"]
  <2>1. q.pc \notin OwnSteps
    BY DEF NoRequest, OwnSteps
  <2>2. QED
    BY <1>2, <2>1, ReplaceMoves
<1>3. QED
  BY <1>1, <1>2, ReplaceMoves DEF ExistingFile

LEMMA AskMoves ==
  ASSUME ReqOK, NEW r \in Request, Ask(r)
  PROVE  Moves(r) /\ UNCHANGED <<db, fs>>
<1>1. ASSUME NEW s \in Session, NEW i \in Idx, NEW b \in Bodies, PutBegin(r, s, i, b)
      PROVE  Moves(r) /\ UNCHANGED <<db, fs>>
  BY <1>1 DEF PutBegin, Moves, KeepsRow, Working, ReqOK, NoRequest, OwnSteps
<1>2. ASSUME NEW s \in Session, CompleteAgain(r, s)
      PROVE  Moves(r) /\ UNCHANGED <<db, fs>>
  BY <1>2, ExistingMoves DEF CompleteAgain
<1>3. ASSUME NEW s \in Session, CompleteBegin(r, s)
      PROVE  Moves(r) /\ UNCHANGED <<db, fs>>
  BY <1>3 DEF CompleteBegin, Moves, KeepsRow, Working, ReqOK, NoRequest, OwnSteps
<1>4. ASSUME NEW s \in Session, CancelBegin(r, s)
      PROVE  Moves(r) /\ UNCHANGED <<db, fs>>
  BY <1>4 DEF CancelBegin, Moves, KeepsRow, Working, ReqOK, NoRequest, OwnSteps
<1>5. QED
  BY <1>1, <1>2, <1>3, <1>4 DEF Ask

\* The steps that write neither status, file_id nor a files row.
Quiet(r) ==
  \/ Ask(r) \/ Disconnect(r) \/ MergeFails(r) \/ GiveUp(r)
  \/ PutDisk(r) \/ PutDrop(r) \/ CancelDisk(r) \/ Reread(r)
  \/ CompleteList(r) \/ CompleteExist(r) \/ CompleteVerify(r) \/ CompleteMerge(r)
  \/ CompletePublish(r) \/ CompleteCleanDisk(r) \/ UndoDisk(r)
  \/ \E o \in Outcome : PutRow(r, o) \/ CompleteCleanRows(r, o)

LEMMA QuietMoves ==
  ASSUME TInv, NEW r \in Request, Quiet(r)
  PROVE  Moves(r) /\ UNCHANGED <<status, fileOf, row, madeBy>>
<1> USE DEF TInv
<1>1. CASE Ask(r)
  BY <1>1, AskMoves
<1>2. CASE Disconnect(r)
  BY <1>2 DEF Disconnect, Moves, KeepsRow, Working, ReqOK, ReqRecord
<1>3. CASE MergeFails(r)
  BY <1>3, GotoMoves DEF MergeFails, OwnSteps, Working
<1>4. CASE GiveUp(r)
  BY <1>4, FailMoves DEF GiveUp
<1>5. CASE PutDisk(r)
  BY <1>5, GotoMoves DEF PutDisk, OwnSteps, Working
<1>6. CASE PutDrop(r)
  BY <1>6, FailMoves DEF PutDrop
<1>7. CASE CancelDisk(r)
  BY <1>7, GotoMoves, FailMoves DEF CancelDisk, OwnSteps, Working
<1>8. CASE Reread(r)
  BY <1>8, FailMoves, ExistingMoves DEF Reread, ReqOK
<1>9. CASE CompleteList(r)
  BY <1>9, GotoMoves, FailMoves DEF CompleteList, OwnSteps, Working
<1>10. CASE CompleteExist(r)
  BY <1>10, GotoMoves, FailMoves DEF CompleteExist, OwnSteps, Working
<1>11. CASE CompleteVerify(r)
  <2>1. CASE Fail(r)
    BY <1>11, <2>1, FailMoves DEF CompleteVerify
  <2> DEFINE i == req[r].k
             read == [req[r].buf EXCEPT ![i] = chunkFile[req[r].sess][i]]
             p == [req[r] EXCEPT !.pc = "place", !.k = 0, !.buf = NoBytes]
             v == [req[r] EXCEPT !.k = i + 1, !.buf = read]
  <2>2. p.pc \notin OwnSteps /\ v.pc \notin OwnSteps
    BY <1>11 DEF CompleteVerify, OwnSteps, ReqOK, ReqRecord
  <2>3. CASE req' = [req EXCEPT ![r] = p]
    BY <1>11, <2>2, <2>3, ReplaceMoves DEF CompleteVerify
  <2>4. CASE req' = [req EXCEPT ![r] = v]
    BY <1>11, <2>2, <2>4, ReplaceMoves DEF CompleteVerify
  <2>5. QED
    BY <1>11, <2>1, <2>3, <2>4 DEF CompleteVerify
<1>12. CASE CompleteMerge(r)
  BY <1>12 DEF CompleteMerge, Moves, KeepsRow, Working, ReqOK, ReqRecord, OwnSteps
<1>13. CASE CompletePublish(r)
  BY <1>13, GotoMoves DEF CompletePublish, OwnSteps, Working
<1>14. CASE CompleteCleanDisk(r)
  BY <1>14, GotoMoves DEF CompleteCleanDisk, OwnSteps, Working
<1>15. CASE UndoDisk(r)
  BY <1>15, GotoMoves, FailMoves DEF UndoDisk, OwnSteps, Working
<1>16. ASSUME NEW o \in Outcome, PutRow(r, o)
       PROVE  Moves(r) /\ UNCHANGED <<status, fileOf, row, madeBy>>
  BY <1>16, FailMoves DEF PutRow
<1>17. ASSUME NEW o \in Outcome, CompleteCleanRows(r, o)
       PROVE  Moves(r) /\ UNCHANGED <<status, fileOf, row, madeBy>>
  BY <1>17, FailMoves, AnswerMoves DEF CompleteCleanRows
<1>18. QED
  BY <1>1, <1>2, <1>3, <1>4, <1>5, <1>6, <1>7, <1>8, <1>9, <1>10, <1>11, <1>12,
     <1>13, <1>14, <1>15, <1>16, <1>17 DEF Quiet

LEMMA QuietKeepsProduct ==
  ASSUME ProductInv, NEW r \in Request, Moves(r), UNCHANGED <<status, fileOf, row, madeBy>>
  PROVE  ProductInv'
<1>1. RecordedIsOwn' /\ FinalIsRecorded'
  BY DEF ProductInv, RecordedIsOwn, FinalIsRecorded
<1>2. WorkersTied'
  BY DEF ProductInv, WorkersTied, WorksOn, Moves, KeepsRow
<1>3. QED
  BY <1>1, <1>2 DEF ProductInv

LEMMA ProductInvInit == Init => ProductInv
  BY DEF Init, ProductInv, RecordedIsOwn, FinalIsRecorded, WorkersTied, NoRequest, OwnSteps

LEMMA ProductInvStep == TInv /\ ProductInv /\ [Next]_vars => ProductInv'
<1> SUFFICES ASSUME TInv, ProductInv, [Next]_vars PROVE ProductInv'
  OBVIOUS
<1> USE ConstantsAssumption DEF TInv
<1>1. ASSUME NEW s \in Session, InitSession(s) PROVE ProductInv'
  BY <1>1 DEF InitSession, TypeOK, ProductInv, RecordedIsOwn, FinalIsRecorded, WorkersTied, WorksOn
<1>2. ASSUME NEW r \in Request, Quiet(r) PROVE ProductInv'
  BY <1>2, QuietMoves, QuietKeepsProduct
<1>3. ASSUME NEW r \in Request, NEW f \in FileId, NEW o \in Outcome,
             CompletePlace(r, f, o) PROVE ProductInv'
  <2> DEFINE s == req[r].sess
  <2>1. s \in Session /\ req[r] \in ReqRecord
    BY <1>3 DEF CompletePlace, ReqOK
  <2>2. RecordedIsOwn'
    BY <1>3, <2>1 DEF CompletePlace, ProductInv, RecordedIsOwn, TypeOK
  <2>3. FinalIsRecorded'
    BY <1>3, <2>1 DEF CompletePlace, ProductInv, FinalIsRecorded, TypeOK
  <2>4. \A q \in Request \ {r} : req'[q] = req[q]
    BY <1>3 DEF CompletePlace, ReqOK
  <2>5. req'[r].pc \in OwnSteps =>
          /\ req'[r].pc = "merge" /\ req'[r].fid = f /\ req'[r].sess = s
          /\ row'[f] = "pending" /\ madeBy'[f] = s
    <3>1. CASE Fail(r) \/ Answer(r, "conflict", NoFile)
      <4>1. req'[r].pc = "idle"
        <5>1. NoRequest.pc = "idle"
              /\ [NoRequest EXCEPT !.sess = s, !.fid = NoFile, !.reply = "conflict"].pc = "idle"
          BY DEF NoRequest
        <5>2. QED
          BY <3>1, <5>1 DEF ReqOK
      <4>2. QED
        BY <4>1 DEF OwnSteps
    <3>2. CASE ~(Fail(r) \/ Answer(r, "conflict", NoFile))
      <4>1. req' = [req EXCEPT ![r].pc = "merge", ![r].fid = f]
            /\ o # "refused" /\ ~PlaceTaken(s)
        BY <1>3, <3>2 DEF CompletePlace
      <4>2. row'[f] = "pending" /\ madeBy'[f] = s
        BY <1>3, <4>1 DEF CompletePlace, TypeOK
      <4>3. QED
        BY <2>1, <4>1, <4>2 DEF ReqOK, ReqRecord
    <3>3. QED
      BY <3>1, <3>2
  <2>6. ASSUME NEW q \in Request, req'[q].pc \in OwnSteps PROVE WorksOn(q)'
    <3>1. CASE q = r
      BY <2>5, <2>6, <3>1 DEF WorksOn
    <3>2. CASE q # r
      <4>1. req'[q] = req[q] /\ WorksOn(q)
        BY <2>4, <2>6, <3>2 DEF ProductInv, WorkersTied
      <4>2. row[req[q].fid] = row'[req[q].fid] /\ madeBy[req[q].fid] = madeBy'[req[q].fid]
        BY <1>3, <4>1 DEF CompletePlace, WorksOn, TypeOK
      <4>3. fileOf' = fileOf
        BY <1>3 DEF CompletePlace
      <4>4. QED
        BY <4>1, <4>2, <4>3 DEF WorksOn
    <3>3. QED
      BY <3>1, <3>2
  <2>7. QED
    BY <2>2, <2>3, <2>6 DEF ProductInv, WorkersTied
<1>4. ASSUME NEW r \in Request, NEW o \in Outcome, CompleteFinishSession(r, o) PROVE ProductInv'
  <2> DEFINE s == req[r].sess
             f == req[r].fid
  <2>1. s \in Session /\ req[r] \in ReqRecord /\ WorksOn(r)
    BY <1>4 DEF CompleteFinishSession, ReqOK, ProductInv, WorkersTied, OwnSteps
  <2>2. row' = row /\ madeBy' = madeBy
    BY <1>4 DEF CompleteFinishSession
  <2>3. \/ UNCHANGED <<status, fileOf>>
        \/ /\ status[s] = "uploading" /\ fileOf[s] = NoFile
           /\ status' = [status EXCEPT ![s] = "done"]
           /\ fileOf' = [fileOf EXCEPT ![s] = f]
    BY <1>4, <2>1 DEF CompleteFinishSession, ProductInv, RecordedIsOwn
  <2>4. RecordedIsOwn'
    BY <2>1, <2>2, <2>3 DEF ProductInv, RecordedIsOwn, WorksOn, TypeOK
  <2>5. FinalIsRecorded'
    BY <2>1, <2>2, <2>3 DEF ProductInv, FinalIsRecorded, WorksOn, TypeOK
  <2>6. /\ \A q \in Request \ {r} : req'[q] = req[q]
        /\ req'[r].fid = f /\ req'[r].sess = s
        /\ req'[r].pc = "finishFile" => fileOf'[s] = f
    BY <1>4, <2>1 DEF CompleteFinishSession, ReqOK, ReqRecord, TypeOK
  <2>7. ASSUME NEW q \in Request, req'[q].pc \in OwnSteps PROVE WorksOn(q)'
    <3>1. CASE q = r
      BY <2>1, <2>2, <2>6, <3>1 DEF WorksOn
    <3>2. CASE q # r
      <4>1. req'[q] = req[q] /\ WorksOn(q)
        BY <2>6, <2>7, <3>2 DEF ProductInv, WorkersTied
      <4>2. At(q, "finishFile") => fileOf'[req[q].sess] = fileOf[req[q].sess]
        BY <2>1, <2>3, <4>1, ConstantsAssumption DEF WorksOn, TypeOK, ReqOK
      <4>3. QED
        BY <2>2, <4>1, <4>2 DEF WorksOn
    <3>3. QED
      BY <3>1, <3>2
  <2>8. QED
    BY <2>4, <2>5, <2>7 DEF ProductInv, WorkersTied
<1>5. ASSUME NEW r \in Request, NEW o \in Outcome, CompleteFinishFile(r, o) PROVE ProductInv'
  <2> DEFINE s == req[r].sess
             f == req[r].fid
  <2>1. s \in Session /\ req[r] \in ReqRecord /\ WorksOn(r) /\ fileOf[s] = f
    BY <1>5 DEF CompleteFinishFile, ReqOK, ProductInv, WorkersTied, WorksOn, OwnSteps
  <2>2. UNCHANGED <<status, fileOf, madeBy>>
    BY <1>5 DEF CompleteFinishFile
  <2>3. row' = row \/ row' = [row EXCEPT ![f] = "final"]
    BY <1>5 DEF CompleteFinishFile
  <2>4. RecordedIsOwn' /\ FinalIsRecorded'
    BY <2>1, <2>2, <2>3 DEF ProductInv, RecordedIsOwn, FinalIsRecorded, WorksOn, TypeOK
  <2>5. Moves(r)
    <3>1. Goto(r, "cleanDisk") \/ Goto(r, "undoRow")
      BY <1>5 DEF CompleteFinishFile
    <3>2. req[r].pc \in Working
      BY <1>5 DEF CompleteFinishFile, OwnSteps, Working
    <3>3. QED
      BY <3>1, <3>2, GotoMoves DEF OwnSteps, Working
  <2>6. WorkersTied'
    BY <2>1, <2>2, <2>3, <2>5 DEF ProductInv, WorkersTied, WorksOn, Moves, KeepsRow, TypeOK
  <2>7. QED
    BY <2>4, <2>6 DEF ProductInv
<1>6. ASSUME NEW r \in Request, NEW o \in Outcome, UndoRow(r, o) PROVE ProductInv'
  <2> DEFINE f == req[r].fid
  <2>1. UNCHANGED <<status, fileOf, madeBy>> /\ (row' = row \/ row' = [row EXCEPT ![f] = "gone"])
    BY <1>6 DEF UndoRow
  <2>2. Moves(r)
    BY <1>6, GotoMoves DEF UndoRow, OwnSteps, Working
  <2>3. RecordedIsOwn' /\ FinalIsRecorded'
    BY <2>1 DEF ProductInv, RecordedIsOwn, FinalIsRecorded, TypeOK
  <2>4. WorkersTied'
    BY <2>1, <2>2 DEF ProductInv, WorkersTied, WorksOn, Moves, KeepsRow, TypeOK
  <2>5. QED
    BY <2>3, <2>4 DEF ProductInv
<1>7. ASSUME NEW r \in Request, NEW o \in Outcome, CancelRow(r, o) PROVE ProductInv'
  <2>1. UNCHANGED <<fileOf, row, madeBy>> /\ Moves(r)
    BY <1>7, FailMoves DEF CancelRow
  <2>2. \A s \in Session : status'[s] \in {"unused", "uploading"} => status'[s] = status[s]
    BY <1>7 DEF CancelRow, TypeOK
  <2>3. RecordedIsOwn' /\ FinalIsRecorded'
    BY <2>1, <2>2 DEF ProductInv, RecordedIsOwn, FinalIsRecorded
  <2>4. WorkersTied'
    BY <2>1 DEF ProductInv, WorkersTied, WorksOn, Moves, KeepsRow
  <2>5. QED
    BY <2>3, <2>4 DEF ProductInv
<1>8. ASSUME Crash PROVE ProductInv'
  <2>1. UNCHANGED <<status, fileOf, row, madeBy>> /\ \A q \in Request : req'[q].pc \notin OwnSteps
    BY <1>8 DEF Crash, NoRequest, OwnSteps
  <2>2. QED
    BY <2>1 DEF ProductInv, RecordedIsOwn, FinalIsRecorded, WorkersTied
<1>9. CASE UNCHANGED vars
  BY <1>9 DEF vars, ProductInv, RecordedIsOwn, FinalIsRecorded, WorkersTied, WorksOn
<1>10. QED
  BY <1>1, <1>2, <1>3, <1>4, <1>5, <1>6, <1>7, <1>8, <1>9 DEF Next, Proceed, Quiet

\* At most one finished file comes out of a session: the compare-and-set of
\* FinishUploadSession is won once, and only the winner's row becomes final.
THEOREM OneProductHolds == Spec => []OneProduct
<1>1. TInv /\ ProductInv => OneProduct
  BY DEF ProductInv, FinalIsRecorded, OneProduct
<1>2. QED
  BY <1>1, TInvInit, TInvStep, ProductInvInit, ProductInvStep, PTL DEF Spec

(***************************************************************************)
(* The refinement.                                                         *)
(***************************************************************************)
LEMMA PromiseInvInit == Init => PromiseInv
  BY DEF Init, PromiseInv, OneWorker, AllKnow, Knows, UndoSpares, FinalIsWhole, NoRequest, OwnSteps,
     CancelSteps

\* A Next step other than the ones that are handled one by one.
LEMMA FinishMoves ==
  ASSUME TInv, NEW r \in Request, NEW o \in Outcome,
         CompleteFinishFile(r, o) \/ UndoRow(r, o) \/ CancelRow(r, o)
  PROVE  Moves(r)
<1> USE DEF TInv
<1>1. CASE CompleteFinishFile(r, o)
  <2>1. Goto(r, "cleanDisk") \/ Goto(r, "undoRow")
    BY <1>1 DEF CompleteFinishFile
  <2>2. req[r].pc \in Working
    BY <1>1 DEF CompleteFinishFile, OwnSteps, Working
  <2>3. QED
    BY <2>1, <2>2, GotoMoves DEF OwnSteps, Working
<1>2. CASE UndoRow(r, o)
  BY <1>2, GotoMoves DEF UndoRow, OwnSteps, Working
<1>3. CASE CancelRow(r, o)
  BY <1>3, FailMoves DEF CancelRow
<1>4. QED
  BY <1>1, <1>2, <1>3

LEMMA FinishSessionKeeps ==
  ASSUME TInv, NEW r \in Request, NEW o \in Outcome, CompleteFinishSession(r, o)
  PROVE  KeepsRow(r) /\ UNCHANGED <<row, disk>>
<1>1. /\ \A q \in Request \ {r} : req'[q] = req[q]
      /\ req'[r].fid = req[r].fid /\ req'[r].sess = req[r].sess
  BY DEF CompleteFinishSession, TInv, ReqOK, ReqRecord
<1>2. req[r].pc \in OwnSteps /\ req[r].pc \in Working
  BY DEF CompleteFinishSession, OwnSteps, Working
<1>3. QED
  BY <1>1, <1>2 DEF KeepsRow, CompleteFinishSession

\* What CompletePlace does to the requests.
LEMMA PlaceTakes ==
  ASSUME TInv, NEW r \in Request, NEW f \in FileId, NEW o \in Outcome, CompletePlace(r, f, o)
  PROVE  /\ \A q \in Request \ {r} : req'[q] = req[q]
         /\ disk' = disk
         /\ \A g \in FileId : row'[g] # row[g] => g = f /\ row'[g] = "pending"
         /\ row[f] = "free"
         /\ \/ req'[r].pc = "idle"
            \/ /\ req'[r].pc = "merge" /\ req'[r].fid = f /\ row'[f] = "pending"
               /\ req'[r].k = req[r].k /\ req'[r].buf = req[r].buf
<1> USE DEF TInv
<1>1. CASE Fail(r) \/ Answer(r, "conflict", NoFile)
  <2>1. NoRequest.pc = "idle"
        /\ [NoRequest EXCEPT !.sess = req[r].sess, !.fid = NoFile, !.reply = "conflict"].pc = "idle"
    BY DEF NoRequest
  <2>2. req'[r].pc = "idle"
    BY <1>1, <2>1 DEF ReqOK
  <2>3. QED
    BY <1>1, <2>2 DEF CompletePlace, ReqOK, TypeOK
<1>2. CASE ~(Fail(r) \/ Answer(r, "conflict", NoFile))
  <2>1. req' = [req EXCEPT ![r].pc = "merge", ![r].fid = f] /\ row' = [row EXCEPT ![f] = "pending"]
    BY <1>2 DEF CompletePlace
  <2>2. QED
    BY <2>1 DEF CompletePlace, ReqOK, ReqRecord, TypeOK
<1>3. QED
  BY <1>1, <1>2

LEMMA OneWorkerStep == TInv /\ ProductInv /\ OneWorker /\ [Next]_vars => OneWorker'
<1> SUFFICES ASSUME TInv, ProductInv, OneWorker, [Next]_vars PROVE OneWorker'
  OBVIOUS
<1>1. ASSUME NEW r \in Request, KeepsRow(r) PROVE OneWorker'
  BY <1>1 DEF OneWorker, KeepsRow
<1>2. ASSUME NEW r \in Request, NEW f \in FileId, NEW o \in Outcome,
             CompletePlace(r, f, o) PROVE OneWorker'
  <2>1. \A q \in Request : req[q].pc \in OwnSteps => req[q].fid # f
    BY <1>2, PlaceTakes DEF ProductInv, WorkersTied, WorksOn
  <2>2. req'[r].pc \in OwnSteps => req'[r].fid = f
    BY <1>2, PlaceTakes DEF OwnSteps
  <2>3. QED
    BY <1>2, <2>1, <2>2, PlaceTakes DEF OneWorker
<1>3. CASE Crash
  BY <1>3 DEF Crash, OneWorker, NoRequest, OwnSteps
<1>4. CASE req' = req
  BY <1>4 DEF OneWorker
<1>5. QED
  BY <1>1, <1>2, <1>3, <1>4, QuietMoves, FinishMoves, FinishSessionKeeps
  DEF Next, Proceed, Quiet, Moves, InitSession, vars

\* A statement of which nothing is lost takes effect exactly when it says so.
LEMMA NothingLost ==
  ASSUME "lost" \notin Faults, NEW r, NEW o \in Outcomes(r)
  PROVE  o \in {"ok", "refused"}
  BY DEF Outcomes

LEMMA UndoSparesStep ==
  "lost" \notin Faults /\ TInv /\ ProductInv /\ OneWorker /\ UndoSpares /\ [Next]_vars
    => UndoSpares'
<1> SUFFICES ASSUME "lost" \notin Faults, TInv, ProductInv, OneWorker, UndoSpares, [Next]_vars
             PROVE  UndoSpares'
  OBVIOUS
<1> USE DEF TInv
<1>0. \A q \in Request : req[q].pc \in OwnSteps => req[q].fid \in FileId
  BY DEF ProductInv, WorkersTied, WorksOn
<1>1. ASSUME NEW r \in Request, KeepsRow(r), row' = row PROVE UndoSpares'
  BY <1>1 DEF UndoSpares, KeepsRow, Working, OwnSteps
<1>2. ASSUME NEW r \in Request, NEW f \in FileId, NEW o \in Outcome,
             CompletePlace(r, f, o) PROVE UndoSpares'
  <2>1. \A q \in Request \ {r} : req'[q] = req[q]
    BY <1>2, PlaceTakes
  <2>2. \A g \in FileId : row'[g] = "final" => row[g] = "final"
    BY <1>2, PlaceTakes
  <2>3. req'[r].pc \in OwnSteps => row'[req'[r].fid] = "pending"
    BY <1>2, PlaceTakes DEF OwnSteps
  <2>4. QED
    BY <1>0, <2>1, <2>2, <2>3 DEF UndoSpares
<1>3. ASSUME NEW r \in Request, NEW o \in Outcome, CompleteFinishFile(r, o) PROVE UndoSpares'
  <2>1. Moves(r)
    BY <1>3, FinishMoves
  <2>2. CASE o = "refused"
    BY <1>1, <1>3, <2>1, <2>2 DEF CompleteFinishFile, Moves
  <2>3. CASE o = "ok"
    <3>1. req'[r].pc = "cleanDisk" /\ req[r].pc \in OwnSteps
      BY <1>3, <2>3 DEF CompleteFinishFile, ReqOK, ReqRecord, OwnSteps
    <3>2. \A q \in Request \ {r} : req'[q] = req[q] /\
            (req[q].pc \in OwnSteps => row'[req[q].fid] = row[req[q].fid])
      BY <1>0, <1>3, <2>1, <3>1 DEF CompleteFinishFile, Moves, KeepsRow, OneWorker, TypeOK
    <3>3. QED
      BY <3>1, <3>2 DEF UndoSpares
  <2>4. QED
    BY <1>3, <2>2, <2>3, NothingLost DEF CompleteFinishFile
<1>4. ASSUME NEW r \in Request, NEW o \in Outcome, UndoRow(r, o) PROVE UndoSpares'
  <2>1. Moves(r)
    BY <1>4, FinishMoves
  <2>2. \A g \in FileId : row'[g] = "final" => row[g] = "final"
    BY <1>4 DEF UndoRow, TypeOK
  <2>3. QED
    BY <1>0, <2>1, <2>2 DEF UndoSpares, Moves, KeepsRow, Working, OwnSteps
<1>5. ASSUME NEW r \in Request, NEW o \in Outcome, CancelRow(r, o) PROVE UndoSpares'
  BY <1>1, <1>5, FinishMoves DEF CancelRow, Moves
<1>6. CASE Crash
  BY <1>6 DEF Crash, UndoSpares, NoRequest, OwnSteps
<1>7. CASE UNCHANGED <<req, row>>
  BY <1>7 DEF UndoSpares
<1>8. QED
  BY <1>1, <1>2, <1>3, <1>4, <1>5, <1>6, <1>7, QuietMoves, FinishSessionKeeps
  DEF Next, Proceed, Quiet, Moves, InitSession, vars

\* Requests outside the steps of a merge have nothing to show.
LEMMA KnowsNothing ==
  ASSUME NEW r \in Request, req'[r].pc \notin KnowSteps
  PROVE  Knows(r)'
  BY DEF Knows, KnowSteps, CancelSteps

LEMMA FailKnows ==
  ASSUME ReqOK, NEW r \in Request, NEW a, NEW f, Answer(r, a, f)
  PROVE  Knows(r)'
<1>1. req'[r].pc = "idle"
  BY DEF ReqOK, NoRequest
<1>2. QED
  BY <1>1, KnowsNothing DEF KnowSteps, CancelSteps

LEMMA GotoKnows ==
  ASSUME ReqOK, NEW r \in Request, NEW p, Goto(r, p), p \notin KnowSteps
  PROVE  Knows(r)'
<1>1. req'[r].pc = p
  BY DEF ReqOK, ReqRecord
<1>2. QED
  BY <1>1, KnowsNothing

LEMMA ExistingKnows ==
  ASSUME ReqOK, NEW r \in Request, NEW s \in Session, ExistingFile(r, s)
  PROVE  Knows(r)'
<1>1. NoRequest.pc = "idle"
      /\ \A f : [NoRequest EXCEPT !.sess = s, !.fid = f, !.reply = "existing"].pc = "idle"
  BY DEF NoRequest
<1>2. req'[r].pc = "idle"
  BY <1>1 DEF ExistingFile, ReqOK
<1>3. QED
  BY <1>2, KnowsNothing DEF KnowSteps, CancelSteps

LEMMA QuietKnows ==
  ASSUME TInv, NEW r \in Request, Quiet(r), Knows(r), req[r].pc \in OwnSteps => req[r].fid \in FileId
  PROVE  Knows(r)'
<1> USE DEF TInv
<1>1. CASE Ask(r)
  <2>1. ASSUME NEW s \in Session, NEW i \in Idx, NEW b \in Bodies, PutBegin(r, s, i, b)
        PROVE  req'[r].pc = "putDisk"
    BY <2>1 DEF PutBegin, ReqOK, NoRequest
  <2>2. ASSUME NEW s \in Session, CompleteBegin(r, s)
        PROVE  req'[r].pc = "list" /\ req'[r].k = 0
    BY <2>2 DEF CompleteBegin, ReqOK, NoRequest
  <2>3. ASSUME NEW s \in Session, CancelBegin(r, s)
        PROVE  req'[r].pc = "cancelDisk" /\ req'[r].sess = s /\ status'[s] # "unused"
    BY <2>3 DEF CancelBegin, ReqOK, NoRequest
  <2>4. QED
    BY <1>1, <2>1, <2>2, <2>3, KnowsNothing, ExistingKnows
    DEF Ask, CompleteAgain, Knows, KnowSteps, CancelSteps
<1>2. CASE Disconnect(r)
  <2>1. /\ req'[r].pc = req[r].pc /\ req'[r].k = req[r].k
        /\ req'[r].buf = req[r].buf /\ req'[r].fid = req[r].fid
        /\ req'[r].sess = req[r].sess
    BY <1>2 DEF Disconnect, ReqOK, ReqRecord
  <2>2. QED
    BY <1>2, <2>1 DEF Disconnect, Knows
<1>3. CASE MergeFails(r)
  BY <1>3, GotoKnows DEF MergeFails, KnowSteps, CancelSteps
<1>4. CASE GiveUp(r)
  BY <1>4, FailKnows DEF GiveUp
<1>5. CASE PutDisk(r)
  BY <1>5, GotoKnows DEF PutDisk, KnowSteps, CancelSteps
<1>6. CASE PutDrop(r)
  BY <1>6, FailKnows DEF PutDrop
<1>7. CASE CancelDisk(r)
  <2>1. \/ Fail(r)
        \/ /\ req'[r].pc = "cancelRow" /\ req'[r].sess = req[r].sess
           /\ req[r].pc = "cancelDisk" /\ status' = status
    BY <1>7 DEF CancelDisk, ReqOK, ReqRecord
  <2>2. QED
    BY <2>1, FailKnows DEF Knows, CancelSteps
<1>8. CASE Reread(r)
  BY <1>8, FailKnows, ExistingKnows DEF Reread, ReqOK
<1>9. CASE CompleteList(r)
  <2>1. Fail(r) \/ (req'[r].pc = "exist" /\ req'[r].k = req[r].k /\ req[r].pc = "list")
    BY <1>9 DEF CompleteList, ReqOK, ReqRecord
  <2>2. QED
    BY <2>1, FailKnows DEF Knows, CancelSteps
<1>10. CASE CompleteExist(r)
  <2>1. \/ Fail(r)
        \/ req'[r].pc = "verify"
        \/ req'[r].pc = "place" /\ req'[r].k = req[r].k /\ req[r].pc = "exist"
    BY <1>10 DEF CompleteExist, ReqOK, ReqRecord
  <2>2. QED
    BY <2>1, FailKnows DEF Knows, CancelSteps
<1>11. CASE CompleteVerify(r)
  <2>1. \/ Fail(r)
        \/ req'[r].pc = "verify"
        \/ req'[r].pc = "place" /\ req'[r].k = 0
    BY <1>11 DEF CompleteVerify, ReqOK, ReqRecord
  <2>2. QED
    BY <2>1, FailKnows DEF Knows, CancelSteps
<1>12. CASE CompleteMerge(r)
  <2> DEFINE s == req[r].sess
             i == req[r].k
  <2>1. CASE Goto(r, "undoRow")
    BY <2>1, GotoKnows DEF KnowSteps, CancelSteps
  <2>2. CASE chunkFile[s][i] # "none"
    <3>1. /\ s \in Session /\ i \in Idx /\ req[r].buf \in Content
          /\ chunkFile[s][i] \in Body
      BY <1>12, <2>2 DEF CompleteMerge, ReqOK, ReqRecord, Content, TypeOK
    <3>2. /\ req'[r].pc = IF i = LastIdx THEN "publish" ELSE "merge"
          /\ req'[r].k = IF i = LastIdx THEN 0 ELSE i + 1
          /\ req'[r].buf = [req[r].buf EXCEPT ![i] = chunkFile[s][i]]
      BY <1>12, <2>2 DEF CompleteMerge, ReqOK, ReqRecord
    <3>3. \A j \in Idx : j < i => req[r].buf[j] # "none"
      BY <1>12 DEF CompleteMerge, Knows
    <3>4. CASE i = LastIdx
      <4>1. \A j \in Idx : req'[r].buf[j] \in Body
        <5>1. \A j \in Idx : j # i => j < i
          BY <3>4, ConstantsAssumption DEF Idx
        <5>2. \A j \in Idx : req[r].buf[j] \in Body \cup {"none"}
          BY <3>1 DEF Content
        <5>3. QED
          BY <3>1, <3>2, <3>3, <5>1, <5>2 DEF Content
      <4>2. req'[r].buf \in Whole
        BY <3>1, <3>2, <4>1 DEF Whole, Content
      <4>3. QED
        BY <3>2, <3>4, <4>2 DEF Knows, CancelSteps
    <3>5. CASE i # LastIdx
      <4>1. \A j \in Idx : j < i + 1 => j < i \/ j = i
        BY <3>1, ConstantsAssumption DEF Idx
      <4>2. \A j \in Idx : j < i + 1 => req'[r].buf[j] # "none"
        BY <2>2, <3>1, <3>2, <3>3, <4>1 DEF Content
      <4>3. QED
        BY <3>2, <3>5, <4>2 DEF Knows, CancelSteps
    <3>6. QED
      BY <3>4, <3>5
  <2>3. QED
    BY <1>12, <2>1, <2>2 DEF CompleteMerge
<1>13. CASE CompletePublish(r)
  <2>1. req[r].fid \in FileId /\ req[r].buf \in Whole
    BY <1>13 DEF CompletePublish, OwnSteps, Knows
  <2>2. /\ req'[r].pc = "finishSession" /\ req'[r].buf = req[r].buf
        /\ req'[r].fid = req[r].fid /\ disk'[req[r].fid] = req[r].buf
    BY <1>13, <2>1 DEF CompletePublish, ReqOK, ReqRecord, TypeOK
  <2>3. QED
    BY <2>1, <2>2 DEF Knows, CancelSteps
<1>14. CASE CompleteCleanDisk(r)
  BY <1>14, GotoKnows DEF CompleteCleanDisk, KnowSteps, CancelSteps
<1>15. CASE UndoDisk(r)
  BY <1>15, GotoKnows, FailKnows DEF UndoDisk, KnowSteps, CancelSteps
<1>16. ASSUME NEW o \in Outcome, PutRow(r, o) PROVE Knows(r)'
  BY <1>16, FailKnows DEF PutRow
<1>17. ASSUME NEW o \in Outcome, CompleteCleanRows(r, o) PROVE Knows(r)'
  BY <1>17, FailKnows DEF CompleteCleanRows
<1>18. QED
  BY <1>1, <1>2, <1>3, <1>4, <1>5, <1>6, <1>7, <1>8, <1>9, <1>10, <1>11, <1>12,
     <1>13, <1>14, <1>15, <1>16, <1>17 DEF Quiet

\* Only a request that may still roll back writes to the data directory, and
\* only to the file of the row it works on.
LEMMA DiskByWorker ==
  ASSUME TInv, NEW r \in Request, Quiet(r)
  PROVE  \/ disk' = disk
         \/ /\ req[r].pc \in Working /\ meta' = meta
            /\ \A f \in FileId : f # req[r].fid => disk'[f] = disk[f]
<1>1. CASE CompletePublish(r)
  BY <1>1 DEF CompletePublish, TInv, TypeOK, Working, OwnSteps
<1>2. CASE UndoDisk(r)
  BY <1>2 DEF UndoDisk, TInv, TypeOK, Working, OwnSteps
<1>3. CASE Ask(r)
  BY <1>3, AskMoves DEF TInv
<1>4. CASE ~(CompletePublish(r) \/ UndoDisk(r) \/ Ask(r))
  BY <1>4 DEF Quiet, Disconnect, MergeFails, GiveUp, PutDisk, PutDrop, CancelDisk,
     Reread, CompleteList, CompleteExist, CompleteVerify, CompleteMerge,
     CompleteCleanDisk, PutRow, CompleteCleanRows
<1>5. QED
  BY <1>1, <1>2, <1>3, <1>4

LEMMA KnowsStep ==
  TInv /\ ProductInv /\ OneWorker /\ AllKnow /\ [Next]_vars => AllKnow'
<1> SUFFICES ASSUME TInv, ProductInv, OneWorker, AllKnow, [Next]_vars PROVE AllKnow'
  OBVIOUS
<1> USE DEF TInv
<1>0. \A q \in Request : req[q].pc \in OwnSteps => req[q].fid \in FileId
  BY DEF ProductInv, WorkersTied, WorksOn
<1>u. \A s \in Session : status[s] # "unused" => status'[s] # "unused"
  <2>1. ASSUME NEW r \in Request, Quiet(r) PROVE status' = status
    BY <2>1, QuietMoves
  <2>2. ASSUME NEW r \in Request, NEW o \in Outcome, CompleteFinishSession(r, o)
        PROVE  \A s \in Session : status[s] # "unused" => status'[s] # "unused"
    BY <2>2 DEF CompleteFinishSession, TypeOK
  <2>3. ASSUME NEW r \in Request, NEW o \in Outcome, CancelRow(r, o)
        PROVE  \A s \in Session : status[s] # "unused" => status'[s] # "unused"
    BY <2>3 DEF CancelRow, TypeOK
  <2>4. ASSUME NEW t \in Session, InitSession(t)
        PROVE  \A s \in Session : status[s] # "unused" => status'[s] # "unused"
    BY <2>4 DEF InitSession, TypeOK
  <2>5. ASSUME NEW r \in Request, NEW o \in Outcome,
               (\E f \in FileId : CompletePlace(r, f, o)) \/ CompleteFinishFile(r, o) \/ UndoRow(r, o)
        PROVE  status' = status
    BY <2>5 DEF CompletePlace, CompleteFinishFile, UndoRow
  <2>6. ASSUME Crash \/ UNCHANGED vars PROVE status' = status
    BY <2>6 DEF Crash, vars
  <2>7. ASSUME NEW r \in Request, Ask(r) \/ Proceed(r) \/ MergeFails(r) \/ Disconnect(r)
        PROVE  \A s \in Session : status[s] # "unused" => status'[s] # "unused"
    BY <2>1, <2>2, <2>3, <2>5, <2>7 DEF Proceed, Quiet
  <2>8. QED
    BY <2>4, <2>6, <2>7 DEF Next
<1>1. ASSUME NEW q \in Request, req'[q] = req[q],
             req[q].pc \in {"finishSession", "finishFile"} => disk'[req[q].fid] = disk[req[q].fid]
      PROVE  Knows(q)'
  BY <1>u, <1>1 DEF AllKnow, Knows, CancelSteps, ReqOK
<1>2. ASSUME NEW r \in Request, \A q \in Request \ {r} : req'[q] = req[q],
             disk' = disk, Knows(r)'
      PROVE  AllKnow'
  BY <1>1, <1>2 DEF AllKnow
<1>3. ASSUME NEW r \in Request, Quiet(r) PROVE AllKnow'
  <2>1. Knows(r)'
    BY <1>0, <1>3, QuietKnows DEF AllKnow
  <2>2. \A q \in Request \ {r} : req'[q] = req[q]
    BY <1>3, QuietMoves DEF Moves, KeepsRow
  <2>3. CASE disk' = disk
    BY <1>2, <2>1, <2>2, <2>3
  <2>4. CASE req[r].pc \in Working /\ \A f \in FileId : f # req[r].fid => disk'[f] = disk[f]
    <3>1. ASSUME NEW q \in Request \ {r}, req[q].pc \in {"finishSession", "finishFile"}
          PROVE  disk'[req[q].fid] = disk[req[q].fid]
      BY <1>0, <2>4, <3>1 DEF OneWorker, Working, OwnSteps
    <3>2. QED
      BY <1>1, <2>1, <2>2, <3>1 DEF AllKnow
  <2>5. QED
    BY <1>3, <2>3, <2>4, DiskByWorker
<1>4. ASSUME NEW r \in Request, NEW f \in FileId, NEW o \in Outcome,
             CompletePlace(r, f, o) PROVE AllKnow'
  <2>1. Knows(r)'
    <3>1. CASE req'[r].pc = "idle"
      BY <3>1, KnowsNothing DEF KnowSteps, CancelSteps
    <3>2. CASE req'[r].pc = "merge" /\ req'[r].k = req[r].k
      BY <1>4, <3>2, ConstantsAssumption DEF CompletePlace, AllKnow, Knows, Idx, CancelSteps
    <3>3. QED
      BY <1>4, <3>1, <3>2, PlaceTakes
  <2>2. QED
    BY <1>2, <1>4, <2>1, PlaceTakes
<1>5. ASSUME NEW r \in Request, NEW o \in Outcome, CompleteFinishSession(r, o) PROVE AllKnow'
  <2>1. /\ req'[r].pc \in {"finishFile", "undoRow"} /\ req'[r].buf = req[r].buf
        /\ req'[r].fid = req[r].fid /\ disk' = disk /\ req[r].pc = "finishSession"
    BY <1>5 DEF CompleteFinishSession, ReqOK, ReqRecord
  <2>2. Knows(r)'
    BY <2>1 DEF AllKnow, Knows, CancelSteps
  <2>3. QED
    BY <1>2, <1>5, <2>1, <2>2, FinishSessionKeeps DEF KeepsRow
<1>6. ASSUME NEW r \in Request, NEW o \in Outcome, CompleteFinishFile(r, o) PROVE AllKnow'
  <2>1. Goto(r, "cleanDisk") \/ Goto(r, "undoRow")
    BY <1>6 DEF CompleteFinishFile
  <2>2. Knows(r)' /\ disk' = disk
    BY <1>6, <2>1, GotoKnows DEF KnowSteps, CancelSteps, CompleteFinishFile
  <2>3. QED
    BY <1>2, <1>6, <2>2, FinishMoves DEF Moves, KeepsRow
<1>7. ASSUME NEW r \in Request, NEW o \in Outcome, UndoRow(r, o) PROVE AllKnow'
  <2>1. Knows(r)' /\ disk' = disk
    BY <1>7, GotoKnows DEF KnowSteps, CancelSteps, UndoRow
  <2>2. QED
    BY <1>2, <1>7, <2>1, FinishMoves DEF Moves, KeepsRow
<1>8. ASSUME NEW r \in Request, NEW o \in Outcome, CancelRow(r, o) PROVE AllKnow'
  <2>1. Knows(r)' /\ disk' = disk
    BY <1>8, FailKnows DEF CancelRow
  <2>2. QED
    BY <1>2, <1>8, <2>1, FinishMoves DEF Moves, KeepsRow
<1>9. CASE Crash
  BY <1>9 DEF Crash, AllKnow, Knows, NoRequest, CancelSteps
<1>10. CASE UNCHANGED <<req, disk>>
  BY <1>u, <1>10 DEF AllKnow, Knows, CancelSteps, ReqOK
<1>11. QED
  BY <1>3, <1>4, <1>5, <1>6, <1>7, <1>8, <1>9, <1>10 DEF Next, Proceed, Quiet, InitSession, vars

\* A final row keeps its bytes, and a row that becomes final has whole ones.
LEMMA FinalKept ==
  ASSUME "lost" \notin Faults, TInv, ProductInv, PromiseInv, [Next]_vars, NEW f \in FileId
  PROVE  /\ row[f] = "final" => row'[f] = "final" /\ disk'[f] = disk[f]
         /\ row'[f] = "final" => row[f] = "final" \/ disk'[f] \in Whole
<1> USE DEF TInv
<1>0. \A q \in Request : /\ req[q].pc \in OwnSteps => req[q].fid \in FileId
                         /\ req[q].pc \in Working => row[req[q].fid] # "final"
  BY DEF ProductInv, WorkersTied, WorksOn, PromiseInv, UndoSpares, Working
<1> DEFINE Goal == /\ row[f] = "final" => row'[f] = "final" /\ disk'[f] = disk[f]
                   /\ row'[f] = "final" => row[f] = "final" \/ disk'[f] \in Whole
<1>1. ASSUME NEW r \in Request, Quiet(r) PROVE Goal
  BY <1>0, <1>1, QuietMoves, DiskByWorker
<1>2. ASSUME NEW r \in Request, NEW g \in FileId, NEW o \in Outcome,
             CompletePlace(r, g, o) PROVE Goal
  BY <1>2, PlaceTakes
<1>3. ASSUME NEW r \in Request, NEW o \in Outcome, CompleteFinishFile(r, o) PROVE Goal
  <2>1. disk' = disk /\ disk[req[r].fid] \in Whole
    BY <1>3 DEF CompleteFinishFile, PromiseInv, AllKnow, Knows
  <2>2. \A g \in FileId : row'[g] = row[g] \/ (row'[g] = "final" /\ g = req[r].fid)
    BY <1>3 DEF CompleteFinishFile, TypeOK
  <2>3. QED
    BY <2>1, <2>2
<1>4. ASSUME NEW r \in Request, NEW o \in Outcome, UndoRow(r, o) PROVE Goal
  <2>1. row[req[r].fid] # "final"
    BY <1>0, <1>4 DEF UndoRow, Working, OwnSteps
  <2>2. QED
    BY <1>4, <2>1 DEF UndoRow, TypeOK
<1>5. CASE UNCHANGED <<row, disk>>
  BY <1>5
<1>6. QED
  BY <1>1, <1>2, <1>3, <1>4, <1>5, FinishSessionKeeps
  DEF Next, Proceed, Quiet, InitSession, CancelRow, Crash, vars

LEMMA PromiseInvStep ==
  "lost" \notin Faults /\ TInv /\ ProductInv /\ PromiseInv /\ [Next]_vars => PromiseInv'
<1> SUFFICES ASSUME "lost" \notin Faults, TInv, ProductInv, PromiseInv, [Next]_vars
             PROVE  PromiseInv'
  OBVIOUS
<1>1. OneWorker' /\ AllKnow' /\ UndoSpares'
  BY OneWorkerStep, KnowsStep, UndoSparesStep DEF PromiseInv
<1>2. FinalIsWhole'
  BY FinalKept DEF PromiseInv, FinalIsWhole
<1>3. QED
  BY <1>1, <1>2 DEF PromiseInv

\* A step that leaves status and file_id alone, and makes no row final, is
\* invisible in UploadPromise.
LEMMA Invisible ==
  ASSUME TInv, UNCHANGED <<status, fileOf>>,
         \A g \in FileId : row[g] = "final" => row'[g] = "final" /\ disk'[g] = disk[g],
         \A g \in FileId : row'[g] = "final" => row[g] = "final"
  PROVE  UNCHANGED Promise!pvars
<1>1. phase' = phase
  BY DEF phase
<1>2. \A s \in Session : fileOf[s] # NoFile => fileOf[s] \in FileId
  BY DEF TInv, TypeOK
<1> DEFINE Bytes(s) == IF fileOf[s] # NoFile /\ row[fileOf[s]] = "final"
                       THEN disk[fileOf[s]] ELSE NoBytes
<1>3. ASSUME NEW s \in Session PROVE Bytes(s)' = Bytes(s)
  <2>1. CASE fileOf[s] = NoFile
    BY <2>1
  <2>2. CASE fileOf[s] # NoFile
    <3> DEFINE f == fileOf[s]
    <3>1. f \in FileId /\ fileOf'[s] = f
      BY <1>2, <2>2
    <3>2. CASE row[f] = "final"
      <4>1. row'[f] = "final" /\ disk'[f] = disk[f]
        BY <3>1, <3>2
      <4>2. QED
        BY <2>2, <3>1, <3>2, <4>1
    <3>3. CASE row[f] # "final"
      <4>1. row'[f] # "final"
        BY <3>1, <3>3
      <4>2. QED
        BY <3>1, <3>3, <4>1
    <3>4. QED
      BY <3>2, <3>3
  <2>3. QED
    BY <2>1, <2>2
<1>4. published = [s \in Session |-> Bytes(s)] /\ published' = [s \in Session |-> Bytes(s)']
  BY DEF published
<1>5. published' = published
  BY <1>3, <1>4
<1>6. QED
  BY <1>1, <1>5 DEF Promise!pvars

LEMMA InitRefines == Init => Promise!Init
  BY DEF Init, Promise!Init, phase, published

LEMMA StepRefines ==
  ASSUME "lost" \notin Faults, TInv, ProductInv, PromiseInv, [Next]_vars
  PROVE  [Promise!Next]_(Promise!pvars)
<1> USE ConstantsAssumption DEF TInv
<1>0. \A f \in FileId : /\ row[f] = "final" => row'[f] = "final" /\ disk'[f] = disk[f]
                        /\ row'[f] = "final" => row[f] = "final" \/ disk'[f] \in Whole
  BY FinalKept
<1>1. ASSUME NEW s \in Session, InitSession(s) PROVE Promise!Open(s)
  <2>1. phase[s] = "unused" /\ phase' = [phase EXCEPT ![s] = "open"]
    BY <1>1 DEF InitSession, phase, TypeOK
  <2>2. UNCHANGED <<fileOf, published>>
    BY <1>1 DEF InitSession, published
  <2>3. QED
    BY <2>1, <2>2 DEF Promise!Open
<1>2. ASSUME NEW r \in Request, Quiet(r) PROVE UNCHANGED Promise!pvars
  BY <1>0, <1>2, QuietMoves, Invisible
<1>3. ASSUME NEW r \in Request, NEW f \in FileId, NEW o \in Outcome,
             CompletePlace(r, f, o) PROVE UNCHANGED Promise!pvars
  <2>1. UNCHANGED <<status, fileOf>>
    BY <1>3 DEF CompletePlace
  <2>2. \A g \in FileId : row'[g] = "final" => row[g] = "final"
    BY <1>3, PlaceTakes
  <2>3. QED
    BY <1>0, <2>1, <2>2, Invisible
<1>4. ASSUME NEW r \in Request, NEW o \in Outcome, CompleteFinishSession(r, o)
      PROVE  UNCHANGED Promise!pvars \/ Promise!Decide(req[r].sess, req[r].fid)
  <2> DEFINE s == req[r].sess
             f == req[r].fid
  <2>1. /\ s \in Session /\ f \in FileId /\ f # NoFile /\ madeBy[f] = s
        /\ row[f] # "final" /\ row' = row /\ disk' = disk
    BY <1>4 DEF CompleteFinishSession, ReqOK, ProductInv, WorkersTied, WorksOn,
       PromiseInv, UndoSpares, OwnSteps
  <2>2. CASE UNCHANGED <<status, fileOf>>
    BY <2>1, <2>2, Invisible
  <2>3. CASE /\ status[s] = "uploading" /\ status' = [status EXCEPT ![s] = "done"]
             /\ fileOf' = [fileOf EXCEPT ![s] = f]
    <3>1. phase[s] = "open" /\ phase' = [phase EXCEPT ![s] = "decided"]
      BY <2>1, <2>3 DEF phase, TypeOK
    <3>2. fileOf[s] = NoFile
      BY <2>1, <2>3 DEF ProductInv, RecordedIsOwn
    <3>3. \A t \in Session : fileOf[t] # f
      BY <2>1, <3>2 DEF ProductInv, RecordedIsOwn
    <3>4. published' = published
      BY <2>1, <2>3, <3>2 DEF published, TypeOK
    <3>5. QED
      BY <2>3, <3>1, <3>3, <3>4 DEF Promise!Decide
  <2>4. QED
    BY <1>4, <2>2, <2>3 DEF CompleteFinishSession
<1>5. ASSUME NEW r \in Request, NEW o \in Outcome, CompleteFinishFile(r, o)
      PROVE  UNCHANGED Promise!pvars \/ Promise!Publish(req[r].sess, req[r].buf)
  <2> DEFINE s == req[r].sess
             f == req[r].fid
  <2>1. /\ s \in Session /\ f \in FileId /\ f # NoFile /\ madeBy[f] = s /\ fileOf[s] = f
        /\ row[f] # "final" /\ disk' = disk /\ disk[f] = req[r].buf
        /\ UNCHANGED <<status, fileOf>>
    BY <1>5 DEF CompleteFinishFile, ReqOK, ProductInv, WorkersTied, WorksOn,
       PromiseInv, UndoSpares, AllKnow, Knows, OwnSteps
  <2>2. CASE row' = row
    BY <2>1, <2>2, Invisible
  <2>3. CASE row' = [row EXCEPT ![f] = "final"]
    <3>1. phase' = phase /\ published[s] = NoBytes
      BY <2>1 DEF phase, published
    <3>2. \A t \in Session : fileOf[t] = f => t = s
      BY <2>1 DEF ProductInv, RecordedIsOwn
    <3>3. \A t \in Session : t # s => published'[t] = published[t]
      BY <2>1, <2>3, <3>2 DEF published, TypeOK
    <3>4. published'[s] = req[r].buf
      BY <2>1, <2>3 DEF published, TypeOK
    <3>5. published' = [published EXCEPT ![s] = req[r].buf]
      BY <3>3, <3>4 DEF published
    <3>6. QED
      BY <2>1, <3>1, <3>5 DEF Promise!Publish
  <2>4. QED
    BY <1>5, <2>2, <2>3 DEF CompleteFinishFile
<1>6. ASSUME NEW r \in Request, NEW o \in Outcome, UndoRow(r, o) PROVE UNCHANGED Promise!pvars
  <2>1. UNCHANGED <<status, fileOf>> /\ \A g \in FileId : row'[g] = "final" => row[g] = "final"
    BY <1>6 DEF UndoRow, TypeOK
  <2>2. QED
    BY <1>0, <2>1, Invisible
<1>7. ASSUME NEW r \in Request, NEW o \in Outcome, CancelRow(r, o)
      PROVE  UNCHANGED Promise!pvars \/ Promise!Close(req[r].sess)
  <2> DEFINE s == req[r].sess
  <2>1. s \in Session /\ status[s] # "unused" /\ UNCHANGED <<fileOf, row, disk>>
    BY <1>7 DEF CancelRow, ReqOK, PromiseInv, AllKnow, Knows, CancelSteps
  <2>2. CASE status' = status
    BY <2>1, <2>2, Invisible
  <2>3. CASE status' = [status EXCEPT ![s] = "aborted"]
    <3>1. phase[s] \in {"open", "decided", "closed"}
      BY <2>1 DEF phase, TypeOK
    <3>2. phase' = [phase EXCEPT ![s] = "closed"]
      BY <2>1, <2>3 DEF phase, TypeOK
    <3>3. QED
      BY <2>1, <3>1, <3>2 DEF Promise!Close, published
  <2>4. QED
    BY <1>7, <2>2, <2>3 DEF CancelRow
<1>8. CASE Crash
  BY <1>8, Invisible DEF Crash
<1>9. CASE UNCHANGED vars
  BY <1>9, Invisible DEF vars
<1>10. /\ \A r \in Request : ~Idle(r) => req[r].sess \in Session
       /\ \A r \in Request : req[r].pc \in OwnSteps => req[r].fid \in FileId
       /\ \A r \in Request : At(r, "finishFile") => req[r].buf \in Whole
  BY DEF ReqOK, ProductInv, WorkersTied, WorksOn, PromiseInv, AllKnow, Knows
<1>11. ASSUME NEW r \in Request, NEW o \in Outcome, CompleteFinishSession(r, o)
       PROVE  [Promise!Next]_(Promise!pvars)
  BY <1>4, <1>10, <1>11 DEF CompleteFinishSession, OwnSteps, Promise!Next
<1>12. ASSUME NEW r \in Request, NEW o \in Outcome, CompleteFinishFile(r, o)
       PROVE  [Promise!Next]_(Promise!pvars)
  BY <1>5, <1>10, <1>12 DEF CompleteFinishFile, Promise!Next
<1>13. ASSUME NEW r \in Request, NEW o \in Outcome, CancelRow(r, o)
       PROVE  [Promise!Next]_(Promise!pvars)
  BY <1>7, <1>10, <1>13 DEF CancelRow, Promise!Next
<1>14. QED
  BY <1>1, <1>2, <1>3, <1>6, <1>8, <1>9, <1>11, <1>12, <1>13
  DEF Next, Proceed, Quiet, Promise!Next

\* The upload service keeps the promise of UploadPromise for any number of
\* sessions, requests and chunks, through disconnects, failed statements,
\* failed merges and crashes, as long as no answer of a statement is lost.
THEOREM PromiseHolds ==
  ASSUME "lost" \notin Faults PROVE Spec => PromiseKept
<1>1. TInv /\ ProductInv /\ PromiseInv /\ [Next]_vars => [Promise!Next]_(Promise!pvars)
  BY StepRefines
<1>2. TInv /\ ProductInv /\ PromiseInv /\ [Next]_vars => PromiseInv'
  BY PromiseInvStep
<1>3. QED
  BY <1>1, <1>2, InitRefines, TInvInit, TInvStep, ProductInvInit, ProductInvStep,
     PromiseInvInit, PTL DEF Spec, PromiseKept, Promise!Spec

\* A finished file always has its bytes on disk (under the same assumption).
THEOREM ProductBackedHolds ==
  ASSUME "lost" \notin Faults PROVE Spec => []ProductBacked
<1>1. PromiseInv => ProductBacked
  <2>1. NoBytes \notin Whole
    BY ConstantsAssumption DEF NoBytes, Whole, Body, Idx
  <2>2. QED
    BY <2>1 DEF PromiseInv, FinalIsWhole, ProductBacked
<1>2. TInv /\ ProductInv /\ PromiseInv /\ [Next]_vars => PromiseInv'
  BY PromiseInvStep
<1>3. QED
  BY <1>1, <1>2, TInvInit, TInvStep, ProductInvInit, ProductInvStep, PromiseInvInit,
     PTL DEF Spec

(***************************************************************************)
(* What a quiet step makes of its request: it does not begin to build or   *)
(* to clean up, and an answer "created" was given before or is given at    *)
(* the end of the clean-up.                                                *)
(***************************************************************************)
Building == {"merge", "publish", "finishSession", "finishFile"}
Cleaning == {"cleanDisk", "cleanRows"}

SameFile(r) == req'[r].sess = req[r].sess /\ req'[r].fid = req[r].fid

Continues(r) ==
  /\ req'[r].pc \in Building => req[r].pc \in Building
  /\ req'[r].pc \in Cleaning => req[r].pc \in Cleaning
  /\ req'[r].pc = "undoDisk" => req[r].pc = "undoDisk"
  /\ req'[r].reply = "created" =>
       SameFile(r) /\ (req[r].reply = "created" \/ At(r, "cleanRows"))
  /\ req'[r].pc # "idle" /\ req'[r].reply = "created" =>
       ~Idle(r) /\ req[r].reply = "created"
  /\ req'[r].cut => req[r].cut \/ "cut" \in Faults

LEMMA FailContinues ==
  ASSUME ReqOK, NEW r \in Request, Fail(r) PROVE Continues(r)
<1>1. req'[r] = NoRequest
  BY DEF ReqOK
<1>2. QED
  BY <1>1 DEF Continues, Building, Cleaning, NoRequest

LEMMA GotoContinues ==
  ASSUME ReqOK, NEW r \in Request, NEW p, ~Idle(r), Goto(r, p),
         p \in Building => req[r].pc \in Building,
         p \in Cleaning => req[r].pc \in Cleaning,
         p # "undoDisk"
  PROVE  Continues(r)
<1>1. /\ req'[r].pc = p /\ SameFile(r)
      /\ req'[r].reply = req[r].reply /\ req'[r].cut = req[r].cut
  BY DEF ReqOK, ReqRecord, SameFile
<1>2. QED
  BY <1>1 DEF Continues

\* A request that has just been accepted or has been answered.
LEMMA FreshContinues ==
  ASSUME ReqOK, NEW r \in Request, NEW p \in {"idle", "putDisk", "list", "cancelDisk"},
         req'[r].pc = p, req'[r].reply # "created", ~req'[r].cut
  PROVE  Continues(r)
  BY DEF Continues, Building, Cleaning

LEMMA ExistingContinues ==
  ASSUME ReqOK, NEW r \in Request, NEW s \in Session, ExistingFile(r, s) PROVE Continues(r)
<1>1. CASE req' = [req EXCEPT ![r] = NoRequest]
  BY <1>1, FailContinues
<1>2. ASSUME NEW f,
             req' = [req EXCEPT ![r] = [NoRequest EXCEPT !.sess = s, !.fid = f,
                                                         !.reply = "existing"]]
      PROVE  Continues(r)
  <2> DEFINE q == [NoRequest EXCEPT !.sess = s, !.fid = f, !.reply = "existing"]
  <2>1. q.pc = "idle" /\ q.reply = "existing" /\ q.cut = FALSE
    BY DEF NoRequest
  <2>2. req'[r] = q
    BY <1>2 DEF ReqOK
  <2>3. QED
    BY <2>1, <2>2, FreshContinues
<1>3. QED
  BY <1>1, <1>2 DEF ExistingFile

LEMMA AskContinues ==
  ASSUME ReqOK, NEW r \in Request, Ask(r) PROVE Continues(r)
<1>1. ASSUME NEW s \in Session, NEW i \in Idx, NEW b \in Bodies, PutBegin(r, s, i, b)
      PROVE  Continues(r)
  <2>1. req'[r].pc = "putDisk" /\ req'[r].reply = "none" /\ req'[r].cut = FALSE
    BY <1>1 DEF PutBegin, ReqOK, NoRequest
  <2>2. QED
    BY <2>1, FreshContinues
<1>2. ASSUME NEW s \in Session, CompleteAgain(r, s) PROVE Continues(r)
  BY <1>2, ExistingContinues DEF CompleteAgain
<1>3. ASSUME NEW s \in Session, CompleteBegin(r, s) PROVE Continues(r)
  <2>1. req'[r].pc = "list" /\ req'[r].reply = "none" /\ req'[r].cut = FALSE
    BY <1>3 DEF CompleteBegin, ReqOK, NoRequest
  <2>2. QED
    BY <2>1, FreshContinues
<1>4. ASSUME NEW s \in Session, CancelBegin(r, s) PROVE Continues(r)
  <2>1. req'[r].pc = "cancelDisk" /\ req'[r].reply = "none" /\ req'[r].cut = FALSE
    BY <1>4 DEF CancelBegin, ReqOK, NoRequest
  <2>2. QED
    BY <2>1, FreshContinues
<1>5. QED
  BY <1>1, <1>2, <1>3, <1>4 DEF Ask

LEMMA QuietContinues ==
  ASSUME TInv, NEW r \in Request, Quiet(r) PROVE Continues(r)
<1> USE DEF TInv
<1>1. CASE Ask(r)
  BY <1>1, AskContinues
<1>2. CASE Disconnect(r)
  <2>1. /\ req'[r].pc = req[r].pc /\ SameFile(r)
        /\ req'[r].reply = req[r].reply /\ ~Idle(r) /\ "cut" \in Faults
    BY <1>2 DEF Disconnect, ReqOK, ReqRecord, SameFile
  <2>2. QED
    BY <2>1 DEF Continues
<1>3. CASE MergeFails(r)
  BY <1>3, GotoContinues DEF MergeFails, Building, Cleaning
<1>4. CASE GiveUp(r)
  BY <1>4, FailContinues DEF GiveUp
<1>5. CASE PutDisk(r)
  BY <1>5, GotoContinues DEF PutDisk, Building, Cleaning
<1>6. CASE PutDrop(r)
  BY <1>6, FailContinues DEF PutDrop
<1>7. CASE CancelDisk(r)
  BY <1>7, GotoContinues, FailContinues DEF CancelDisk, Building, Cleaning
<1>8. CASE Reread(r)
  BY <1>8, ExistingContinues, FailContinues DEF Reread, ReqOK
<1>9. CASE CompleteList(r)
  BY <1>9, GotoContinues, FailContinues DEF CompleteList, Building, Cleaning
<1>10. CASE CompleteExist(r)
  BY <1>10, GotoContinues, FailContinues DEF CompleteExist, Building, Cleaning
<1>11. CASE CompleteVerify(r)
  <2> DEFINE i == req[r].k
             read == [req[r].buf EXCEPT ![i] = chunkFile[req[r].sess][i]]
             p == [req[r] EXCEPT !.pc = "place", !.k = 0, !.buf = NoBytes]
             v == [req[r] EXCEPT !.k = i + 1, !.buf = read]
  <2>1. /\ p.pc = "place" /\ v.pc = "verify"
        /\ \A q \in {p, v} : /\ q.sess = req[r].sess /\ q.fid = req[r].fid
                           /\ q.reply = req[r].reply /\ q.cut = req[r].cut
    BY <1>11 DEF CompleteVerify, ReqOK, ReqRecord
  <2>2. CASE req' = [req EXCEPT ![r] = p] \/ req' = [req EXCEPT ![r] = v]
    <3>1. req'[r] \in {p, v}
      BY <2>2 DEF ReqOK
    <3>2. QED
      BY <1>11, <2>1, <3>1 DEF CompleteVerify, Continues, SameFile, Building, Cleaning
  <2>3. QED
    BY <1>11, <2>2, FailContinues DEF CompleteVerify
<1>12. CASE CompleteMerge(r)
  <2>1. req[r].pc \in Building
    BY <1>12 DEF CompleteMerge, Building
  <2>2. CASE Goto(r, "undoRow")
    BY <1>12, <2>2, GotoContinues DEF CompleteMerge, Building, Cleaning
  <2>3. CASE ~Goto(r, "undoRow")
    <3>1. /\ req'[r].pc \in {"merge", "publish"} /\ SameFile(r)
          /\ req'[r].reply = req[r].reply /\ req'[r].cut = req[r].cut
      BY <1>12, <2>3 DEF CompleteMerge, ReqOK, ReqRecord, SameFile
    <3>2. QED
      BY <1>12, <2>1, <3>1 DEF CompleteMerge, Continues, Building, Cleaning
  <2>4. QED
    BY <2>2, <2>3
<1>13. CASE CompletePublish(r)
  BY <1>13, GotoContinues DEF CompletePublish, Building, Cleaning
<1>14. CASE CompleteCleanDisk(r)
  BY <1>14, GotoContinues DEF CompleteCleanDisk, Building, Cleaning
<1>15. CASE UndoDisk(r)
  BY <1>15, GotoContinues, FailContinues DEF UndoDisk, Building, Cleaning
<1>16. ASSUME NEW o \in Outcome, PutRow(r, o) PROVE Continues(r)
  BY <1>16, FailContinues DEF PutRow
<1>17. ASSUME NEW o \in Outcome, CompleteCleanRows(r, o) PROVE Continues(r)
  <2>1. CASE Answer(r, "created", req[r].fid)
    <3>1. /\ req'[r].pc = "idle" /\ SameFile(r) /\ req'[r].cut = FALSE
      BY <2>1 DEF ReqOK, NoRequest, SameFile
    <3>2. QED
      BY <1>17, <3>1 DEF CompleteCleanRows, Continues, Building, Cleaning
  <2>2. QED
    BY <1>17, <2>1, FailContinues DEF CompleteCleanRows
<1>18. QED
  BY <1>1, <1>2, <1>3, <1>4, <1>5, <1>6, <1>7, <1>8, <1>9, <1>10, <1>11, <1>12,
     <1>13, <1>14, <1>15, <1>16, <1>17 DEF Quiet

\* What the writers of status, file_id and the files rows make of their request.
LEMMA WriterContinues ==
  ASSUME TInv, NEW r \in Request, NEW o \in Outcome,
         CompleteFinishSession(r, o) \/ UndoRow(r, o) \/ CancelRow(r, o)
  PROVE  /\ req'[r].pc \in Building => req[r].pc \in Building
         /\ req'[r].pc \notin Cleaning
         /\ req'[r].reply = "created" => req[r].reply = "created" /\ SameFile(r)
         /\ req'[r].cut => req[r].cut
         /\ meta' = meta /\ disk' = disk
<1> USE DEF TInv
<1>1. CASE CompleteFinishSession(r, o)
  <2>1. /\ req'[r].pc \in {"finishFile", "undoRow"} /\ req[r].pc = "finishSession"
        /\ req'[r].reply \in {"raced", req[r].reply}
        /\ SameFile(r) /\ req'[r].cut = req[r].cut
    BY <1>1 DEF CompleteFinishSession, ReqOK, ReqRecord, SameFile
  <2>2. QED
    BY <1>1, <2>1 DEF CompleteFinishSession, Building, Cleaning
<1>2. CASE UndoRow(r, o)
  <2>1. /\ req'[r].pc = "undoDisk" /\ SameFile(r) /\ req'[r].cut = req[r].cut
        /\ req'[r].reply = req[r].reply
    BY <1>2 DEF UndoRow, ReqOK, ReqRecord, SameFile
  <2>2. QED
    BY <1>2, <2>1 DEF UndoRow, Building, Cleaning
<1>3. CASE CancelRow(r, o)
  <2>1. req'[r] = NoRequest
    BY <1>3 DEF CancelRow, ReqOK
  <2>2. QED
    BY <1>3, <2>1 DEF CancelRow, Building, Cleaning, NoRequest
<1>4. QED
  BY <1>1, <1>2, <1>3

\* FinishFile: the request goes on to clean up, unless the statement failed.
LEMMA FinishFileTurns ==
  ASSUME TInv, NEW r \in Request, NEW o \in Outcome, CompleteFinishFile(r, o)
  PROVE  /\ req'[r].pc \in {"cleanDisk", "undoRow"}
         /\ req'[r].pc = "cleanDisk" => o = "ok"
         /\ SameFile(r) /\ req'[r].reply = req[r].reply /\ req'[r].cut = req[r].cut
         /\ disk' = disk
         /\ \A f \in FileId : f # req[r].fid => row'[f] = row[f] /\ meta'[f] = meta[f]
         /\ o = "ok" /\ req[r].fid \in FileId => row'[req[r].fid] = "final"
  BY DEF CompleteFinishFile, TInv, TypeOK, ReqOK, ReqRecord, SameFile

LEMMA PlaceContinues ==
  ASSUME TInv, NEW r \in Request, NEW f \in FileId, NEW o \in Outcome, CompletePlace(r, f, o)
  PROVE  /\ req'[r].pc \notin Cleaning \cup {"undoDisk"}
         /\ req'[r].reply = "created" => req[r].reply = "created"
         /\ req'[r].cut => req[r].cut
         /\ meta' = meta
<1> USE DEF TInv
<1>1. CASE Fail(r)
  <2>1. req'[r] = NoRequest
    BY <1>1 DEF ReqOK
  <2>2. QED
    BY <2>1 DEF CompletePlace, Cleaning, NoRequest
<1>2. CASE Answer(r, "conflict", NoFile)
  <2>1. req'[r].pc = "idle" /\ req'[r].reply = "conflict" /\ req'[r].cut = FALSE
    BY <1>2 DEF ReqOK, NoRequest
  <2>2. QED
    BY <2>1 DEF CompletePlace, Cleaning
<1>3. CASE ~(Fail(r) \/ Answer(r, "conflict", NoFile))
  <2>1. req' = [req EXCEPT ![r].pc = "merge", ![r].fid = f]
    BY <1>3 DEF CompletePlace
  <2>2. req'[r].pc = "merge" /\ req'[r].reply = req[r].reply /\ req'[r].cut = req[r].cut
    BY <2>1 DEF ReqOK, ReqRecord
  <2>3. QED
    BY <2>2 DEF CompletePlace, Cleaning
<1>4. QED
  BY <1>1, <1>2, <1>3

(***************************************************************************)
(* DigestMatchesBytes, whatever is lost.  A file is published over a row   *)
(* that is not final, and FinishFile records the bytes its own request has *)
(* published, since no other request works on that row.                    *)
(***************************************************************************)
BuildsUnfinished ==
  \A r \in Request : req[r].pc \in Building => row[req[r].fid] # "final"

DigestInv == OneWorker /\ AllKnow /\ BuildsUnfinished /\ DigestMatchesBytes

LEMMA DigestInvInit == Init => DigestInv
<1>1. Init => BuildsUnfinished /\ DigestMatchesBytes
  BY DEF Init, BuildsUnfinished, DigestMatchesBytes, Building, NoRequest
<1>2. QED
  BY <1>1, PromiseInvInit DEF DigestInv, PromiseInv

LEMMA BuildsUnfinishedStep ==
  TInv /\ ProductInv /\ OneWorker /\ BuildsUnfinished /\ [Next]_vars => BuildsUnfinished'
<1> SUFFICES ASSUME TInv, ProductInv, OneWorker, BuildsUnfinished, [Next]_vars
             PROVE  BuildsUnfinished'
  OBVIOUS
<1> USE DEF TInv
<1>0. \A q \in Request : req[q].pc \in Building => req[q].pc \in OwnSteps /\ req[q].fid \in FileId
  BY DEF ProductInv, WorkersTied, WorksOn, Building, OwnSteps
<1>1. ASSUME NEW r \in Request, KeepsRow(r),
             \A f \in FileId : row'[f] = "final" => row[f] = "final",
             req'[r].pc \in Building => req[r].pc \in Building
      PROVE  BuildsUnfinished'
  BY <1>0, <1>1 DEF BuildsUnfinished, KeepsRow, Building, OwnSteps
<1>2. ASSUME NEW r \in Request, Quiet(r) PROVE BuildsUnfinished'
  BY <1>1, <1>2, QuietMoves, QuietContinues DEF Moves, Continues
<1>3. ASSUME NEW r \in Request, NEW f \in FileId, NEW o \in Outcome,
             CompletePlace(r, f, o) PROVE BuildsUnfinished'
  <2>1. \A q \in Request \ {r} : req'[q] = req[q]
    BY <1>3, PlaceTakes
  <2>2. \A g \in FileId : row'[g] = "final" => row[g] = "final"
    BY <1>3, PlaceTakes
  <2>3. req'[r].pc \in Building => row'[req'[r].fid] = "pending"
    BY <1>3, PlaceTakes DEF Building
  <2>4. QED
    BY <1>0, <2>1, <2>2, <2>3 DEF BuildsUnfinished
<1>4. ASSUME NEW r \in Request, NEW o \in Outcome,
             CompleteFinishSession(r, o) \/ UndoRow(r, o) \/ CancelRow(r, o)
      PROVE  BuildsUnfinished'
  <2>1. KeepsRow(r)
    BY <1>4, FinishSessionKeeps, FinishMoves DEF Moves
  <2>2. \A f \in FileId : row'[f] = "final" => row[f] = "final"
    BY <1>4 DEF CompleteFinishSession, UndoRow, CancelRow, TypeOK
  <2>3. QED
    BY <1>1, <1>4, <2>1, <2>2, WriterContinues
<1>5. ASSUME NEW r \in Request, NEW o \in Outcome, CompleteFinishFile(r, o)
      PROVE  BuildsUnfinished'
  <2>1. KeepsRow(r) /\ req[r].pc \in OwnSteps
    BY <1>5, FinishMoves DEF Moves, CompleteFinishFile, OwnSteps
  <2>2. ASSUME NEW q \in Request, req'[q].pc \in Building PROVE row'[req'[q].fid] # "final"
    <3>1. q # r
      BY <1>5, <2>2, FinishFileTurns DEF Building
    <3>2. req'[q] = req[q] /\ req[q].pc \in OwnSteps /\ req[q].fid \in FileId
      BY <1>0, <2>1, <2>2, <3>1 DEF KeepsRow
    <3>3. req[q].fid # req[r].fid
      BY <2>1, <3>1, <3>2 DEF OneWorker
    <3>4. QED
      BY <1>5, <2>2, <3>2, <3>3, FinishFileTurns DEF BuildsUnfinished
  <2>3. QED
    BY <2>2 DEF BuildsUnfinished
<1>6. CASE Crash
  BY <1>6 DEF Crash, BuildsUnfinished, NoRequest, Building
<1>7. CASE UNCHANGED <<req, row>>
  BY <1>7 DEF BuildsUnfinished
<1>8. QED
  BY <1>2, <1>3, <1>4, <1>5, <1>6, <1>7 DEF Next, Proceed, Quiet, InitSession, vars

LEMMA DigestStep ==
  TInv /\ ProductInv /\ DigestInv /\ [Next]_vars => DigestMatchesBytes'
<1> SUFFICES ASSUME TInv, ProductInv, DigestInv, [Next]_vars, NEW f \in FileId
             PROVE  (row[f] = "final" /\ disk[f] # NoBytes => meta[f] = disk[f])'
  BY DEF DigestMatchesBytes
<1> USE DEF TInv
<1> DEFINE Described == row'[f] = "final" /\ disk'[f] # NoBytes => meta'[f] = disk'[f]
<1>0. row[f] = "final" /\ disk[f] # NoBytes => meta[f] = disk[f]
  BY DEF DigestInv, DigestMatchesBytes
<1>1. ASSUME row'[f] = "final" => row[f] = "final",
             disk'[f] = disk[f], meta'[f] = meta[f]
      PROVE  Described
  BY <1>0, <1>1
<1>2. ASSUME NEW r \in Request, Quiet(r) PROVE Described
  <2>1. row' = row /\ meta' = meta
    BY <1>2, QuietMoves, AskMoves
    DEF Quiet, Disconnect, MergeFails, GiveUp, PutDisk, PutDrop, CancelDisk, Reread,
        CompleteList, CompleteExist, CompleteVerify, CompleteMerge, CompletePublish,
        CompleteCleanDisk, UndoDisk, PutRow, CompleteCleanRows
  <2>2. CASE CompletePublish(r)
    <3>1. row[req[r].fid] # "final"
      BY <2>2 DEF DigestInv, BuildsUnfinished, CompletePublish, Building
    <3>2. \A g \in FileId : g # req[r].fid => disk'[g] = disk[g]
      BY <2>2 DEF CompletePublish, TypeOK
    <3>3. QED
      BY <1>1, <2>1, <3>1, <3>2
  <2>3. CASE UndoDisk(r)
    <3>1. disk'[f] = disk[f] \/ disk'[f] = NoBytes
      BY <2>3 DEF UndoDisk, TypeOK
    <3>2. QED
      BY <1>1, <2>1, <3>1
  <2>4. CASE ~(CompletePublish(r) \/ UndoDisk(r))
    <3>1. disk' = disk
      BY <1>2, <2>4, AskMoves
      DEF Quiet, Disconnect, MergeFails, GiveUp, PutDisk, PutDrop, CancelDisk, Reread,
          CompleteList, CompleteExist, CompleteVerify, CompleteMerge,
          CompleteCleanDisk, PutRow, CompleteCleanRows
    <3>2. QED
      BY <1>1, <2>1, <3>1
  <2>5. QED
    BY <2>2, <2>3, <2>4
<1>3. ASSUME NEW r \in Request, NEW g \in FileId, NEW o \in Outcome,
             CompletePlace(r, g, o) PROVE Described
  BY <1>1, <1>3, PlaceTakes, PlaceContinues
<1>4. ASSUME NEW r \in Request, NEW o \in Outcome,
             CompleteFinishSession(r, o) \/ UndoRow(r, o) \/ CancelRow(r, o)
      PROVE  Described
  <2>1. row'[f] = "final" => row[f] = "final"
    BY <1>4 DEF CompleteFinishSession, UndoRow, CancelRow, TypeOK
  <2>2. QED
    BY <1>1, <1>4, <2>1, WriterContinues
<1>5. ASSUME NEW r \in Request, NEW o \in Outcome, CompleteFinishFile(r, o) PROVE Described
  <2>1. CASE f = req[r].fid
    <3>1. disk[f] = req[r].buf
      BY <1>5, <2>1 DEF DigestInv, AllKnow, Knows, CompleteFinishFile
    <3>2. \/ row' = row /\ meta' = meta
          \/ meta'[f] = req[r].buf
      BY <1>5, <2>1 DEF CompleteFinishFile, TypeOK
    <3>3. disk' = disk
      BY <1>5, FinishFileTurns
    <3>4. QED
      BY <1>1, <3>1, <3>2, <3>3
  <2>2. CASE f # req[r].fid
    BY <1>1, <1>5, <2>2, FinishFileTurns
  <2>3. QED
    BY <2>1, <2>2
<1>6. CASE UNCHANGED <<row, disk, meta>>
  BY <1>1, <1>6
<1>7. QED
  BY <1>2, <1>3, <1>4, <1>5, <1>6 DEF Next, Proceed, Quiet, InitSession, Crash, vars

\* The size and digest in the table describe the bytes on disk: chunks that are
\* overwritten or removed while they are merged, other requests that complete the
\* same session, lost answers and crashes notwithstanding.
THEOREM DigestHolds == Spec => []DigestMatchesBytes
<1>1. TInv /\ ProductInv /\ DigestInv /\ [Next]_vars => DigestInv'
  BY OneWorkerStep, KnowsStep, BuildsUnfinishedStep, DigestStep DEF DigestInv
<1>2. DigestInv => DigestMatchesBytes
  BY DEF DigestInv
<1>3. QED
  BY <1>1, <1>2, TInvInit, TInvStep, ProductInvInit, ProductInvStep, DigestInvInit,
     PTL DEF Spec

(***************************************************************************)
(* CreatedIsReadable, while no answer is lost.  A request that cleans up,  *)
(* or has answered "created", holds the recorded product of its session,   *)
(* whose row is final; a request that is still at work has not answered.   *)
(***************************************************************************)
Holds(r) ==
  /\ req[r].sess \in Session /\ req[r].fid \in FileId
  /\ fileOf[req[r].sess] = req[r].fid /\ row[req[r].fid] = "final"

CreatedInv ==
  \A r \in Request : /\ req[r].pc \in Cleaning \/ req[r].reply = "created" => Holds(r)
                     /\ ~Idle(r) => req[r].reply # "created"

LEMMA CreatedInvInit == Init => CreatedInv
  BY DEF Init, CreatedInv, NoRequest, Cleaning

\* The recorded product of a session is never replaced.
LEMMA ProductStays ==
  ASSUME TInv, ProductInv, [Next]_vars, NEW s \in Session, fileOf[s] # NoFile
  PROVE  fileOf'[s] = fileOf[s]
<1> USE DEF TInv
<1>1. status[s] # "uploading"
  BY DEF ProductInv, RecordedIsOwn
<1>2. ASSUME NEW r \in Request, NEW o \in Outcome, CompleteFinishSession(r, o)
      PROVE  fileOf'[s] = fileOf[s]
  BY <1>1, <1>2 DEF CompleteFinishSession, TypeOK
<1>3. ASSUME NEW r \in Request, NEW f \in FileId, NEW o \in Outcome, CompletePlace(r, f, o)
      PROVE  fileOf' = fileOf
  BY <1>3 DEF CompletePlace
<1>4. ASSUME NEW r \in Request, NEW o \in Outcome,
             CompleteFinishFile(r, o) \/ UndoRow(r, o) \/ CancelRow(r, o)
      PROVE  fileOf' = fileOf
  BY <1>4 DEF CompleteFinishFile, UndoRow, CancelRow
<1>5. ASSUME NEW r \in Request, Quiet(r) PROVE fileOf' = fileOf
  BY <1>5, QuietMoves
<1>6. CASE (\E t \in Session : InitSession(t)) \/ Crash \/ UNCHANGED vars
  BY <1>6 DEF InitSession, Crash, vars
<1>7. QED
  BY <1>2, <1>3, <1>4, <1>5, <1>6 DEF Next, Proceed, Quiet

LEMMA CreatedInvStep ==
  "lost" \notin Faults /\ TInv /\ ProductInv /\ PromiseInv /\ CreatedInv /\ [Next]_vars
    => CreatedInv'
<1> SUFFICES ASSUME "lost" \notin Faults, TInv, ProductInv, PromiseInv, CreatedInv, [Next]_vars
             PROVE  CreatedInv'
  OBVIOUS
<1> USE ConstantsAssumption DEF TInv
<1>1. ASSUME NEW r \in Request, Holds(r), SameFile(r) PROVE Holds(r)'
  <2>1. row'[req[r].fid] = "final"
    BY <1>1, FinalKept DEF Holds
  <2>2. fileOf'[req[r].sess] = fileOf[req[r].sess]
    BY <1>1, ProductStays DEF Holds
  <2>3. QED
    BY <1>1, <2>1, <2>2 DEF Holds, SameFile
<1>2. ASSUME NEW r \in Request, \A q \in Request \ {r} : req'[q] = req[q],
             req'[r].pc \in Cleaning \/ req'[r].reply = "created" =>
               Holds(r)' \/ (Holds(r) /\ SameFile(r)),
             req'[r].pc # "idle" => req'[r].reply # "created"
      PROVE  CreatedInv'
  BY <1>1, <1>2 DEF CreatedInv, SameFile
<1>3. ASSUME NEW r \in Request, Quiet(r) PROVE CreatedInv'
  <2>1. Continues(r) /\ Moves(r)
    BY <1>3, QuietContinues, QuietMoves
  <2>2. req'[r].pc \in Cleaning => req[r].pc \in Cleaning /\ SameFile(r)
    BY <2>1 DEF Continues, Moves, KeepsRow, SameFile, Cleaning, OwnSteps
  <2>3. QED
    BY <1>2, <2>1, <2>2 DEF Continues, Moves, KeepsRow, CreatedInv, Cleaning
<1>4. ASSUME NEW r \in Request, NEW f \in FileId, NEW o \in Outcome,
             CompletePlace(r, f, o) PROVE CreatedInv'
  <2>1. req[r].reply # "created"
    BY <1>4 DEF CompletePlace, CreatedInv
  <2>2. QED
    BY <1>2, <1>4, <2>1, PlaceTakes, PlaceContinues
<1>5. ASSUME NEW r \in Request, NEW o \in Outcome,
             CompleteFinishSession(r, o) \/ UndoRow(r, o) \/ CancelRow(r, o)
      PROVE  CreatedInv'
  <2>1. req[r].reply # "created"
    BY <1>5 DEF CompleteFinishSession, UndoRow, CancelRow, CreatedInv
  <2>2. \A q \in Request \ {r} : req'[q] = req[q]
    BY <1>5, FinishSessionKeeps, FinishMoves DEF Moves, KeepsRow
  <2>3. QED
    BY <1>2, <1>5, <2>1, <2>2, WriterContinues
<1>6. ASSUME NEW r \in Request, NEW o \in Outcome, CompleteFinishFile(r, o) PROVE CreatedInv'
  <2>1. /\ req[r].reply # "created" /\ req[r].sess \in Session /\ WorksOn(r)
        /\ fileOf[req[r].sess] = req[r].fid /\ fileOf' = fileOf
    BY <1>6 DEF CompleteFinishFile, CreatedInv, ReqOK, ProductInv, WorkersTied, WorksOn, OwnSteps
  <2>2. \A q \in Request \ {r} : req'[q] = req[q]
    BY <1>6, FinishMoves DEF Moves, KeepsRow
  <2>3. req'[r].pc = "cleanDisk" => Holds(r)'
    BY <1>6, <2>1, FinishFileTurns DEF Holds, SameFile, WorksOn
  <2>4. QED
    BY <1>2, <1>6, <2>1, <2>2, <2>3, FinishFileTurns DEF Cleaning
<1>7. CASE Crash
  BY <1>7 DEF Crash, CreatedInv, NoRequest, Cleaning
<1>8. CASE req' = req
  BY <1>1, <1>8 DEF CreatedInv, SameFile
<1>9. CASE (\E s \in Session : InitSession(s)) \/ UNCHANGED vars
  BY <1>8, <1>9 DEF InitSession, vars
<1>10. QED
  BY <1>3, <1>4, <1>5, <1>6, <1>7, <1>9 DEF Next, Proceed, Quiet

LEMMA CreatedInvReads == PromiseInv /\ CreatedInv => CreatedIsReadable
<1>1. NoBytes \notin Whole
  BY ConstantsAssumption DEF NoBytes, Whole, Body, Idx
<1>2. QED
  BY <1>1 DEF PromiseInv, FinalIsWhole, CreatedInv, Holds, CreatedIsReadable

\* A Complete that answered "created" named the product of its session, and the
\* file stays readable from then on, whatever other requests of the session do.
THEOREM CreatedReadableHolds ==
  ASSUME "lost" \notin Faults PROVE Spec => []CreatedIsReadable
<1>1. TInv /\ ProductInv /\ PromiseInv /\ [Next]_vars => PromiseInv'
  BY PromiseInvStep
<1>2. TInv /\ ProductInv /\ PromiseInv /\ CreatedInv /\ [Next]_vars => CreatedInv'
  BY CreatedInvStep
<1>3. QED
  BY <1>1, <1>2, CreatedInvReads, CreatedInvInit, TInvInit, TInvStep, ProductInvInit,
     ProductInvStep, PromiseInvInit, PTL DEF Spec

(***************************************************************************)
(* NothingLeftBehind, when only merging can fail.  A request gives up its  *)
(* row only after the row is final or gone, and its bytes with it.         *)
(***************************************************************************)
NobodyCut == \A r \in Request : ~req[r].cut
UndoneIsGone == \A r \in Request : At(r, "undoDisk") => row[req[r].fid] = "gone"
CleansFinal == \A r \in Request : req[r].pc \in Cleaning => row[req[r].fid] = "final"

\* A .merging file is being written, or about to be renamed.
Merges(r, f) == req[r].fid = f /\ req[r].pc \in {"merge", "publish"}
MergingIsOwned == \A f \in FileId : merging[f] => \E r \in Request : Merges(r, f)

LeftInv == /\ OneWorker /\ NobodyCut /\ UndoneIsGone /\ CleansFinal
           /\ MergingIsOwned /\ NothingLeftBehind

LEMMA LeftInvInit == Init => LeftInv
  BY DEF Init, LeftInv, OneWorker, NobodyCut, UndoneIsGone, CleansFinal, NothingLeftBehind,
     MergingIsOwned, NoRequest, OwnSteps, Cleaning

\* Then every statement succeeds.
LEMMA NothingFails ==
  ASSUME Faults \subseteq {"io"}, NobodyCut, NEW r \in Request, NEW o \in Outcomes(r)
  PROVE  o = "ok"
  BY DEF Outcomes, NobodyCut

LEMMA NobodyCutStep ==
  Faults \subseteq {"io"} /\ TInv /\ NobodyCut /\ [Next]_vars => NobodyCut'
<1> SUFFICES ASSUME Faults \subseteq {"io"}, TInv, NobodyCut, [Next]_vars PROVE NobodyCut'
  OBVIOUS
<1>1. ASSUME NEW r \in Request, \A q \in Request \ {r} : req'[q] = req[q],
             req'[r].cut => req[r].cut
      PROVE  NobodyCut'
  BY <1>1 DEF NobodyCut
<1>2. ASSUME NEW r \in Request, Quiet(r) PROVE NobodyCut'
  BY <1>1, <1>2, QuietMoves, QuietContinues DEF Moves, KeepsRow, Continues
<1>3. ASSUME NEW r \in Request, NEW f \in FileId, NEW o \in Outcome,
             CompletePlace(r, f, o) PROVE NobodyCut'
  BY <1>1, <1>3, PlaceTakes, PlaceContinues
<1>4. ASSUME NEW r \in Request, NEW o \in Outcome,
             CompleteFinishSession(r, o) \/ UndoRow(r, o) \/ CancelRow(r, o)
      PROVE  NobodyCut'
  BY <1>1, <1>4, FinishSessionKeeps, FinishMoves, WriterContinues DEF Moves, KeepsRow
<1>5. ASSUME NEW r \in Request, NEW o \in Outcome, CompleteFinishFile(r, o) PROVE NobodyCut'
  BY <1>1, <1>5, FinishMoves, FinishFileTurns DEF Moves, KeepsRow
<1>6. CASE Crash
  BY <1>6 DEF Crash
<1>7. CASE (\E s \in Session : InitSession(s)) \/ UNCHANGED vars
  BY <1>7 DEF InitSession, vars, NobodyCut
<1>8. QED
  BY <1>2, <1>3, <1>4, <1>5, <1>6, <1>7 DEF Next, Proceed, Quiet

\* Rows that a request is done with, or undoes, are written by no other.
LEMMA EndsStep ==
  ASSUME Faults \subseteq {"io"}, TInv, ProductInv, OneWorker, NobodyCut,
         UndoneIsGone, CleansFinal, [Next]_vars
  PROVE  UndoneIsGone' /\ CleansFinal'
<1> USE DEF TInv
<1> DEFINE Ends == Cleaning \cup {"undoDisk"}
<1>0. \A q \in Request : req[q].pc \in Ends =>
        req[q].pc \in OwnSteps /\ req[q].fid \in FileId /\ row[req[q].fid] # "free"
  BY DEF ProductInv, WorkersTied, WorksOn, Cleaning, OwnSteps
<1>1. ASSUME NEW r \in Request, KeepsRow(r),
             \A q \in Request : req[q].pc \in Ends => row'[req[q].fid] = row[req[q].fid],
             req'[r].pc \in Cleaning =>
               req[r].pc \in Cleaning \/ row'[req'[r].fid] = "final",
             req'[r].pc = "undoDisk" =>
               req[r].pc = "undoDisk" \/ row'[req'[r].fid] = "gone"
      PROVE  UndoneIsGone' /\ CleansFinal'
  <2>1. \A q \in Request : req'[q].pc \in Ends /\ req[q].pc \in Ends => req'[q].fid = req[q].fid
    BY <1>1 DEF KeepsRow, Cleaning, OwnSteps
  <2>2. QED
    BY <1>1, <2>1 DEF KeepsRow, UndoneIsGone, CleansFinal
<1>2. ASSUME NEW r \in Request, Quiet(r) PROVE UndoneIsGone' /\ CleansFinal'
  BY <1>1, <1>2, QuietMoves, QuietContinues DEF Moves, Continues
<1>3. ASSUME NEW r \in Request, NEW f \in FileId, NEW o \in Outcome,
             CompletePlace(r, f, o) PROVE UndoneIsGone' /\ CleansFinal'
  <2>1. req'[r].pc \notin Ends /\ \A q \in Request \ {r} : req'[q] = req[q]
    BY <1>3, PlaceTakes, PlaceContinues
  <2>2. \A g \in FileId : row[g] # "free" => row'[g] = row[g]
    BY <1>3, PlaceTakes
  <2>3. \A q \in Request : req'[q].pc \in Ends =>
          req[q].pc \in Ends /\ req'[q] = req[q] /\ row'[req[q].fid] = row[req[q].fid]
    BY <1>0, <2>1, <2>2
  <2>4. QED
    BY <2>3 DEF UndoneIsGone, CleansFinal
<1>4. ASSUME NEW r \in Request, NEW o \in Outcome,
             CompleteFinishSession(r, o) \/ CancelRow(r, o)
      PROVE  UndoneIsGone' /\ CleansFinal'
  <2>1. KeepsRow(r) /\ row' = row
    BY <1>4, FinishSessionKeeps, FinishMoves DEF Moves, CancelRow
  <2>2. req'[r].pc # "undoDisk"
    BY <1>4 DEF CompleteFinishSession, CancelRow, ReqOK, ReqRecord, NoRequest
  <2>3. QED
    BY <1>1, <1>4, <2>1, <2>2, WriterContinues
<1>5. ASSUME NEW r \in Request, NEW o \in Outcome, CompleteFinishFile(r, o) \/ UndoRow(r, o)
      PROVE  UndoneIsGone' /\ CleansFinal'
  <2>1. KeepsRow(r) /\ req[r].pc \in OwnSteps /\ req[r].pc \notin Ends
    BY <1>5, FinishMoves DEF Moves, CompleteFinishFile, UndoRow, OwnSteps, Cleaning
  <2>2. \A g \in FileId : g # req[r].fid => row'[g] = row[g]
    BY <1>5 DEF CompleteFinishFile, UndoRow, TypeOK
  <2>3. \A q \in Request : req[q].pc \in Ends => row'[req[q].fid] = row[req[q].fid]
    BY <1>0, <2>1, <2>2 DEF OneWorker
  <2>4. req[r].fid \in FileId
    BY <2>1 DEF ProductInv, WorkersTied, WorksOn
  <2>5. o = "ok"
    BY <1>5, NothingFails DEF CompleteFinishFile, UndoRow
  <2>6. CASE CompleteFinishFile(r, o)
    BY <1>1, <2>1, <2>3, <2>4, <2>5, <2>6, FinishFileTurns DEF SameFile
  <2>7. CASE UndoRow(r, o)
    <3>1. row'[req[r].fid] = "gone" /\ req'[r].fid = req[r].fid
      BY <2>4, <2>5, <2>7 DEF UndoRow, TypeOK, ReqOK, ReqRecord
    <3>2. QED
      BY <1>1, <2>1, <2>3, <2>7, <3>1, WriterContinues
  <2>8. QED
    BY <1>5, <2>6, <2>7
<1>6. CASE Crash
  BY <1>6 DEF Crash
<1>7. CASE (\E s \in Session : InitSession(s)) \/ UNCHANGED vars
  BY <1>7 DEF InitSession, vars, UndoneIsGone, CleansFinal
<1>8. QED
  BY <1>2, <1>3, <1>4, <1>5, <1>6, <1>7 DEF Next, Proceed, Quiet

\* A request that works on a row keeps it until its last step.
LEMMA QuietKeepsOwn ==
  ASSUME TInv, NEW r \in Request, Quiet(r), req[r].pc \in OwnSteps
  PROVE  \/ req'[r].pc \in OwnSteps /\ req'[r].fid = req[r].fid
         \/ UndoDisk(r) \/ At(r, "cleanRows")
<1> USE DEF TInv
<1>1. ASSUME NEW p \in OwnSteps, Goto(r, p)
      PROVE  req'[r].pc \in OwnSteps /\ req'[r].fid = req[r].fid
  BY <1>1 DEF ReqOK, ReqRecord
<1>2. CASE Disconnect(r)
  BY <1>2 DEF Disconnect, ReqOK, ReqRecord
<1>3. CASE MergeFails(r) \/ CompletePublish(r) \/ CompleteCleanDisk(r)
  <2>1. Goto(r, "undoRow") \/ Goto(r, "finishSession") \/ Goto(r, "cleanRows")
    BY <1>3 DEF MergeFails, CompletePublish, CompleteCleanDisk
  <2>2. QED
    BY <1>1, <2>1 DEF OwnSteps
<1>4. CASE CompleteMerge(r)
  <2>1. CASE Goto(r, "undoRow")
    BY <1>1, <2>1 DEF OwnSteps
  <2>2. CASE ~Goto(r, "undoRow")
    BY <1>4, <2>2 DEF CompleteMerge, ReqOK, ReqRecord, OwnSteps
  <2>3. QED
    BY <2>1, <2>2
<1>5. ASSUME NEW o \in Outcome, CompleteCleanRows(r, o) PROVE At(r, "cleanRows")
  BY <1>5 DEF CompleteCleanRows
<1>6. ~Ask(r) /\ ~GiveUp(r) /\ ~PutDisk(r) /\ ~PutDrop(r) /\ ~CancelDisk(r)
  BY DEF Ask, PutBegin, CompleteAgain, CompleteBegin, CancelBegin, GiveUp, PutDisk, PutDrop,
     CancelDisk, OwnSteps
<1>7. ~Reread(r) /\ ~CompleteList(r) /\ ~CompleteExist(r) /\ ~CompleteVerify(r)
  BY DEF Reread, CompleteList, CompleteExist, CompleteVerify, OwnSteps
<1>8. \A o \in Outcome : ~PutRow(r, o)
  BY DEF PutRow, OwnSteps
<1>9. QED
  BY <1>2, <1>3, <1>4, <1>5, <1>6, <1>7, <1>8 DEF Quiet

\* Only MergeTo makes a .merging file, and it leaves none behind.
LEMMA MergingStep ==
  ASSUME Faults \subseteq {"io"}, TInv, MergingIsOwned, [Next]_vars
  PROVE  MergingIsOwned'
<1> USE DEF TInv
<1>1. ASSUME NEW r \in Request, \A q \in Request \ {r} : req'[q] = req[q],
             \A f \in FileId : merging'[f] => Merges(r, f)' \/ (merging[f] /\ ~Merges(r, f))
      PROVE  MergingIsOwned'
  <2>1. ASSUME NEW f \in FileId, merging[f], ~Merges(r, f) PROVE \E q \in Request : Merges(q, f)'
    <3>1. PICK q \in Request : Merges(q, f)
      BY <2>1 DEF MergingIsOwned
    <3>2. req'[q] = req[q]
      BY <1>1, <2>1, <3>1
    <3>3. Merges(q, f)'
      BY <3>1, <3>2 DEF Merges
    <3>4. QED
      BY <3>3
  <2>2. QED
    BY <1>1, <2>1 DEF MergingIsOwned
<1>2. ASSUME NEW r \in Request, \A q \in Request \ {r} : req'[q] = req[q],
             merging' = merging, ~(req[r].pc \in {"merge", "publish"})
      PROVE  MergingIsOwned'
  BY <1>1, <1>2 DEF Merges
<1>3. ASSUME NEW r \in Request, Disconnect(r) PROVE MergingIsOwned'
  BY <1>3 DEF Disconnect
<1>4. ASSUME NEW r \in Request, MergeFails(r) \/ CompletePublish(r) PROVE MergingIsOwned'
  <2>1. \A f \in FileId : merging'[f] => merging[f] /\ f # req[r].fid
    BY <1>4 DEF MergeFails, CompletePublish, TypeOK
  <2>2. \A q \in Request \ {r} : req'[q] = req[q]
    BY <1>4 DEF MergeFails, CompletePublish, ReqOK
  <2>3. QED
    BY <1>1, <2>1, <2>2 DEF Merges
<1>5. ASSUME NEW r \in Request, CompleteMerge(r) PROVE MergingIsOwned'
  <2>1. \A f \in FileId : merging'[f] => f = req[r].fid \/ merging[f]
    BY <1>5 DEF CompleteMerge, TypeOK
  <2>2. \A q \in Request \ {r} : req'[q] = req[q]
    BY <1>5 DEF CompleteMerge, ReqOK
  <2>3. CASE chunkFile[req[r].sess][req[r].k] = "none"
    <3>1. \A f \in FileId : merging'[f] => merging[f] /\ f # req[r].fid
      BY <1>5, <2>3 DEF CompleteMerge, TypeOK
    <3>2. QED
      BY <1>1, <2>2, <3>1 DEF Merges
  <2>4. CASE chunkFile[req[r].sess][req[r].k] # "none"
    <3>1. req'[r].pc \in {"merge", "publish"} /\ req'[r].fid = req[r].fid
      BY <1>5, <2>4 DEF CompleteMerge, ReqOK, ReqRecord
    <3>2. QED
      BY <1>1, <2>1, <2>2, <3>1 DEF Merges
  <2>5. QED
    BY <2>3, <2>4
<1>6. ASSUME NEW r \in Request, Quiet(r),
             ~(Disconnect(r) \/ MergeFails(r) \/ CompletePublish(r) \/ CompleteMerge(r))
      PROVE  MergingIsOwned'
  <2>1. \A q \in Request \ {r} : req'[q] = req[q]
    BY <1>6, QuietMoves DEF Moves, KeepsRow
  <2>2. merging' = merging /\ ~(req[r].pc \in {"merge", "publish"})
    <3>1. CASE Ask(r)
      BY <3>1 DEF Ask, PutBegin, CompleteAgain, CompleteBegin, CancelBegin
    <3>2. CASE GiveUp(r) \/ PutDisk(r) \/ PutDrop(r) \/ CancelDisk(r) \/ Reread(r)
      BY <3>2 DEF GiveUp, PutDisk, PutDrop, CancelDisk, Reread
    <3>3. CASE CompleteList(r) \/ CompleteExist(r) \/ CompleteVerify(r)
      BY <3>3 DEF CompleteList, CompleteExist, CompleteVerify
    <3>4. CASE CompleteCleanDisk(r) \/ UndoDisk(r)
      BY <3>4 DEF CompleteCleanDisk, UndoDisk
    <3>5. CASE \E o \in Outcome : PutRow(r, o) \/ CompleteCleanRows(r, o)
      BY <3>5 DEF PutRow, CompleteCleanRows
    <3>6. QED
      BY <1>6, <3>1, <3>2, <3>3, <3>4, <3>5 DEF Quiet
  <2>3. QED
    BY <1>2, <2>1, <2>2
<1>7. ASSUME NEW r \in Request, NEW f \in FileId, NEW o \in Outcome, CompletePlace(r, f, o)
      PROVE  MergingIsOwned'
  BY <1>2, <1>7, PlaceTakes DEF CompletePlace
<1>8. ASSUME NEW r \in Request, NEW o \in Outcome,
             CompleteFinishSession(r, o) \/ CompleteFinishFile(r, o) \/ UndoRow(r, o)
               \/ CancelRow(r, o)
      PROVE  MergingIsOwned'
  <2>1. \A q \in Request \ {r} : req'[q] = req[q]
    BY <1>8, FinishSessionKeeps, FinishMoves DEF Moves, KeepsRow
  <2>2. merging' = merging /\ ~(req[r].pc \in {"merge", "publish"})
    BY <1>8 DEF CompleteFinishSession, CompleteFinishFile, UndoRow, CancelRow
  <2>3. QED
    BY <1>2, <2>1, <2>2
<1>9. CASE Crash
  BY <1>9 DEF Crash
<1>10. CASE (\E s \in Session : InitSession(s)) \/ UNCHANGED vars
  BY <1>10 DEF InitSession, vars, MergingIsOwned, Merges
<1>11. QED
  BY <1>3, <1>4, <1>5, <1>6, <1>7, <1>8, <1>9, <1>10 DEF Next, Proceed, Quiet

LEMMA NothingLeftStep ==
  ASSUME Faults \subseteq {"io"}, TInv, ProductInv, LeftInv, MergingIsOwned', [Next]_vars
  PROVE  NothingLeftBehind'
<1> USE DEF TInv
<1> DEFINE Own(q, f) == req[q].fid = f /\ req[q].pc \in OwnSteps
           Left(f) == row[f] = "pending" \/ (disk[f] # NoBytes /\ row[f] # "final")
<1>0. \A f \in FileId : Left(f) => \E q \in Request : Own(q, f)
  BY DEF LeftInv, NothingLeftBehind
<1>m. \A f \in FileId : merging'[f] => \E q \in Request : Own(q, f)'
  BY DEF MergingIsOwned, Merges, OwnSteps
<1>g. SUFFICES ASSUME NEW f \in FileId, Left(f)' PROVE \E q \in Request : Own(q, f)'
  BY <1>m DEF NothingLeftBehind
<1>1. ASSUME NEW r \in Request, \A q \in Request \ {r} : req'[q] = req[q],
             Own(r, f) => Own(r, f)' \/ ~Left(f)', ~Left(f) => Own(r, f)' \/ ~Left(f)'
      PROVE  \E q \in Request : Own(q, f)'
  <2>1. CASE Own(r, f)'
    BY <2>1
  <2>2. CASE ~Own(r, f)'
    <3>1. PICK q \in Request : Own(q, f)
      BY <1>0, <1>1, <1>g, <2>2
    <3>2. q # r
      BY <1>1, <1>g, <2>2, <3>1
    <3>3. Own(q, f)'
      BY <1>1, <3>1, <3>2
    <3>4. QED
      BY <3>3
  <2>3. QED
    BY <2>1, <2>2
<1>2. ASSUME NEW r \in Request, Quiet(r) PROVE \E q \in Request : Own(q, f)'
  <2>1. row' = row /\ \A q \in Request \ {r} : req'[q] = req[q]
    BY <1>2, QuietMoves DEF Moves, KeepsRow
  <2>2. CASE disk'[f] = disk[f]
    <3>1. Left(f)
      BY <1>g, <2>1, <2>2
    <3>2. ASSUME Own(r, f), ~Own(r, f)' PROVE ~Left(f)'
      <4>1. UndoDisk(r) \/ At(r, "cleanRows")
        BY <1>2, <3>2, QuietKeepsOwn
      <4>2. CASE At(r, "cleanRows")
        BY <2>1, <3>2, <4>2 DEF LeftInv, CleansFinal, Cleaning
      <4>3. CASE UndoDisk(r)
        <5>1. row[f] = "gone" /\ disk'[f] = NoBytes
          BY <3>2, <4>3 DEF LeftInv, UndoneIsGone, UndoDisk, TypeOK
        <5>2. QED
          BY <2>1, <5>1
      <4>4. QED
        BY <4>1, <4>2, <4>3
    <3>3. QED
      BY <1>1, <2>1, <3>1, <3>2
  <2>3. CASE disk'[f] # disk[f]
    <3>1. req[r].pc \in Working /\ f = req[r].fid
      BY <1>2, <2>3, DiskByWorker
    <3>2. CASE UndoDisk(r)
      <4>1. row[f] = "gone" /\ disk'[f] = NoBytes
        BY <3>1, <3>2 DEF LeftInv, UndoneIsGone, UndoDisk, TypeOK
      <4>2. QED
        BY <1>g, <2>1, <4>1
    <3>3. CASE ~UndoDisk(r)
      <4>1. Own(r, f)'
        BY <1>2, <3>1, <3>3, QuietKeepsOwn DEF Working, OwnSteps
      <4>2. QED
        BY <4>1
    <3>4. QED
      BY <3>2, <3>3
  <2>4. QED
    BY <2>2, <2>3
<1>3. ASSUME NEW r \in Request, NEW g \in FileId, NEW o \in Outcome,
             CompletePlace(r, g, o) PROVE \E q \in Request : Own(q, f)'
  <2>1. /\ \A q \in Request \ {r} : req'[q] = req[q]
        /\ disk' = disk /\ ~Own(r, f)
    BY <1>3, PlaceTakes DEF CompletePlace, OwnSteps
  <2>2. row'[f] = row[f] \/ Own(r, f)'
    <3>1. o = "ok"
      BY <1>3, NothingFails DEF CompletePlace, LeftInv
    <3>2. CASE PlaceTaken(req[r].sess)
      BY <1>3, <3>2 DEF CompletePlace
    <3>3. CASE ~PlaceTaken(req[r].sess)
      <4>1. req' = [req EXCEPT ![r].pc = "merge", ![r].fid = g]
        BY <1>3, <3>1, <3>3 DEF CompletePlace
      <4>2. req'[r].pc = "merge" /\ req'[r].fid = g
        BY <4>1 DEF ReqOK, ReqRecord
      <4>3. row'[f] # row[f] => f = g
        BY <1>3, PlaceTakes
      <4>4. QED
        BY <4>2, <4>3 DEF OwnSteps
    <3>4. QED
      BY <3>2, <3>3
  <2>3. QED
    BY <1>1, <1>g, <2>1, <2>2
<1>4. ASSUME NEW r \in Request, NEW o \in Outcome,
             CompleteFinishSession(r, o) \/ CompleteFinishFile(r, o) \/ UndoRow(r, o)
      PROVE  \E q \in Request : Own(q, f)'
  <2>1. /\ req'[r].pc \in OwnSteps /\ req'[r].fid = req[r].fid /\ req[r].pc \in OwnSteps
    <3>1. CASE CompleteFinishSession(r, o)
      BY <3>1 DEF CompleteFinishSession, ReqOK, ReqRecord, OwnSteps
    <3>2. CASE CompleteFinishFile(r, o)
      BY <3>2, FinishFileTurns DEF CompleteFinishFile, SameFile, OwnSteps
    <3>3. CASE UndoRow(r, o)
      BY <3>3 DEF UndoRow, ReqOK, ReqRecord, OwnSteps
    <3>4. QED
      BY <1>4, <3>1, <3>2, <3>3
  <2>2. f # req[r].fid => row'[f] = row[f] /\ disk'[f] = disk[f]
    BY <1>4 DEF CompleteFinishSession, CompleteFinishFile, UndoRow, TypeOK
  <2>3. \A q \in Request \ {r} : req'[q] = req[q]
    BY <1>4, FinishSessionKeeps, FinishMoves DEF Moves, KeepsRow
  <2>4. QED
    BY <1>1, <1>g, <2>1, <2>2, <2>3
<1>5. ASSUME NEW r \in Request, NEW o \in Outcome, CancelRow(r, o)
      PROVE  \E q \in Request : Own(q, f)'
  <2>1. UNCHANGED <<row, disk>> /\ ~Own(r, f)
    BY <1>5 DEF CancelRow, OwnSteps
  <2>2. \A q \in Request \ {r} : req'[q] = req[q]
    BY <1>5, FinishMoves DEF Moves, KeepsRow
  <2>3. QED
    BY <1>1, <1>g, <2>1, <2>2
<1>6. CASE Crash
  BY <1>6 DEF Crash
<1>7. CASE (\E s \in Session : InitSession(s)) \/ UNCHANGED vars
  BY <1>0, <1>g, <1>7 DEF InitSession, vars
<1>8. QED
  BY <1>2, <1>3, <1>4, <1>5, <1>6, <1>7 DEF Next, Proceed, Quiet

\* A merge that fails and a request that loses the race to finish a session leave
\* neither a placeholder row nor merged bytes nor a .merging file, as long as only
\* merging can fail.
THEOREM NothingLeftHolds ==
  ASSUME Faults \subseteq {"io"} PROVE Spec => []NothingLeftBehind
<1>1. TInv /\ ProductInv /\ LeftInv /\ [Next]_vars => LeftInv'
  BY OneWorkerStep, NobodyCutStep, EndsStep, MergingStep, NothingLeftStep DEF LeftInv
<1>2. LeftInv => NothingLeftBehind
  BY DEF LeftInv
<1>3. QED
  BY <1>1, <1>2, LeftInvInit, TInvInit, TInvStep, ProductInvInit, ProductInvStep,
     PTL DEF Spec

(***************************************************************************)
(* UploadContract, whatever fails or is lost.  What Complete saw when it   *)
(* listed the records is still so at the compare-and-set, if the session   *)
(* is still open then: records of an open session are written again, never *)
(* taken away.                                                             *)
(***************************************************************************)
Listed == {"exist", "verify", "place", "merge", "publish", "finishSession"}

\* A request has a session that was opened; once Complete has listed the records of
\* an open one they are there; what is cleaned up after is not open.
KnowsSession(r) ==
  /\ ~Idle(r) => status[req[r].sess] # "unused"
  /\ req[r].pc \in Listed /\ status[req[r].sess] = "uploading" =>
       \A i \in Idx : chunkRow[req[r].sess][i] # "none"
  /\ req[r].pc \in Cleaning => status[req[r].sess] # "uploading"

UnusedIsEmpty == \A s \in Session : status[s] = "unused" => \A i \in Idx : chunkRow[s][i] = "none"

ContractInv == UnusedIsEmpty /\ \A r \in Request : KnowsSession(r)

\* Where a request comes from.
Follows(r) ==
  /\ req'[r].pc # "idle" =>
       (~Idle(r) /\ req'[r].sess = req[r].sess) \/ status[req'[r].sess] # "unused"
  /\ req'[r].pc \in Listed =>
       /\ req'[r].sess = req[r].sess
       /\ req[r].pc \in Listed \/ (At(r, "list") /\ AllRecorded(req[r].sess))
  /\ req'[r].pc \in Cleaning =>
       req'[r].sess = req[r].sess /\ req[r].pc \in Cleaning \cup {"finishFile"}

LEMMA ContractInvInit == Init => ContractInv
  BY DEF Init, ContractInv, KnowsSession, UnusedIsEmpty, NoChunkRows, NoRequest, Listed, Cleaning

LEMMA FailFollows ==
  ASSUME ReqOK, NEW r \in Request, NEW a, NEW f, Answer(r, a, f) PROVE Follows(r)
<1>1. req'[r].pc = "idle"
  BY DEF ReqOK, NoRequest
<1>2. QED
  BY <1>1 DEF Follows, Listed, Cleaning

LEMMA GotoFollows ==
  ASSUME ReqOK, NEW r \in Request, NEW p, ~Idle(r), Goto(r, p),
         p \in Listed => req[r].pc \in Listed \/ (At(r, "list") /\ AllRecorded(req[r].sess)),
         p \in Cleaning => req[r].pc \in Cleaning \cup {"finishFile"}
  PROVE  Follows(r)
<1>1. req'[r].pc = p /\ req'[r].sess = req[r].sess
  BY DEF ReqOK, ReqRecord
<1>2. QED
  BY <1>1 DEF Follows

LEMMA ExistingFollows ==
  ASSUME ReqOK, NEW r \in Request, NEW s \in Session, ExistingFile(r, s) PROVE Follows(r)
<1>1. NoRequest.pc = "idle"
      /\ \A f : [NoRequest EXCEPT !.sess = s, !.fid = f, !.reply = "existing"].pc = "idle"
  BY DEF NoRequest
<1>2. req'[r].pc = "idle"
  BY <1>1 DEF ExistingFile, ReqOK
<1>3. QED
  BY <1>2 DEF Follows, Listed, Cleaning

LEMMA AskFollows ==
  ASSUME ReqOK, NEW r \in Request, Ask(r) PROVE Follows(r)
<1>1. ASSUME NEW s \in Session, NEW i \in Idx, NEW b \in Bodies, PutBegin(r, s, i, b)
      PROVE  req'[r].pc = "putDisk" /\ status[req'[r].sess] # "unused"
  BY <1>1 DEF PutBegin, ReqOK, NoRequest
<1>2. ASSUME NEW s \in Session, CompleteBegin(r, s)
      PROVE  req'[r].pc = "list" /\ status[req'[r].sess] # "unused"
  BY <1>2 DEF CompleteBegin, ReqOK, NoRequest
<1>3. ASSUME NEW s \in Session, CancelBegin(r, s)
      PROVE  req'[r].pc = "cancelDisk" /\ status[req'[r].sess] # "unused"
  BY <1>3 DEF CancelBegin, ReqOK, NoRequest
<1>4. ASSUME NEW s \in Session, CompleteAgain(r, s) PROVE Follows(r)
  BY <1>4, ExistingFollows DEF CompleteAgain
<1>5. QED
  BY <1>1, <1>2, <1>3, <1>4 DEF Ask, Follows, Listed, Cleaning

LEMMA QuietFollows ==
  ASSUME TInv, NEW r \in Request, Quiet(r) PROVE Follows(r)
<1> USE DEF TInv
<1>1. CASE Ask(r)
  BY <1>1, AskFollows
<1>2. CASE Disconnect(r)
  <2>1. req'[r].pc = req[r].pc /\ req'[r].sess = req[r].sess /\ ~Idle(r)
    BY <1>2 DEF Disconnect, ReqOK, ReqRecord
  <2>2. QED
    BY <2>1 DEF Follows
<1>3. CASE MergeFails(r) \/ PutDisk(r) \/ CompletePublish(r) \/ CompleteCleanDisk(r)
  BY <1>3, GotoFollows
  DEF MergeFails, PutDisk, CompletePublish, CompleteCleanDisk, Listed, Cleaning
<1>4. CASE GiveUp(r) \/ PutDrop(r)
  BY <1>4, FailFollows DEF GiveUp, PutDrop
<1>5. CASE CancelDisk(r) \/ UndoDisk(r)
  BY <1>5, GotoFollows, FailFollows DEF CancelDisk, UndoDisk, Listed, Cleaning
<1>6. CASE Reread(r)
  BY <1>6, ExistingFollows, FailFollows DEF Reread, ReqOK
<1>7. CASE CompleteList(r)
  BY <1>7, GotoFollows, FailFollows DEF CompleteList, Listed, Cleaning
<1>8. CASE CompleteExist(r)
  BY <1>8, GotoFollows, FailFollows DEF CompleteExist, Listed, Cleaning
<1>9. CASE CompleteVerify(r)
  <2> DEFINE i == req[r].k
             read == [req[r].buf EXCEPT ![i] = chunkFile[req[r].sess][i]]
             p == [req[r] EXCEPT !.pc = "place", !.k = 0, !.buf = NoBytes]
             v == [req[r] EXCEPT !.k = i + 1, !.buf = read]
  <2>1. p.pc = "place" /\ v.pc = "verify" /\ p.sess = req[r].sess /\ v.sess = req[r].sess
    BY <1>9 DEF CompleteVerify, ReqOK, ReqRecord
  <2>2. CASE req' = [req EXCEPT ![r] = p] \/ req' = [req EXCEPT ![r] = v]
    <3>1. req'[r] \in {p, v}
      BY <2>2 DEF ReqOK
    <3>2. QED
      BY <1>9, <2>1, <3>1 DEF CompleteVerify, Follows, Listed, Cleaning
  <2>3. QED
    BY <1>9, <2>2, FailFollows DEF CompleteVerify
<1>10. CASE CompleteMerge(r)
  <2>1. CASE Goto(r, "undoRow")
    BY <1>10, <2>1, GotoFollows DEF CompleteMerge, Listed, Cleaning
  <2>2. CASE ~Goto(r, "undoRow")
    <3>1. req'[r].pc \in {"merge", "publish"} /\ req'[r].sess = req[r].sess
      BY <1>10, <2>2 DEF CompleteMerge, ReqOK, ReqRecord
    <3>2. QED
      BY <1>10, <3>1 DEF CompleteMerge, Follows, Listed, Cleaning
  <2>3. QED
    BY <2>1, <2>2
<1>11. ASSUME NEW o \in Outcome, PutRow(r, o) \/ CompleteCleanRows(r, o) PROVE Follows(r)
  BY <1>11, FailFollows DEF PutRow, CompleteCleanRows
<1>12. QED
  BY <1>1, <1>2, <1>3, <1>4, <1>5, <1>6, <1>7, <1>8, <1>9, <1>10, <1>11 DEF Quiet

LEMMA NextFollows ==
  ASSUME TInv, [Next]_vars, NEW q \in Request PROVE Follows(q)
<1> USE DEF TInv
<1>1. ASSUME req'[q] = req[q] PROVE Follows(q)
  BY <1>1 DEF Follows
<1>2. ASSUME NEW r \in Request, \A p \in Request \ {r} : req'[p] = req[p], Follows(r)
      PROVE  Follows(q)
  BY <1>1, <1>2
<1>3. ASSUME NEW r \in Request, Quiet(r) PROVE Follows(q)
  BY <1>2, <1>3, QuietFollows, QuietMoves DEF Moves, KeepsRow
<1>4. ASSUME NEW r \in Request, NEW f \in FileId, NEW o \in Outcome,
             CompletePlace(r, f, o) PROVE Follows(q)
  <2>1. CASE Fail(r) \/ Answer(r, "conflict", NoFile)
    <3>1. Follows(r)
      <4>1. CASE Fail(r)
        BY <4>1, FailFollows
      <4>2. CASE Answer(r, "conflict", NoFile)
        BY <4>2, FailFollows
      <4>3. QED
        BY <2>1, <4>1, <4>2
    <3>2. QED
      BY <1>2, <1>4, <3>1, PlaceTakes
  <2>2. CASE ~(Fail(r) \/ Answer(r, "conflict", NoFile))
    <3>1. req' = [req EXCEPT ![r].pc = "merge", ![r].fid = f] /\ req[r].pc = "place"
      BY <1>4, <2>2 DEF CompletePlace
    <3>2. req'[r].pc = "merge" /\ req'[r].sess = req[r].sess
      BY <3>1 DEF ReqOK, ReqRecord
    <3>3. Follows(r)
      BY <3>1, <3>2 DEF Follows, Listed, Cleaning
    <3>4. QED
      BY <1>2, <1>4, <3>3, PlaceTakes
  <2>3. QED
    BY <2>1, <2>2
<1>5. ASSUME NEW r \in Request, NEW o \in Outcome, CompleteFinishSession(r, o) PROVE Follows(q)
  <2>1. /\ req'[r].pc \in {"finishFile", "undoRow"} /\ req'[r].sess = req[r].sess
        /\ req[r].pc = "finishSession"
    BY <1>5 DEF CompleteFinishSession, ReqOK, ReqRecord
  <2>2. Follows(r)
    BY <2>1 DEF Follows, Listed, Cleaning
  <2>3. QED
    BY <1>2, <1>5, <2>2, FinishSessionKeeps DEF KeepsRow
<1>6. ASSUME NEW r \in Request, NEW o \in Outcome,
             CompleteFinishFile(r, o) \/ UndoRow(r, o) \/ CancelRow(r, o)
      PROVE  Follows(q)
  <2>1. Follows(r)
    <3>1. CASE CompleteFinishFile(r, o)
      BY <3>1, GotoFollows DEF CompleteFinishFile, Listed, Cleaning
    <3>2. CASE UndoRow(r, o)
      BY <3>2, GotoFollows DEF UndoRow, Listed, Cleaning
    <3>3. CASE CancelRow(r, o)
      BY <3>3, FailFollows DEF CancelRow
    <3>4. QED
      BY <1>6, <3>1, <3>2, <3>3
  <2>2. QED
    BY <1>2, <1>6, <2>1, FinishMoves DEF Moves, KeepsRow
<1>7. CASE Crash
  <2>1. req'[q].pc = "idle"
    BY <1>7 DEF Crash, NoRequest
  <2>2. QED
    BY <2>1 DEF Follows, Listed, Cleaning
<1>8. CASE req' = req
  BY <1>1, <1>8
<1>9. QED
  BY <1>3, <1>4, <1>5, <1>6, <1>7, <1>8 DEF Next, Proceed, Quiet, InitSession, vars

(***************************************************************************)
(* What a step makes of the sessions and their records.                    *)
(***************************************************************************)
OpensSession(s) ==
  /\ status[s] = "unused" /\ status' = [status EXCEPT ![s] = "uploading"]
  /\ UNCHANGED <<fileOf, chunkRow>>

RecordsChunk(s, k) ==
  /\ status[s] # "unused" /\ UNCHANGED <<status, fileOf>>
  /\ \E size \in {"short", "full", "wide"} : chunkRow' = [chunkRow EXCEPT ![s][k] = size]

DropsRecords(s) ==
  /\ status[s] \notin {"unused", "uploading"} /\ UNCHANGED <<status, fileOf>>
  /\ chunkRow' = [chunkRow EXCEPT ![s] = NoChunkRows]

DecidesSession(s) ==
  /\ status[s] = "uploading" /\ status' = [status EXCEPT ![s] = "done"]
  /\ \E f \in FileId : fileOf' = [fileOf EXCEPT ![s] = f]
  /\ \A i \in Idx : chunkRow[s][i] # "none"
  /\ UNCHANGED chunkRow

EndsSession(s) ==
  /\ status[s] # "unused" /\ UNCHANGED fileOf
  /\ \E as \in {"aborted", "gone"} : status' = [status EXCEPT ![s] = as]
  /\ chunkRow' = [chunkRow EXCEPT ![s] = NoChunkRows]

SessionWrites ==
  \/ UNCHANGED <<status, fileOf, chunkRow>>
  \/ \E s \in Session : \/ OpensSession(s) \/ DropsRecords(s) \/ DecidesSession(s)
                        \/ EndsSession(s) \/ \E k \in Idx : RecordsChunk(s, k)

\* The quiet steps that leave the records of chunks alone as well.
LEMMA RecordsKept ==
  ASSUME TInv, NEW r \in Request, Quiet(r),
         \A o \in Outcome : ~PutRow(r, o) /\ ~CompleteCleanRows(r, o)
  PROVE  chunkRow' = chunkRow
<1>1. CASE Ask(r)
  BY <1>1, AskMoves DEF TInv
<1>2. CASE ~Ask(r)
  BY <1>2 DEF Quiet, Disconnect, MergeFails, GiveUp, PutDisk, PutDrop, CancelDisk, Reread,
     CompleteList, CompleteExist, CompleteVerify, CompleteMerge, CompletePublish,
     CompleteCleanDisk, UndoDisk
<1>3. QED
  BY <1>1, <1>2

LEMMA NextWrites ==
  ASSUME TInv, ProductInv, ContractInv, [Next]_vars PROVE SessionWrites
<1> USE DEF TInv
<1>1. ASSUME NEW s \in Session, InitSession(s) PROVE OpensSession(s)
  BY <1>1 DEF InitSession, OpensSession
<1>2. ASSUME NEW r \in Request, NEW o \in Outcome, PutRow(r, o) PROVE SessionWrites
  <2>1. PICK s \in Session, k \in Idx : s = req[r].sess /\ k = req[r].k
    BY <1>2 DEF PutRow, ReqOK
  <2>2. PICK size \in {"short", "full", "wide"} : size = SizeOf(req[r].body)
    BY DEF SizeOf
  <2>3. status[s] # "unused" /\ UNCHANGED <<status, fileOf>>
    BY <1>2, <2>1 DEF PutRow, ContractInv, KnowsSession
  <2>4. chunkRow' = chunkRow \/ chunkRow' = [chunkRow EXCEPT ![s][k] = size]
    BY <1>2, <2>1, <2>2 DEF PutRow
  <2>5. QED
    BY <2>3, <2>4 DEF SessionWrites, RecordsChunk
<1>3. ASSUME NEW r \in Request, NEW o \in Outcome, CompleteCleanRows(r, o) PROVE SessionWrites
  <2>1. PICK s \in Session : s = req[r].sess
    BY <1>3 DEF CompleteCleanRows, ReqOK
  <2>2. status[s] \notin {"unused", "uploading"} /\ UNCHANGED <<status, fileOf>>
    BY <1>3, <2>1 DEF CompleteCleanRows, ContractInv, KnowsSession, Cleaning
  <2>3. chunkRow' = chunkRow \/ chunkRow' = [chunkRow EXCEPT ![s] = NoChunkRows]
    BY <1>3, <2>1 DEF CompleteCleanRows
  <2>4. QED
    BY <2>2, <2>3 DEF SessionWrites, DropsRecords
<1>4. ASSUME NEW r \in Request, Quiet(r) PROVE SessionWrites
  <2>1. UNCHANGED <<status, fileOf>>
    BY <1>4, QuietMoves
  <2>2. CASE \A o \in Outcome : ~PutRow(r, o) /\ ~CompleteCleanRows(r, o)
    BY <1>4, <2>1, <2>2, RecordsKept DEF SessionWrites
  <2>3. QED
    BY <1>2, <1>3, <2>2
<1>5. ASSUME NEW r \in Request, NEW o \in Outcome, CompleteFinishSession(r, o)
      PROVE  SessionWrites
  <2>1. PICK s \in Session, f \in FileId : s = req[r].sess /\ f = req[r].fid
    BY <1>5 DEF CompleteFinishSession, ReqOK, ProductInv, WorkersTied, WorksOn, OwnSteps
  <2>2. status[s] = "uploading" => \A i \in Idx : chunkRow[s][i] # "none"
    BY <1>5, <2>1 DEF CompleteFinishSession, ContractInv, KnowsSession, Listed
  <2>3. /\ chunkRow' = chunkRow
        /\ \/ UNCHANGED <<status, fileOf>>
           \/ /\ status[s] = "uploading" /\ status' = [status EXCEPT ![s] = "done"]
              /\ fileOf' = [fileOf EXCEPT ![s] = f]
    BY <1>5, <2>1 DEF CompleteFinishSession
  <2>4. QED
    BY <2>2, <2>3 DEF SessionWrites, DecidesSession
<1>6. ASSUME NEW r \in Request, NEW o \in Outcome, CancelRow(r, o) PROVE SessionWrites
  <2>1. PICK s \in Session : s = req[r].sess
    BY <1>6 DEF CancelRow, ReqOK
  <2>2. status[s] # "unused" /\ fileOf' = fileOf
    BY <1>6, <2>1 DEF CancelRow, ContractInv, KnowsSession
  <2>3. \/ UNCHANGED <<status, chunkRow>>
        \/ /\ status' = [status EXCEPT ![s] = "aborted"]
           /\ chunkRow' = [chunkRow EXCEPT ![s] = NoChunkRows]
    BY <1>6, <2>1 DEF CancelRow
  <2>4. QED
    BY <2>2, <2>3 DEF SessionWrites, EndsSession
<1>7. ASSUME NEW r \in Request, NEW f \in FileId, NEW o \in Outcome, CompletePlace(r, f, o)
      PROVE  UNCHANGED <<status, fileOf, chunkRow>>
  BY <1>7 DEF CompletePlace
<1>8. ASSUME NEW r \in Request, NEW o \in Outcome, CompleteFinishFile(r, o) \/ UndoRow(r, o)
      PROVE  UNCHANGED <<status, fileOf, chunkRow>>
  BY <1>8 DEF CompleteFinishFile, UndoRow
<1>9. CASE Crash \/ UNCHANGED vars
  BY <1>9 DEF Crash, vars, SessionWrites
<1>10. QED
  BY <1>1, <1>4, <1>5, <1>6, <1>7, <1>8, <1>9 DEF Next, Proceed, Quiet, SessionWrites

\* What was opened stays so, and only a new session becomes open.
LEMMA StatusMoves ==
  ASSUME TypeOK, SessionWrites, NEW s \in Session
  PROVE  /\ status[s] # "unused" => status'[s] # "unused"
         /\ status'[s] = "uploading" => status[s] \in {"unused", "uploading"}
         /\ status'[s] = "unused" => status[s] = "unused"
  BY DEF TypeOK, SessionWrites, OpensSession, RecordsChunk, DropsRecords, DecidesSession,
     EndsSession

\* The records of a session that stays open stay.
LEMMA RecordsStay ==
  ASSUME TypeOK, SessionWrites, NEW s \in Session, status[s] = "uploading",
         status'[s] = "uploading", NEW i \in Idx, chunkRow[s][i] # "none"
  PROVE  chunkRow'[s][i] # "none"
<1>1. ASSUME NEW t \in Session, NEW k \in Idx, RecordsChunk(t, k) PROVE chunkRow'[s][i] # "none"
  <2>1. PICK size \in {"short", "full", "wide"} : chunkRow' = [chunkRow EXCEPT ![t][k] = size]
    BY <1>1 DEF RecordsChunk
  <2>2. QED
    BY <2>1 DEF TypeOK
<1>2. ASSUME NEW t \in Session, DropsRecords(t) PROVE chunkRow'[s] = chunkRow[s]
  BY <1>2 DEF DropsRecords, TypeOK
<1>3. ASSUME NEW t \in Session, EndsSession(t) PROVE chunkRow'[s] = chunkRow[s]
  BY <1>3 DEF EndsSession, TypeOK
<1>4. QED
  BY <1>1, <1>2, <1>3 DEF SessionWrites, OpensSession, DecidesSession

LEMMA UnusedIsEmptyKept ==
  ASSUME TypeOK, SessionWrites, UnusedIsEmpty PROVE UnusedIsEmpty'
<1> SUFFICES ASSUME NEW s \in Session, status'[s] = "unused"
             PROVE  \A i \in Idx : chunkRow'[s][i] = "none"
  BY DEF UnusedIsEmpty
<1>1. status[s] = "unused"
  BY StatusMoves
<1>2. ASSUME NEW t \in Session, NEW k \in Idx, RecordsChunk(t, k) PROVE chunkRow'[s] = chunkRow[s]
  BY <1>1, <1>2 DEF RecordsChunk, TypeOK
<1>3. ASSUME NEW t \in Session, DropsRecords(t) \/ EndsSession(t) PROVE chunkRow'[s] = chunkRow[s]
  BY <1>1, <1>3 DEF DropsRecords, EndsSession, TypeOK
<1>4. QED
  BY <1>1, <1>2, <1>3 DEF SessionWrites, OpensSession, DecidesSession, UnusedIsEmpty

LEMMA ContractInvKept ==
  ASSUME TInv, ReqOK', ProductInv, ContractInv, SessionWrites, \A q \in Request : Follows(q)
  PROVE  ContractInv'
<1> USE DEF TInv
<1>1. UnusedIsEmpty'
  BY UnusedIsEmptyKept DEF ContractInv
<1>2. ASSUME NEW r \in Request PROVE KnowsSession(r)'
  <2>1. KnowsSession(r) /\ Follows(r)
    BY DEF ContractInv
  <2>2. req'[r].pc # "idle" => req'[r].sess \in Session
    BY DEF ReqOK
  <2>3. req'[r].pc # "idle" => status[req'[r].sess] # "unused"
    BY <2>1 DEF KnowsSession, Follows
  <2>4. req'[r].pc # "idle" => status'[req'[r].sess] # "unused"
    BY <2>2, <2>3, StatusMoves
  <2>5. ASSUME req'[r].pc \in Listed, status'[req'[r].sess] = "uploading", NEW i \in Idx
        PROVE  chunkRow'[req'[r].sess][i] # "none"
    <3>1. PICK s \in Session : s = req'[r].sess /\ s = req[r].sess
      BY <2>1, <2>2, <2>5 DEF Follows, Listed
    <3>2. status[s] = "uploading" /\ status'[s] = "uploading"
      BY <2>3, <2>5, <3>1, StatusMoves DEF Listed
    <3>3. chunkRow[s][i] # "none"
      BY <2>1, <2>5, <3>1, <3>2 DEF KnowsSession, Follows, AllRecorded
    <3>4. QED
      BY <3>1, <3>2, <3>3, RecordsStay
  <2>6. ASSUME req'[r].pc \in Cleaning PROVE status'[req'[r].sess] # "uploading"
    <3>1. PICK s \in Session : s = req'[r].sess /\ s = req[r].sess
      BY <2>1, <2>2, <2>6 DEF Follows, Cleaning
    <3>2. At(r, "finishFile") => fileOf[s] \in FileId
      BY <3>1 DEF ProductInv, WorkersTied, WorksOn, OwnSteps
    <3>3. status[s] \notin {"unused", "uploading"}
      BY <2>1, <2>3, <2>6, <3>1, <3>2, ConstantsAssumption
      DEF KnowsSession, Follows, Cleaning, ProductInv, RecordedIsOwn
    <3>4. QED
      BY <3>1, <3>3, StatusMoves
  <2>7. QED
    BY <2>4, <2>5, <2>6 DEF KnowsSession
<1>3. QED
  BY <1>1, <1>2 DEF ContractInv

\* Each of these writes is a step of the contract, or none.
LEMMA WritesRefine ==
  ASSUME TypeOK, ProductInv, UnusedIsEmpty, SessionWrites
  PROVE  [Contract!Next]_(Contract!cvars)
<1>0. /\ fileOf \in [Session -> FileId \cup {NoFile}] /\ NoFile \notin FileId
      /\ status \in [Session -> {"unused", "uploading", "done", "aborted", "gone"}]
      /\ chunkRow \in [Session -> [Idx -> {"none", "short", "full", "wide"}]]
      /\ \A s \in Session : status[s] \in {"unused", "uploading"} => fileOf[s] = NoFile
  BY ConstantsAssumption DEF TypeOK, ProductInv, RecordedIsOwn
<1>1. \A s \in Session : sessionState[s] = "open" <=> status[s] = "uploading"
  BY <1>0 DEF sessionState
<1>2. CASE UNCHANGED <<status, fileOf, chunkRow>>
  <2>1. sessionState' = sessionState
    BY <1>2 DEF sessionState
  <2>2. sessionChunks' = sessionChunks
    BY <1>2, <2>1 DEF sessionChunks
  <2>3. QED
    BY <2>1, <2>2 DEF Contract!cvars
<1>3. ASSUME NEW s \in Session, OpensSession(s) PROVE Contract!Open(s)
  <2>1. sessionState[s] = "unused" /\ sessionState' = [sessionState EXCEPT ![s] = "open"]
    BY <1>0, <1>3 DEF OpensSession, sessionState
  <2>2. \A t \in Session : sessionChunks'[t] = sessionChunks[t]
    BY <1>3, <2>1 DEF OpensSession, sessionChunks, sessionState, UnusedIsEmpty
  <2>3. sessionChunks' = sessionChunks
    BY <2>2 DEF sessionChunks
  <2>4. QED
    BY <2>1, <2>3 DEF Contract!Open
<1>4. ASSUME NEW s \in Session, NEW k \in Idx, RecordsChunk(s, k)
      PROVE  Contract!Record(s, k) \/ UNCHANGED Contract!cvars
  <2>1. sessionState' = sessionState
    BY <1>4 DEF RecordsChunk, sessionState
  <2>2. PICK size \in {"short", "full", "wide"} : chunkRow' = [chunkRow EXCEPT ![s][k] = size]
    BY <1>4 DEF RecordsChunk
  <2>3. CASE status[s] = "uploading"
    <3>1. \A i \in Idx : chunkRow'[s][i] # "none" <=> chunkRow[s][i] # "none" \/ i = k
      BY <1>0, <2>2
    <3>2. \A t \in Session \ {s} : chunkRow'[t] = chunkRow[t]
      BY <1>0, <2>2
    <3>3. sessionChunks'[s] = sessionChunks[s] \cup {k}
      BY <1>1, <2>1, <2>3, <3>1 DEF sessionChunks
    <3>4. \A t \in Session \ {s} : sessionChunks'[t] = sessionChunks[t]
      BY <2>1, <3>2 DEF sessionChunks
    <3>5. sessionChunks' = [sessionChunks EXCEPT ![s] = @ \cup {k}]
      BY <3>3, <3>4 DEF sessionChunks
    <3>6. QED
      BY <1>1, <2>1, <2>3, <3>5 DEF Contract!Record
  <2>4. CASE status[s] # "uploading"
    <3>1. \A t \in Session : sessionChunks'[t] = sessionChunks[t]
      BY <1>0, <1>1, <2>1, <2>2, <2>4 DEF sessionChunks
    <3>2. sessionChunks' = sessionChunks
      BY <3>1 DEF sessionChunks
    <3>3. QED
      BY <2>1, <3>2 DEF Contract!cvars
  <2>5. QED
    BY <2>3, <2>4
<1>5. ASSUME NEW s \in Session, DropsRecords(s) PROVE UNCHANGED Contract!cvars
  <2>1. sessionState' = sessionState
    BY <1>5 DEF DropsRecords, sessionState
  <2>2. \A t \in Session : sessionChunks'[t] = sessionChunks[t]
    BY <1>0, <1>1, <1>5, <2>1 DEF DropsRecords, sessionChunks
  <2>3. sessionChunks' = sessionChunks
    BY <2>2 DEF sessionChunks
  <2>4. QED
    BY <2>1, <2>3 DEF Contract!cvars
<1>6. ASSUME NEW s \in Session, DecidesSession(s) PROVE Contract!Finish(s, "merged")
  <2>1. PICK f \in FileId : fileOf' = [fileOf EXCEPT ![s] = f]
    BY <1>6 DEF DecidesSession
  <2>2. sessionState' = [sessionState EXCEPT ![s] = "merged"]
    BY <1>0, <1>6, <2>1 DEF DecidesSession, sessionState
  <2>3. sessionState[s] = "open" /\ sessionChunks[s] = Idx
    BY <1>1, <1>6 DEF DecidesSession, sessionChunks
  <2>4. \A t \in Session : sessionChunks'[t] = IF t = s THEN {} ELSE sessionChunks[t]
    BY <1>6, <2>2 DEF DecidesSession, sessionChunks, sessionState
  <2>5. sessionChunks' = [sessionChunks EXCEPT ![s] = {}]
    BY <2>4 DEF sessionChunks
  <2>6. QED
    BY <2>2, <2>3, <2>5 DEF Contract!Finish
<1>7. ASSUME NEW s \in Session, EndsSession(s)
      PROVE  Contract!Finish(s, "ended") \/ UNCHANGED Contract!cvars
  <2>1. PICK as \in {"aborted", "gone"} : status' = [status EXCEPT ![s] = as]
    BY <1>7 DEF EndsSession
  <2>2. fileOf' = fileOf /\ \A t \in Session \ {s} : chunkRow'[t] = chunkRow[t]
    BY <1>0, <1>7 DEF EndsSession
  <2>3. CASE status[s] = "uploading"
    <3>1. sessionState' = [sessionState EXCEPT ![s] = "ended"]
      BY <1>0, <2>1, <2>2, <2>3 DEF sessionState
    <3>2. \A t \in Session : sessionChunks'[t] = IF t = s THEN {} ELSE sessionChunks[t]
      BY <2>2, <3>1 DEF sessionChunks, sessionState
    <3>3. sessionChunks' = [sessionChunks EXCEPT ![s] = {}]
      BY <3>2 DEF sessionChunks
    <3>4. QED
      BY <1>1, <2>3, <3>1, <3>3 DEF Contract!Finish
  <2>4. CASE status[s] # "uploading"
    <3>1. \A t \in Session : sessionState'[t] = sessionState[t]
      BY <1>0, <1>7, <2>1, <2>2, <2>4 DEF EndsSession, sessionState
    <3>2. sessionState' = sessionState
      BY <3>1 DEF sessionState
    <3>3. \A t \in Session : sessionChunks'[t] = sessionChunks[t]
      BY <1>1, <2>2, <2>4, <3>2 DEF sessionChunks
    <3>4. sessionChunks' = sessionChunks
      BY <3>3 DEF sessionChunks
    <3>5. QED
      BY <3>2, <3>4 DEF Contract!cvars
  <2>5. QED
    BY <2>3, <2>4
<1>8. QED
  BY <1>2, <1>3, <1>4, <1>5, <1>6, <1>7 DEF SessionWrites, Contract!Next

LEMMA ContractInitRefines == Init => Contract!Init
  BY DEF Init, Contract!Init, sessionState, sessionChunks

LEMMA ContractInvStep == TInv /\ ProductInv /\ ContractInv /\ [Next]_vars => ContractInv'
<1> SUFFICES ASSUME TInv, ProductInv, ContractInv, [Next]_vars PROVE ContractInv'
  OBVIOUS
<1>1. ReqOK' /\ SessionWrites /\ \A q \in Request : Follows(q)
  BY TInvStep, NextWrites, NextFollows DEF TInv
<1>2. QED
  BY <1>1, ContractInvKept

\* The service keeps UploadContract for any number of sessions, requests and chunks,
\* whatever fails, is lost or crashes: a session becomes done only while every chunk is
\* recorded for it (Complete, FinishUploadSession), and none is opened again.
THEOREM ServiceKeepsContract == Spec => ContractKept
<1>1. TInv /\ ProductInv /\ ContractInv /\ [Next]_vars => [Contract!Next]_(Contract!cvars)
  <2> SUFFICES ASSUME TInv, ProductInv, ContractInv, [Next]_vars
               PROVE  [Contract!Next]_(Contract!cvars)
    OBVIOUS
  <2>1. TypeOK /\ UnusedIsEmpty /\ SessionWrites
    BY NextWrites DEF TInv, ContractInv
  <2>2. QED
    BY <2>1, WritesRefine
<1>2. QED
  BY <1>1, ContractInitRefines, TInvInit, TInvStep, ProductInvInit, ProductInvStep,
     ContractInvInit, ContractInvStep, PTL DEF Spec, ContractKept, Contract!Spec
=============================================================================
