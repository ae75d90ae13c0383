---------------------------- MODULE UploadClient -----------------------------
(***************************************************************************)
(* The upload manager of the browser: UploadManager of                     *)
(* web/src/utils/upload.ts, for the tasks that upload one file to one      *)
(* folder, against the upload service as Upload describes it.              *)
(*                                                                         *)
(* A task runs once: it looks for a session to resume, opens one if there  *)
(* is none, sends the missing chunks with some workers at a time, and asks *)
(* the service to merge them.  The first worker that gives up ends the     *)
(* run, while the other workers go on.  The user may cancel at any moment  *)
(* or upload the file again; a request or its answer may be lost; the      *)
(* service may reclaim a session.  What an earlier page left behind is the *)
(* record and the session.                                                 *)
(*                                                                         *)
(* The variables server and got are not the browser's: they are as much of *)
(* the service as the answers to a task depend on.  What the service does  *)
(* with InitUpload, Serve, Merge, Cancel and Reclaim is assumed here, and  *)
(* stated of its own code in Upload and UploadMaintain.                    *)
(***************************************************************************)
EXTENDS Naturals, FiniteSets

CONSTANTS
  Task,         \* tasks in the order they are added: a retry is a task of its own
  Sess,         \* upload sessions
  Chunk,        \* 0 .. total_chunks - 1
  Concurrency,  \* workers of a task
  MaxRetry,     \* attempts at a chunk
  NoSess

ASSUME ClientAssumption ==
  /\ Concurrency \in Nat \ {0} /\ MaxRetry \in Nat \ {0}
  /\ IsFiniteSet(Chunk) /\ Chunk \subseteq Nat /\ NoSess \notin Sess

VARIABLES
  server,   \* the sessions of the service
  got,      \* the chunks a session has
  record,   \* the session in localStorage, under the key of the file and its folder
  found,    \* the session a task has found in the record
  run,      \* how far a task is
  shown,    \* task.state
  sid,      \* task.uploadId
  canceled, \* task.canceled
  part,     \* what a task does with a chunk
  attempt,  \* failed attempts at a chunk
  early     \* tasks that were canceled before they knew their session

uvars == <<server, got, record, found, run, shown, sid, canceled, part, attempt, early>>

Parts == {"todo", "sent", "stored", "refused", "unanswered", "sleep", "have", "failed", "dropped"}
Busy == {"sent", "stored", "refused", "unanswered", "sleep"}
Runs == {"none", "hash", "look", "init", "work", "merge", "merged", "mergeFails", "ended"}

UTypeOK ==
  /\ server \in [Sess -> {"unused", "uploading", "done", "gone"}]
  /\ got \in [Sess -> SUBSET Chunk]
  /\ record \in Sess \cup {NoSess}
  /\ found \in [Task -> Sess \cup {NoSess}]
  /\ run \in [Task -> Runs]
  /\ shown \in [Task -> {"pending", "hashing", "uploading", "merging", "done", "error", "canceled"}]
  /\ sid \in [Task -> Sess \cup {NoSess}]
  /\ canceled \in [Task -> BOOLEAN]
  /\ part \in [Task -> [Chunk -> Parts]]
  /\ attempt \in [Task -> [Chunk -> 0 .. MaxRetry]]
  /\ early \subseteq Task

\* The page has just been loaded.
Fresh ==
  /\ found = [t \in Task |-> NoSess]
  /\ run = [t \in Task |-> "none"]
  /\ shown = [t \in Task |-> "pending"]
  /\ sid = [t \in Task |-> NoSess]
  /\ canceled = [t \in Task |-> FALSE]
  /\ part = [t \in Task |-> [k \in Chunk |-> "todo"]]
  /\ attempt = [t \in Task |-> [k \in Chunk |-> 0]]
  /\ early = {}

\* Earlier pages have left sessions, and the record of one.
UInit ==
  /\ server \in [Sess -> {"unused", "uploading", "done", "gone"}]
  /\ got \in [Sess -> SUBSET Chunk]
  /\ record \in Sess \cup {NoSess}
  /\ \A s \in Sess : server[s] = "unused" => got[s] = {} /\ record # s
  /\ Fresh

Going(t) == run[t] \notin {"none", "ended"}
Become(t, step, state) == /\ run' = [run EXCEPT ![t] = step]
                          /\ shown' = [shown EXCEPT ![t] = state]

service == <<server, got>>
sending == <<part, attempt>>

\* add, and retryUploadTask.
Add(t) ==
  /\ run[t] = "none"
  /\ Become(t, "hash", "hashing")
  /\ UNCHANGED <<service, record, found, sid, canceled, sending, early>>

\* The hash is there; the record says whether there is a session to ask for.
Hashed(t) ==
  /\ run[t] = "hash"
  /\ run' = [run EXCEPT ![t] = IF record = NoSess THEN "init" ELSE "look"]
  /\ found' = [found EXCEPT ![t] = record]
  /\ UNCHANGED <<service, record, shown, sid, canceled, sending, early>>

\* The rest of the run up to its first chunk: nothing asks whether it is canceled.
Start(t, s, uploaded) ==
  /\ Become(t, "work", "uploading")
  /\ sid' = [sid EXCEPT ![t] = s]
  /\ record' = s
  /\ part' = [part EXCEPT ![t] = [k \in Chunk |-> IF k \in uploaded THEN "have" ELSE "todo"]]
  /\ UNCHANGED <<canceled, attempt, early>>

\* getUpload: an open session is resumed, an ended one forgotten; an error only
\* means that a session is opened.
Look(t, answered) ==
  LET s == found[t]
  IN /\ run[t] = "look"
     /\ IF answered /\ server[s] = "uploading" THEN Start(t, s, got[s])
        ELSE /\ run' = [run EXCEPT ![t] = "init"]
             /\ record' = IF answered THEN NoSess ELSE record
             /\ UNCHANGED <<shown, sid, canceled, sending, early>>
     /\ found' = [found EXCEPT ![t] = NoSess]
     /\ UNCHANGED service

\* The catch of run.
Catch(t) ==
  IF canceled[t] THEN run' = [run EXCEPT ![t] = "ended"] /\ UNCHANGED shown
                 ELSE Become(t, "ended", "error")

\* initUpload: Init of the service reuses an open session of the file.
InitUpload(t, answered) ==
  LET open == {s \in Sess : server[s] = "uploading"}
  IN /\ run[t] = "init"
     /\ \E s \in IF open # {} THEN open ELSE {u \in Sess : server[u] = "unused"} :
          /\ server' = [server EXCEPT ![s] = "uploading"]
          /\ IF answered THEN Start(t, s, got[s])
             ELSE Catch(t) /\ UNCHANGED <<record, sid, canceled, sending, early>>
     /\ UNCHANGED <<got, found>>

\* It is refused, or does not reach the service.
InitFails(t) ==
  /\ run[t] = "init"
  /\ Catch(t)
  /\ UNCHANGED <<found, service, record, sid, canceled, sending, early>>

(***************************************************************************)
(* Chunks.                                                                 *)
(***************************************************************************)
In(t, state) == {k \in Chunk : part[t][k] = state}
BusyWith(t) == {k \in Chunk : part[t][k] \in Busy}
Part(t, k, state) == part' = [part EXCEPT ![t][k] = state]

\* A free worker takes the next chunk; one that failed takes none.
Take(t, k) ==
  /\ k \in In(t, "todo") /\ \A j \in In(t, "todo") : k <= j
  /\ sid[t] # NoSess /\ ~canceled[t]
  /\ Cardinality(BusyWith(t) \cup In(t, "failed")) < Concurrency
  /\ Part(t, k, "sent")
  /\ UNCHANGED <<found, service, record, run, shown, sid, canceled, attempt, early>>

\* putChunk, at the service.  It asks for the session once, and counts the bytes after
\* it has recorded the chunk: a refused chunk may be recorded, and a PUT may be taken
\* whose session ends meanwhile.
Serve(t, k, answer) ==
  LET s == sid[t]
  IN /\ part[t][k] = "sent"
     /\ got' = IF server[s] = "uploading" THEN [got EXCEPT ![s] = @ \cup {k}] ELSE got
     /\ Part(t, k, answer)
     /\ UNCHANGED <<found, server, record, run, shown, sid, canceled, attempt, early>>

\* The request or its answer is lost, or the server fails: status 5xx or none.
Lose(t, k) ==
  /\ part[t][k] \in {"sent", "stored"}
  /\ Part(t, k, "unanswered")
  /\ UNCHANGED <<found, service, record, run, shown, sid, canceled, attempt, early>>

\* The chunk is done; the record is written again, canceled or not.
Answered(t, k) ==
  /\ part[t][k] = "stored"
  /\ Part(t, k, "have")
  /\ record' = sid[t]
  /\ UNCHANGED <<found, service, run, shown, sid, canceled, attempt, early>>

\* Mutant: a lost connection is always tried again.
GivesUp_Never(t, k) == part[t][k] = "refused"

\* isRetryable, and the attempts that are left.
GivesUp(t, k) == part[t][k] = "refused" \/ attempt[t][k] + 1 >= MaxRetry

\* Mutant: after the last attempt the chunk counts as done.
Outcome_Done(t, k) ==
  CASE canceled[t] -> "dropped"
    [] ~canceled[t] /\ GivesUp(t, k) -> "have"
    [] ~canceled[t] /\ ~GivesUp(t, k) -> "sleep"

Outcome(t, k) ==
  CASE canceled[t] -> "dropped"
    [] ~canceled[t] /\ GivesUp(t, k) -> "failed"
    [] ~canceled[t] /\ ~GivesUp(t, k) -> "sleep"

NotAnswered(t, k) ==
  /\ part[t][k] \in {"refused", "unanswered"}
  /\ Part(t, k, Outcome(t, k))
  /\ attempt' = [attempt EXCEPT ![t][k] = IF @ < MaxRetry THEN @ + 1 ELSE @]
  /\ UNCHANGED <<found, service, record, run, shown, sid, canceled, early>>

Again(t, k) ==
  /\ part[t][k] = "sleep"
  /\ Part(t, k, "sent")
  /\ UNCHANGED <<found, service, record, run, shown, sid, canceled, attempt, early>>

\* Promise.all: the first worker that fails ends the run ...
WorkerFailed(t) ==
  /\ run[t] = "work" /\ In(t, "failed") # {}
  /\ Catch(t)
  /\ UNCHANGED <<found, service, record, sid, canceled, sending, early>>

\* ... or all have nothing left to take.
WorkersDone(t) ==
  /\ run[t] = "work" /\ BusyWith(t) = {} /\ In(t, "failed") = {}
  /\ IF canceled[t] THEN run' = [run EXCEPT ![t] = "ended"] /\ UNCHANGED shown
     ELSE In(t, "todo") = {} /\ Become(t, "merge", "merging")
  /\ UNCHANGED <<found, service, record, sid, canceled, sending, early>>

(***************************************************************************)
(* Merging and cancelling.                                                 *)
(***************************************************************************)

\* completeUpload, at the service: a session that is done answers with its file.
Merge(t, answered) ==
  LET s == sid[t]
      merges == server[s] = "done" \/ (server[s] = "uploading" /\ got[s] = Chunk)
  IN /\ run[t] = "merge"
     /\ server' = IF merges THEN [server EXCEPT ![s] = "done"] ELSE server
     /\ run' = [run EXCEPT ![t] = IF merges /\ answered THEN "merged" ELSE "mergeFails"]
     /\ UNCHANGED <<found, got, record, shown, sid, canceled, sending, early>>

\* The request does not arrive, or the service fails to merge.
MergeLost(t) ==
  /\ run[t] = "merge"
  /\ run' = [run EXCEPT ![t] = "mergeFails"]
  /\ UNCHANGED <<found, service, record, shown, sid, canceled, sending, early>>

\* The answer, to a task that may have been canceled meanwhile.
Merged(t) ==
  /\ run[t] = "merged"
  /\ Become(t, "ended", "done")
  /\ record' = NoSess
  /\ UNCHANGED <<found, service, sid, canceled, sending, early>>

MergeFails(t) ==
  /\ run[t] = "mergeFails"
  /\ Catch(t)
  /\ UNCHANGED <<found, service, record, sid, canceled, sending, early>>

\* cancel: the service is told if the session is known, and the request may be lost.
\* The record stays: it is kept under a key that names the folder, cleared under one
\* that does not.
Cancel(t, arrives) ==
  /\ Going(t) /\ ~canceled[t]
  /\ canceled' = [canceled EXCEPT ![t] = TRUE]
  /\ shown' = [shown EXCEPT ![t] = "canceled"]
  /\ early' = IF sid[t] = NoSess THEN early \cup {t} ELSE early
  /\ server' = IF arrives /\ sid[t] # NoSess /\ server[sid[t]] = "uploading"
               THEN [server EXCEPT ![sid[t]] = "gone"] ELSE server
  /\ UNCHANGED <<found, got, record, run, sid, sending>>

(***************************************************************************)
(* Specification.                                                          *)
(***************************************************************************)

\* A stale session is reclaimed (see UploadMaintain).
Reclaim(s) ==
  /\ server[s] = "uploading"
  /\ server' = [server EXCEPT ![s] = "gone"]
  /\ UNCHANGED <<found, got, record, run, shown, sid, canceled, sending, early>>

\* What a task does without the user.
Moves(t) ==
  \/ Hashed(t) \/ InitFails(t) \/ WorkerFailed(t) \/ WorkersDone(t)
  \/ MergeLost(t) \/ Merged(t) \/ MergeFails(t)
  \/ \E answered \in BOOLEAN : Look(t, answered) \/ InitUpload(t, answered) \/ Merge(t, answered)
  \/ \E k \in Chunk : \/ Take(t, k) \/ Lose(t, k) \/ Answered(t, k)
                      \/ \E answer \in {"stored", "refused"} : Serve(t, k, answer)
                      \/ NotAnswered(t, k) \/ Again(t, k)

User(t) == Add(t) \/ \E arrives \in BOOLEAN : Cancel(t, arrives)

UStep(tasks) == (\E t \in tasks : Moves(t) \/ User(t)) \/ \E s \in Sess : Reclaim(s)
UNext == UStep(Task)

\* Every request ends, with an answer or with an error of the connection, and the
\* browser runs what waits for it.
USpec == UInit /\ [][UNext]_uvars /\ \A t \in Task : WF_uvars(Moves(t))

(***************************************************************************)
(* Properties.                                                             *)
(***************************************************************************)

\* The service is only asked to merge a session that has every chunk, or has ended.
AskedIsWhole ==
  \A t \in Task : run[t] = "merge" /\ server[sid[t]] = "uploading" => got[sid[t]] = Chunk

\* A task that shows itself done has a merged session, canceled or not; a task whose
\* run is over shows no work in progress, unless it was canceled before it knew its
\* session, whose arrival overwrites what cancel had set (upload.ts:214, 285).
ShownIsTrue ==
  \A t \in Task :
    /\ shown[t] = "done" => server[sid[t]] = "done"
    /\ run[t] = "ended" /\ t \notin early => shown[t] \in {"done", "error", "canceled"}

\* Whatever is lost, retried, canceled or reclaimed, by this task or by the workers
\* that an earlier task left running (upload.ts:324-388).
TaskIsTrue == AskedIsWhole /\ ShownIsTrue

\* Every run ends: no chunk is tried for ever and no worker is waited for in vain
\* (upload.ts:334, 375).
RunEnds == \A t \in Task : (Going(t) ~> run[t] = "ended")
=============================================================================
