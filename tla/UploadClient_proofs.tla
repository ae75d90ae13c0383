-------------------------- MODULE UploadClient_proofs --------------------------
(***************************************************************************)
(* Proofs about UploadClient, for every number of tasks, workers, chunks   *)
(* and attempts, whatever earlier pages have left.                         *)
(***************************************************************************)
EXTENDS UploadClient, TLAPS

(***************************************************************************)
(* The inductive invariant.                                                *)
(***************************************************************************)

\* A task has no session before its run has found or opened one, and has it until the
\* end, however that session ends; without one it has sent nothing.
HasSession(t) ==
  /\ run[t] \in {"none", "hash", "look", "init"} => sid[t] = NoSess
  /\ run[t] \in {"work", "merge", "merged", "mergeFails"} => sid[t] # NoSess
  /\ sid[t] = NoSess => \A k \in Chunk : part[t][k] = "todo"
  /\ run[t] = "look" => found[t] # NoSess
  /\ sid[t] # NoSess => server[sid[t]] # "unused"

IsOver(s) == server[s] \in {"done", "gone"}

\* What a task thinks it has sent is with the service, as long as the session is open.
Uploaded(t) ==
  \A k \in Chunk :
    part[t][k] \in {"stored", "have"} => k \in got[sid[t]] \/ IsOver(sid[t])

\* Only a task with every chunk asks for the merge: one that dropped a chunk is canceled.
AllSent(t) ==
  /\ \A k \in Chunk : part[t][k] = "dropped" => canceled[t]
  /\ run[t] = "merge" => \A k \in Chunk : part[t][k] = "have"

\* What is said to be merged is.
ReallyDone(t) ==
  /\ run[t] = "merged" => server[sid[t]] = "done"
  /\ shown[t] = "done" => run[t] = "ended" /\ sid[t] # NoSess /\ server[sid[t]] = "done"

\* What the user sees when it is over.
Ended(t) ==
  /\ run[t] = "none" => ~canceled[t]
  /\ canceled[t] /\ sid[t] = NoSess => t \in early
  /\ canceled[t] /\ t \notin early => shown[t] \in {"canceled", "done"}
  /\ run[t] = "ended" /\ t \notin early => shown[t] \in {"done", "error", "canceled"}

TaskInv(t) == HasSession(t) /\ Uploaded(t) /\ AllSent(t) /\ ReallyDone(t) /\ Ended(t)

UInv == UTypeOK /\ \A t \in Task : TaskInv(t)

LEMMA NoSessType == \A s \in Sess : s # NoSess
  BY ClientAssumption

LEMMA UInvInit == UInit => UInv
<1> SUFFICES ASSUME UInit PROVE UInv
  OBVIOUS
<1>1. UTypeOK
  <2>1. 0 \in 0 .. MaxRetry
    BY ClientAssumption
  <2>2. canceled \in [Task -> BOOLEAN]
    BY DEF UInit, Fresh
  <2>3. part \in [Task -> [Chunk -> Parts]]
    BY DEF UInit, Fresh, Parts
  <2>4. attempt \in [Task -> [Chunk -> 0 .. MaxRetry]]
    BY <2>1 DEF UInit, Fresh
  <2>5. run \in [Task -> Runs]
    BY DEF UInit, Fresh, Runs
  <2>6. QED
    BY <2>2, <2>3, <2>4, <2>5 DEF UInit, Fresh, UTypeOK
<1>2. ASSUME NEW t \in Task PROVE TaskInv(t)
  <2>1. /\ run[t] = "none" /\ shown[t] = "pending" /\ sid[t] = NoSess /\ ~canceled[t]
        /\ \A k \in Chunk : part[t][k] = "todo"
    BY DEF UInit, Fresh
  <2>2. QED
    BY <2>1 DEF TaskInv, HasSession, Uploaded, AllSent, ReallyDone, Ended
<1>3. QED
  BY <1>1, <1>2 DEF UInv

(***************************************************************************)
(* What a step of one task leaves to show.                                 *)
(***************************************************************************)

\* The service forgets no chunk, and what is opened, merged or over stays so.
ServiceKeeps ==
  \A s \in Sess :
    /\ got[s] \subseteq got'[s]
    /\ server[s] = "done" => server'[s] = "done"
    /\ IsOver(s) => IsOver(s)'
    /\ server[s] # "unused" => server'[s] # "unused"

TaskKept(t) == /\ run'[t] = run[t] /\ shown'[t] = shown[t] /\ sid'[t] = sid[t]
               /\ canceled'[t] = canceled[t] /\ part'[t] = part[t] /\ found'[t] = found[t]
               /\ t \in early' <=> t \in early

LEMMA KeptTask ==
  ASSUME UInv, ServiceKeeps, NEW t \in Task, TaskKept(t)
  PROVE  TaskInv(t)'
<1>1. TaskInv(t) /\ (sid[t] # NoSess => sid[t] \in Sess)
  BY DEF UInv, UTypeOK
<1>2. HasSession(t)'
  BY <1>1 DEF TaskInv, HasSession, TaskKept, ServiceKeeps
<1>3. Uploaded(t)'
  <2> SUFFICES ASSUME NEW k \in Chunk, part[t][k] \in {"stored", "have"}
               PROVE  k \in got'[sid[t]] \/ IsOver(sid[t])'
    BY DEF Uploaded, TaskKept, IsOver
  <2>1. k \in got[sid[t]] \/ IsOver(sid[t])
    BY <1>1 DEF TaskInv, Uploaded
  <2>2. sid[t] \in Sess
    BY <1>1 DEF TaskInv, HasSession
  <2>3. QED
    BY <2>1, <2>2 DEF ServiceKeeps, IsOver, TaskKept
<1>4. AllSent(t)'
  BY <1>1 DEF TaskInv, AllSent, TaskKept
<1>5. ReallyDone(t)'
  BY <1>1 DEF TaskInv, HasSession, ReallyDone, TaskKept, ServiceKeeps
<1>6. Ended(t)'
  BY <1>1 DEF TaskInv, Ended, TaskKept
<1>7. QED
  BY <1>2, <1>3, <1>4, <1>5, <1>6 DEF TaskInv

LEMMA ServiceUnchanged == UNCHANGED service => ServiceKeeps
  BY DEF service, ServiceKeeps, IsOver

LEMMA StaysOpened ==
  ASSUME UInv, ServiceKeeps, NEW t \in Task, sid'[t] = sid[t]
  PROVE  sid'[t] # NoSess => server'[sid'[t]] # "unused"
  BY DEF UInv, UTypeOK, TaskInv, HasSession, ServiceKeeps

\* A task goes on and does nothing with its chunks.
LEMMA TaskStep ==
  ASSUME UInv, NEW t \in Task, UNCHANGED sending, UTypeOK', ServiceKeeps, HasSession(t)',
         sid'[t] = sid[t], canceled[t] => canceled'[t],
         run'[t] = "merge" => \A k \in Chunk : part[t][k] = "have",
         ReallyDone(t)', Ended(t)',
         \A u \in Task \ {t} : TaskKept(u)
  PROVE  UInv'
<1>1. TaskInv(t) /\ (sid[t] # NoSess => sid[t] \in Sess) /\ part' = part
  BY DEF UInv, UTypeOK, sending
<1>2. Uploaded(t)'
  <2> SUFFICES ASSUME NEW k \in Chunk, part[t][k] \in {"stored", "have"}
               PROVE  k \in got'[sid[t]] \/ IsOver(sid[t])'
    BY <1>1 DEF Uploaded, IsOver
  <2>1. k \in got[sid[t]] \/ IsOver(sid[t])
    BY <1>1 DEF TaskInv, Uploaded
  <2>2. sid[t] \in Sess
    BY <1>1 DEF TaskInv, HasSession
  <2>3. QED
    BY <2>1, <2>2 DEF ServiceKeeps, IsOver, TaskKept
<1>3. AllSent(t)'
  BY <1>1 DEF TaskInv, AllSent
<1>4. TaskInv(t)'
  BY <1>2, <1>3 DEF TaskInv
<1>5. \A u \in Task \ {t} : TaskInv(u)'
  BY KeptTask
<1>6. QED
  BY <1>4, <1>5 DEF UInv

LEMMA BecomeValue ==
  ASSUME UTypeOK, NEW t \in Task, NEW step \in Runs,
         NEW state \in {"pending", "hashing", "uploading", "merging", "done", "error", "canceled"},
         Become(t, step, state)
  PROVE  /\ run' \in [Task -> Runs] /\ run'[t] = step /\ \A u \in Task \ {t} : run'[u] = run[u]
         /\ shown' \in [Task -> {"pending", "hashing", "uploading", "merging", "done", "error", "canceled"}]
         /\ shown'[t] = state /\ \A u \in Task \ {t} : shown'[u] = shown[u]
  BY DEF UTypeOK, Become

LEMMA AddStep ==
  ASSUME UInv, NEW t \in Task, Add(t)
  PROVE  UInv'
<1>1. run[t] = "none" /\ UNCHANGED <<service, record, found, sid, canceled, sending, early>>
  BY DEF Add
<1>2. /\ run' \in [Task -> Runs] /\ run'[t] = "hash" /\ \A u \in Task \ {t} : run'[u] = run[u]
      /\ shown' \in [Task -> {"pending", "hashing", "uploading", "merging", "done", "error", "canceled"}]
      /\ shown'[t] = "hashing" /\ \A u \in Task \ {t} : shown'[u] = shown[u]
  BY BecomeValue DEF Add, UInv, Runs
<1>3. UTypeOK'
  BY <1>1, <1>2 DEF UInv, UTypeOK, service, sending
<1>4. TaskInv(t)
  BY DEF UInv
<1>5. HasSession(t)' /\ ReallyDone(t)'
  BY <1>1, <1>2, <1>4, StaysOpened, ServiceUnchanged DEF TaskInv, HasSession, ReallyDone, sending
<1>6. Ended(t)'
  BY <1>1, <1>2, <1>4 DEF TaskInv, HasSession, Ended
<1>7. QED
  BY <1>1, <1>2, <1>3, <1>5, <1>6, ServiceUnchanged, TaskStep DEF TaskKept, sending

LEMMA HashedStep ==
  ASSUME UInv, NEW t \in Task, Hashed(t)
  PROVE  UInv'
<1>1. run[t] = "hash" /\ UNCHANGED <<service, record, shown, sid, canceled, sending, early>>
  BY DEF Hashed
<1>2. PICK step \in {"init", "look"} : step = IF record = NoSess THEN "init" ELSE "look"
  OBVIOUS
<1>3. /\ run' \in [Task -> Runs] /\ run'[t] = step /\ \A u \in Task \ {t} : run'[u] = run[u]
      /\ found' \in [Task -> Sess \cup {NoSess}] /\ found'[t] = record
      /\ \A u \in Task \ {t} : found'[u] = found[u]
  BY <1>2 DEF Hashed, UInv, UTypeOK, Runs
<1>4. UTypeOK'
  BY <1>1, <1>3 DEF UInv, UTypeOK, service, sending
<1>5. TaskInv(t)
  BY DEF UInv
<1>6. HasSession(t)' /\ ReallyDone(t)'
  BY <1>1, <1>2, <1>3, <1>5, StaysOpened, ServiceUnchanged DEF TaskInv, HasSession, ReallyDone, sending
<1>7. Ended(t)'
  BY <1>1, <1>2, <1>3, <1>5 DEF TaskInv, Ended
<1>8. QED
  BY <1>1, <1>2, <1>3, <1>4, <1>6, <1>7, ServiceUnchanged, TaskStep DEF TaskKept, sending

\* A run starts to send: it has its session, and the chunks that the session has.
LEMMA StartStep ==
  ASSUME UInv, NEW t \in Task, NEW s \in Sess, NEW uploaded, run[t] \in {"look", "init"},
         Start(t, s, uploaded), uploaded \subseteq got[s],
         server' \in [Sess -> {"unused", "uploading", "done", "gone"}], got' = got, ServiceKeeps,
         found' \in [Task -> Sess \cup {NoSess}], \A u \in Task \ {t} : found'[u] = found[u],
         server'[s] # "unused"
  PROVE  UInv'
<1>1. /\ sid' = [sid EXCEPT ![t] = s] /\ record' = s
      /\ part' = [part EXCEPT ![t] = [k \in Chunk |-> IF k \in uploaded THEN "have" ELSE "todo"]]
      /\ UNCHANGED <<canceled, attempt, early>> /\ Become(t, "work", "uploading")
  BY DEF Start
<1>2. /\ run' \in [Task -> Runs] /\ run'[t] = "work" /\ \A u \in Task \ {t} : run'[u] = run[u]
      /\ shown' \in [Task -> {"pending", "hashing", "uploading", "merging", "done", "error", "canceled"}]
      /\ shown'[t] = "uploading" /\ \A u \in Task \ {t} : shown'[u] = shown[u]
  BY <1>1, BecomeValue DEF UInv, Runs
<1>3. /\ sid' \in [Task -> Sess \cup {NoSess}] /\ sid'[t] = s /\ \A u \in Task \ {t} : sid'[u] = sid[u]
  BY <1>1 DEF UInv, UTypeOK
<1>4. [k \in Chunk |-> IF k \in uploaded THEN "have" ELSE "todo"] \in [Chunk -> Parts]
  BY DEF Parts
<1>5. /\ part' \in [Task -> [Chunk -> Parts]]
      /\ part'[t] = [k \in Chunk |-> IF k \in uploaded THEN "have" ELSE "todo"]
      /\ \A u \in Task \ {t} : part'[u] = part[u]
  BY <1>1, <1>4 DEF UInv, UTypeOK
<1>6. UTypeOK'
  BY <1>1, <1>2, <1>3, <1>5 DEF UInv, UTypeOK
<1>7. TaskInv(t)
  BY DEF UInv
<1>8. HasSession(t)' /\ ReallyDone(t)'
  BY <1>2, <1>3, NoSessType, StaysOpened, ServiceUnchanged DEF HasSession, ReallyDone
<1>9. Uploaded(t)' /\ AllSent(t)'
  BY <1>2, <1>3, <1>5 DEF Uploaded, AllSent
<1>10. Ended(t)'
  BY <1>1, <1>2, <1>3, <1>7, NoSessType DEF TaskInv, HasSession, Ended
<1>11. TaskInv(t)'
  BY <1>8, <1>9, <1>10 DEF TaskInv
<1>12. \A u \in Task \ {t} : TaskInv(u)'
  BY <1>1, <1>2, <1>3, <1>5, KeptTask DEF TaskKept
<1>13. QED
  BY <1>6, <1>11, <1>12 DEF UInv

LEMMA LookStep ==
  ASSUME UInv, NEW t \in Task, NEW answered \in BOOLEAN, Look(t, answered)
  PROVE  UInv'
<1>1. /\ run[t] = "look" /\ found' = [found EXCEPT ![t] = NoSess] /\ UNCHANGED service
  BY DEF Look
<1>2. /\ found' \in [Task -> Sess \cup {NoSess}] /\ \A u \in Task \ {t} : found'[u] = found[u]
  BY <1>1 DEF UInv, UTypeOK
<1>3. PICK s \in Sess : s = found[t]
  BY <1>1 DEF UInv, UTypeOK, TaskInv, HasSession
<1>4. CASE answered /\ server[s] = "uploading"
  <2>1. Start(t, s, got[s])
    BY <1>3, <1>4 DEF Look
  <2>2. got' = got /\ server' = server
    BY <1>1 DEF service
  <2>3. server' \in [Sess -> {"unused", "uploading", "done", "gone"}] /\ server'[s] # "unused"
    BY <1>4, <2>2 DEF UInv, UTypeOK
  <2>4. QED
    BY <1>1, <1>2, <2>1, <2>2, <2>3, StartStep, ServiceUnchanged
<1>5. CASE ~(answered /\ server[s] = "uploading")
  <2>1. /\ run' = [run EXCEPT ![t] = "init"] /\ record' \in Sess \cup {NoSess}
        /\ UNCHANGED <<shown, sid, canceled, sending, early>>
    BY <1>3, <1>5 DEF Look, UInv, UTypeOK
  <2>2. /\ run' \in [Task -> Runs] /\ run'[t] = "init" /\ \A u \in Task \ {t} : run'[u] = run[u]
    BY <2>1 DEF UInv, UTypeOK, Runs
  <2>3. UTypeOK'
    BY <1>1, <1>2, <2>1, <2>2 DEF UInv, UTypeOK, service, sending
  <2>4. TaskInv(t)
    BY DEF UInv
  <2>5. HasSession(t)' /\ ReallyDone(t)'
    BY <1>1, <2>1, <2>2, <2>4, StaysOpened, ServiceUnchanged DEF TaskInv, HasSession, ReallyDone, sending
  <2>6. Ended(t)'
    BY <1>1, <2>1, <2>2, <2>4 DEF TaskInv, Ended
  <2>7. QED
    BY <1>1, <1>2, <2>1, <2>2, <2>3, <2>5, <2>6, ServiceUnchanged, TaskStep DEF TaskKept, sending
<1>6. QED
  BY <1>4, <1>5

\* A run ends with an error, or canceled.
LEMMA CatchStep ==
  ASSUME UInv, NEW t \in Task, Catch(t), run[t] # "none",
         UNCHANGED <<found, got, record, sid, canceled, sending, early>>,
         server' \in [Sess -> {"unused", "uploading", "done", "gone"}], ServiceKeeps
  PROVE  UInv'
<1>1. TaskInv(t) /\ part' = part /\ UTypeOK
  BY DEF UInv, sending
<1>2. PICK state : /\ state \in {"pending", "hashing", "uploading", "merging", "done", "error", "canceled"}
                   /\ state = IF canceled[t] THEN shown[t] ELSE "error"
  BY <1>1 DEF UTypeOK
<1>3. /\ run' \in [Task -> Runs] /\ run'[t] = "ended" /\ \A u \in Task \ {t} : run'[u] = run[u]
      /\ shown' \in [Task -> {"pending", "hashing", "uploading", "merging", "done", "error", "canceled"}]
      /\ shown'[t] = state /\ \A u \in Task \ {t} : shown'[u] = shown[u]
  <2>1. CASE canceled[t]
    BY <1>1, <1>2, <2>1 DEF Catch, UTypeOK, Runs
  <2>2. CASE ~canceled[t]
    BY <1>1, <1>2, <2>2, BecomeValue DEF Catch, Runs
  <2>3. QED
    BY <2>1, <2>2
<1>4. UTypeOK'
  BY <1>1, <1>3 DEF UTypeOK, sending
<1>5. HasSession(t)' /\ ReallyDone(t)'
  <2>1. sid[t] # NoSess => sid[t] \in Sess
    BY <1>1 DEF UTypeOK
  <2>2. QED
    BY <1>1, <1>2, <1>3, <2>1 DEF TaskInv, HasSession, ReallyDone, ServiceKeeps
<1>6. Ended(t)'
  BY <1>1, <1>2, <1>3 DEF TaskInv, Ended
<1>7. QED
  BY <1>1, <1>3, <1>4, <1>5, <1>6, TaskStep DEF TaskKept

LEMMA InitUploadStep ==
  ASSUME UInv, NEW t \in Task, NEW answered \in BOOLEAN, InitUpload(t, answered)
  PROVE  UInv'
<1>1. PICK s \in Sess :
        /\ server[s] \in {"uploading", "unused"} /\ server' = [server EXCEPT ![s] = "uploading"]
        /\ IF answered THEN Start(t, s, got[s])
           ELSE Catch(t) /\ UNCHANGED <<record, sid, canceled, sending, early>>
  BY DEF InitUpload
<1>2. run[t] = "init" /\ UNCHANGED <<got, found>>
  BY DEF InitUpload
<1>3. /\ server' \in [Sess -> {"unused", "uploading", "done", "gone"}]
      /\ \A u \in Sess : /\ server[u] = "done" => server'[u] = "done"
                         /\ IsOver(u) => IsOver(u)'
                         /\ server[u] # "unused" => server'[u] # "unused"
  BY <1>1 DEF UInv, UTypeOK, IsOver
<1>4. ServiceKeeps
  BY <1>2, <1>3 DEF ServiceKeeps
<1>5. CASE answered
  <2>1. found' \in [Task -> Sess \cup {NoSess}] /\ got' = got /\ server'[s] # "unused"
    BY <1>1, <1>2 DEF UInv, UTypeOK
  <2>2. QED
    BY <1>1, <1>2, <1>3, <1>4, <1>5, <2>1, StartStep
<1>6. CASE ~answered
  BY <1>1, <1>2, <1>3, <1>4, <1>6, CatchStep
<1>7. QED
  BY <1>5, <1>6

LEMMA CatchOnly ==
  ASSUME UInv, NEW t \in Task, Catch(t), run[t] # "none",
         UNCHANGED <<found, service, record, sid, canceled, sending, early>>
  PROVE  UInv'
<1>1. ServiceKeeps /\ got' = got
  BY ServiceUnchanged DEF service
<1>2. server' \in [Sess -> {"unused", "uploading", "done", "gone"}]
  BY DEF service, UInv, UTypeOK
<1>3. QED
  BY <1>1, <1>2, CatchStep

LEMMA WorkersDoneStep ==
  ASSUME UInv, NEW t \in Task, WorkersDone(t)
  PROVE  UInv'
<1>1. /\ run[t] = "work" /\ BusyWith(t) = {} /\ In(t, "failed") = {}
      /\ UNCHANGED <<found, service, record, sid, canceled, sending, early>>
  BY DEF WorkersDone
<1>2. CASE canceled[t]
  <2>1. Catch(t)
    BY <1>2 DEF WorkersDone, Catch
  <2>2. QED
    BY <1>1, <2>1, CatchOnly
<1>3. CASE ~canceled[t]
  <2>1. /\ run' \in [Task -> Runs] /\ run'[t] = "merge" /\ \A u \in Task \ {t} : run'[u] = run[u]
        /\ shown' \in [Task -> {"pending", "hashing", "uploading", "merging", "done", "error", "canceled"}]
        /\ shown'[t] = "merging" /\ \A u \in Task \ {t} : shown'[u] = shown[u]
        /\ In(t, "todo") = {}
    BY <1>3, BecomeValue DEF WorkersDone, UInv, Runs
  <2>2. UTypeOK'
    BY <1>1, <2>1 DEF UInv, UTypeOK, service, sending
  <2>3. TaskInv(t) /\ part[t] \in [Chunk -> Parts]
    BY DEF UInv, UTypeOK
  <2>4. \A k \in Chunk : part[t][k] = "have"
    <3> SUFFICES ASSUME NEW k \in Chunk PROVE part[t][k] = "have"
      OBVIOUS
    <3>1. part[t][k] \notin {"todo", "failed"} /\ part[t][k] \notin Busy
      BY <1>1, <2>1 DEF In, BusyWith
    <3>2. part[t][k] # "dropped"
      BY <1>3, <2>3 DEF TaskInv, AllSent
    <3>3. QED
      BY <2>3, <3>1, <3>2 DEF Parts, Busy
  <2>5. HasSession(t)' /\ ReallyDone(t)'
    BY <1>1, <2>1, <2>3, StaysOpened, ServiceUnchanged DEF TaskInv, HasSession, ReallyDone, sending
  <2>6. Ended(t)'
    BY <1>1, <1>3, <2>1, <2>3 DEF TaskInv, Ended
  <2>7. QED
    BY <1>1, <2>1, <2>2, <2>4, <2>5, <2>6, ServiceUnchanged, TaskStep DEF TaskKept, sending
<1>4. QED
  BY <1>2, <1>3

LEMMA MergeStep ==
  ASSUME UInv, NEW t \in Task, NEW answered \in BOOLEAN, Merge(t, answered)
  PROVE  UInv'
<1>1. /\ run[t] = "merge" /\ UNCHANGED <<found, got, record, shown, sid, canceled, sending, early>>
  BY DEF Merge
<1>2. TaskInv(t) /\ sid[t] \in Sess
  BY <1>1 DEF UInv, UTypeOK, TaskInv, HasSession
<1>3. /\ server' = server \/ server' = [server EXCEPT ![sid[t]] = "done"]
  BY DEF Merge
<1>4. /\ server' \in [Sess -> {"unused", "uploading", "done", "gone"}]
      /\ \A u \in Sess : /\ server[u] = "done" => server'[u] = "done"
                         /\ IsOver(u) => IsOver(u)'
                         /\ server[u] # "unused" => server'[u] # "unused"
  <2>1. server[sid[t]] # "gone" \/ server' = server
    BY DEF Merge
  <2>2. QED
    BY <1>2, <1>3, <2>1 DEF UInv, UTypeOK, IsOver
<1>5. ServiceKeeps
  BY <1>1, <1>4 DEF ServiceKeeps
<1>6. PICK step \in {"merged", "mergeFails"} : run' = [run EXCEPT ![t] = step]
  BY DEF Merge
<1>7. /\ run' \in [Task -> Runs] /\ run'[t] = step /\ \A u \in Task \ {t} : run'[u] = run[u]
  BY <1>6 DEF UInv, UTypeOK, Runs
<1>8. step = "merged" => server'[sid[t]] = "done"
  BY <1>2, <1>7 DEF Merge, UInv, UTypeOK
<1>9. UTypeOK'
  BY <1>1, <1>4, <1>7 DEF UInv, UTypeOK, sending
<1>10. HasSession(t)' /\ ReallyDone(t)'
  <2>1. sid'[t] # NoSess => server'[sid'[t]] # "unused"
    BY <1>1, <1>5, StaysOpened
  <2>2. ReallyDone(t)'
    BY <1>1, <1>2, <1>5, <1>7, <1>8 DEF TaskInv, ReallyDone, ServiceKeeps
  <2>3. QED
    BY <1>1, <1>2, <1>7, <2>1, <2>2 DEF TaskInv, HasSession, sending
<1>11. Ended(t)'
  BY <1>1, <1>2, <1>7 DEF TaskInv, Ended
<1>12. /\ run'[t] # "merge" /\ UNCHANGED sending /\ sid' = sid /\ canceled' = canceled
       /\ \A u \in Task \ {t} : TaskKept(u)
  BY <1>1, <1>7 DEF TaskKept, sending
<1>13. QED
  BY <1>5, <1>9, <1>10, <1>11, <1>12, TaskStep

LEMMA MergeLostStep ==
  ASSUME UInv, NEW t \in Task, MergeLost(t)
  PROVE  UInv'
<1>1. run[t] = "merge" /\ UNCHANGED <<found, service, record, shown, sid, canceled, sending, early>>
  BY DEF MergeLost
<1>2. /\ run' \in [Task -> Runs] /\ run'[t] = "mergeFails" /\ \A u \in Task \ {t} : run'[u] = run[u]
  BY DEF MergeLost, UInv, UTypeOK, Runs
<1>3. UTypeOK'
  BY <1>1, <1>2 DEF UInv, UTypeOK, service, sending
<1>4. TaskInv(t)
  BY DEF UInv
<1>5. HasSession(t)' /\ ReallyDone(t)'
  BY <1>1, <1>2, <1>4, StaysOpened, ServiceUnchanged DEF TaskInv, HasSession, ReallyDone, sending
<1>6. Ended(t)'
  BY <1>1, <1>2, <1>4 DEF TaskInv, Ended
<1>7. QED
  BY <1>1, <1>2, <1>3, <1>5, <1>6, ServiceUnchanged, TaskStep DEF TaskKept, sending

LEMMA MergedStep ==
  ASSUME UInv, NEW t \in Task, Merged(t)
  PROVE  UInv'
<1>1. run[t] = "merged" /\ record' = NoSess /\ UNCHANGED <<found, service, sid, canceled, sending, early>>
  BY DEF Merged
<1>2. /\ run' \in [Task -> Runs] /\ run'[t] = "ended" /\ \A u \in Task \ {t} : run'[u] = run[u]
      /\ shown' \in [Task -> {"pending", "hashing", "uploading", "merging", "done", "error", "canceled"}]
      /\ shown'[t] = "done" /\ \A u \in Task \ {t} : shown'[u] = shown[u]
  BY BecomeValue DEF Merged, UInv, Runs
<1>3. UTypeOK'
  BY <1>1, <1>2 DEF UInv, UTypeOK, service, sending
<1>4. TaskInv(t)
  BY DEF UInv
<1>5. HasSession(t)' /\ ReallyDone(t)'
  BY <1>1, <1>2, <1>4, StaysOpened, ServiceUnchanged DEF TaskInv, HasSession, ReallyDone, sending, service
<1>6. Ended(t)'
  BY <1>1, <1>2, <1>4 DEF TaskInv, HasSession, Ended
<1>7. QED
  BY <1>1, <1>2, <1>3, <1>5, <1>6, ServiceUnchanged, TaskStep DEF TaskKept, sending

LEMMA CancelStep ==
  ASSUME UInv, NEW t \in Task, NEW arrives \in BOOLEAN, Cancel(t, arrives)
  PROVE  UInv'
<1>1. /\ run[t] \notin {"none", "ended"} /\ UNCHANGED <<found, got, record, run, sid, sending>>
      /\ early' = IF sid[t] = NoSess THEN early \cup {t} ELSE early
  BY DEF Cancel, Going
<1>2. /\ canceled' \in [Task -> BOOLEAN] /\ canceled'[t]
      /\ \A u \in Task \ {t} : canceled'[u] = canceled[u]
  BY DEF Cancel, UInv, UTypeOK
<1>3. /\ shown' \in [Task -> {"pending", "hashing", "uploading", "merging", "done", "error", "canceled"}]
      /\ shown'[t] = "canceled" /\ \A u \in Task \ {t} : shown'[u] = shown[u]
  BY DEF Cancel, UInv, UTypeOK
<1>4. /\ server' \in [Sess -> {"unused", "uploading", "done", "gone"}]
      /\ \A u \in Sess : /\ server[u] = "done" => server'[u] = "done"
                         /\ IsOver(u) => IsOver(u)'
                         /\ server[u] # "unused" => server'[u] # "unused"
  <2>1. server' = server \/ (server[sid[t]] = "uploading" /\ server' = [server EXCEPT ![sid[t]] = "gone"])
    BY DEF Cancel
  <2>2. QED
    BY <2>1 DEF UInv, UTypeOK, IsOver
<1>5. ServiceKeeps
  BY <1>1, <1>4 DEF ServiceKeeps
<1>6. early' \subseteq Task /\ (\A u \in Task \ {t} : u \in early' <=> u \in early)
      /\ (sid[t] = NoSess => t \in early')
  BY <1>1 DEF UInv, UTypeOK
<1>7. UTypeOK'
  BY <1>1, <1>2, <1>3, <1>4, <1>6 DEF UInv, UTypeOK, sending
<1>8. TaskInv(t) /\ (sid[t] # NoSess => sid[t] \in Sess)
  BY DEF UInv, UTypeOK
<1>9. HasSession(t)' /\ ReallyDone(t)'
  BY <1>1, <1>3, <1>4, <1>8, StaysOpened, ServiceUnchanged DEF TaskInv, HasSession, ReallyDone, sending
<1>10. Ended(t)'
  BY <1>1, <1>2, <1>3, <1>6 DEF Ended
<1>11. run'[t] = "merge" => \A k \in Chunk : part[t][k] = "have"
  BY <1>1, <1>8 DEF TaskInv, AllSent
<1>12. QED
  BY <1>1, <1>2, <1>3, <1>5, <1>6, <1>7, <1>9, <1>10, <1>11, TaskStep DEF TaskKept, sending

LEMMA ReclaimStep ==
  ASSUME UInv, NEW s \in Sess, Reclaim(s)
  PROVE  UInv'
<1>1. /\ server[s] = "uploading" /\ server' = [server EXCEPT ![s] = "gone"]
      /\ UNCHANGED <<found, got, record, run, shown, sid, canceled, sending, early>>
  BY DEF Reclaim
<1>2. /\ server' \in [Sess -> {"unused", "uploading", "done", "gone"}]
      /\ \A u \in Sess : /\ server[u] = "done" => server'[u] = "done"
                         /\ IsOver(u) => IsOver(u)'
                         /\ server[u] # "unused" => server'[u] # "unused"
  BY <1>1 DEF UInv, UTypeOK, IsOver
<1>3. ServiceKeeps /\ UTypeOK'
  BY <1>1, <1>2 DEF ServiceKeeps, UInv, UTypeOK, sending
<1>4. \A t \in Task : TaskKept(t)
  BY <1>1 DEF TaskKept, sending
<1>5. QED
  BY <1>3, <1>4, KeptTask DEF UInv

(***************************************************************************)
(* Chunks.                                                                 *)
(***************************************************************************)

\* A chunk moves from one state to another.
LEMMA PartStep ==
  ASSUME UInv, NEW t \in Task, NEW k \in Chunk, NEW state \in Parts, Part(t, k, state),
         part[t][k] # "have", sid[t] # NoSess,
         got' \in [Sess -> SUBSET Chunk], \A s \in Sess : got[s] \subseteq got'[s],
         UNCHANGED <<found, server, run, shown, sid, canceled, early>>,
         record' \in Sess \cup {NoSess}, attempt' \in [Task -> [Chunk -> 0 .. MaxRetry]],
         state \in {"stored", "have"} => k \in got'[sid[t]] \/ IsOver(sid[t]),
         state = "dropped" => canceled[t]
  PROVE  UInv'
<1>1. TaskInv(t) /\ sid[t] \in Sess /\ part[t] \in [Chunk -> Parts]
  BY DEF UInv, UTypeOK
<1>2. /\ part' \in [Task -> [Chunk -> Parts]] /\ part'[t] = [part[t] EXCEPT ![k] = state]
      /\ \A u \in Task \ {t} : part'[u] = part[u]
  BY <1>1 DEF Part, UInv, UTypeOK
<1>3. part'[t][k] = state /\ \A j \in Chunk \ {k} : part'[t][j] = part[t][j]
  BY <1>1, <1>2
<1>4. UTypeOK'
  BY <1>2 DEF UInv, UTypeOK
<1>5. HasSession(t)' /\ ReallyDone(t)'
  BY <1>1, StaysOpened, ServiceUnchanged DEF TaskInv, HasSession, ReallyDone
<1>6. Uploaded(t)'
  BY <1>1, <1>3 DEF TaskInv, Uploaded, IsOver
<1>7. AllSent(t)'
  BY <1>1, <1>3 DEF TaskInv, AllSent
<1>8. Ended(t)'
  BY <1>1 DEF TaskInv, Ended
<1>9. TaskInv(t)'
  BY <1>5, <1>6, <1>7, <1>8 DEF TaskInv
<1>10. ServiceKeeps
  BY DEF ServiceKeeps, IsOver
<1>11. \A u \in Task \ {t} : TaskInv(u)'
  BY <1>2, <1>10, KeptTask DEF TaskKept
<1>12. QED
  BY <1>4, <1>9, <1>11 DEF UInv

\* Whoever does something with a chunk has a session.
LEMMA BusyHasSession ==
  ASSUME UInv, NEW t \in Task, NEW k \in Chunk, part[t][k] # "todo"
  PROVE  sid[t] \in Sess
  BY DEF UInv, UTypeOK, TaskInv, HasSession

\* Moves of a chunk that change nothing else.
LEMMA PartOnly ==
  ASSUME UInv, NEW t \in Task, NEW k \in Chunk, NEW state \in {"sent", "unanswered", "refused"},
         Part(t, k, state), part[t][k] # "have", sid[t] # NoSess,
         UNCHANGED <<found, service, record, run, shown, sid, canceled, attempt, early>>
  PROVE  UInv'
<1>1. state \in Parts /\ server' = server /\ got' = got
  BY DEF Parts, service
<1>2. got' \in [Sess -> SUBSET Chunk] /\ record' \in Sess \cup {NoSess}
      /\ attempt' \in [Task -> [Chunk -> 0 .. MaxRetry]]
  BY <1>1 DEF UInv, UTypeOK
<1>3. QED
  BY <1>1, <1>2, PartStep

LEMMA ServeStep ==
  ASSUME UInv, NEW t \in Task, NEW k \in Chunk, NEW answer \in {"stored", "refused"},
         Serve(t, k, answer)
  PROVE  UInv'
<1>1. /\ part[t][k] = "sent" /\ Part(t, k, answer)
      /\ UNCHANGED <<found, server, record, run, shown, sid, canceled, attempt, early>>
  BY DEF Serve
<1>2. PICK s \in Sess : s = sid[t]
  BY <1>1, BusyHasSession
<1>3. /\ got' \in [Sess -> SUBSET Chunk] /\ \A u \in Sess : got[u] \subseteq got'[u]
      /\ server[s] = "uploading" => k \in got'[s]
  BY <1>2 DEF Serve, UInv, UTypeOK
<1>4. k \in got'[s] \/ IsOver(s)
  <2>1. server[s] \in {"uploading", "done", "gone"}
    BY <1>2, NoSessType DEF UInv, UTypeOK, TaskInv, HasSession
  <2>2. QED
    BY <1>3, <2>1 DEF IsOver
<1>5. record' \in Sess \cup {NoSess} /\ attempt' \in [Task -> [Chunk -> 0 .. MaxRetry]]
  BY <1>1 DEF UInv, UTypeOK
<1>6. QED
  BY <1>1, <1>2, <1>3, <1>4, <1>5, PartStep, NoSessType DEF Parts

LEMMA AnsweredStep ==
  ASSUME UInv, NEW t \in Task, NEW k \in Chunk, Answered(t, k)
  PROVE  UInv'
<1>1. /\ part[t][k] = "stored" /\ Part(t, k, "have") /\ record' = sid[t]
      /\ UNCHANGED <<found, server, got, run, shown, sid, canceled, attempt, early>>
  BY DEF Answered, service
<1>2. sid[t] \in Sess /\ sid[t] # NoSess
  BY <1>1, BusyHasSession, NoSessType
<1>3. k \in got[sid[t]] \/ IsOver(sid[t])
  BY <1>1 DEF UInv, TaskInv, Uploaded
<1>4. got' \in [Sess -> SUBSET Chunk] /\ record' \in Sess \cup {NoSess}
      /\ attempt' \in [Task -> [Chunk -> 0 .. MaxRetry]]
  BY <1>1, <1>2 DEF UInv, UTypeOK
<1>5. QED
  BY <1>1, <1>2, <1>3, <1>4, PartStep DEF Parts

LEMMA NotAnsweredStep ==
  ASSUME UInv, NEW t \in Task, NEW k \in Chunk, NotAnswered(t, k)
  PROVE  UInv'
<1>1. /\ part[t][k] \in {"refused", "unanswered"} /\ Part(t, k, Outcome(t, k))
      /\ UNCHANGED <<found, server, got, record, run, shown, sid, canceled, early>>
      /\ attempt' = [attempt EXCEPT ![t][k] = IF @ < MaxRetry THEN @ + 1 ELSE @]
  BY DEF NotAnswered, service
<1>2. sid[t] \in Sess /\ sid[t] # NoSess
  BY <1>1, BusyHasSession, NoSessType
<1>3. PICK state : state = Outcome(t, k)
  OBVIOUS
<1>4. state \in {"dropped", "failed", "sleep"} /\ (state = "dropped" => canceled[t])
  BY <1>3 DEF Outcome, UInv, UTypeOK
<1>5. PICK n : n = IF attempt[t][k] < MaxRetry THEN attempt[t][k] + 1 ELSE attempt[t][k]
  OBVIOUS
<1>6. attempt[t] \in [Chunk -> 0 .. MaxRetry] /\ attempt[t][k] \in 0 .. MaxRetry
  BY DEF UInv, UTypeOK
<1>7. n \in 0 .. MaxRetry
  BY <1>5, <1>6, ClientAssumption
<1>8. attempt' = [attempt EXCEPT ![t] = [@ EXCEPT ![k] = n]]
  BY <1>1, <1>5
<1>9. attempt' \in [Task -> [Chunk -> 0 .. MaxRetry]]
  BY <1>6, <1>7, <1>8 DEF UInv, UTypeOK
<1>10. got' \in [Sess -> SUBSET Chunk] /\ record' \in Sess \cup {NoSess}
  BY <1>1 DEF UInv, UTypeOK
<1>11. QED
  BY <1>1, <1>2, <1>3, <1>4, <1>9, <1>10, PartStep DEF Parts

LEMMA ChunkStep ==
  ASSUME UInv, NEW t \in Task, NEW k \in Chunk,
         \/ Take(t, k) \/ Lose(t, k) \/ Answered(t, k)
         \/ \E answer \in {"stored", "refused"} : Serve(t, k, answer)
         \/ NotAnswered(t, k) \/ Again(t, k)
  PROVE  UInv'
<1>1. CASE Take(t, k)
  <2>1. part[t][k] = "todo"
    BY <1>1 DEF Take, In
  <2>2. QED
    BY <1>1, <2>1, PartOnly DEF Take
<1>2. CASE Lose(t, k) \/ Again(t, k)
  <2>1. part[t][k] \in {"sent", "stored", "sleep"}
    BY <1>2 DEF Lose, Again
  <2>2. sid[t] # NoSess
    BY <2>1, BusyHasSession, NoSessType
  <2>3. QED
    BY <1>2, <2>1, <2>2, PartOnly DEF Lose, Again
<1>3. QED
  BY <1>1, <1>2, ServeStep, AnsweredStep, NotAnsweredStep

(***************************************************************************)
(* The theorems.                                                           *)
(***************************************************************************)
LEMMA MovesStep ==
  ASSUME UInv, NEW t \in Task, Moves(t)
  PROVE  UInv'
<1>1. CASE InitFails(t) \/ WorkerFailed(t) \/ MergeFails(t)
  <2>1. Catch(t) /\ run[t] # "none" /\ UNCHANGED <<found, service, record, sid, canceled, sending, early>>
    BY <1>1 DEF InitFails, WorkerFailed, MergeFails
  <2>2. QED
    BY <2>1, CatchOnly
<1>2. CASE \E answered \in BOOLEAN : Look(t, answered) \/ InitUpload(t, answered) \/ Merge(t, answered)
  BY <1>2, LookStep, InitUploadStep, MergeStep
<1>3. CASE Hashed(t) \/ WorkersDone(t) \/ MergeLost(t) \/ Merged(t)
  BY <1>3, HashedStep, WorkersDoneStep, MergeLostStep, MergedStep
<1>4. CASE \E k \in Chunk : \/ Take(t, k) \/ Lose(t, k) \/ Answered(t, k)
                            \/ \E answer \in {"stored", "refused"} : Serve(t, k, answer)
                            \/ NotAnswered(t, k) \/ Again(t, k)
  BY <1>4, ChunkStep
<1>5. QED
  BY <1>1, <1>2, <1>3, <1>4 DEF Moves

LEMMA UInvStep == UInv /\ [UNext]_uvars => UInv'
<1> SUFFICES ASSUME UInv, [UNext]_uvars PROVE UInv'
  OBVIOUS
<1>1. CASE UNext
  BY <1>1, MovesStep, AddStep, CancelStep, ReclaimStep DEF UNext, UStep, User
<1>2. CASE UNCHANGED uvars
  <2>1. UTypeOK'
    BY <1>2 DEF uvars, UInv, UTypeOK
  <2>2. \A t \in Task : TaskKept(t)
    BY <1>2 DEF uvars, TaskKept
  <2>3. QED
    BY <1>2, <2>1, <2>2, KeptTask DEF uvars, ServiceKeeps, IsOver, UInv
<1>3. QED
  BY <1>1, <1>2

LEMMA UInvHolds == USpec => []UInv
  BY UInvInit, UInvStep, PTL DEF USpec

\* Types of the tasks and of the sessions they talk to.
THEOREM ClientTypeCorrect == USpec => []UTypeOK
  BY UInvHolds, PTL DEF UInv

\* What a task asks to merge is whole, and what it shows is so, whatever is lost,
\* retried, canceled or reclaimed (UploadManager.run, uploadChunks, cancel).
THEOREM TaskTrue == USpec => []TaskIsTrue
<1>1. UInv => TaskIsTrue
  <2> SUFFICES ASSUME UInv PROVE TaskIsTrue
    OBVIOUS
  <2>1. ASSUME NEW t \in Task, run[t] = "merge", server[sid[t]] = "uploading"
        PROVE  got[sid[t]] = Chunk
    <3>1. TaskInv(t) /\ sid[t] \in Sess
      BY <2>1 DEF UInv, UTypeOK, TaskInv, HasSession
    <3>2. \A k \in Chunk : k \in got[sid[t]]
      BY <2>1, <3>1 DEF TaskInv, AllSent, Uploaded, IsOver
    <3>3. got[sid[t]] \subseteq Chunk
      BY <3>1 DEF UInv, UTypeOK
    <3>4. QED
      BY <3>2, <3>3
  <2>2. ShownIsTrue
    BY DEF UInv, TaskInv, ReallyDone, Ended, ShownIsTrue
  <2>3. QED
    BY <2>1, <2>2 DEF TaskIsTrue, AskedIsWhole
<1>2. QED
  BY <1>1, UInvHolds, PTL
=============================================================================
